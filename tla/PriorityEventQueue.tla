------------------------- MODULE PriorityEventQueue -------------------------
(***************************************************************************)
(* The timers of an event thread (PriorityEventQueue.h, PQ-List.cc): lists  *)
(* after[0], after[1], ... of events due within one bucket time, two, four  *)
(* and so on.  check_ready looks again at as many lists as the number of    *)
(* the current bucket has changed low bits since the last look.             *)
(***************************************************************************)
EXTENDS Integers, FiniteSetsExt

CONSTANTS Events,
          N_PQ_LIST,         \* number of lists
          BucketTime         \* PQ_BUCKET_TIME(0); even, so that its half is a time

ASSUME ListsAssumption == N_PQ_LIST \in Nat \ {0, 1} /\ BucketTime \in Nat \ {0} /\ BucketTime % 2 = 0

VARIABLES after, in_heap, last_check_time, last_check_buckets

pq == <<after, in_heap, last_check_time, last_check_buckets>>

PQ_BUCKET_TIME(i) == BucketTime * 2 ^ i
Lists == 0 .. N_PQ_LIST - 1
Queued == UNION {after[i] : i \in Lists}

\* The list for an event due in time t that may not go above list i.
ListFor(i, t) == Min({i} \union {j \in 0 .. i : t <= PQ_BUCKET_TIME(j)})

PQInit(now) ==
  /\ after = [i \in Lists |-> {}]
  /\ in_heap = [e \in Events |-> 0]
  /\ last_check_time = now /\ last_check_buckets = now \div BucketTime

\* PriorityEventQueue::enqueue
PQEnqueue(e, timeout_at, now) ==
  LET i == ListFor(N_PQ_LIST - 1, timeout_at - now) IN
  /\ after' = [after EXCEPT ![i] = @ \union {e}]
  /\ in_heap' = [in_heap EXCEPT ![e] = i]
  /\ UNCHANGED <<last_check_time, last_check_buckets>>

\* PriorityEventQueue::remove
PQRemove(e) ==
  /\ after' = [after EXCEPT ![in_heap[e]] = @ \ {e}]
  /\ in_heap' = [in_heap EXCEPT ![e] = 0]
  /\ UNCHANGED <<last_check_time, last_check_buckets>>

\* Mutants: only the low bits that changed in a row count; one bit is masked too many.
ChangedMutant(a, b) ==
  LET mask == 2 ^ (N_PQ_LIST - 1) IN
  Min({k \in Lists : ((a % mask) \div 2 ^ k) % 2 = ((b % mask) \div 2 ^ k) % 2})
ChangedMaskMutant(a, b) ==
  LET mask == 2 ^ (N_PQ_LIST - 2) IN
  Min({k \in Lists : (a % mask) \div 2 ^ k = (b % mask) \div 2 ^ k})
\* One more than the place of the highest bit in which a and b differ, of the bits that
\* check_ready looks at; 0 when they agree.
Changed(a, b) ==
  LET mask == 2 ^ (N_PQ_LIST - 1) IN
  Min({k \in Lists : (a % mask) \div 2 ^ k = (b % mask) \div 2 ^ k})

\* The events that check_ready at time now looks at.
Examined(now) == UNION {after[i] : i \in 1 .. Changed(now \div BucketTime, last_check_buckets)}

\* PriorityEventQueue::check_ready: the cancelled events go, the others move down.
PQCheckReady(now, timeout_at, cancelled) ==
  LET looked == Examined(now)
      to == [e \in looked |-> ListFor(in_heap[e], timeout_at[e] - now)] IN
  /\ after' = [i \in Lists |-> (after[i] \ looked) \union {e \in looked \ cancelled : to[e] = i}]
  /\ in_heap' = [e \in Events |-> IF e \in looked \ cancelled THEN to[e] ELSE IF e \in looked THEN 0 ELSE in_heap[e]]
  /\ last_check_time' = now
  /\ last_check_buckets' = now \div BucketTime

\* PriorityEventQueue::dequeue_ready; which of the events of after[0] is first is left open.
PQDequeueReady(e) ==
  /\ e \in after[0]
  /\ after' = [after EXCEPT ![0] = @ \ {e}]
  /\ UNCHANGED <<in_heap, last_check_time, last_check_buckets>>

\* PriorityEventQueue::earliest_timeout; Forever when there is no event.
EarliestTimeout(Forever) ==
  LET used == {i \in Lists : after[i] # {}} IN
  last_check_time + (IF used = {} THEN Forever ELSE PQ_BUCKET_TIME(Min(used)) \div 2)
=============================================================================
