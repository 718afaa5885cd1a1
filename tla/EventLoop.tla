----------------------------- MODULE EventLoop -----------------------------
(***************************************************************************)
(* An event thread (EThread::execute_regular) and the threads that schedule *)
(* events on it.  Other threads push events on a lock-free list and wake    *)
(* the thread; the thread moves them to its local queue, runs the immediate *)
(* ones, keeps the timed ones in a PriorityEventQueue and the poll events   *)
(* (with a negative time) in NegativeQueue, and then sleeps.  An event is   *)
(* called with the mutex of its continuation held; if that is taken the     *)
(* event is tried again later.                                              *)
(*                                                                          *)
(* All events here share one mutex.  What another thread does under it is   *)
(* one step; that it has the mutex when the loop tries it is a choice of    *)
(* that try.  Only the low bits of the bucket of the clock matter to the    *)
(* timers, so that all times are taken back by a whole period of these bits *)
(* when the clock has gone through two: the clock never stops.              *)
(***************************************************************************)
EXTENDS PriorityEventQueue, Sequences

CONSTANTS Others,            \* threads that schedule on this one
          None,
          Delays,            \* the times schedule_in and schedule_every are given
          Poll,              \* a negative period
          Handlers,          \* tail handlers: of {"net", "default"}
          DELAY_FOR_RETRY,
          Heartbeat,         \* thread_max_heartbeat_mseconds
          MaxSched,          \* bound: how often events are scheduled
          MaxStall           \* bound: time between two checks of the timers

ASSUME LoopAssumption ==
  /\ None \notin Events
  /\ Delays \subseteq Nat \ {0} /\ Poll \in Int /\ Poll < 0
  /\ DELAY_FOR_RETRY \in Nat /\ Heartbeat \in Nat /\ MaxSched \in Nat /\ MaxStall \in Nat

VARIABLES
  al, localQueue, NegativeQueue,
  timeout_at, period, cancelled, in_the_prot_queue, in_the_priority_queue,   \* of each event
  allocated,         \* the events that are not freed
  awaited,           \* the events whose call or cancellation is still to come
  pc, second,        \* where the loop is; whether in the second process_queue
  run, ret,          \* the event process_event has, and where it returns to
  done_one, event_time, wake_at,
  tail_cb,           \* the tail handler
  evfd, signalled,   \* the eventfd is set; the condition was signalled
  will_signal,       \* the other threads that found the list empty and are to signal
  now, sched

event == <<timeout_at, period, cancelled, in_the_prot_queue, in_the_priority_queue, allocated, awaited>>
queues == <<al, localQueue, NegativeQueue>>
loop == <<pc, second, run, ret, done_one, event_time, wake_at>>
wake == <<tail_cb, evfd, signalled, will_signal>>
clock == <<now, sched>>
vars == <<pq, event, queues, loop, wake, clock>>

Period == PQ_BUCKET_TIME(N_PQ_LIST - 1)

\* The loop looks at its timers before half a Period has passed: 1.28 s in the code, where
\* the heartbeat is at most 1 s and the retry 10 ms.
ASSUME StallAssumption ==
  2 * (MaxStall + Heartbeat) <= Period /\ 2 * (MaxStall + DELAY_FOR_RETRY) <= Period

Elems(s) == {s[i] : i \in DOMAIN s}

Init ==
  /\ PQInit(Period)
  /\ al = <<>> /\ localQueue = <<>> /\ NegativeQueue = {}
  /\ timeout_at = [e \in Events |-> 0] /\ period = [e \in Events |-> 0]
  /\ cancelled = {} /\ in_the_prot_queue = {} /\ in_the_priority_queue = {}
  /\ allocated = {} /\ awaited = {}
  /\ pc = "drain" /\ second = FALSE /\ run = None /\ ret = "local" /\ done_one = FALSE
  /\ event_time = Period /\ wake_at = 0
  /\ tail_cb \in Handlers /\ evfd = FALSE /\ signalled = FALSE /\ will_signal = {}
  /\ now = Period /\ sched = 0
-----------------------------------------------------------------------------
(* Events *)
\* The times an event can be given: immediate, in a while, every while, on every poll.
Timings == {[at |-> 0, every |-> 0], [at |-> Poll, every |-> Poll]}
             \union [at : {now + d : d \in Delays}, every : {0}]
             \union {[at |-> now + d, every |-> d] : d \in Delays}

\* free_event and EVENT_FREE of the events of E; a new event starts with no flag set.
Free(E) ==
  /\ allocated' = allocated \ E /\ awaited' = awaited \ E /\ cancelled' = cancelled \ E
  /\ timeout_at' = [e \in Events |-> IF e \in E THEN 0 ELSE timeout_at[e]]
  /\ period' = [e \in Events |-> IF e \in E THEN 0 ELSE period[e]]

\* Event::init, for a new event
Alloc(e, time) ==
  /\ e \notin allocated /\ sched < MaxSched /\ sched' = sched + 1
  /\ allocated' = allocated \union {e} /\ awaited' = awaited \union {e}
  /\ timeout_at' = [timeout_at EXCEPT ![e] = time.at]
  /\ period' = [period EXCEPT ![e] = time.every]

\* ProtectedQueue::enqueue_local
EnqueueLocal(e) ==
  /\ in_the_prot_queue' = in_the_prot_queue \union {e}
  /\ localQueue' = Append(localQueue, e)
-----------------------------------------------------------------------------
(* Another thread *)
\* EThread::schedule_imm, _in, _every from another thread; ProtectedQueue::enqueue
ScheduleExternal(r, e) ==
  /\ r \notin will_signal
  /\ \E time \in Timings : Alloc(e, time)
  /\ in_the_prot_queue' = in_the_prot_queue \union {e}
  /\ al' = Append(al, e)
  /\ will_signal' = IF al = <<>> THEN will_signal \union {r} ELSE will_signal
  /\ UNCHANGED <<pq, cancelled, in_the_priority_queue, localQueue, NegativeQueue, loop, tail_cb, evfd, signalled, now>>

\* Mutant: the eventfd is written only when the thread is seen to sleep.
SignalActivityMutant(r) ==
  /\ r \in will_signal /\ will_signal' = will_signal \ {r}
  /\ \/ /\ tail_cb = "net" /\ evfd' = (evfd \/ pc = "asleep")
        /\ UNCHANGED signalled
     \/ /\ tail_cb = "default"
        /\ signalled' = (signalled \/ pc = "asleep")
        /\ UNCHANGED evfd
  /\ UNCHANGED <<pq, event, queues, loop, tail_cb, clock>>
\* tail_cb->signalActivity(): write the eventfd; or try the lock, which the loop holds
\* unless it sleeps, and signal the condition.
SignalActivity(r) ==
  /\ r \in will_signal /\ will_signal' = will_signal \ {r}
  /\ \/ /\ tail_cb = "net" /\ evfd' = TRUE
        /\ UNCHANGED signalled
     \/ /\ tail_cb = "default"
        /\ signalled' = (signalled \/ pc = "asleep")
        /\ UNCHANGED evfd
  /\ UNCHANGED <<pq, event, queues, loop, tail_cb, clock>>

\* Action::cancel under the mutex, of an event that is still to be called
Cancel(r, e) ==
  /\ pc # "handler" /\ e \in awaited \ cancelled
  /\ cancelled' = cancelled \union {e}
  /\ UNCHANGED <<pq, timeout_at, period, in_the_prot_queue, in_the_priority_queue, allocated, awaited, queues, loop, wake, clock>>

\* One unit of time; the whole state is taken back by Period when the clock reaches twice it.
\* Time goes on where the loop reads the clock or the list of the other threads; a step of
\* the clock elsewhere has the effect of one at the next of these places.
Back(t) == IF t > 0 THEN Max({1, t - Period}) ELSE t
Tick ==
  /\ pc \in {"drain", "handler", "asleep"}
  /\ now - last_check_time < MaxStall \/ (pc = "asleep" /\ now < wake_at)
  /\ IF now + 1 < 2 * Period
     THEN now' = now + 1 /\ UNCHANGED <<pq, timeout_at, event_time, wake_at>>
     ELSE /\ now' = now + 1 - Period
          /\ last_check_time' = last_check_time - Period
          /\ last_check_buckets' = last_check_buckets - 2 ^ (N_PQ_LIST - 1)
          /\ timeout_at' = [e \in Events |-> Back(timeout_at[e])]
          /\ event_time' = event_time - Period /\ wake_at' = Back(wake_at)
          /\ UNCHANGED <<after, in_heap>>
  /\ UNCHANGED <<period, cancelled, in_the_prot_queue, in_the_priority_queue, allocated, awaited,
                 queues, pc, second, run, ret, done_one, wake, sched>>
-----------------------------------------------------------------------------
(* EThread::process_queue *)
Goto(label) == pc' = label

\* The events of the list s that are not of gone, in their order.
Kept(s, gone) ==
  LET kept[i \in 0 .. Len(s)] ==
        IF i = 0 THEN <<>> ELSE IF s[i] \in gone THEN kept[i - 1] ELSE Append(kept[i - 1], s[i])
  IN  kept[Len(s)]

\* ProtectedQueue::dequeue_external
DequeueExternal ==
  LET gone == Elems(al) \intersect cancelled IN
  /\ pc = "drain" /\ Goto("local")
  /\ al' = <<>>
  /\ localQueue' = localQueue \o Kept(al, gone)
  /\ Free(gone)
  /\ in_the_prot_queue' = in_the_prot_queue \ gone
  /\ UNCHANGED <<pq, in_the_priority_queue, NegativeQueue, second, run, ret, done_one, event_time, wake_at, wake, clock>>

\* dequeue_local and where the event goes
DequeueLocal ==
  LET e == Head(localQueue) IN
  /\ pc = "local" /\ localQueue # <<>>
  /\ localQueue' = Tail(localQueue)
  /\ in_the_prot_queue' = in_the_prot_queue \ {e}
  /\ \/ /\ e \in cancelled /\ Free({e})
        /\ UNCHANGED <<pq, in_the_priority_queue, NegativeQueue, pc, run, ret>>
     \/ /\ e \notin cancelled /\ timeout_at[e] = 0
        /\ run' = e /\ ret' = "local" /\ Goto("call")
        /\ UNCHANGED <<pq, timeout_at, period, cancelled, in_the_priority_queue, allocated, awaited, NegativeQueue>>
     \/ /\ e \notin cancelled /\ timeout_at[e] > 0
        /\ PQEnqueue(e, timeout_at[e], event_time)
        /\ in_the_priority_queue' = in_the_priority_queue \union {e}
        /\ UNCHANGED <<timeout_at, period, cancelled, allocated, awaited, NegativeQueue, pc, run, ret>>
     \/ /\ e \notin cancelled /\ timeout_at[e] < 0
        /\ NegativeQueue' = NegativeQueue \union {e}
        /\ UNCHANGED <<pq, timeout_at, period, cancelled, in_the_priority_queue, allocated, awaited, pc, run, ret>>
  /\ UNCHANGED <<al, second, done_one, event_time, wake_at, wake, clock>>
-----------------------------------------------------------------------------
(* EThread::process_event *)
\* The mutex is taken: try again in a while.
CallMissed ==
  /\ pc = "call" /\ Others # {}
  /\ timeout_at' = [timeout_at EXCEPT ![run] = event_time + DELAY_FOR_RETRY]
  /\ EnqueueLocal(run)
  /\ run' = None /\ Goto(ret)
  /\ UNCHANGED <<pq, period, cancelled, in_the_priority_queue, allocated, awaited, al, NegativeQueue, second, ret,
                 done_one, event_time, wake_at, wake, clock>>
CallCancelled ==
  /\ pc = "call" /\ run \in cancelled
  /\ Free({run})
  /\ run' = None /\ Goto(ret)
  /\ UNCHANGED <<pq, in_the_prot_queue, in_the_priority_queue, queues, second, ret, done_one, event_time, wake_at, wake, clock>>
\* Mutant: cancelled is not looked at again under the mutex.
CallMutant ==
  /\ pc = "call"
  /\ Goto("handler")
  /\ awaited' = IF period[run] = 0 THEN awaited \ {run} ELSE awaited
  /\ UNCHANGED <<pq, timeout_at, period, cancelled, in_the_prot_queue, in_the_priority_queue, allocated, queues,
                 second, run, ret, done_one, event_time, wake_at, wake, clock>>
\* The handler is entered; an event that is not periodic is no longer to be cancelled.
Call ==
  /\ pc = "call" /\ run \notin cancelled
  /\ Goto("handler")
  /\ awaited' = IF period[run] = 0 THEN awaited \ {run} ELSE awaited
  /\ UNCHANGED <<pq, timeout_at, period, cancelled, in_the_prot_queue, in_the_priority_queue, allocated, queues,
                 second, run, ret, done_one, event_time, wake_at, wake, clock>>

\* The handler has returned and the mutex is released; the loop may read the clock.
Returned ==
  /\ pc = "handler" /\ Goto("after")
  /\ event_time' \in {event_time, now}
  /\ UNCHANGED <<second, run, ret, done_one, wake_at, wake, now>>
\* The loop has called an event that is not of Events; what it did to Events is all there is to it.
AnotherReturned ==
  /\ pc \in {"local", "ready", "polls"}
  /\ event_time' \in {event_time, now}
  /\ done_one' = (done_one \/ pc = "ready")
  /\ UNCHANGED <<pc, second, run, ret, wake_at, wake, now>>

\* What a handler may do: nothing, schedule a new event on this thread, ...
HandlerReturns ==
  Returned /\ UNCHANGED <<pq, event, queues, sched>>
HandlerSchedules ==
  /\ Returned \/ AnotherReturned
  /\ \E e \in Events, time \in Timings : Alloc(e, time) /\ EnqueueLocal(e)
  /\ UNCHANGED <<pq, cancelled, in_the_priority_queue, al, NegativeQueue>>
\* ... cancel an event, its own one too if it is periodic, ...
HandlerCancels ==
  /\ Returned
  /\ \E e \in awaited \ cancelled : cancelled' = cancelled \union {e}
  /\ UNCHANGED <<pq, timeout_at, period, in_the_prot_queue, in_the_priority_queue, allocated, awaited, queues, sched>>
\* ... or give its own or a waiting event another time (Event::schedule_imm, _in, _every).
\* Nothing gives a poll event another time while it is in NegativeQueue.
HandlerReschedules ==
  /\ Returned \/ AnotherReturned
  /\ sched < MaxSched /\ sched' = sched + 1
  /\ \E e \in (awaited \union ({run} \ {None})) \ (cancelled \union NegativeQueue), time \in Timings :
       /\ timeout_at' = [timeout_at EXCEPT ![e] = time.at]
       /\ period' = [period EXCEPT ![e] = time.every]
       /\ awaited' = awaited \union {e}
       /\ IF e \in in_the_priority_queue THEN PQRemove(e) ELSE UNCHANGED pq
       /\ in_the_priority_queue' = in_the_priority_queue \ {e}
       /\ IF e \in in_the_prot_queue THEN UNCHANGED <<in_the_prot_queue, localQueue>> ELSE EnqueueLocal(e)
  /\ UNCHANGED <<cancelled, allocated, al, NegativeQueue>>

\* Mutant: a periodic event is queued again though its handler scheduled it.
AfterMutant ==
  LET queued == run \in in_the_prot_queue \union in_the_priority_queue IN
  /\ pc = "after" /\ Goto(ret) /\ run' = None
  /\ \/ /\ period[run] # 0
        /\ timeout_at' = [timeout_at EXCEPT ![run] = IF period[run] < 0 THEN period[run] ELSE event_time + period[run]]
        /\ EnqueueLocal(run)
        /\ UNCHANGED <<period, cancelled, allocated, awaited>>
     \/ /\ period[run] = 0 /\ ~queued
        /\ Free({run})
        /\ UNCHANGED <<in_the_prot_queue, localQueue>>
     \/ /\ period[run] = 0 /\ queued
        /\ UNCHANGED <<timeout_at, period, cancelled, in_the_prot_queue, allocated, awaited, localQueue>>
  /\ UNCHANGED <<pq, in_the_priority_queue, al, NegativeQueue, second, ret, done_one, event_time, wake_at, wake, clock>>
\* A periodic event waits for its next time, any other is freed, unless it was scheduled anew.
After ==
  LET queued == run \in in_the_prot_queue \union in_the_priority_queue IN
  /\ pc = "after" /\ Goto(ret) /\ run' = None
  /\ \/ /\ period[run] # 0 /\ ~queued
        /\ timeout_at' = [timeout_at EXCEPT ![run] = IF period[run] < 0 THEN period[run] ELSE event_time + period[run]]
        /\ EnqueueLocal(run)
        /\ UNCHANGED <<period, cancelled, allocated, awaited>>
     \/ /\ period[run] = 0 /\ ~queued
        /\ Free({run})
        /\ UNCHANGED <<in_the_prot_queue, localQueue>>
     \/ queued /\ UNCHANGED <<timeout_at, period, cancelled, in_the_prot_queue, allocated, awaited, localQueue>>
  /\ UNCHANGED <<pq, in_the_priority_queue, al, NegativeQueue, second, ret, done_one, event_time, wake_at, wake, clock>>
-----------------------------------------------------------------------------
(* EThread::execute_regular *)
CheckReady ==
  LET gone == Examined(event_time) \intersect cancelled IN
  /\ \/ pc = "local" /\ localQueue = <<>> /\ ~second
     \/ pc = "ready" /\ after[0] = {} /\ done_one
  /\ Goto("ready") /\ done_one' = FALSE
  /\ PQCheckReady(event_time, timeout_at, cancelled)
  /\ in_the_priority_queue' = in_the_priority_queue \ gone
  /\ Free(gone)
  /\ UNCHANGED <<in_the_prot_queue, queues, second, run, ret, event_time, wake_at, wake, clock>>

DequeueReady ==
  /\ pc = "ready"
  /\ \E e \in after[0] :
       /\ PQDequeueReady(e)
       /\ in_the_priority_queue' = in_the_priority_queue \ {e}
       /\ \/ /\ e \in cancelled /\ Free({e})
             /\ UNCHANGED <<pc, run, ret, done_one>>
          \/ /\ e \notin cancelled
             /\ done_one' = TRUE /\ run' = e /\ ret' = "ready" /\ Goto("call")
             /\ UNCHANGED <<timeout_at, period, cancelled, allocated, awaited>>
  /\ UNCHANGED <<in_the_prot_queue, queues, second, event_time, wake_at, wake, clock>>

\* The poll events come after another process_queue.
PollsFirst ==
  /\ pc = "ready" /\ after[0] = {} /\ ~done_one /\ NegativeQueue # {}
  /\ second' = TRUE /\ Goto("drain")
  /\ UNCHANGED <<pq, event, queues, run, ret, done_one, event_time, wake_at, wake, clock>>
DequeueNegative ==
  /\ second /\ pc \in {"local", "polls"} /\ (pc = "local" => localQueue = <<>>)
  /\ \E e \in NegativeQueue :
       NegativeQueue' = NegativeQueue \ {e} /\ run' = e /\ ret' = "polls" /\ Goto("call")
  /\ UNCHANGED <<pq, event, al, localQueue, second, done_one, event_time, wake_at, wake, clock>>

SleepTime ==
  LET t == EarliestTimeout(Heartbeat + Period) - event_time IN
  IF t <= 0 THEN 0 ELSE Min({t, IF localQueue = <<>> THEN Heartbeat ELSE DELAY_FOR_RETRY})

\* waitForActivity: epoll_wait, or ProtectedQueue::wait, which looks at the queues first
Sleep ==
  /\ \/ pc = "ready" /\ after[0] = {} /\ ~done_one
     \/ pc = "polls"
  /\ NegativeQueue = {}
  /\ wake_at' = now + SleepTime
  /\ second' = FALSE /\ ret' = "local"
  /\ Goto(CASE tail_cb = "net" -> "asleep"
            [] tail_cb = "default" /\ al = <<>> /\ localQueue = <<>> -> "wait"
            [] OTHER -> "awake")
  /\ UNCHANGED <<pq, event, queues, run, done_one, event_time, wake, clock>>
\* ink_cond_timedwait releases the lock of the thread.
Wait ==
  /\ pc = "wait" /\ Goto("asleep")
  /\ UNCHANGED <<pq, event, queues, second, run, ret, done_one, event_time, wake_at, wake, clock>>
Awake ==
  /\ pc = "awake" \/ (pc = "asleep" /\ (evfd \/ signalled \/ now >= wake_at))
  /\ evfd' = FALSE /\ signalled' = FALSE
  /\ event_time' = now /\ wake_at' = 0
  /\ Goto("drain")
  /\ UNCHANGED <<pq, event, queues, second, run, ret, done_one, tail_cb, will_signal, clock>>
-----------------------------------------------------------------------------
Handler == HandlerReturns \/ HandlerSchedules \/ HandlerCancels \/ HandlerReschedules
LoopStep ==
  \/ DequeueExternal \/ DequeueLocal
  \/ CallMissed \/ CallCancelled \/ Call \/ Handler \/ After
  \/ CheckReady \/ DequeueReady \/ PollsFirst \/ DequeueNegative
  \/ Sleep \/ Wait \/ Awake

Next ==
  \/ LoopStep \/ Tick
  \/ \E r \in Others : SignalActivity(r) \/ \E e \in Events : ScheduleExternal(r, e) \/ Cancel(r, e)

Spec == Init /\ [][Next]_vars

\* The loop goes on and so does the clock, a signal follows a push, and the mutex is not
\* taken at every try.
Fairness ==
  /\ WF_vars(LoopStep) /\ WF_vars(Tick) /\ SF_vars(Call)
  /\ \A r \in Others : WF_vars(SignalActivity(r))
FairSpec == Spec /\ Fairness
-----------------------------------------------------------------------------
TypeOK ==
  /\ after \in [Lists -> SUBSET Events] /\ in_heap \in [Events -> Lists]
  /\ last_check_time \in Int /\ last_check_buckets \in Int
  /\ al \in Seq(Events) /\ localQueue \in Seq(Events) /\ NegativeQueue \subseteq Events
  /\ timeout_at \in [Events -> Int] /\ period \in [Events -> Int]
  /\ in_the_prot_queue \subseteq allocated /\ in_the_priority_queue \subseteq allocated
  /\ allocated \subseteq Events /\ awaited \subseteq allocated /\ cancelled \subseteq allocated
  /\ pc \in {"drain", "local", "call", "handler", "after", "ready", "polls", "wait", "asleep", "awake"}
  /\ ret \in {"local", "ready", "polls"} /\ run \in Events \union {None}
  /\ second \in BOOLEAN /\ done_one \in BOOLEAN /\ evfd \in BOOLEAN /\ signalled \in BOOLEAN
  /\ will_signal \subseteq Others /\ tail_cb \in Handlers
  /\ event_time <= now /\ wake_at \in Int /\ now \in 0 .. 2 * Period /\ sched \in 0 .. MaxSched

\* How often an event is queued.
Places(e) ==
  Cardinality({i \in DOMAIN al : al[i] = e}) + Cardinality({i \in DOMAIN localQueue : localQueue[i] = e})
    + Cardinality({i \in Lists : e \in after[i]}) + (IF e \in NegativeQueue THEN 1 ELSE 0)

\* Every event that is not freed is queued exactly once, or it is being called, and its
\* flags, by which schedule_imm and remove find it, say where: the assertions of enqueue,
\* process_event and free_event (UnixEThread.cc:155) hold, nothing is lost or linked twice.
OnePlace ==
  /\ TypeOK
  /\ \A e \in Events :
       /\ Places(e) <= 1
       /\ e \in allocated <=> Places(e) = 1 \/ run = e
       /\ run = e /\ Places(e) = 1 => pc = "after"
       /\ e \in in_the_prot_queue <=> e \in Elems(al) \union Elems(localQueue)
       /\ e \in in_the_priority_queue <=> e \in after[in_heap[e]]

\* Timers are neither late nor early: check_ready leaves no event in the higher lists that
\* was due at its time, however the bits of the bucket number changed (PQ-List.cc:42), and
\* none is called more than a bucket before its time.
TimersOnTime ==
  /\ \A i \in Lists \ {0} : \A e \in after[i] : timeout_at[e] > last_check_time
  /\ pc = "call" /\ ret = "ready" => timeout_at[run] <= now + PQ_BUCKET_TIME(0)

\* Whoever is cancelled under the mutex is not called back, wherever its event waits and
\* even when the loop has already taken it from its queue (Action.h: cancelled).
CancelledNotCalled ==
  [][\A e \in Events : e \in cancelled => ~(pc' = "handler" /\ pc = "call" /\ run = e)]_vars

\* A thread that sleeps while another thread's event waits will be woken: the signal is
\* there or its sender is on the way.  This is for the thread with a NetHandler.
NetWoken ==
  tail_cb = "net" /\ pc = "asleep" /\ al # <<>> => evfd \/ will_signal # {}

\* Every event that was scheduled is called, unless it is cancelled.
AllCalled ==
  \A e \in Events : e \in awaited ~> (run = e /\ pc = "handler") \/ e \in cancelled \/ e \notin awaited
=============================================================================
