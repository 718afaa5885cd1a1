-------------------------- MODULE LogObject_proofs --------------------------
(***************************************************************************)
(* Proofs about LogObject for any number of threads, buffers and entries:   *)
(* the type invariant, that no buffer is deleted or passed on under a       *)
(* thread, that entries have room of their own, that a full buffer is       *)
(* replaced by one thread, that no entry is lost or written twice and that  *)
(* the queued buffers are counted.                                          *)
(*                                                                          *)
(* The argument is that references are counted exactly wherever the count   *)
(* is: in the version of the pointer, in what a replacing thread still has  *)
(* to add, in m_references.  That needs every buffer to be in one place,    *)
(* and all but the current one to be full, so that nobody comes to them.    *)
(* First come the invariant and what each step does to its parts.  The      *)
(* leaves that need no arithmetic name Zenon, which is the fastest at them. *)
(***************************************************************************)
EXTENDS LogObject, FiniteSetTheorems, TLAPS

Users(b) == {t \in Procs : Holds(t, b)}
Writers(b) == {t \in Procs : Writes(t, b)}
InHand(t) == pc[t] \in {"count", "queue"}
Listed == write_list \union q \union ({cur} \ {None}) \union Taken

\* A buffer is allocated while it is anywhere, and is in one place only.
ListInv ==
  /\ m_log_buffer.ptr \in live \ Listed
  /\ Listed \subseteq live
  /\ write_list \intersect (q \union {cur} \union Taken) = {}
  /\ q \intersect ({cur} \union Taken) = {}
  /\ cur \notin Taken
  /\ new_q \intersect flush_buffers = {}
  /\ pp = "writers" <=> cur # None
HandInv ==
  /\ \A t \in Procs : InHand(t) => buffer[t] \in live \ (Listed \union {m_log_buffer.ptr})
  /\ \A t, u \in Procs : InHand(t) /\ InHand(u) /\ t # u => buffer[t] # buffer[u]

\* References are counted in the pointer, in what is to be added, or in m_references.
CountOf(b) ==
  /\ m_state[b].num_writers = Cardinality(Writers(b))
  /\ b = m_log_buffer.ptr => m_log_buffer.version = Cardinality(Users(b)) /\ m_references[b] = 0
  /\ \A t \in Procs : At(t, "count") /\ buffer[t] = b => m_references[b] + old_version[t] - 1 = Cardinality(Users(b))
  /\ b \notin flush_buffers \union {m_log_buffer.ptr} /\ (\A t \in Procs : At(t, "count") => buffer[t] # b)
       => m_references[b] = Cardinality(Users(b))
  /\ b \in flush_buffers => m_references[b] = 1
CountInv == \A b \in Addrs : CountOf(b)

\* Nobody enters a buffer that is not current any more.
FullInv ==
  /\ \A b \in live \ {m_log_buffer.ptr} : m_state[b].full
  /\ \A t \in Procs : At(t, "LB_FULL") => m_state[m_log_buffer.ptr].full
  /\ \A t, u \in Procs : At(t, "LB_FULL") /\ At(u, "LB_FULL") => t = u
  /\ \A b \in Addrs \ live : m_state[b] = Empty
  /\ \A b \in Addrs : b = cur => Users(b) = {}

LocalInv ==
  /\ pc[Flusher] # "marshal"
  /\ \A t \in Procs : pc[t] \in {"checkout", "LB_OK", "LB_FULL", "LB_RETRY", "LB_BUFFER_TOO_SMALL",
                                 "count", "queue", "marshal"} => buffer[t] \in Addrs
  /\ \A t \in Threads : count[t] \in 0 .. MaxLog /\ (pc[t] # "idle" => count[t] \in 1 .. MaxLog)

RoomInv == RoomIsOwn /\ \A b \in Addrs : m_state[b].offset <= Size

IInv == TypeOK /\ LocalInv /\ ListInv /\ HandInv /\ CountInv /\ FullInv /\ UsersKeepBuffers /\ OneReplaces /\ RoomInv
-----------------------------------------------------------------------------
(* Sets of processes *)
\* What is used of the number of processes in a set; LogObject_proofs has it from the
\* theorems on finite sets.
CountLaws ==
  /\ \A S \in SUBSET Procs : Cardinality(S) \in Nat /\ (Cardinality(S) = 0 <=> S = {})
  /\ \A S, T \in SUBSET Procs : \A t \in T \ S : T = S \union {t} => Cardinality(T) = Cardinality(S) + 1

LEMMA ProcsFinite ==
  ASSUME CountLaws
  PROVE  \A S \in SUBSET Procs : Cardinality(S) \in Nat
BY Zenon DEF CountLaws

LEMMA OneMore ==
  ASSUME CountLaws, NEW S \in SUBSET Procs, NEW T \in SUBSET Procs, NEW t \in Procs, S \ {t} = T \ {t}, t \in T, t \notin S
  PROVE  Cardinality(T) = Cardinality(S) + 1
<1>1. T = S \union {t}
  BY Zenon
<1>2. QED BY Zenon, <1>1 DEF CountLaws

LEMMA Nobody ==
  ASSUME CountLaws, NEW S \in SUBSET Procs
  PROVE  Cardinality(S) = 0 <=> S = {}
BY Zenon DEF CountLaws

LEMMA Somebody ==
  ASSUME CountLaws, NEW S \in SUBSET Procs, NEW t \in S
  PROVE  Cardinality(S) >= 1
BY ProcsFinite, Nobody

\* Only process t moves.
Moves(t) == \A u \in Procs \ {t} : pc'[u] = pc[u] /\ buffer'[u] = buffer[u]

LEMMA OthersStay ==
  ASSUME NEW t \in Procs, Moves(t), NEW b
  PROVE  Users(b)' \ {t} = Users(b) \ {t} /\ Writers(b)' \ {t} = Writers(b) \ {t}
BY Zenon DEF Moves, Users, Writers, Holds, Writes

LEMMA UsersAreProcs ==
  ASSUME NEW b
  PROVE  Users(b) \in SUBSET Procs /\ Writers(b) \in SUBSET Procs
         /\ Users(b)' \in SUBSET Procs /\ Writers(b)' \in SUBSET Procs
BY Zenon DEF Users, Writers
-----------------------------------------------------------------------------
(* What the steps of a process do to the users and the writers of buffer b *)
\* pc and buffer as functions
LEMMA Places ==
  TypeOK => pc = [t \in Procs |-> pc[t]] /\ buffer = [t \in Procs |-> buffer[t]]
BY Zenon DEF TypeOK

LEMMA NobodyMoves ==
  ASSUME UNCHANGED <<pc, buffer>>, NEW b
  PROVE  Users(b)' = Users(b) /\ Writers(b)' = Writers(b)
BY Zenon DEF Users, Writers, Holds, Writes

\* A step from and to places where nothing is used.
LEMMA OutsideMoves ==
  ASSUME TypeOK, NEW t \in Procs, NEW b, Moves(t),
         ~Holds(t, b), ~Holds(t, b)', ~Writes(t, b), ~Writes(t, b)'
  PROVE  Users(b)' = Users(b) /\ Writers(b)' = Writers(b)
BY ZenonT(30), OthersStay DEF Users, Writers

LEMMA StepMoves ==
  ASSUME TypeOK, NEW t \in Procs, Step(t) \/ Log(t)
  PROVE  Moves(t)
<1>1. CASE Log(t)
  BY Zenon, <1>1, Places DEF Log, Goto, Moves
<1>2. CASE Acquire(t)
  BY Zenon, <1>2, Places DEF Acquire, Goto, Moves
<1>3. CASE Checkout(t)
  BY Zenon, <1>3, Places DEF Checkout, Goto, Moves
<1>4. CASE Replace(t)
  BY Zenon, <1>4, Places DEF Replace, Goto, Moves
<1>5. CASE CountUsers(t)
  BY Zenon, <1>5, Places DEF CountUsers, Goto, Moves
<1>6. CASE Queue(t)
  BY Zenon, <1>6, Places DEF Queue, Goto, Moves, locals
<1>7. CASE Signal(t)
  BY Zenon, <1>7, Places DEF Signal, Retry, Return, Goto, Moves
<1>8. CASE Release(t)
  BY Zenon, <1>8, Places DEF Release, Retry, Return, Goto, Moves
<1>9. CASE Checkin(t)
  BY Zenon, <1>9, Places DEF Checkin, Return, Goto, Moves
<1>10. QED BY Zenon, <1>1, <1>2, <1>3, <1>4, <1>5, <1>6, <1>7, <1>8, <1>9 DEF Step

LEMMA AcquireUsers ==
  ASSUME CountLaws, TypeOK, NEW t \in Procs, Acquire(t), NEW b \in Addrs
  PROVE  /\ Writers(b)' = Writers(b)
         /\ b = m_log_buffer.ptr => Cardinality(Users(b)') = Cardinality(Users(b)) + 1
         /\ b # m_log_buffer.ptr => Users(b)' = Users(b)
<1>1. Moves(t)
  BY Zenon, StepMoves DEF Step
<1>2. ~Holds(t, b) /\ ~Writes(t, b) /\ ~Writes(t, b)' /\ (Holds(t, b)' <=> b = m_log_buffer.ptr)
  BY Zenon, Places DEF Acquire, Goto, At, Holds, Writes
<1>3. (t \in Users(b)' <=> b = m_log_buffer.ptr) /\ t \notin Users(b) /\ t \notin Writers(b) /\ t \notin Writers(b)'
  BY Zenon, <1>2 DEF Users, Writers
<1>4. Writers(b)' = Writers(b) /\ (b # m_log_buffer.ptr => Users(b)' = Users(b))
  BY <1>1, <1>3, OthersStay
<1>5. b = m_log_buffer.ptr => Cardinality(Users(b)') = Cardinality(Users(b)) + 1
  BY Zenon, <1>1, <1>3, OthersStay, UsersAreProcs, OneMore
<1>6. QED BY Zenon, <1>4, <1>5

LEMMA CheckoutUsers ==
  ASSUME CountLaws, TypeOK, NEW t \in Procs, Checkout(t), NEW b \in Addrs
  PROVE  /\ Users(b)' = Users(b)
         /\ b = buffer[t] /\ pc'[t] = "LB_OK" /\ t \in Threads => Cardinality(Writers(b)') = Cardinality(Writers(b)) + 1
         /\ ~(b = buffer[t] /\ pc'[t] = "LB_OK" /\ t \in Threads) => Writers(b)' = Writers(b)
<1>1. Moves(t)
  BY Zenon, StepMoves DEF Step
<1>2. pc'[t] \in {"LB_OK", "LB_FULL", "LB_RETRY", "LB_BUFFER_TOO_SMALL"} /\ buffer' = buffer /\ pc[t] = "checkout"
  BY Zenon, Places DEF Checkout, CheckoutResult, Goto, At
<1>3. (Holds(t, b)' <=> Holds(t, b)) /\ ~Writes(t, b)
      /\ (Writes(t, b)' <=> b = buffer[t] /\ pc'[t] = "LB_OK" /\ t \in Threads)
  BY Zenon, <1>2 DEF Holds, Writes
<1>4. /\ t \in Users(b)' <=> t \in Users(b)
      /\ t \notin Writers(b)
      /\ t \in Writers(b)' <=> b = buffer[t] /\ pc'[t] = "LB_OK" /\ t \in Threads
  BY Zenon, <1>3 DEF Users, Writers
<1>5. Users(b)' = Users(b)
  BY <1>1, <1>4, OthersStay
<1>6. ~(b = buffer[t] /\ pc'[t] = "LB_OK" /\ t \in Threads) => Writers(b)' = Writers(b)
  BY <1>1, <1>4, OthersStay
<1>7. b = buffer[t] /\ pc'[t] = "LB_OK" /\ t \in Threads => Cardinality(Writers(b)') = Cardinality(Writers(b)) + 1
  BY Zenon, <1>1, <1>4, OthersStay, UsersAreProcs, OneMore
<1>8. QED BY Zenon, <1>5, <1>6, <1>7

LEMMA LeavesUsers ==
  ASSUME CountLaws, TypeOK, NEW t \in Procs, Replace(t) \/ Release(t), NEW b \in Addrs
  PROVE  /\ Writers(b)' = Writers(b)
         /\ b = buffer[t] => Cardinality(Users(b)) = Cardinality(Users(b)') + 1 /\ t \in Users(b)
         /\ b # buffer[t] => Users(b)' = Users(b)
<1>1. Moves(t)
  BY Zenon, StepMoves DEF Step
<1>2. (Holds(t, b) <=> b = buffer[t]) /\ ~Holds(t, b)' /\ (Writes(t, b)' <=> Writes(t, b))
  <2>1. CASE Replace(t)
    BY Zenon, <2>1, Places DEF Replace, Goto, At, Holds, Writes
  <2>2. CASE Release(t)
    BY Zenon, <2>2, Places DEF Release, Return, Retry, Back, Goto, At, Holds, Writes
  <2>3. QED BY Zenon, <2>1, <2>2
<1>3. (t \in Users(b) <=> b = buffer[t]) /\ t \notin Users(b)' /\ (t \in Writers(b)' <=> t \in Writers(b))
  BY Zenon, <1>2 DEF Users, Writers
<1>4. Writers(b)' = Writers(b) /\ (b # buffer[t] => Users(b)' = Users(b))
  BY <1>1, <1>3, OthersStay
<1>5. b = buffer[t] => Cardinality(Users(b)) = Cardinality(Users(b)') + 1
  BY Zenon, <1>1, <1>3, OthersStay, UsersAreProcs, OneMore
<1>6. QED BY Zenon, <1>3, <1>4, <1>5

LEMMA CheckinUsers ==
  ASSUME CountLaws, TypeOK, LocalInv, NEW t \in Procs, Checkin(t), NEW b \in Addrs
  PROVE  /\ Users(b)' = Users(b)
         /\ b = buffer[t] => Cardinality(Writers(b)) = Cardinality(Writers(b)') + 1 /\ t \in Writers(b)
         /\ b # buffer[t] => Writers(b)' = Writers(b)
<1>1. Moves(t)
  BY Zenon, StepMoves DEF Step
<1>2. ~Holds(t, b) /\ ~Holds(t, b)' /\ (Writes(t, b) <=> b = buffer[t]) /\ ~Writes(t, b)'
  BY Zenon, Places DEF Checkin, Return, Back, Goto, At, Holds, Writes, LocalInv, Procs
<1>3. t \notin Users(b) /\ t \notin Users(b)' /\ (t \in Writers(b) <=> b = buffer[t]) /\ t \notin Writers(b)'
  BY Zenon, <1>2 DEF Users, Writers
<1>4. Users(b)' = Users(b) /\ (b # buffer[t] => Writers(b)' = Writers(b))
  BY <1>1, <1>3, OthersStay
<1>5. b = buffer[t] => Cardinality(Writers(b)) = Cardinality(Writers(b)') + 1
  BY Zenon, <1>1, <1>3, OthersStay, UsersAreProcs, OneMore
<1>6. QED BY Zenon, <1>3, <1>4, <1>5

LEMMA QuietUsers ==
  ASSUME TypeOK, NEW t \in Procs, Log(t) \/ CountUsers(t) \/ Queue(t) \/ Signal(t), NEW b
  PROVE  Users(b)' = Users(b) /\ Writers(b)' = Writers(b)
<1>1. Moves(t)
  BY Zenon, StepMoves DEF Step
<1>2. ~Holds(t, b) /\ ~Holds(t, b)' /\ ~Writes(t, b) /\ ~Writes(t, b)'
  BY Zenon, Places DEF Log, CountUsers, Queue, Signal, Retry, Return, Back, Goto, At, Holds, Writes
<1>3. QED BY Zenon, <1>1, <1>2, OutsideMoves
-----------------------------------------------------------------------------
(* What the steps do to the buffers and the locals *)
LEMMA DeleteTypes ==
  ASSUME TypeOK, NEW B, Delete(B)
  PROVE  /\ live' \subseteq Addrs
         /\ m_state' \in [Addrs -> [offset : Nat, num_entries : Nat, full : BOOLEAN, num_writers : Nat]]
         /\ content' \in [Addrs -> SUBSET Entries]
BY Zenon DEF TypeOK, Delete, Empty

LEMMA ReserveState ==
  ASSUME NEW s \in [offset : Nat, num_entries : Nat, full : BOOLEAN, num_writers : Nat], NEW n \in Nat
  PROVE  /\ Reserve(s, n) \in [offset : Nat, num_entries : Nat, full : BOOLEAN, num_writers : Nat]
         /\ Reserve(s, n).offset = s.offset + n
         /\ Reserve(s, n).num_writers = s.num_writers + 1
         /\ Reserve(s, n).full = s.full
<1>1. (s.num_entries + 1) % EntriesMod \in Nat
  BY SizesAssumption
<1>2. PICK k \in Nat : k = (s.num_entries + 1) % EntriesMod
  BY Zenon, <1>1
<1>3. Reserve(s, n) = [s EXCEPT !.num_writers = @ + 1, !.num_entries = k, !.offset = @ + n]
  BY Zenon, <1>2 DEF Reserve
<1>4. s.offset \in Nat /\ s.num_writers \in Nat /\ s.full \in BOOLEAN
  BY Zenon
<1>5. PICK o \in Nat, w \in Nat : o = s.offset + n /\ w = s.num_writers + 1
  BY <1>4
<1>6. Reserve(s, n) = [s EXCEPT !.num_writers = w, !.num_entries = k, !.offset = o]
  BY Zenon, <1>3, <1>5
<1>7. Reserve(s, n) \in [offset : Nat, num_entries : Nat, full : BOOLEAN, num_writers : Nat]
  BY Zenon, <1>6
<1>8. Reserve(s, n).offset = s.offset + n /\ Reserve(s, n).num_writers = s.num_writers + 1
  BY Zenon, <1>5, <1>6
<1>9. Reserve(s, n).full = s.full
  BY Zenon, <1>6
<1>10. QED BY Zenon, <1>7, <1>8, <1>9

LEMMA ReturnTypes ==
  ASSUME TypeOK, NEW t \in Procs, Return(t) \/ Retry(t)
  PROVE  /\ pc' = [pc EXCEPT ![t] = pc'[t]] /\ pc'[t] \in {"idle", "wait", "acquire"}
         /\ buffer' = [buffer EXCEPT ![t] = None]
         /\ size' \in [Procs -> Nat] /\ offset' \in [Procs -> Nat]
BY DEF TypeOK, Return, Retry, Back, Goto

LEMMA ReturnsTo ==
  ASSUME TypeOK, NEW t \in Procs, Signal(t) \/ Checkin(t)
  PROVE  /\ pc' = [pc EXCEPT ![t] = pc'[t]] /\ pc'[t] \in {"idle", "wait", "acquire"}
         /\ t \in Threads => pc'[t] \in {"idle", "acquire"}
         /\ buffer' = [buffer EXCEPT ![t] = None]
BY Zenon DEF TypeOK, Signal, Checkin, Return, Retry, Back, Goto

LEMMA ReleasesTo ==
  ASSUME TypeOK, NEW t \in Procs, Release(t)
  PROVE  /\ pc' = [pc EXCEPT ![t] = pc'[t]] /\ pc'[t] \in {"idle", "wait", "acquire", "marshal"}
         /\ pc'[t] = "marshal" => t \in Threads /\ buffer'[t] = buffer[t] /\ pc[t] = "LB_OK" /\ size' = size /\ offset' = offset
         /\ \A u \in Procs \ {t} : buffer'[u] = buffer[u]
         /\ pc[t] \in {"LB_OK", "LB_RETRY", "LB_BUFFER_TOO_SMALL"}
BY Zenon DEF TypeOK, Release, Return, Retry, Back, Goto, At

\* What checkout_write does to the states of the buffers.
LEMMA CheckoutStates ==
  ASSUME TypeOK, LocalInv, NEW t \in Procs, Checkout(t)
  PROVE  LET b == buffer[t] IN
         /\ b \in Addrs /\ pc[t] = "checkout" /\ pc' = [pc EXCEPT ![t] = pc'[t]]
         /\ m_state[b].full => pc'[t] = "LB_RETRY"
         /\ pc'[t] \in {"LB_OK", "LB_FULL", "LB_RETRY", "LB_BUFFER_TOO_SMALL"}
         /\ \A c \in Addrs : c # b => m_state'[c] = m_state[c]
         /\ pc'[t] = "LB_OK" /\ t \in Threads =>
              /\ m_state'[b].num_writers = m_state[b].num_writers + 1
              /\ m_state'[b].full = m_state[b].full
              /\ m_state'[b].offset = m_state[b].offset + size[t] /\ m_state[b].offset + size[t] <= Size
              /\ offset' = [offset EXCEPT ![t] = m_state[b].offset]
         /\ ~(pc'[t] = "LB_OK" /\ t \in Threads) =>
              /\ m_state'[b].num_writers = m_state[b].num_writers
              /\ m_state'[b].full = (m_state[b].full \/ pc'[t] = "LB_FULL")
              /\ m_state'[b].offset = m_state[b].offset
              /\ offset' = offset
<1>1. PICK b \in Addrs : b = buffer[t]
  BY Zenon DEF Checkout, At, LocalInv
<1>2. PICK s \in [offset : Nat, num_entries : Nat, full : BOOLEAN, num_writers : Nat] : s = m_state[b]
  BY Zenon, <1>1 DEF TypeOK
<1>3. PICK r : r = CheckoutResult(t, s)
  BY Zenon
<1>4. /\ r \in {"LB_OK", "LB_FULL", "LB_RETRY", "LB_BUFFER_TOO_SMALL"}
      /\ s.full => r = "LB_RETRY"
      /\ r = "LB_OK" /\ t \in Threads => s.offset + size[t] <= Size
  BY Zenon, <1>3 DEF CheckoutResult
<1>5. pc[t] = "checkout" /\ pc' = [pc EXCEPT ![t] = pc'[t]] /\ pc'[t] = r
  BY Zenon, <1>1, <1>2, <1>3 DEF Checkout, Goto, At, TypeOK
<1>6. CASE r = "LB_OK" /\ t \in Threads
  <2>1. m_state' = [m_state EXCEPT ![b] = Reserve(s, size[t])] /\ offset' = [offset EXCEPT ![t] = s.offset]
    BY Zenon, <1>1, <1>2, <1>3, <1>6 DEF Checkout
  <2>2. m_state'[b] = Reserve(s, size[t]) /\ \A c \in Addrs : c # b => m_state'[c] = m_state[c]
    BY Zenon, <2>1 DEF TypeOK
  <2>3. size[t] \in Nat
    BY Zenon DEF TypeOK
  <2>4. /\ m_state'[b].num_writers = s.num_writers + 1 /\ m_state'[b].full = s.full
        /\ m_state'[b].offset = s.offset + size[t]
    <3>1. /\ Reserve(s, size[t]).offset = s.offset + size[t] /\ Reserve(s, size[t]).num_writers = s.num_writers + 1
          /\ Reserve(s, size[t]).full = s.full
      BY Zenon, <2>3, ReserveState
    <3>2. QED BY Zenon, <2>2, <3>1
  <2>5. QED BY Zenon, <1>1, <1>2, <1>4, <1>5, <1>6, <2>1, <2>2, <2>4
<1>7. CASE r = "LB_FULL"
  <2>1. m_state' = [m_state EXCEPT ![b] = [s EXCEPT !.full = TRUE]] /\ offset' = offset
    BY Zenon, <1>1, <1>2, <1>3, <1>7 DEF Checkout
  <2>2. m_state'[b] = [s EXCEPT !.full = TRUE] /\ \A c \in Addrs : c # b => m_state'[c] = m_state[c]
    BY Zenon, <2>1 DEF TypeOK
  <2>3. m_state'[b].full = TRUE /\ m_state'[b].offset = s.offset /\ m_state'[b].num_writers = s.num_writers
    BY Zenon, <2>2
  <2>4. QED BY ZenonT(30), <1>1, <1>2, <1>4, <1>5, <1>7, <2>1, <2>2, <2>3
<1>8. CASE r \in {"LB_RETRY", "LB_BUFFER_TOO_SMALL"} \/ (r = "LB_OK" /\ t \notin Threads)
  <2>1. m_state' = m_state /\ offset' = offset
    BY Zenon, <1>1, <1>2, <1>3, <1>8 DEF Checkout
  <2>2. s.full \in BOOLEAN
    BY Zenon, <1>2
  <2>3. QED BY Zenon, <1>1, <1>2, <1>4, <1>5, <1>8, <2>1, <2>2
<1>9. QED BY Zenon, <1>4, <1>6, <1>7, <1>8

LEMMA CheckinStates ==
  ASSUME TypeOK, LocalInv, NEW t \in Procs, Checkin(t)
  PROVE  /\ buffer[t] \in Addrs /\ t \in Threads /\ pc[t] = "marshal"
         /\ \A c \in Addrs :
              /\ c # buffer[t] => m_state'[c] = m_state[c]
              /\ m_state'[c].full = m_state[c].full /\ m_state'[c].offset = m_state[c].offset
         /\ m_state'[buffer[t]].num_writers = m_state[buffer[t]].num_writers - 1
<1>1. buffer[t] \in Addrs /\ t \in Threads /\ pc[t] = "marshal"
  BY Zenon DEF Checkin, At, LocalInv, Procs
<1>2. m_state' = [m_state EXCEPT ![buffer[t]].num_writers = m_state[buffer[t]].num_writers - 1]
  BY Zenon DEF Checkin
<1>3. QED BY ZenonT(30), <1>1, <1>2 DEF TypeOK
-----------------------------------------------------------------------------
(* The steps of the preproc and the flush thread: what they delete or pass on nobody uses *)
BackStep == PreprocStep \/ Wakeup \/ FlushStep \/ UNCHANGED vars

LEMMA BackLocals ==
  ASSUME TypeOK, BackStep
  PROVE  /\ UNCHANGED <<m_log_buffer, buffer, size, offset, old_version, count>>
         /\ \A t \in Procs, l \in {"checkout", "LB_OK", "LB_FULL", "LB_RETRY", "LB_BUFFER_TOO_SMALL", "count", "queue", "marshal"} :
              pc'[t] = l <=> pc[t] = l
<1>1. CASE PreprocStep \/ Wakeup
  BY Zenon, <1>1 DEF PreprocStep, PreprocTake, PreprocTestReferences, PreprocTestWriters, PreprocFormat, PreprocEnd,
              Wakeup, locals, buffers
<1>2. CASE FlushStep
  BY ZenonT(30), <1>2 DEF FlushStep, Flush, NotExpired, Expired, Goto, At, TypeOK, locals, buffers, Procs
<1>3. CASE UNCHANGED vars
  BY Zenon, <1>3 DEF vars, locals, buffers
<1>4. QED BY Zenon, <1>1, <1>2, <1>3 DEF BackStep

LEMMA BackUsers ==
  ASSUME TypeOK, BackStep, NEW b
  PROVE  Users(b)' = Users(b) /\ Writers(b)' = Writers(b)
BY Zenon, BackLocals DEF Users, Writers, Holds, Writes

\* Nobody uses b.
Unused(b) == Users(b) = {} /\ Writers(b) = {}

LEMMA KeepForm ==
  /\ UsersKeepBuffers <=> \A b \in Addrs : b \in live \ Taken \/ Unused(b)
  /\ UsersKeepBuffers' <=> \A b \in Addrs : b \in live' \ Taken' \/ (Users(b)' = {} /\ Writers(b)' = {})
BY Zenon DEF UsersKeepBuffers, Unused, Users, Writers

LEMMA BackBuffers ==
  ASSUME CountLaws, TypeOK, ListInv, CountInv, FullInv, UsersKeepBuffers, BackStep, NEW b \in Addrs
  PROVE  /\ \/ m_state'[b] = m_state[b] /\ (b \in live' <=> b \in live)
            \/ m_state'[b] = Empty /\ b \notin live' /\ Unused(b)
         /\ b \in Taken' => b \in Taken \/ Unused(b)
<1>1. b \in Taken => Unused(b)
  BY Zenon, KeepForm
<1>2. CASE PreprocTake \/ PreprocTestReferences \/ PreprocEnd \/ Wakeup \/ NotExpired \/ Expired \/ UNCHANGED vars
  BY Zenon, <1>2 DEF PreprocTake, PreprocTestReferences, PreprocEnd, Wakeup, NotExpired, Expired, vars, buffers, lists, Taken
<1>3. CASE PreprocTestWriters
  <2>1. cur \in Addrs /\ Users(cur) = {}
    BY Zenon, <1>3 DEF TypeOK, ListInv, FullInv, PreprocTestWriters, Preproc
  <2>2. m_state[cur].num_writers = 0 => Unused(cur)
    BY Zenon, <2>1, Nobody, UsersAreProcs DEF Unused, CountInv, CountOf
  <2>3. CASE m_state[cur].num_writers # 0
    BY Zenon, <1>3, <2>3 DEF PreprocTestWriters, Taken
  <2>4. CASE m_state[cur].num_writers = 0
    BY Zenon, <1>3, <2>1, <2>2, <2>4 DEF PreprocTestWriters, Taken, Delete
  <2>5. QED BY Zenon, <2>3, <2>4
<1>4. CASE PreprocFormat
  BY Zenon, <1>1, <1>4 DEF PreprocFormat, Taken, Delete
<1>5. CASE Flush
  BY Zenon, <1>1, <1>5 DEF Flush, Taken, Delete
<1>6. QED BY Zenon, <1>2, <1>3, <1>4, <1>5 DEF BackStep, PreprocStep, FlushStep

LEMMA KeepStep ==
  CountLaws /\ TypeOK /\ LocalInv /\ ListInv /\ CountInv /\ FullInv /\ UsersKeepBuffers /\ [Next]_vars => UsersKeepBuffers'
<1> SUFFICES ASSUME CountLaws, TypeOK, LocalInv, ListInv, CountInv, FullInv, UsersKeepBuffers, [Next]_vars,
                    NEW b \in Addrs, b \notin live' \ Taken'
             PROVE  Users(b)' = {} /\ Writers(b)' = {}
  BY Zenon, KeepForm
<1>1. ASSUME NEW t \in Procs, Step(t) \/ Log(t)
      PROVE  live \subseteq live' /\ Taken' = Taken
  BY Zenon, <1>1 DEF Step, Log, Acquire, Checkout, Replace, CountUsers, Queue, Signal, Release, Checkin, Taken, buffers, lists
<1>2. ASSUME NEW t \in Procs, Step(t) \/ Log(t)
      PROVE  Users(b) = {} /\ Writers(b) = {} /\ b # m_log_buffer.ptr
  BY <1>1, <1>2, KeepForm DEF Unused, ListInv, Listed
<1>3. ASSUME NEW t \in Procs, Log(t) \/ CountUsers(t) \/ Queue(t) \/ Signal(t)
      PROVE  Users(b)' = {} /\ Writers(b)' = {}
  BY Zenon, <1>2, <1>3, QuietUsers DEF Step
<1>4. ASSUME NEW t \in Procs, Acquire(t)
      PROVE  Users(b)' = {} /\ Writers(b)' = {}
  BY Zenon, <1>2, <1>4, AcquireUsers DEF Step
<1>5. ASSUME NEW t \in Procs, Checkout(t)
      PROVE  Users(b)' = {} /\ Writers(b)' = {}
  <2>1. Users(b) = {} /\ Writers(b) = {}
    BY Zenon, <1>2, <1>5 DEF Step
  <2>2. t \in Users(buffer[t])
    BY Zenon, <1>5 DEF Checkout, At, Users, Holds
  <2>3. QED BY Zenon, <1>5, <2>1, <2>2, CheckoutUsers
<1>6. ASSUME NEW t \in Procs, Replace(t) \/ Release(t)
      PROVE  Users(b)' = {} /\ Writers(b)' = {}
  BY Zenon, <1>2, <1>6, LeavesUsers DEF Step
<1>7. ASSUME NEW t \in Procs, Checkin(t)
      PROVE  Users(b)' = {} /\ Writers(b)' = {}
  BY Zenon, <1>2, <1>7, CheckinUsers DEF Step
<1>8. CASE BackStep
  BY Zenon, <1>8, BackUsers, BackBuffers, KeepForm DEF Unused
<1>9. QED BY Zenon, <1>3, <1>4, <1>5, <1>6, <1>7, <1>8 DEF Next, Step, BackStep, Procs
-----------------------------------------------------------------------------
(* The current buffer and full ones *)
LEMMA FullStep ==
  CountLaws /\ TypeOK /\ LocalInv /\ ListInv /\ HandInv /\ CountInv /\ FullInv /\ UsersKeepBuffers /\ OneReplaces /\ [Next]_vars
    /\ TypeOK' /\ ListInv' => FullInv' /\ OneReplaces'
<1> SUFFICES ASSUME CountLaws, TypeOK, LocalInv, ListInv, HandInv, CountInv, FullInv, UsersKeepBuffers, OneReplaces, [Next]_vars,
                    TypeOK', ListInv'
             PROVE  FullInv' /\ OneReplaces'
  BY Zenon
<1>1. ASSUME NEW t \in Procs, Log(t) \/ CountUsers(t) \/ Queue(t) \/ Signal(t) \/ Release(t) \/ Acquire(t)
      PROVE  FullInv' /\ OneReplaces'
  <2>1. UNCHANGED <<m_log_buffer.ptr, m_state, live, cur>>
    BY <1>1 DEF Log, CountUsers, Queue, Signal, Release, Acquire, TypeOK, buffers, lists
  <2>2. Moves(t)
    BY Zenon, <1>1, StepMoves DEF Step
  <2>3. pc'[t] # "LB_FULL"
    <3>1. CASE Log(t) \/ CountUsers(t) \/ Queue(t) \/ Acquire(t)
      BY Zenon, <3>1 DEF TypeOK, Log, CountUsers, Queue, Acquire, Goto
    <3>2. CASE Signal(t)
      BY Zenon, <3>2, ReturnsTo
    <3>3. CASE Release(t)
      BY Zenon, <3>3, ReleasesTo
    <3>4. QED BY Zenon, <1>1, <3>1, <3>2, <3>3
  <2>4. \A u \in Procs : At(u, "LB_FULL")' => At(u, "LB_FULL") /\ buffer'[u] = buffer[u]
    BY Zenon, <2>2, <2>3 DEF Moves, At
  <2>5. \A b \in Addrs : b = cur => Users(b)' = {}
    <3>1. SUFFICES ASSUME NEW b \in Addrs, b = cur, Users(b) = {}
                   PROVE  Users(b)' = {}
      BY Zenon DEF FullInv
    <3>2. CASE Log(t) \/ CountUsers(t) \/ Queue(t) \/ Signal(t)
      BY Zenon, <3>1, <3>2, QuietUsers
    <3>3. CASE Release(t)
      BY Zenon, <3>1, <3>3, LeavesUsers
    <3>4. CASE Acquire(t)
      <4>1. b # m_log_buffer.ptr
        BY Zenon, <3>1, AddrsAssumption DEF ListInv, Listed
      <4>2. QED BY Zenon, <3>1, <3>4, <4>1, AcquireUsers
    <3>5. QED BY Zenon, <1>1, <3>2, <3>3, <3>4
  <2>6. OneReplaces'
    BY Zenon, <2>1, <2>4 DEF OneReplaces
  <2>7. QED BY Zenon, <2>1, <2>4, <2>5, <2>6 DEF FullInv
<1>2. ASSUME NEW t \in Procs, Checkout(t)
      PROVE  FullInv' /\ OneReplaces'
  <2>1. PICK b \in Addrs : b = buffer[t]
    BY Zenon, <1>2, CheckoutStates
  <2>2. UNCHANGED <<m_log_buffer, live, cur, buffer>>
    BY Zenon, <1>2 DEF Checkout, lists
  <2>3. b \in live
    BY Zenon, <1>2, <2>1, CheckoutStates DEF UsersKeepBuffers, Holds
  <2>4. \A c \in live \ {m_log_buffer.ptr} : m_state'[c].full
    <3>1. \A c \in Addrs : m_state[c].full => m_state'[c].full
      BY Zenon, <1>2, <2>1, CheckoutStates
    <3>2. live \subseteq Addrs
      BY Zenon DEF TypeOK
    <3>3. QED BY Zenon, <3>1, <3>2 DEF FullInv
  <2>5. \A c \in Addrs \ live : m_state'[c] = Empty
    BY <1>2, <2>1, <2>3, CheckoutStates DEF FullInv
  <2>6. \A c \in Addrs : c = cur => Users(c)' = {}
    BY Zenon, <1>2, CheckoutUsers DEF FullInv
  <2>7. pc'[t] = "LB_FULL" => b = m_log_buffer.ptr /\ ~m_state[b].full /\ m_state'[b].full
    BY Zenon, <1>2, <2>1, <2>3, CheckoutStates DEF FullInv
  <2>8. \A u \in Procs : pc'[u] = "LB_FULL" /\ u # t => pc[u] = "LB_FULL"
    BY Zenon, <1>2, StepMoves DEF Step, Moves
  <2>9. \A u \in Procs : pc'[u] = "LB_FULL" => m_state'[m_log_buffer.ptr].full
    <3>1. m_log_buffer.ptr \in Addrs
      BY Zenon DEF TypeOK
    <3>2. m_state[m_log_buffer.ptr].full => m_state'[m_log_buffer.ptr].full
      BY Zenon, <1>2, <2>1, <3>1, CheckoutStates
    <3>3. QED BY Zenon, <2>7, <2>8, <3>2 DEF FullInv, At
  <2>10. \A u, v \in Procs : pc'[u] = "LB_FULL" /\ pc'[v] = "LB_FULL" => u = v
    BY Zenon, <2>7, <2>8 DEF FullInv, At
  <2>11. OneReplaces'
    BY Zenon, <2>1, <2>2, <2>7, <2>8 DEF OneReplaces, At
  <2>12. QED BY Zenon, <2>2, <2>4, <2>5, <2>6, <2>9, <2>10, <2>11 DEF FullInv, At
<1>3. ASSUME NEW t \in Procs, Replace(t)
      PROVE  FullInv' /\ OneReplaces'
  <2>1. PICK b \in Addrs \ live : live' = live \union {b} /\ m_log_buffer' = [ptr |-> b, version |-> 0]
    BY Zenon, <1>3, AddrsAssumption DEF Replace
  <2>2. m_state' = m_state /\ cur' = cur /\ m_log_buffer'.ptr = b /\ At(t, "LB_FULL")
    BY Zenon, <1>3, <2>1 DEF Replace, lists
  <2>3. \A u \in Procs : ~At(u, "LB_FULL")'
    BY Zenon, <1>3 DEF Replace, At, Goto, TypeOK, FullInv
  <2>4. \A c \in live : m_state[c].full
    BY Zenon, <2>2 DEF FullInv
  <2>5. \A c \in Addrs : c = cur => Users(c)' = {}
    BY Zenon, <1>3, LeavesUsers DEF FullInv
  <2>6. QED BY Zenon, <2>1, <2>2, <2>3, <2>4, <2>5 DEF FullInv, OneReplaces
<1>4. ASSUME NEW t \in Procs, Checkin(t)
      PROVE  FullInv' /\ OneReplaces'
  <2>1. UNCHANGED <<m_log_buffer, live, cur>>
    BY Zenon, <1>4 DEF Checkin, lists
  <2>2. Moves(t) /\ pc'[t] # "LB_FULL"
    BY Zenon, <1>4, StepMoves, ReturnsTo DEF Step
  <2>3. \A u \in Procs : At(u, "LB_FULL")' => At(u, "LB_FULL") /\ buffer'[u] = buffer[u]
    BY Zenon, <2>2 DEF Moves, At
  <2>4. \A c \in Addrs : c = cur => Users(c)' = {}
    BY Zenon, <1>4, CheckinUsers DEF FullInv
  <2>5. buffer[t] \in live
    BY Zenon, <1>4, CheckinStates DEF UsersKeepBuffers, Writes
  <2>6. \A c \in Addrs : m_state'[c].full = m_state[c].full /\ (c \notin live => m_state'[c] = m_state[c])
    BY Zenon, <1>4, <2>5, CheckinStates
  <2>7. m_log_buffer.ptr \in Addrs /\ live \subseteq Addrs
    BY Zenon DEF TypeOK
  <2>8. QED BY Zenon, <2>1, <2>3, <2>4, <2>6, <2>7 DEF FullInv, OneReplaces
<1>5. CASE BackStep
  <2>1. m_log_buffer' = m_log_buffer /\ buffer' = buffer /\ \A u \in Procs : At(u, "LB_FULL")' <=> At(u, "LB_FULL")
    BY Zenon, <1>5, BackLocals DEF At
  <2>2. \A b \in Addrs : \/ m_state'[b] = m_state[b] /\ (b \in live' <=> b \in live)
                         \/ m_state'[b] = Empty /\ b \notin live'
    BY Zenon, <1>5, BackBuffers
  <2>3. m_state'[m_log_buffer.ptr] = m_state[m_log_buffer.ptr]
    <3>1. m_log_buffer.ptr \in Addrs /\ m_log_buffer.ptr \in live'
      BY Zenon, <2>1 DEF ListInv, TypeOK
    <3>2. QED BY Zenon, <2>2, <3>1
  <2>4. \A b \in Addrs : b = cur' => Users(b)' = {}
    <3>1. CASE PreprocTestReferences
      <4>1. ASSUME NEW b \in q, m_references[b] = 0
            PROVE  Users(b) = {}
        <5>1. b \in Addrs \ (flush_buffers \union {m_log_buffer.ptr}) /\ \A t \in Procs : At(t, "count") => buffer[t] # b
          BY DEF TypeOK, ListInv, HandInv, Listed, Taken, InHand, At
        <5>2. Cardinality(Users(b)) = 0
          BY Zenon, <4>1, <5>1 DEF CountInv, CountOf
        <5>3. QED BY Zenon, <5>2, Nobody, UsersAreProcs
      <4>2. \A b \in Addrs : b = cur' => b = cur \/ (b \in q /\ m_references[b] = 0)
        BY Zenon, <3>1 DEF PreprocTestReferences
      <4>3. QED BY Zenon, <1>5, <4>1, <4>2, BackUsers DEF FullInv
    <3>2. CASE cur' = cur \/ cur' = None
      BY Zenon, <1>5, <3>2, BackUsers, AddrsAssumption DEF FullInv
    <3>3. QED
      BY Zenon, <1>5, <3>1, <3>2 DEF BackStep, PreprocStep, PreprocTake, PreprocTestWriters, PreprocFormat, PreprocEnd,
           Wakeup, FlushStep, Flush, NotExpired, Expired, vars, lists
  <2>5. m_log_buffer.ptr \in Addrs /\ live' \subseteq Addrs
    BY Zenon DEF TypeOK
  <2>6. QED BY Zenon, <2>1, <2>2, <2>3, <2>4, <2>5 DEF FullInv, OneReplaces
<1>6. QED BY Zenon, <1>1, <1>2, <1>3, <1>4, <1>5 DEF Next, Step, BackStep, Procs
-----------------------------------------------------------------------------
(* Counts *)
LEMMA CountStep ==
  CountLaws /\ TypeOK /\ LocalInv /\ ListInv /\ HandInv /\ CountInv /\ FullInv /\ UsersKeepBuffers /\ OneReplaces /\ [Next]_vars
    => CountInv'
<1> SUFFICES ASSUME CountLaws, TypeOK, LocalInv, ListInv, HandInv, CountInv, FullInv, UsersKeepBuffers, OneReplaces, [Next]_vars,
                    NEW b \in Addrs
             PROVE  CountOf(b)'
  BY Zenon DEF CountInv
<1>1. /\ CountOf(b) /\ (b \in live \ Taken \/ Unused(b))
      /\ Cardinality(Users(b)) \in Nat /\ Cardinality(Writers(b)) \in Nat
      /\ Cardinality(Users(b)') \in Nat /\ Cardinality(Writers(b)') \in Nat
  BY Zenon, KeepForm, UsersAreProcs, ProcsFinite DEF CountInv
<1>2. m_state \in [Addrs -> [offset : Nat, num_entries : Nat, full : BOOLEAN, num_writers : Nat]] /\ m_references[b] \in Int
  BY Zenon DEF TypeOK
<1>3. ASSUME NEW t \in Procs, Log(t) \/ Queue(t) \/ Signal(t)
      PROVE  CountOf(b)'
  <2>1. Users(b)' = Users(b) /\ Writers(b)' = Writers(b) /\ Moves(t)
    BY Zenon, <1>3, QuietUsers, StepMoves DEF Step
  <2>2. UNCHANGED <<m_log_buffer, m_state, m_references, flush_buffers, old_version>>
    BY Zenon, <1>3 DEF Log, Queue, Signal, buffers, lists, locals
  <2>3. ~At(t, "count") /\ ~At(t, "count")'
    <3>1. CASE Log(t) \/ Queue(t)
      BY Zenon, <3>1 DEF TypeOK, Log, Queue, Goto, At
    <3>2. CASE Signal(t)
      BY Zenon, <3>2, ReturnsTo DEF Signal, At
    <3>3. QED BY Zenon, <1>3, <3>1, <3>2
  <2>4. \A u \in Procs : At(u, "count")' <=> At(u, "count")
    BY Zenon, <2>1, <2>3 DEF Moves, At
  <2>5. \A u \in Procs : At(u, "count") => buffer'[u] = buffer[u]
    BY Zenon, <2>1, <2>3 DEF Moves
  <2>6. QED BY Zenon, <1>1, <2>1, <2>2, <2>4, <2>5 DEF CountOf
<1>4. ASSUME NEW t \in Procs, Acquire(t)
      PROVE  CountOf(b)'
  <2>1. /\ m_log_buffer'.ptr = m_log_buffer.ptr /\ m_log_buffer'.version = m_log_buffer.version + 1
        /\ UNCHANGED <<m_state, m_references, flush_buffers, old_version>>
    BY Zenon, <1>4 DEF Acquire, TypeOK, lists
  <2>2. \A u \in Procs : (At(u, "count")' <=> At(u, "count")) /\ (At(u, "count") => buffer'[u] = buffer[u])
    BY Zenon, <1>4 DEF Acquire, TypeOK, Goto, At
  <2>3. At(t, "acquire")
    BY Zenon, <1>4 DEF Acquire
  <2>4. CASE b = m_log_buffer.ptr
    <3>1. \A u \in Procs : ~(At(u, "count") /\ buffer[u] = b)
      BY Zenon, <2>4 DEF HandInv, InHand, At
    <3>2. b \notin flush_buffers
      BY Zenon, <2>4 DEF ListInv, Listed, Taken
    <3>3. Cardinality(Users(b)') = Cardinality(Users(b)) + 1 /\ Writers(b)' = Writers(b)
      BY Zenon, <1>4, <2>4, AcquireUsers
    <3>4. QED BY Zenon, <1>1, <2>1, <2>2, <2>4, <3>1, <3>2, <3>3 DEF CountOf
  <2>5. CASE b # m_log_buffer.ptr
    <3>1. Users(b)' = Users(b) /\ Writers(b)' = Writers(b)
      BY Zenon, <1>4, <2>5, AcquireUsers
    <3>2. QED BY Zenon, <1>1, <2>1, <2>2, <2>5, <3>1 DEF CountOf
  <2>6. QED BY Zenon, <2>4, <2>5
<1>5. ASSUME NEW t \in Procs, Checkout(t)
      PROVE  CountOf(b)'
  <2>1. UNCHANGED <<m_log_buffer, m_references, flush_buffers, old_version, buffer>>
    BY Zenon, <1>5 DEF Checkout, lists
  <2>2. \A u \in Procs : At(u, "count")' <=> At(u, "count")
    <3>1. pc[t] # "count" /\ pc'[t] # "count" /\ Moves(t)
      BY Zenon, <1>5, CheckoutStates, StepMoves DEF Step
    <3>2. QED BY Zenon, <3>1 DEF At, Moves
  <2>3. Users(b)' = Users(b)
    BY Zenon, <1>5, CheckoutUsers
  <2>4. m_state'[b].num_writers = Cardinality(Writers(b)')
    <3>1. m_state[b].num_writers = Cardinality(Writers(b))
      BY Zenon, <1>1 DEF CountOf
    <3>2. CASE b = buffer[t] /\ pc'[t] = "LB_OK" /\ t \in Threads
      <4>1. Cardinality(Writers(b)') = Cardinality(Writers(b)) + 1
        BY Zenon, <1>5, <3>2, CheckoutUsers
      <4>2. m_state'[b].num_writers = m_state[b].num_writers + 1
        BY Zenon, <1>5, <3>2, CheckoutStates
      <4>3. QED BY Zenon, <3>1, <4>1, <4>2
    <3>3. CASE ~(b = buffer[t] /\ pc'[t] = "LB_OK" /\ t \in Threads)
      <4>1. Writers(b)' = Writers(b)
        BY Zenon, <1>5, <3>3, CheckoutUsers
      <4>2. m_state'[b].num_writers = m_state[b].num_writers
        BY Zenon, <1>5, <3>3, CheckoutStates
      <4>3. QED BY Zenon, <3>1, <4>1, <4>2
    <3>4. QED BY Zenon, <3>2, <3>3
  <2>5. QED BY Zenon, <1>1, <2>1, <2>2, <2>3, <2>4 DEF CountOf
<1>6. ASSUME NEW t \in Procs, Replace(t)
      PROVE  CountOf(b)'
  <2>1. PICK n \in Addrs \ live : live' = live \union {n} /\ m_log_buffer' = [ptr |-> n, version |-> 0]
    BY Zenon, <1>6, AddrsAssumption DEF Replace
  <2>2. /\ m_log_buffer'.ptr = n /\ m_log_buffer'.version = 0
        /\ UNCHANGED <<m_state, m_references, flush_buffers, buffer>>
        /\ old_version' = [old_version EXCEPT ![t] = m_log_buffer.version]
        /\ buffer[t] = m_log_buffer.ptr /\ pc[t] = "LB_FULL"
    BY Zenon, <1>6, <2>1 DEF Replace, At, lists
  <2>3. \A u \in Procs : At(u, "count")' <=> At(u, "count") \/ u = t
    BY Zenon, <1>6 DEF Replace, At, Goto, TypeOK
  <2>4. old_version'[t] = m_log_buffer.version /\ \A u \in Procs : u # t => old_version'[u] = old_version[u]
    BY Zenon, <2>2 DEF TypeOK
  <2>5. m_log_buffer.version \in Nat /\ n # m_log_buffer.ptr /\ n \notin flush_buffers
    BY Zenon, <2>1 DEF TypeOK, ListInv, Listed, Taken
  <2>6. CASE b = m_log_buffer.ptr
    <3>1. Cardinality(Users(b)) = Cardinality(Users(b)') + 1 /\ Writers(b)' = Writers(b)
      BY Zenon, <1>6, <2>2, <2>6, LeavesUsers
    <3>2. (\A u \in Procs : ~(At(u, "count") /\ buffer[u] = b)) /\ b \notin flush_buffers
      BY Zenon, <2>6 DEF HandInv, ListInv, Listed, Taken, InHand, At
    <3>3. /\ m_log_buffer.version = Cardinality(Users(b)) /\ m_references[b] = 0
          /\ m_state[b].num_writers = Cardinality(Writers(b))
      BY Zenon, <1>1, <2>6 DEF CountOf
    <3>4. \A u \in Procs : At(u, "count")' /\ buffer'[u] = b =>
            m_references'[b] + old_version'[u] - 1 = Cardinality(Users(b)')
      <4>1. SUFFICES ASSUME NEW u \in Procs, At(u, "count")', buffer'[u] = b
                     PROVE  m_references'[b] + old_version'[u] - 1 = Cardinality(Users(b)')
        BY Zenon
      <4>2. buffer[u] = b
        BY Zenon, <2>2, <4>1
      <4>3. u = t
        BY Zenon, <2>3, <3>2, <4>1, <4>2
      <4>4. m_references'[b] = 0 /\ old_version'[u] = Cardinality(Users(b))
        BY Zenon, <2>2, <2>4, <3>3, <4>3, <2>6
      <4>5. Cardinality(Users(b)) \in Nat /\ Cardinality(Users(b)') \in Nat
        BY Zenon, <1>1
      <4>6. QED BY <3>1, <4>4, <4>5
    <3>5. b # m_log_buffer'.ptr /\ b \notin flush_buffers' /\ At(t, "count")' /\ buffer'[t] = b
      BY Zenon, <2>2, <2>3, <2>5, <2>6, <3>2
    <3>6. QED BY Zenon, <2>2, <3>1, <3>3, <3>4, <3>5 DEF CountOf
  <2>7. CASE b # m_log_buffer.ptr
    <3>1. Users(b)' = Users(b) /\ Writers(b)' = Writers(b)
      BY Zenon, <1>6, <2>2, <2>7, LeavesUsers
    <3>2. b = n => Users(b) = {} /\ Cardinality(Users(b)) = 0 /\ \A u \in Procs : At(u, "count") => buffer[u] # b
      BY Zenon, <1>1, <2>1, Nobody, UsersAreProcs DEF Unused, HandInv, InHand, At
    <3>3. CASE b = n
      <4>1. m_references[b] = 0
        BY Zenon, <1>1, <2>5, <2>7, <3>2, <3>3 DEF CountOf
      <4>2. QED BY Zenon, <1>1, <2>2, <2>3, <2>5, <2>7, <3>1, <3>2, <3>3, <4>1 DEF CountOf
    <3>4. CASE b # n
      BY ZenonT(30), <1>1, <2>2, <2>3, <2>4, <2>7, <3>1, <3>4 DEF CountOf
    <3>5. QED BY Zenon, <3>3, <3>4
  <2>8. QED BY Zenon, <2>6, <2>7
<1>7. ASSUME NEW t \in Procs, CountUsers(t)
      PROVE  CountOf(b)'
  <2>1. /\ UNCHANGED <<m_log_buffer, m_state, flush_buffers, buffer>>
        /\ m_references' = [m_references EXCEPT ![buffer[t]] = m_references[buffer[t]] + old_version[t] - 1]
        /\ old_version' = [old_version EXCEPT ![t] = 0] /\ At(t, "count")
    BY Zenon, <1>7 DEF CountUsers, lists
  <2>2. \A u \in Procs : At(u, "count")' <=> At(u, "count") /\ u # t
    BY Zenon, <1>7 DEF CountUsers, At, Goto, TypeOK
  <2>3. \A u \in Procs : u # t => old_version'[u] = old_version[u]
    BY Zenon, <2>1 DEF TypeOK
  <2>4. Users(b)' = Users(b) /\ Writers(b)' = Writers(b)
    BY Zenon, <1>7, QuietUsers
  <2>5. CASE b = buffer[t]
    <3>1. m_references'[b] = Cardinality(Users(b))
      BY Zenon, <1>1, <2>1, <2>5 DEF CountOf, TypeOK
    <3>2. b # m_log_buffer.ptr /\ b \notin flush_buffers /\ \A u \in Procs : At(u, "count") /\ u # t => buffer[u] # b
      BY Zenon, <2>1, <2>5 DEF HandInv, Listed, Taken, InHand, At
    <3>3. QED BY Zenon, <1>1, <2>1, <2>2, <2>4, <3>1, <3>2 DEF CountOf
  <2>6. CASE b # buffer[t]
    <3>1. m_references'[b] = m_references[b]
      BY Zenon, <2>1, <2>6 DEF TypeOK
    <3>2. QED BY Zenon, <1>1, <2>1, <2>2, <2>3, <2>4, <2>6, <3>1 DEF CountOf
  <2>7. QED BY Zenon, <2>5, <2>6
<1>8. ASSUME NEW t \in Procs, Release(t)
      PROVE  CountOf(b)'
  <2>1. /\ UNCHANGED <<m_state, flush_buffers, old_version>> /\ m_log_buffer'.ptr = m_log_buffer.ptr
        /\ m_log_buffer.ptr = buffer[t] => /\ m_log_buffer'.version = m_log_buffer.version - 1
                                           /\ m_references' = m_references
        /\ m_log_buffer.ptr # buffer[t] => /\ m_log_buffer' = m_log_buffer
                                           /\ m_references' = [m_references EXCEPT ![buffer[t]] = m_references[buffer[t]] - 1]
    BY Zenon, <1>8 DEF Release, TypeOK, lists
  <2>2. \A u \in Procs : (At(u, "count")' <=> At(u, "count")) /\ (At(u, "count") => buffer'[u] = buffer[u])
    <3>1. pc[t] # "count" /\ pc'[t] # "count" /\ Moves(t)
      BY Zenon, <1>8, ReleasesTo, StepMoves DEF Step
    <3>2. QED BY Zenon, <3>1 DEF At, Moves
  <2>3. CASE b = buffer[t]
    <3>1. Cardinality(Users(b)) = Cardinality(Users(b)') + 1 /\ t \in Users(b) /\ Writers(b)' = Writers(b)
      BY Zenon, <1>8, <2>3, LeavesUsers
    <3>2. b \notin flush_buffers
      BY Zenon, <1>1, <3>1 DEF Unused, Taken
    <3>3. CASE b = m_log_buffer.ptr
      <4>1. \A u \in Procs : ~(At(u, "count") /\ buffer[u] = b)
        BY Zenon, <3>3 DEF HandInv, InHand, At
      <4>2. m_log_buffer.version = Cardinality(Users(b)) /\ m_references[b] = 0
        BY Zenon, <1>1, <3>3 DEF CountOf
      <4>3. m_log_buffer'.version = Cardinality(Users(b)') /\ m_references'[b] = 0
        BY <1>1, <2>1, <2>3, <3>1, <3>3, <4>2
      <4>4. m_state'[b].num_writers = Cardinality(Writers(b)')
        BY Zenon, <1>1, <2>1, <3>1 DEF CountOf
      <4>5. \A u \in Procs : ~(At(u, "count")' /\ buffer'[u] = b)
        BY Zenon, <2>2, <4>1
      <4>6. b \notin flush_buffers' /\ b = m_log_buffer'.ptr
        BY Zenon, <2>1, <3>2, <3>3
      <4>7. QED BY Zenon, <4>3, <4>4, <4>5, <4>6 DEF CountOf
    <3>4. CASE b # m_log_buffer.ptr
      <4>1. m_references'[b] = m_references[b] - 1
        BY Zenon, <2>1, <2>3, <3>4 DEF TypeOK
      <4>2. \A u \in Procs : old_version[u] \in Nat
        BY Zenon DEF TypeOK
      <4>3. \A u \in Procs : At(u, "count")' /\ buffer'[u] = b =>
              m_references'[b] + old_version'[u] - 1 = Cardinality(Users(b)')
        <5>1. SUFFICES ASSUME NEW u \in Procs, At(u, "count"), buffer[u] = b
                       PROVE  m_references'[b] + old_version[u] - 1 = Cardinality(Users(b)')
          BY Zenon, <2>1, <2>2
        <5>2. m_references[b] + old_version[u] - 1 = Cardinality(Users(b))
          BY Zenon, <1>1, <5>1 DEF CountOf
        <5>3. QED BY <1>1, <1>2, <3>1, <4>1, <4>2, <5>2
      <4>4. ASSUME \A u \in Procs : At(u, "count")' => buffer'[u] # b
            PROVE  m_references'[b] = Cardinality(Users(b)')
        <5>1. m_references[b] = Cardinality(Users(b))
          BY Zenon, <1>1, <2>2, <3>2, <3>4, <4>4 DEF CountOf
        <5>2. QED BY <1>1, <1>2, <3>1, <4>1, <5>1
      <4>5. m_state'[b].num_writers = Cardinality(Writers(b)')
        BY Zenon, <1>1, <2>1, <3>1 DEF CountOf
      <4>6. b \notin flush_buffers' /\ b # m_log_buffer'.ptr
        BY Zenon, <2>1, <3>2, <3>4
      <4>7. QED BY Zenon, <4>3, <4>4, <4>5, <4>6 DEF CountOf
    <3>5. QED BY Zenon, <3>3, <3>4
  <2>4. CASE b # buffer[t]
    <3>1. Users(b)' = Users(b) /\ Writers(b)' = Writers(b)
      BY Zenon, <1>8, <2>4, LeavesUsers
    <3>2. m_references'[b] = m_references[b] /\ (b = m_log_buffer.ptr => m_log_buffer'.version = m_log_buffer.version)
      BY Zenon, <2>1, <2>4 DEF TypeOK
    <3>3. QED BY Zenon, <1>1, <2>1, <2>2, <3>1, <3>2 DEF CountOf
  <2>5. QED BY Zenon, <2>3, <2>4
<1>9. ASSUME NEW t \in Procs, Checkin(t)
      PROVE  CountOf(b)'
  <2>1. UNCHANGED <<m_log_buffer, m_references, flush_buffers, old_version>>
    BY Zenon, <1>9 DEF Checkin, lists
  <2>2. \A u \in Procs : (At(u, "count")' <=> At(u, "count")) /\ (At(u, "count") => buffer'[u] = buffer[u])
    <3>1. pc[t] # "count" /\ pc'[t] # "count" /\ Moves(t)
      BY Zenon, <1>9, CheckinStates, ReturnsTo, StepMoves DEF Step
    <3>2. QED BY Zenon, <3>1 DEF At, Moves
  <2>3. Users(b)' = Users(b)
    BY Zenon, <1>9, CheckinUsers
  <2>4. m_state'[b].num_writers = Cardinality(Writers(b)')
    <3>1. m_state[b].num_writers = Cardinality(Writers(b))
      BY Zenon, <1>1 DEF CountOf
    <3>2. CASE b = buffer[t]
      BY <1>1, <1>9, <3>1, <3>2, CheckinUsers, CheckinStates
    <3>3. CASE b # buffer[t]
      BY Zenon, <1>9, <3>1, <3>3, CheckinUsers, CheckinStates
    <3>4. QED BY Zenon, <3>2, <3>3
  <2>5. QED BY Zenon, <1>1, <2>1, <2>2, <2>3, <2>4 DEF CountOf
<1>10. CASE BackStep
  <2>1. /\ UNCHANGED <<m_log_buffer, buffer, old_version>>
        /\ \A u \in Procs : At(u, "count")' <=> At(u, "count")
        /\ Users(b)' = Users(b) /\ Writers(b)' = Writers(b)
    BY Zenon, <1>10, BackLocals, BackUsers DEF At
  <2>2. m_state'[b].num_writers = Cardinality(Writers(b)')
    <3>1. CASE m_state'[b] = m_state[b]
      BY Zenon, <1>1, <2>1, <3>1 DEF CountOf
    <3>2. CASE m_state'[b] = Empty /\ Unused(b)
      <4>1. Cardinality(Writers(b)) = 0
        BY Zenon, <3>2, Nobody, UsersAreProcs DEF Unused
      <4>2. QED BY <2>1, <3>2, <4>1 DEF Empty
    <3>3. QED BY Zenon, <1>10, <3>1, <3>2, BackBuffers
  <2>3. CASE m_references'[b] = m_references[b] /\ (b \in flush_buffers' <=> b \in flush_buffers)
    BY Zenon, <1>1, <2>1, <2>2, <2>3 DEF CountOf
  <2>4. b \in new_q \union flush_buffers => /\ b # m_log_buffer.ptr /\ Cardinality(Users(b)) = 0
                                            /\ \A u \in Procs : At(u, "count") => buffer[u] # b
    BY Zenon, <1>1, Nobody, UsersAreProcs DEF Unused, Taken, ListInv, HandInv, Listed, InHand, At
  <2>5. CASE b \in new_q /\ b \in flush_buffers' /\ m_references'[b] = m_references[b] + 1
    <3>1. b \notin flush_buffers
      BY Zenon, <2>5 DEF ListInv
    <3>2. m_references[b] = 0
      BY Zenon, <1>1, <2>4, <2>5, <3>1 DEF CountOf
    <3>3. QED BY <2>1, <2>2, <2>4, <2>5, <3>2 DEF CountOf
  <2>6. CASE b \in flush_buffers /\ flush_buffers' = {} /\ m_references'[b] = m_references[b] - 1
    <3>1. m_references[b] = 1
      BY Zenon, <1>1, <2>6 DEF CountOf
    <3>2. QED BY <2>1, <2>2, <2>4, <2>6, <3>1 DEF CountOf
  <2>7. \/ m_references'[b] = m_references[b] /\ (b \in flush_buffers' <=> b \in flush_buffers)
        \/ b \in new_q /\ b \in flush_buffers' /\ m_references'[b] = m_references[b] + 1
        \/ b \in flush_buffers /\ flush_buffers' = {} /\ m_references'[b] = m_references[b] - 1
    <3>1. CASE PreprocFormat
      <4>1. PICK a \in new_q :
              \/ flush_buffers' = flush_buffers \union {a} /\ m_references' = [m_references EXCEPT ![a] = @ + 1]
              \/ flush_buffers' = flush_buffers /\ m_references' = m_references
        BY Zenon, <3>1 DEF PreprocFormat
      <4>2. m_references \in [Addrs -> Int] /\ a \in Addrs
        BY Zenon DEF TypeOK
      <4>3. CASE flush_buffers' = flush_buffers /\ m_references' = m_references
        BY Zenon, <4>3
      <4>4. CASE flush_buffers' = flush_buffers \union {a} /\ m_references' = [m_references EXCEPT ![a] = @ + 1]
        <5>1. m_references'[a] = m_references[a] + 1 /\ (b # a => m_references'[b] = m_references[b])
          BY Zenon, <4>2, <4>4
        <5>2. CASE b = a
          BY Zenon, <4>4, <5>1, <5>2
        <5>3. CASE b # a
          BY Zenon, <4>4, <5>1, <5>3
        <5>4. QED BY Zenon, <5>2, <5>3
      <4>5. QED BY Zenon, <4>1, <4>3, <4>4
    <3>2. CASE Flush
      BY Zenon, <3>2 DEF Flush, TypeOK
    <3>3. CASE ~PreprocFormat /\ ~Flush
      BY Zenon, <1>10, <3>3 DEF BackStep, PreprocStep, PreprocTake, PreprocTestReferences, PreprocTestWriters, PreprocEnd,
           Wakeup, FlushStep, NotExpired, Expired, vars, buffers, lists
    <3>4. QED BY Zenon, <3>1, <3>2, <3>3
  <2>8. QED BY Zenon, <2>3, <2>5, <2>6, <2>7
<1>11. QED BY Zenon, <1>3, <1>4, <1>5, <1>6, <1>7, <1>8, <1>9, <1>10 DEF Next, Step, BackStep, Procs
-----------------------------------------------------------------------------
LEMMA CountFacts ==
  ASSUME CountLaws, TypeOK, LocalInv, CountInv, NEW t \in Procs
  PROVE  /\ pc[t] \in {"LB_OK", "LB_RETRY", "LB_BUFFER_TOO_SMALL"} /\ m_log_buffer.ptr = buffer[t]
              => m_log_buffer.version >= 1
         /\ pc[t] = "marshal" => m_state[buffer[t]].num_writers >= 1
<1>1. ASSUME pc[t] \in {"LB_OK", "LB_RETRY", "LB_BUFFER_TOO_SMALL"}, m_log_buffer.ptr = buffer[t]
      PROVE  m_log_buffer.version >= 1
  <2>1. t \in Users(buffer[t]) /\ buffer[t] \in Addrs
    BY Zenon, <1>1 DEF Users, Holds, LocalInv
  <2>2. Cardinality(Users(buffer[t])) >= 1
    BY Zenon, <2>1, Somebody, UsersAreProcs
  <2>3. QED BY Zenon, <1>1, <2>1, <2>2 DEF CountInv, CountOf
<1>2. ASSUME pc[t] = "marshal"
      PROVE  m_state[buffer[t]].num_writers >= 1
  <2>1. t \in Writers(buffer[t]) /\ buffer[t] \in Addrs
    BY Zenon, <1>2 DEF Writers, Writes, LocalInv, Procs
  <2>2. Cardinality(Writers(buffer[t])) >= 1
    BY Zenon, <2>1, Somebody, UsersAreProcs
  <2>3. QED BY Zenon, <2>1, <2>2 DEF CountInv, CountOf
<1>3. QED BY Zenon, <1>1, <1>2

LEMMA TypeStep == CountLaws /\ TypeOK /\ LocalInv /\ ListInv /\ CountInv /\ [Next]_vars => TypeOK'
<1> SUFFICES ASSUME CountLaws, TypeOK, LocalInv, ListInv, CountInv, [Next]_vars
             PROVE  TypeOK'
  BY Zenon
<1> USE SizesAssumption
<1>1. ASSUME NEW t \in Threads, Log(t)
      PROVE  TypeOK'
  BY <1>1 DEF TypeOK, Log, Goto, At, buffers, lists, signals, Procs
<1>2. ASSUME NEW t \in Procs, Acquire(t)
      PROVE  TypeOK'
  BY <1>2 DEF TypeOK, Acquire, Goto, At, lists, signals
<1>3. ASSUME NEW t \in Procs, Checkout(t)
      PROVE  TypeOK'
  <2>1. buffer[t] \in Addrs /\ m_state[buffer[t]] \in [offset : Nat, num_entries : Nat, full : BOOLEAN, num_writers : Nat]
    BY Zenon, <1>3 DEF TypeOK, Checkout, At, LocalInv
  <2>2. CheckoutResult(t, m_state[buffer[t]]) \in {"LB_OK", "LB_FULL", "LB_RETRY", "LB_BUFFER_TOO_SMALL"}
    BY Zenon DEF CheckoutResult
  <2>3. pc' \in [Procs -> {"idle", "acquire", "checkout", "LB_OK", "LB_FULL", "LB_RETRY", "LB_BUFFER_TOO_SMALL",
                       "count", "queue", "signal", "marshal", "periodic", "wait"}]
    BY Zenon, <1>3, <2>2 DEF TypeOK, Checkout, Goto
  <2>4. m_state' \in [Addrs -> [offset : Nat, num_entries : Nat, full : BOOLEAN, num_writers : Nat]]
    <3>1. Reserve(m_state[buffer[t]], size[t]) \in [offset : Nat, num_entries : Nat, full : BOOLEAN, num_writers : Nat]
      BY Zenon, <2>1, ReserveState DEF TypeOK
    <3>2. [m_state[buffer[t]] EXCEPT !.full = TRUE] \in [offset : Nat, num_entries : Nat, full : BOOLEAN, num_writers : Nat]
      BY Zenon, <2>1
    <3>3. m_state \in [Addrs -> [offset : Nat, num_entries : Nat, full : BOOLEAN, num_writers : Nat]]
      BY Zenon DEF TypeOK
    <3>4. QED BY Zenon, <1>3, <2>1, <3>1, <3>2, <3>3 DEF Checkout
  <2>5. offset' \in [Procs -> Nat]
    BY Zenon, <1>3, <2>1 DEF TypeOK, Checkout
  <2>6. content' \in [Addrs -> SUBSET Entries]
    <3>1. t \in Threads => Entry(t) \in Entries
      BY Zenon, <1>3 DEF LocalInv, Entry, Entries, Checkout, At
    <3>2. QED BY <1>3, <2>1, <3>1 DEF TypeOK, Checkout
  <2>7. QED BY Zenon, <1>3, <2>3, <2>4, <2>5, <2>6 DEF TypeOK, Checkout, lists, signals
<1>4. ASSUME NEW t \in Procs, Replace(t)
      PROVE  TypeOK'
  <2>1. Alloc(Addrs \ live) \subseteq Addrs \ live
    BY Zenon, AddrsAssumption
  <2>2. PICK b \in Addrs \ live : live' = live \union {b} /\ m_log_buffer' = [ptr |-> b, version |-> 0]
    BY Zenon, <1>4, <2>1 DEF Replace
  <2>3. old_version' \in [Procs -> Nat]
    BY Zenon, <1>4 DEF TypeOK, Replace
  <2>4. QED BY Zenon, <1>4, <2>2, <2>3 DEF TypeOK, Replace, Goto, lists, signals
<1>5. ASSUME NEW t \in Procs, CountUsers(t)
      PROVE  TypeOK'
  <2>1. buffer[t] \in Addrs
    BY Zenon, <1>5 DEF CountUsers, At, LocalInv
  <2>2. QED BY <1>5, <2>1 DEF TypeOK, CountUsers, Goto, At, lists, signals
<1>6. ASSUME NEW t \in Procs, Queue(t)
      PROVE  TypeOK'
  <2>1. buffer[t] \in Addrs
    BY Zenon, <1>6 DEF Queue, At, LocalInv
  <2>2. QED BY Zenon, <1>6, <2>1 DEF TypeOK, Queue, Goto, At, buffers, signals, locals
<1>7. ASSUME NEW t \in Procs, Signal(t)
      PROVE  TypeOK'
  <2>1. /\ pc' \in [Procs -> {"idle", "acquire", "checkout", "LB_OK", "LB_FULL", "LB_RETRY", "LB_BUFFER_TOO_SMALL",
                       "count", "queue", "signal", "marshal", "periodic", "wait"}]
        /\ buffer' \in [Procs -> Addrs \union {None}]
        /\ size' \in [Procs -> Nat] /\ offset' \in [Procs -> Nat]
    BY ZenonT(30), <1>7, ReturnTypes DEF TypeOK, Signal
  <2>2. QED BY <1>7, <2>1 DEF TypeOK, Signal, buffers
<1>8. ASSUME NEW t \in Procs, Release(t)
      PROVE  TypeOK'
  <2>1. buffer[t] \in Addrs
    BY Zenon, <1>8 DEF Release, LocalInv
  <2>2. m_log_buffer' \in [ptr : Addrs, version : Nat] /\ m_references' \in [Addrs -> Int]
    BY <1>8, <2>1, CountFacts DEF TypeOK, Release
  <2>3. /\ pc' \in [Procs -> {"idle", "acquire", "checkout", "LB_OK", "LB_FULL", "LB_RETRY", "LB_BUFFER_TOO_SMALL",
                       "count", "queue", "signal", "marshal", "periodic", "wait"}]
        /\ buffer' \in [Procs -> Addrs \union {None}]
        /\ size' \in [Procs -> Nat] /\ offset' \in [Procs -> Nat]
    <3>1. CASE Return(t) \/ Retry(t)
      BY Zenon, <3>1, ReturnTypes DEF TypeOK
    <3>2. CASE Goto(t, "marshal") /\ UNCHANGED <<buffer, size, offset>>
      BY Zenon, <3>2 DEF TypeOK, Goto
    <3>3. QED BY Zenon, <1>8, <3>1, <3>2 DEF Release
  <2>4. QED BY Zenon, <1>8, <2>2, <2>3 DEF TypeOK, Release, lists, signals
<1>9. ASSUME NEW t \in Procs, Checkin(t)
      PROVE  TypeOK'
  <2>1. buffer[t] \in Addrs /\ m_state[buffer[t]].num_writers >= 1
    BY Zenon, <1>9, CountFacts DEF Checkin, At, LocalInv
  <2>2. m_state' \in [Addrs -> [offset : Nat, num_entries : Nat, full : BOOLEAN, num_writers : Nat]]
    BY <1>9, <2>1 DEF TypeOK, Checkin
  <2>3. Return(t)
    BY Zenon, <1>9 DEF Checkin
  <2>4. /\ pc' \in [Procs -> {"idle", "acquire", "checkout", "LB_OK", "LB_FULL", "LB_RETRY", "LB_BUFFER_TOO_SMALL",
                       "count", "queue", "signal", "marshal", "periodic", "wait"}]
        /\ buffer' \in [Procs -> Addrs \union {None}]
        /\ size' \in [Procs -> Nat] /\ offset' \in [Procs -> Nat]
    BY Zenon, <2>3, ReturnTypes DEF TypeOK
  <2>5. QED BY ZenonT(30), <1>9, <2>2, <2>4 DEF TypeOK, Checkin, lists, signals
<1>10. CASE PreprocTake
  BY Zenon, <1>10 DEF TypeOK, PreprocTake, Preproc, buffers, locals
<1>11. CASE PreprocTestReferences
  BY <1>11 DEF TypeOK, PreprocTestReferences, Preproc, buffers, locals, signals
<1>12. CASE PreprocTestWriters
  <2>1. cur \in Addrs
    BY Zenon, <1>12 DEF TypeOK, ListInv, PreprocTestWriters, Preproc
  <2>2. QED BY <1>12, <2>1, DeleteTypes DEF TypeOK, PreprocTestWriters, Preproc, locals, signals
<1>13. CASE PreprocFormat
  BY <1>13, DeleteTypes DEF TypeOK, PreprocFormat, Preproc, locals
<1>14. CASE PreprocEnd
  BY Zenon, <1>14 DEF TypeOK, PreprocEnd, Preproc, buffers, locals, signals
<1>15. CASE Wakeup
  BY Zenon, <1>15 DEF TypeOK, Wakeup, buffers, lists, locals
<1>16. CASE Flush
  <2>1. gone' \subseteq Entries
    BY <1>16 DEF TypeOK, Flush
  <2>2. m_references' \in [Addrs -> Int]
    BY <1>16 DEF TypeOK, Flush
  <2>3. pc' \in [Procs -> {"idle", "acquire", "checkout", "LB_OK", "LB_FULL", "LB_RETRY", "LB_BUFFER_TOO_SMALL",
                       "count", "queue", "signal", "marshal", "periodic", "wait"}]
    BY Zenon, <1>16 DEF TypeOK, Flush, Goto
  <2>4. /\ live' \subseteq Addrs
        /\ m_state' \in [Addrs -> [offset : Nat, num_entries : Nat, full : BOOLEAN, num_writers : Nat]]
        /\ content' \in [Addrs -> SUBSET Entries]
    BY Zenon, <1>16, DeleteTypes DEF Flush
  <2>5. QED BY Zenon, <1>16, <2>1, <2>2, <2>3, <2>4 DEF TypeOK, Flush, locals
<1>17. CASE NotExpired \/ Expired
  BY Zenon, <1>17 DEF TypeOK, NotExpired, Expired, Goto, buffers, lists, signals, locals
<1>18. CASE UNCHANGED vars
  BY Zenon, <1>18 DEF TypeOK, vars, buffers, lists, signals, locals
<1>19. QED
  BY Zenon, <1>1, <1>2, <1>3, <1>4, <1>5, <1>6, <1>7, <1>8, <1>9, <1>10, <1>11, <1>12, <1>13, <1>14, <1>15, <1>16, <1>17, <1>18
  DEF Next, Step, PreprocStep, FlushStep
-----------------------------------------------------------------------------
LEMMA LocalStep == TypeOK /\ LocalInv /\ [Next]_vars => LocalInv'
<1> SUFFICES ASSUME TypeOK, LocalInv, [Next]_vars
             PROVE  LocalInv'
  BY Zenon
<1> USE ProcsAssumption, SizesAssumption DEF Procs
<1>1. ASSUME NEW t \in Threads, Log(t)
      PROVE  LocalInv'
  BY <1>1 DEF LocalInv, TypeOK, Log, Goto, At
<1>2. ASSUME NEW t \in Procs, Acquire(t)
      PROVE  LocalInv'
  BY Zenon, <1>2 DEF LocalInv, TypeOK, Acquire, Goto, At
<1>3. ASSUME NEW t \in Procs, Checkout(t)
      PROVE  LocalInv'
  <2>1. CheckoutResult(t, m_state[buffer[t]]) \in {"LB_OK", "LB_FULL", "LB_RETRY", "LB_BUFFER_TOO_SMALL"}
    BY Zenon DEF CheckoutResult
  <2>2. QED BY Zenon, <1>3, <2>1 DEF LocalInv, TypeOK, Checkout, Goto, At
<1>4. ASSUME NEW t \in Procs, Replace(t) \/ CountUsers(t)
      PROVE  LocalInv'
  BY Zenon, <1>4 DEF LocalInv, TypeOK, Replace, CountUsers, Goto, At
<1>5. ASSUME NEW t \in Procs, Queue(t)
      PROVE  LocalInv'
  BY Zenon, <1>5 DEF LocalInv, TypeOK, Queue, Goto, At, locals
<1>6. ASSUME NEW t \in Procs, Signal(t) \/ Checkin(t)
      PROVE  LocalInv'
  <2>1. count' = count /\ pc[t] # "idle"
    BY Zenon, <1>6 DEF Signal, Checkin, At
  <2>2. QED BY <1>6, <2>1, ReturnsTo DEF LocalInv, TypeOK
<1>7. ASSUME NEW t \in Procs, Release(t)
      PROVE  LocalInv'
  <2>1. count' = count
    BY Zenon, <1>7 DEF Release
  <2>2. QED BY ZenonT(30), <1>7, <2>1, ReleasesTo DEF LocalInv, TypeOK
<1>8. CASE PreprocStep \/ Wakeup
  BY Zenon, <1>8 DEF LocalInv, PreprocStep, PreprocTake, PreprocTestReferences, PreprocTestWriters, PreprocFormat,
              PreprocEnd, Wakeup, locals
<1>9. CASE FlushStep
  BY ZenonT(30), <1>9 DEF LocalInv, TypeOK, FlushStep, Flush, NotExpired, Expired, Goto, At, locals
<1>10. CASE UNCHANGED vars
  BY Zenon, <1>10 DEF LocalInv, vars, locals
<1>11. QED
  BY Zenon, <1>1, <1>2, <1>3, <1>4, <1>5, <1>6, <1>7, <1>8, <1>9, <1>10 DEF Next, Step
-----------------------------------------------------------------------------
(* Every buffer is in one place *)
LEMMA PlaceStep == TypeOK /\ LocalInv /\ ListInv /\ HandInv /\ [Next]_vars => ListInv' /\ HandInv'
<1> SUFFICES ASSUME TypeOK, LocalInv, ListInv, HandInv, [Next]_vars
             PROVE  ListInv' /\ HandInv'
  BY Zenon
<1>1. ASSUME UNCHANGED <<m_log_buffer.ptr, live, write_list, pp, cur, q, new_q, flush_buffers>>,
             NEW t \in Procs, Moves(t), InHand(t)' => InHand(t) /\ buffer'[t] = buffer[t]
      PROVE  ListInv' /\ HandInv'
  <2>1. Listed' = Listed /\ Taken' = Taken
    BY Zenon, <1>1 DEF Listed, Taken
  <2>2. ListInv'
    BY Zenon, <1>1, <2>1 DEF ListInv
  <2>3. \A u \in Procs : InHand(u)' => InHand(u) /\ buffer'[u] = buffer[u]
    BY Zenon, <1>1 DEF Moves, InHand
  <2>4. QED BY Zenon, <1>1, <2>1, <2>2, <2>3 DEF HandInv
<1>2. ASSUME NEW t \in Procs, Log(t) \/ Acquire(t) \/ Checkout(t) \/ CountUsers(t) \/ Signal(t) \/ Release(t) \/ Checkin(t)
      PROVE  ListInv' /\ HandInv'
  <2>1. Moves(t)
    BY Zenon, <1>2, StepMoves DEF Step
  <2>2. UNCHANGED <<m_log_buffer.ptr, live, write_list, pp, cur, q, new_q, flush_buffers>>
    BY Zenon, <1>2 DEF Log, Acquire, Checkout, CountUsers, Signal, Release, Checkin, TypeOK, buffers, lists
  <2>3. InHand(t)' => InHand(t) /\ buffer'[t] = buffer[t]
    <3>1. CASE Log(t) \/ Acquire(t) \/ CountUsers(t)
      BY Zenon, <3>1 DEF InHand, TypeOK, Log, Acquire, CountUsers, Goto, At
    <3>2. CASE Checkout(t)
      BY Zenon, <3>2 DEF InHand, TypeOK, Checkout, CheckoutResult, Goto
    <3>3. CASE Signal(t) \/ Checkin(t)
      BY Zenon, <3>3, ReturnsTo DEF InHand
    <3>4. CASE Release(t)
      BY Zenon, <3>4, ReleasesTo DEF InHand
    <3>5. QED BY Zenon, <1>2, <3>1, <3>2, <3>3, <3>4
  <2>4. QED BY Zenon, <1>1, <2>1, <2>2, <2>3
<1>3. ASSUME NEW t \in Procs, Replace(t)
      PROVE  ListInv' /\ HandInv'
  <2>1. PICK b \in Addrs \ live : live' = live \union {b} /\ m_log_buffer' = [ptr |-> b, version |-> 0]
    BY Zenon, <1>3, AddrsAssumption DEF Replace
  <2>2. Listed' = Listed /\ Taken' = Taken /\ UNCHANGED <<write_list, pp, cur, q, new_q, flush_buffers>>
    BY Zenon, <1>3 DEF Replace, Listed, Taken, lists
  <2>3. m_log_buffer'.ptr = b
    BY Zenon, <2>1
  <2>4. ListInv'
    BY Zenon, <2>1, <2>2, <2>3 DEF ListInv
  <2>5. \A u \in Procs : InHand(u)' <=> InHand(u) \/ u = t
    BY Zenon, <1>3 DEF InHand, TypeOK, Replace, Goto
  <2>6. buffer' = buffer /\ buffer[t] = m_log_buffer.ptr /\ ~InHand(t)
    BY Zenon, <1>3 DEF Replace, At, InHand
  <2>7. \A u \in Procs : InHand(u)' => buffer'[u] \in live \ Listed
    BY Zenon, <2>5, <2>6 DEF HandInv, ListInv
  <2>8. QED BY Zenon, <2>1, <2>2, <2>3, <2>4, <2>5, <2>6, <2>7 DEF HandInv
<1>4. ASSUME NEW t \in Procs, Queue(t)
      PROVE  ListInv' /\ HandInv'
  <2>1. InHand(t) /\ buffer[t] \in live \ (Listed \union {m_log_buffer.ptr}) /\ buffer[t] # None
    BY <1>4, AddrsAssumption DEF Queue, At, InHand, HandInv, TypeOK
  <2>2. /\ write_list' = write_list \union {buffer[t]} /\ Listed' = Listed \union {buffer[t]} /\ Taken' = Taken
        /\ UNCHANGED <<m_log_buffer, live, pp, cur, q, new_q, flush_buffers, buffer>>
    BY Zenon, <1>4 DEF Queue, Listed, Taken, buffers, locals
  <2>3. buffer[t] \notin q \union {cur} \union Taken
    BY Zenon, <2>1 DEF Listed
  <2>4. ListInv'
    BY Zenon, <2>1, <2>2, <2>3 DEF ListInv
  <2>5. \A u \in Procs : InHand(u)' <=> InHand(u) /\ u # t
    BY Zenon, <1>4 DEF InHand, TypeOK, Queue, Goto
  <2>6. QED BY Zenon, <2>1, <2>2, <2>4, <2>5 DEF HandInv
<1>5. ASSUME PreprocStep \/ Wakeup
      PROVE  \A u \in Procs : (InHand(u)' <=> InHand(u)) /\ buffer'[u] = buffer[u]
  BY Zenon, <1>5 DEF InHand, PreprocStep, PreprocTake, PreprocTestReferences, PreprocTestWriters, PreprocFormat,
              PreprocEnd, Wakeup, locals
<1>6. ASSUME NEW D, D \subseteq Listed, D \intersect Listed' = {}, live' = live \ D, Listed' \subseteq Listed,
             m_log_buffer' = m_log_buffer, \A u \in Procs : (InHand(u)' <=> InHand(u)) /\ buffer'[u] = buffer[u]
      PROVE  m_log_buffer.ptr' \in live' \ Listed' /\ Listed' \subseteq live' /\ HandInv'
  BY Zenon, <1>6 DEF ListInv, HandInv
<1>7. ASSUME live' = live, Listed' \subseteq Listed,
             m_log_buffer' = m_log_buffer, \A u \in Procs : (InHand(u)' <=> InHand(u)) /\ buffer'[u] = buffer[u]
      PROVE  m_log_buffer.ptr' \in live' \ Listed' /\ Listed' \subseteq live' /\ HandInv'
  BY Zenon, <1>7 DEF ListInv, HandInv
<1>8. CASE PreprocTake \/ PreprocTestReferences
  <2>1. Listed' \subseteq Listed
    BY Zenon, <1>8 DEF PreprocTake, PreprocTestReferences, Preproc, Listed, Taken
  <2>2. m_log_buffer.ptr' \in live' \ Listed' /\ Listed' \subseteq live' /\ HandInv'
    <3>1. live' = live /\ m_log_buffer' = m_log_buffer
      BY Zenon, <1>8 DEF PreprocTake, PreprocTestReferences, buffers
    <3>2. QED BY Zenon, <1>5, <1>7, <1>8, <2>1, <3>1 DEF PreprocStep
  <2>3. /\ write_list' \intersect (q' \union {cur'} \union Taken') = {}
        /\ q' \intersect ({cur'} \union Taken') = {}
        /\ cur' \notin Taken'
        /\ new_q' \intersect flush_buffers' = {}
        /\ pp' = "writers" <=> cur' # None
    BY <1>8, AddrsAssumption DEF ListInv, TypeOK, PreprocTake, PreprocTestReferences, Preproc, Taken
  <2>4. QED BY Zenon, <2>2, <2>3 DEF ListInv
<1>9. CASE PreprocTestWriters
  <2>1. cur \in Addrs /\ cur # None /\ cur \in live \ (write_list \union q \union Taken)
    BY Zenon, <1>9 DEF TypeOK, ListInv, Listed, PreprocTestWriters, Preproc
  <2>2. /\ cur' = None /\ pp' = "test" /\ q' = q /\ flush_buffers' = flush_buffers /\ m_log_buffer' = m_log_buffer
        /\ \/ write_list' = write_list \union {cur} /\ new_q' = new_q /\ live' = live
           \/ write_list' = write_list /\ new_q' = new_q \union {cur} /\ live' = live
           \/ write_list' = write_list /\ new_q' = new_q /\ live' = live \ {cur}
    BY Zenon, <1>9 DEF PreprocTestWriters, Preproc, Delete
  <2>3. /\ Listed' \subseteq Listed
        /\ \/ live' = live
           \/ live' = live \ {cur} /\ {cur} \subseteq Listed /\ {cur} \intersect Listed' = {}
    BY <2>1, <2>2 DEF Listed, Taken
  <2>4. m_log_buffer.ptr' \in live' \ Listed' /\ Listed' \subseteq live' /\ HandInv'
    <3>1. CASE live' = live
      BY Zenon, <1>5, <1>7, <1>9, <2>2, <2>3, <3>1 DEF PreprocStep
    <3>2. CASE live' = live \ {cur} /\ {cur} \subseteq Listed /\ {cur} \intersect Listed' = {}
      BY Zenon, <1>5, <1>6, <1>9, <2>2, <2>3, <3>2 DEF PreprocStep
    <3>3. QED BY Zenon, <2>3, <3>1, <3>2
  <2>5. /\ write_list' \intersect (q' \union {cur'} \union Taken') = {}
        /\ q' \intersect ({cur'} \union Taken') = {}
        /\ cur' \notin Taken'
        /\ new_q' \intersect flush_buffers' = {}
    BY <2>1, <2>2, AddrsAssumption DEF ListInv, TypeOK, Taken
  <2>6. QED BY Zenon, <2>2, <2>4, <2>5 DEF ListInv
<1>10. CASE PreprocFormat
  <2>1. PICK b \in new_q : new_q' = new_q \ {b}
          /\ \/ flush_buffers' = flush_buffers \union {b} /\ live' = live
             \/ flush_buffers' = flush_buffers /\ live' = live \ {b}
             \/ flush_buffers' = flush_buffers /\ live' = live
    BY Zenon, <1>10 DEF PreprocFormat, Delete
  <2>2. UNCHANGED <<m_log_buffer, write_list, pp, cur, q>>
    BY Zenon, <1>10 DEF PreprocFormat, Preproc
  <2>3. b \in Listed /\ b \notin write_list \union q \union {cur} \union flush_buffers
    BY Zenon, <2>1 DEF ListInv, Listed, Taken
  <2>4. /\ Listed' \subseteq Listed /\ Taken' \subseteq Taken
        /\ live' = live \/ (live' = live \ {b} /\ {b} \subseteq Listed /\ {b} \intersect Listed' = {})
    BY Zenon, <2>1, <2>2, <2>3 DEF Listed, Taken
  <2>5. m_log_buffer.ptr' \in live' \ Listed' /\ Listed' \subseteq live' /\ HandInv'
    <3>1. CASE live' = live
      BY Zenon, <1>5, <1>7, <1>10, <2>2, <2>4, <3>1 DEF PreprocStep
    <3>2. CASE live' = live \ {b} /\ {b} \subseteq Listed /\ {b} \intersect Listed' = {}
      BY Zenon, <1>5, <1>6, <1>10, <2>2, <2>4, <3>2 DEF PreprocStep
    <3>3. QED BY Zenon, <2>4, <3>1, <3>2
  <2>6. new_q' \intersect flush_buffers' = {}
    BY Zenon, <2>1, <2>3 DEF ListInv
  <2>7. QED BY Zenon, <2>2, <2>4, <2>5, <2>6 DEF ListInv
<1>11. CASE PreprocEnd \/ Wakeup
  <2>1. UNCHANGED <<m_log_buffer, live, write_list, cur, q, new_q, flush_buffers>> /\ (pp' = "writers" <=> pp = "writers")
    BY Zenon, <1>11 DEF PreprocEnd, Preproc, Wakeup, buffers, lists
  <2>2. Listed' = Listed /\ Taken' = Taken
    BY Zenon, <2>1 DEF Listed, Taken
  <2>3. QED BY Zenon, <1>5, <1>11, <2>1, <2>2 DEF ListInv, HandInv, PreprocStep
<1>12. CASE FlushStep
  <2>1. \A u \in Procs : (InHand(u)' <=> InHand(u)) /\ buffer'[u] = buffer[u]
    BY Zenon, <1>12 DEF InHand, FlushStep, Flush, NotExpired, Expired, Goto, At, TypeOK, locals, Procs
  <2>2. UNCHANGED <<m_log_buffer, write_list, pp, cur, q, new_q>>
    BY Zenon, <1>12 DEF FlushStep, Flush, NotExpired, Expired, buffers, lists
  <2>3. \/ flush_buffers' = flush_buffers /\ live' = live
        \/ flush_buffers' = {} /\ live' = live \ {b \in flush_buffers : m_references[b] = 1}
    BY Zenon, <1>12 DEF FlushStep, Flush, NotExpired, Expired, buffers, lists, Delete
  <2>5. Listed' \subseteq Listed /\ Taken' \subseteq Taken /\ flush_buffers' \subseteq flush_buffers
    BY Zenon, <2>2, <2>3 DEF Listed, Taken
  <2>6. m_log_buffer.ptr' \in live' \ Listed' /\ Listed' \subseteq live' /\ HandInv'
    <3>1. CASE live' = live
      BY Zenon, <1>7, <2>1, <2>2, <2>5, <3>1
    <3>2. CASE flush_buffers' = {} /\ live' = live \ {b \in flush_buffers : m_references[b] = 1}
      <4>1. PICK D : D = {b \in flush_buffers : m_references[b] = 1}
        BY Zenon
      <4>2. D \subseteq Listed /\ D \intersect Listed' = {}
        BY <2>2, <3>2, <4>1 DEF Listed, Taken, ListInv
      <4>3. QED BY Zenon, <1>6, <2>1, <2>2, <2>5, <3>2, <4>1, <4>2
    <3>3. QED BY Zenon, <2>3, <3>1, <3>2
  <2>7. QED BY Zenon, <2>2, <2>5, <2>6 DEF ListInv
<1>13. CASE UNCHANGED vars
  BY Zenon, <1>13 DEF ListInv, HandInv, Listed, Taken, InHand, vars, buffers, lists, locals
<1>14. QED
  BY Zenon, <1>2, <1>3, <1>4, <1>8, <1>9, <1>10, <1>11, <1>12, <1>13 DEF Next, Step, PreprocStep, Procs
-----------------------------------------------------------------------------
(* Room *)
LEMMA RoomStep ==
  CountLaws /\ TypeOK /\ LocalInv /\ ListInv /\ CountInv /\ FullInv /\ UsersKeepBuffers /\ RoomInv /\ [Next]_vars => RoomInv'
<1> SUFFICES ASSUME CountLaws, TypeOK, LocalInv, ListInv, CountInv, FullInv, UsersKeepBuffers, RoomInv, [Next]_vars
             PROVE  RoomInv'
  BY Zenon
<1>1. \A u \in Threads : size[u] \in Nat /\ offset[u] \in Nat
  BY Zenon DEF TypeOK, Procs
<1>2. \A b \in Addrs : m_state[b].offset \in Nat
  BY Zenon DEF TypeOK
\* Nothing that writes moves, and nothing that is written to.
<1>3. ASSUME \A u \in Threads, b \in Addrs : Writes(u, b)' => Writes(u, b) /\ size'[u] = size[u] /\ offset'[u] = offset[u],
             \A b \in Addrs : \/ m_state'[b].offset = m_state[b].offset
                              \/ m_state'[b].offset = 0 /\ Writers(b) = {}
      PROVE  RoomInv'
  <2>1. \A u \in Threads, b \in Addrs : Writes(u, b) => m_state'[b].offset = m_state[b].offset
    BY Zenon, <1>3 DEF Writers, Procs
  <2>2. \A b \in Addrs : m_state'[b].offset <= Size
    BY <1>3, SizesAssumption DEF RoomInv
  <2>3. RoomIsOwn'
    BY ZenonT(30), <1>3, <2>1 DEF RoomIsOwn, RoomInv
  <2>4. QED BY Zenon, <2>2, <2>3 DEF RoomInv
<1>4. ASSUME NEW t \in Procs, Step(t) \/ Log(t), ~Checkout(t)
      PROVE  RoomInv'
  <2>1. Moves(t)
    BY Zenon, <1>4, StepMoves
  <2>2. \A u \in Procs : u # t => size'[u] = size[u] /\ offset'[u] = offset[u]
    BY Zenon, <1>4 DEF Step, Log, Acquire, Replace, CountUsers, Queue, Signal, Release, Checkin, Retry, Return, TypeOK, locals
  <2>3. \A u \in Threads, b \in Addrs : u # t /\ Writes(u, b)' => Writes(u, b) /\ size'[u] = size[u] /\ offset'[u] = offset[u]
    BY Zenon, <2>1, <2>2 DEF Moves, Writes, Procs
  <2>4. \A b \in Addrs : Writes(t, b)' => Writes(t, b) /\ size'[t] = size[t] /\ offset'[t] = offset[t]
    <3>1. CASE Log(t) \/ Acquire(t) \/ Replace(t) \/ CountUsers(t) \/ Queue(t)
      BY Zenon, <3>1 DEF Log, Acquire, Replace, CountUsers, Queue, Goto, TypeOK, Writes
    <3>2. CASE Signal(t) \/ Checkin(t)
      BY Zenon, <3>2, ReturnsTo DEF Writes
    <3>3. CASE Release(t)
      BY Zenon, <3>3, ReleasesTo DEF Writes
    <3>4. QED BY Zenon, <1>4, <3>1, <3>2, <3>3 DEF Step
  <2>5. \A b \in Addrs : m_state'[b].offset = m_state[b].offset
    <3>1. CASE Checkin(t)
      BY Zenon, <3>1, CheckinStates
    <3>2. CASE ~Checkin(t)
      BY Zenon, <1>4, <3>2 DEF Step, Log, Acquire, Replace, CountUsers, Queue, Signal, Release, buffers
    <3>3. QED BY Zenon, <3>1, <3>2
  <2>6. QED BY Zenon, <1>3, <2>3, <2>4, <2>5
<1>5. ASSUME NEW t \in Procs, Checkout(t)
      PROVE  RoomInv'
  <2>1. PICK c \in Addrs : c = buffer[t]
    BY Zenon, <1>5, CheckoutStates
  <2>2. size' = size /\ buffer' = buffer /\ \A u \in Procs : u # t => pc'[u] = pc[u]
    BY Zenon, <1>5, StepMoves DEF Checkout, Step, Moves
  <2>3. ~Writes(t, c) /\ \A b \in Addrs : Writes(t, b)' => b = c /\ pc'[t] = "LB_OK" /\ t \in Threads
    BY Zenon, <1>5, <2>1, <2>2, CheckoutStates DEF Writes
  <2>4. \A u \in Threads, b \in Addrs : u # t => (Writes(u, b)' <=> Writes(u, b))
    BY Zenon, <2>2 DEF Writes, Procs
  <2>5. CASE pc'[t] = "LB_OK" /\ t \in Threads
    <3>1. /\ m_state'[c].offset = m_state[c].offset + size[t] /\ m_state[c].offset + size[t] <= Size
          /\ offset'[t] = m_state[c].offset /\ \A u \in Procs : u # t => offset'[u] = offset[u]
          /\ \A b \in Addrs : b # c => m_state'[b].offset = m_state[b].offset
      BY <1>5, <2>1, <2>5, CheckoutStates DEF TypeOK
    <3>2. \A b \in Addrs : m_state'[b].offset <= Size
      BY Zenon, <3>1 DEF RoomInv
    <3>3. \A u \in Threads, b \in Addrs : u # t /\ Writes(u, b)' =>
            /\ offset'[u] + size'[u] <= m_state[b].offset /\ m_state[b].offset <= m_state'[b].offset
            /\ offset'[u] = offset[u] /\ Writes(u, b)
      BY <1>1, <1>2, <2>2, <2>4, <2>5, <3>1 DEF RoomInv, RoomIsOwn, Procs
    <3>4. SUFFICES ASSUME NEW u \in Threads, NEW v \in Threads, NEW b \in Addrs, Writes(u, b)'
                   PROVE  /\ offset'[u] + size'[u] <= m_state'[b].offset /\ m_state'[b].offset <= Size
                          /\ Writes(v, b)' /\ u # v => \/ offset'[u] + size'[u] <= offset'[v]
                                                       \/ offset'[v] + size'[v] <= offset'[u]
      BY Zenon, <3>2 DEF RoomInv, RoomIsOwn
    <3>5. CASE u = t
      BY <1>1, <1>2, <2>2, <2>3, <2>5, <3>1, <3>2, <3>3, <3>4, <3>5
    <3>6. CASE u # t /\ v = t
      BY <1>1, <1>2, <2>2, <2>3, <2>5, <3>1, <3>2, <3>3, <3>4, <3>6
    <3>7. CASE u # t /\ v # t
      <4>1. offset[u] \in Nat /\ size[u] \in Nat /\ m_state[b].offset \in Nat /\ m_state'[b].offset \in Nat
        BY <1>1, <1>2, <2>5, <3>1
      <4>2. offset'[u] + size'[u] <= m_state'[b].offset
        BY <2>2, <3>3, <3>4, <3>7, <4>1
      <4>3. QED BY Zenon, <2>2, <3>2, <3>3, <3>4, <3>7, <4>2 DEF RoomInv, RoomIsOwn
    <3>8. QED BY Zenon, <3>5, <3>6, <3>7
  <2>6. CASE ~(pc'[t] = "LB_OK" /\ t \in Threads)
    <3>1. offset' = offset /\ \A b \in Addrs : m_state'[b].offset = m_state[b].offset
      BY Zenon, <1>5, <2>1, <2>6, CheckoutStates
    <3>2. QED BY Zenon, <1>3, <2>2, <2>3, <2>4, <2>6, <3>1
  <2>7. QED BY Zenon, <2>5, <2>6
<1>6. CASE BackStep
  <2>1. \A u \in Threads, b \in Addrs : Writes(u, b)' => Writes(u, b) /\ size'[u] = size[u] /\ offset'[u] = offset[u]
    BY Zenon, <1>6, BackLocals DEF Writes, Procs
  <2>2. \A b \in Addrs : \/ m_state'[b].offset = m_state[b].offset
                         \/ m_state'[b].offset = 0 /\ Writers(b) = {}
    BY <1>6, BackBuffers DEF Unused, Empty
  <2>3. QED BY Zenon, <1>3, <2>1, <2>2
<1>7. QED BY Zenon, <1>4, <1>5, <1>6 DEF Next, Step, BackStep, Procs
-----------------------------------------------------------------------------
(* No buffer and no entry is lost or found twice *)
InPlace(b) == b = m_log_buffer.ptr \/ b \in Listed \/ \E t \in Procs : InHand(t) /\ buffer[t] = b

\* No buffer leaks.
HeldInv ==
  /\ \A b \in live : InPlace(b)
  /\ pp = "wait" => q = {}

Somewhere(e) == e \in flush_text \union gone \/ \E b \in Addrs : e \in content[b]
\* t has no room for its entry yet.
Fresh(t) == pc[t] \in {"acquire", "checkout", "LB_FULL", "LB_RETRY", "count", "queue", "signal"}

EntryInv ==
  /\ \A b, c \in Addrs : b # c => content[b] \intersect content[c] = {}
  /\ \A b \in Addrs : content[b] \intersect (flush_text \union gone) = {}
  /\ flush_text \intersect gone = {}
  /\ \A b \in Addrs \ live : content[b] = {}
  /\ \A t \in Threads, b \in Addrs : Writes(t, b) => Entry(t) \in content[b]
  /\ \A t \in Threads, n \in 1 .. MaxLog : Somewhere(<<t, n>>) => n <= count[t] /\ (Fresh(t) => n < count[t])

LEMMA HeldForm ==
  ASSUME TypeOK
  PROVE  \A b \in Addrs : b \in Held <=> InPlace(b)
BY Zenon, AddrsAssumption DEF Held, Replacing, InPlace, Listed, InHand

LEMMA EntryImplies == IInv /\ HeldInv /\ EntryInv => EntriesOnce
<1> SUFFICES ASSUME TypeOK, ListInv, HandInv, UsersKeepBuffers, HeldInv, EntryInv
             PROVE  EntriesOnce
  BY Zenon DEF IInv
<1>1. Held \subseteq Addrs
  BY Zenon DEF TypeOK, Held, Replacing, Taken
<1>2. \A t \in Threads, b \in Addrs : Writes(t, b) => b \in Held
  BY Zenon, HeldForm DEF UsersKeepBuffers, HeldInv, Procs
<1>3. QED BY Zenon, <1>1, <1>2 DEF EntriesOnce, EntryInv

\* The deletions are of buffers that leave every list.
LEMMA HeldStep == CountLaws /\ IInv /\ HeldInv /\ [Next]_vars => HeldInv'
<1> SUFFICES ASSUME CountLaws, IInv, TypeOK, LocalInv, ListInv, HandInv, CountInv, FullInv, UsersKeepBuffers, HeldInv, [Next]_vars
             PROVE  HeldInv'
  BY Zenon DEF IInv
<1>1. ASSUME live' \subseteq live, m_log_buffer'.ptr = m_log_buffer.ptr,
             \A b \in live' : b \in Listed => b \in Listed',
             \A t \in Procs : InHand(t) => InHand(t)' /\ buffer'[t] = buffer[t]
      PROVE  \A b \in live' : InPlace(b)'
  BY Zenon, <1>1 DEF HeldInv, InPlace
<1>2. ASSUME NEW t \in Procs, Log(t) \/ Acquire(t) \/ Checkout(t) \/ CountUsers(t) \/ Signal(t) \/ Release(t) \/ Checkin(t)
      PROVE  HeldInv'
  <2>1. UNCHANGED <<m_log_buffer.ptr, live, write_list, pp, cur, q, new_q, flush_buffers>>
    BY Zenon, <1>2 DEF Log, Acquire, Checkout, CountUsers, Signal, Release, Checkin, TypeOK, buffers, lists
  <2>2. Listed' = Listed
    BY Zenon, <2>1 DEF Listed, Taken
  <2>3. Moves(t)
    BY Zenon, <1>2, StepMoves DEF Step
  <2>4. InHand(t) => InHand(t)' /\ buffer'[t] = buffer[t]
    <3>1. CASE CountUsers(t)
      BY Zenon, <3>1 DEF CountUsers, Goto, TypeOK, InHand
    <3>2. CASE ~CountUsers(t)
      BY Zenon, <1>2, <3>2 DEF InHand, Log, Acquire, Checkout, Signal, Release, Checkin, At
    <3>3. QED BY Zenon, <3>1, <3>2
  <2>5. \A u \in Procs : InHand(u) => InHand(u)' /\ buffer'[u] = buffer[u]
    BY Zenon, <2>3, <2>4 DEF Moves, InHand
  <2>6. QED BY Zenon, <1>1, <2>1, <2>2, <2>5 DEF HeldInv
<1>3. ASSUME NEW t \in Procs, Replace(t)
      PROVE  HeldInv'
  <2>1. PICK n \in Addrs \ live : live' = live \union {n} /\ m_log_buffer' = [ptr |-> n, version |-> 0]
    BY Zenon, <1>3, AddrsAssumption DEF Replace
  <2>2. Listed' = Listed /\ UNCHANGED <<pp, q, buffer>> /\ m_log_buffer'.ptr = n /\ buffer[t] = m_log_buffer.ptr
    BY Zenon, <1>3, <2>1 DEF Replace, Listed, Taken, lists
  <2>3. InHand(t)' /\ \A u \in Procs : InHand(u) => InHand(u)'
    BY Zenon, <1>3 DEF InHand, TypeOK, Replace, Goto
  <2>4. QED BY Zenon, <2>1, <2>2, <2>3 DEF HeldInv, InPlace
<1>4. ASSUME NEW t \in Procs, Queue(t)
      PROVE  HeldInv'
  <2>1. /\ Listed' = Listed \union {buffer[t]} /\ UNCHANGED <<m_log_buffer, live, pp, q, buffer>>
    BY Zenon, <1>4 DEF Queue, Listed, Taken, buffers, locals
  <2>2. \A u \in Procs : InHand(u) /\ u # t => InHand(u)'
    BY Zenon, <1>4 DEF InHand, TypeOK, Queue, Goto
  <2>3. QED BY Zenon, <2>1, <2>2 DEF HeldInv, InPlace
<1>5. CASE BackStep
  <2>1. m_log_buffer' = m_log_buffer /\ \A t \in Procs : InHand(t) => InHand(t)' /\ buffer'[t] = buffer[t]
    BY Zenon, <1>5, BackLocals DEF InHand
  <2>2. live' \subseteq live
    <3>1. TypeOK'
      BY Zenon, TypeStep
    <3>2. live' \subseteq Addrs
      BY Zenon, <3>1 DEF TypeOK
    <3>3. QED BY Zenon, <1>5, <3>2, BackBuffers
  <2>3. pp' = "wait" => q' = {}
    BY Zenon, <1>5 DEF HeldInv, BackStep, PreprocStep, PreprocTake, PreprocTestReferences, PreprocTestWriters, PreprocFormat,
         PreprocEnd, Preproc, Wakeup, FlushStep, Flush, NotExpired, Expired, vars, lists
  <2>4. \A b \in live' : b \in Listed => b \in Listed'
    <3>1. CASE PreprocTake \/ PreprocTestReferences
      BY <3>1 DEF HeldInv, ListInv, PreprocTake, PreprocTestReferences, Preproc, Listed, Taken, TypeOK
    <3>2. CASE PreprocTestWriters
      BY Zenon, <3>2 DEF PreprocTestWriters, Listed, Taken, Delete
    <3>3. CASE PreprocFormat
      <4>1. \A b \in new_q : m_references[b] = 0
        <5>1. SUFFICES ASSUME NEW b \in new_q
                       PROVE  m_references[b] = 0
          BY Zenon
        <5>2. b \in Addrs \ (flush_buffers \union {m_log_buffer.ptr}) /\ \A t \in Procs : At(t, "count") => buffer[t] # b
          BY ZenonT(30) DEF TypeOK, ListInv, HandInv, Listed, Taken, InHand, At
        <5>3. Cardinality(Users(b)) = 0
          BY Zenon, <5>2, KeepForm, Nobody, UsersAreProcs DEF Unused, Taken
        <5>4. QED BY Zenon, <5>2, <5>3 DEF CountInv, CountOf
      <4>2. QED BY Zenon, <3>3, <4>1 DEF PreprocFormat, Listed, Taken, Delete
    <3>4. CASE Flush
      <4>1. \A b \in flush_buffers : m_references[b] = 1
        BY Zenon DEF CountInv, CountOf, TypeOK
      <4>2. QED BY Zenon, <3>4, <4>1 DEF Flush, Listed, Taken, Delete
    <3>5. CASE PreprocEnd \/ Wakeup \/ NotExpired \/ Expired \/ UNCHANGED vars
      BY Zenon, <3>5 DEF PreprocEnd, Wakeup, NotExpired, Expired, vars, lists, Listed, Taken
    <3>6. QED BY Zenon, <1>5, <3>1, <3>2, <3>3, <3>4, <3>5 DEF BackStep, PreprocStep, FlushStep
  <2>5. QED BY Zenon, <1>1, <2>1, <2>2, <2>3, <2>4 DEF HeldInv
<1>6. QED BY Zenon, <1>2, <1>3, <1>4, <1>5 DEF Next, Step, BackStep, Procs

LEMMA BackThreads ==
  ASSUME TypeOK, BackStep
  PROVE  \A t \in Threads : pc'[t] = pc[t]
BY Zenon, ProcsAssumption
   DEF BackStep, PreprocStep, PreprocTake, PreprocTestReferences, PreprocTestWriters, PreprocFormat, PreprocEnd,
       Wakeup, FlushStep, Flush, NotExpired, Expired, Goto, vars, TypeOK, Procs

\* Where the entries of the buffers of D go that are deleted.
LEMMA BackEntries ==
  ASSUME CountLaws, IInv, EntryInv, BackStep
  PROVE  \E D \in SUBSET Addrs :
           /\ live' = live \ D
           /\ \A b \in Addrs : content'[b] = IF b \in D THEN {} ELSE content[b]
           /\ \A e \in flush_text' \union gone' : e \in flush_text \union gone \/ \E d \in D : e \in content[d]
           /\ flush_text' \intersect gone' = {}
           /\ \A d \in D : Unused(d)
<1> USE DEF IInv
<1>1. \A b \in Taken : Unused(b)
  BY Zenon, KeepForm DEF TypeOK, Taken
<1>2. CASE PreprocTake \/ PreprocTestReferences \/ PreprocEnd \/ Wakeup \/ NotExpired \/ Expired \/ UNCHANGED vars
  <2>1. UNCHANGED <<live, content, flush_text, gone>>
    BY Zenon, <1>2 DEF PreprocTake, PreprocTestReferences, PreprocEnd, Wakeup, NotExpired, Expired, vars, buffers, lists
  <2>2. WITNESS {} \in SUBSET Addrs
  <2>3. QED BY Zenon, <2>1 DEF EntryInv
<1>3. CASE PreprocTestWriters
  <2>1. cur \in Addrs /\ Users(cur) = {}
    BY Zenon, <1>3 DEF TypeOK, ListInv, FullInv, PreprocTestWriters, Preproc
  <2>2. m_state[cur].num_writers = 0 => Unused(cur)
    BY Zenon, <2>1, Nobody, UsersAreProcs DEF Unused, CountInv, CountOf
  <2>3. CASE UNCHANGED <<live, content, gone>>
    <3>1. flush_text' = flush_text
      BY Zenon, <1>3 DEF PreprocTestWriters
    <3>2. WITNESS {} \in SUBSET Addrs
    <3>3. QED BY Zenon, <2>3, <3>1 DEF EntryInv
  <2>4. CASE m_state[cur].num_writers = 0 /\ gone' = gone \union content[cur] /\ Delete({cur})
    <3>1. flush_text' = flush_text
      BY Zenon, <1>3 DEF PreprocTestWriters
    <3> USE <2>1
    <3>2. WITNESS {cur} \in SUBSET Addrs
    <3>3. flush_text \intersect (gone \union content[cur]) = {}
      BY Zenon, <2>1 DEF EntryInv
    <3>4. QED BY Zenon, <2>2, <2>4, <3>1, <3>3 DEF Delete
  <2>5. QED BY Zenon, <1>3, <2>3, <2>4 DEF PreprocTestWriters
<1>4. CASE PreprocFormat
  <2>1. PICK b \in new_q :
          \/ UNCHANGED <<flush_text, live, content>>
          \/ /\ flush_text' = flush_text \union content[b]
             /\ Delete(IF m_references[b] = 0 THEN {b} ELSE {})
    BY Zenon, <1>4 DEF PreprocFormat
  <2>2. gone' = gone
    BY Zenon, <1>4 DEF PreprocFormat
  <2>3. b \in Addrs /\ Unused(b)
    BY Zenon, <1>1 DEF TypeOK, Taken
  <2>4. m_references[b] = 0
    <3>1. b \in Addrs \ (flush_buffers \union {m_log_buffer.ptr}) /\ \A t \in Procs : At(t, "count") => buffer[t] # b
      BY ZenonT(30) DEF TypeOK, ListInv, HandInv, Listed, Taken, InHand, At
    <3>2. Cardinality(Users(b)) = 0
      BY Zenon, <2>3, Nobody, UsersAreProcs DEF Unused
    <3>3. QED BY Zenon, <3>1, <3>2 DEF CountInv, CountOf
  <2>5. CASE UNCHANGED <<flush_text, live, content>>
    <3>1. WITNESS {} \in SUBSET Addrs
    <3>2. QED BY Zenon, <2>2, <2>5 DEF EntryInv
  <2>6. CASE flush_text' = flush_text \union content[b] /\ Delete({b})
    <3> USE <2>3
    <3>1. WITNESS {b} \in SUBSET Addrs
    <3>2. (flush_text \union content[b]) \intersect gone = {}
      BY Zenon, <2>3 DEF EntryInv
    <3>3. QED BY Zenon, <2>2, <2>3, <2>6, <3>2 DEF Delete
  <2>7. QED BY Zenon, <2>1, <2>4, <2>5, <2>6
<1>5. CASE Flush
  <2>1. \A b \in flush_buffers : m_references[b] = 1
    BY Zenon DEF CountInv, CountOf, TypeOK
  <2>2. flush_buffers \in SUBSET Addrs /\ \A b \in flush_buffers : Unused(b)
    BY Zenon, <1>1 DEF TypeOK, Taken
  <2>3. {b \in flush_buffers : m_references[b] = 1} = flush_buffers
    BY Zenon, <2>1
  <2>4. /\ Delete(flush_buffers) /\ flush_text' = {}
        /\ gone' = gone \union flush_text \union UNION {content[b] : b \in flush_buffers}
    BY Zenon, <1>5, <2>3 DEF Flush
  <2> USE <2>2
  <2>5. WITNESS flush_buffers \in SUBSET Addrs
  <2>6. QED BY Zenon, <2>2, <2>4 DEF Delete
<1>6. QED BY Zenon, <1>2, <1>3, <1>4, <1>5 DEF BackStep, PreprocStep, FlushStep

LEMMA EntryStep == CountLaws /\ IInv /\ EntryInv /\ [Next]_vars => EntryInv'
<1> SUFFICES ASSUME CountLaws, IInv, TypeOK, LocalInv, UsersKeepBuffers, EntryInv, [Next]_vars
             PROVE  EntryInv'
  BY Zenon DEF IInv
\* A process moves, and no entry does.
<1>1. ASSUME UNCHANGED <<content, flush_text, gone>>, live \subseteq live',
             \A u \in Threads : count[u] <= count'[u] /\ (Fresh(u)' => (Fresh(u) /\ count'[u] = count[u]) \/ count[u] < count'[u]),
             \A u \in Threads, b \in Addrs : Writes(u, b)' => Writes(u, b) /\ count'[u] = count[u]
      PROVE  EntryInv'
  <2>1. \A u \in Threads : count[u] \in Int /\ count'[u] \in Int
    <3>1. TypeOK'
      BY Zenon, TypeStep DEF IInv
    <3>2. count \in [Procs -> Nat] /\ count' \in [Procs -> Nat]
      BY Zenon, <3>1 DEF TypeOK
    <3>3. QED BY <3>2 DEF Procs
  <2>2. \A e : Somewhere(e)' <=> Somewhere(e)
    BY Zenon, <1>1 DEF Somewhere
  <2>3. ASSUME NEW u \in Threads, NEW n \in 1 .. MaxLog, Somewhere(<<u, n>>)'
        PROVE  n <= count'[u] /\ (Fresh(u)' => n < count'[u])
    <3>1. n <= count[u] /\ (Fresh(u) => n < count[u])
      BY Zenon, <2>2, <2>3 DEF EntryInv
    <3>2. /\ count[u] \in Int /\ count'[u] \in Int /\ count[u] <= count'[u]
          /\ Fresh(u)' => (Fresh(u) /\ count'[u] = count[u]) \/ count[u] < count'[u]
      BY Zenon, <1>1, <2>1
    <3>3. n \in Int
      BY SizesAssumption
    <3>4. n <= count'[u]
      BY <3>1, <3>2, <3>3
    <3>5. CASE Fresh(u) /\ count'[u] = count[u]
      BY ZenonT(30), <3>1, <3>4, <3>5
    <3>6. CASE count[u] < count'[u]
      BY <3>1, <3>2, <3>3, <3>6
    <3>7. QED BY Zenon, <3>2, <3>4, <3>5, <3>6
  <2>4. \A u \in Threads, b \in Addrs : Writes(u, b)' => Entry(u)' \in content'[b]
    BY Zenon, <1>1 DEF EntryInv, Entry
  <2>5. QED BY Zenon, <1>1, <2>3, <2>4 DEF EntryInv
<1>2. ASSUME NEW t \in Procs, Step(t) \/ Log(t)
      PROVE  \A u \in Threads : u # t => /\ count'[u] = count[u] /\ (Fresh(u)' <=> Fresh(u))
                                         /\ \A b \in Addrs : Writes(u, b)' <=> Writes(u, b)
  <2>1. Moves(t)
    BY Zenon, <1>2, StepMoves
  <2>2. \A u \in Threads : u # t => count'[u] = count[u]
    BY Zenon, <1>2 DEF Step, Log, Acquire, Checkout, Replace, CountUsers, Queue, Signal, Release, Checkin, locals, TypeOK, Procs
  <2>3. QED BY Zenon, <2>1, <2>2 DEF Moves, Fresh, Writes, Procs
<1>3. ASSUME NEW t \in Procs, Step(t), ~Checkout(t)
      PROVE  EntryInv'
  <2>1. UNCHANGED <<content, flush_text, gone, count>> /\ live \subseteq live'
    BY Zenon, <1>3 DEF Step, Acquire, Replace, CountUsers, Queue, Signal, Release, Checkin, buffers, lists, locals
  <2>2. (Fresh(t)' => Fresh(t)) /\ \A b \in Addrs : Writes(t, b)' => Writes(t, b)
    <3>1. CASE Acquire(t) \/ Replace(t) \/ CountUsers(t) \/ Queue(t)
      BY Zenon, <3>1 DEF Acquire, Replace, CountUsers, Queue, Goto, TypeOK, Writes, Fresh, At
    <3>2. CASE Signal(t)
      BY Zenon, <3>2, ReturnsTo DEF Writes, Fresh, Signal, At
    <3>3. CASE Checkin(t)
      <4>1. t \in Threads
        BY Zenon, <3>3, CheckinStates
      <4>2. pc' = [pc EXCEPT ![t] = "idle"] /\ t \in DOMAIN pc
        BY Zenon, <3>3, <4>1 DEF Checkin, Return, Back, Goto, TypeOK
      <4>3. pc'[t] = "idle"
        BY Zenon, <4>2
      <4>4. QED BY Zenon, <4>3 DEF Writes, Fresh
    <3>4. CASE Release(t)
      <4>1. \A b \in Addrs : Writes(t, b)' => Writes(t, b)
        BY Zenon, <3>4, ReleasesTo DEF Writes
      <4>2. Fresh(t)' => Fresh(t)
        <5>1. CASE pc[t] = "LB_RETRY"
          BY Zenon, <5>1 DEF Fresh
        <5>2. CASE pc[t] # "LB_RETRY"
          <6>1. Goto(t, "marshal") \/ Goto(t, Back(t))
            BY Zenon, <3>4, <5>2 DEF Release, Return, At
          <6>2. pc'[t] \in {"marshal", "idle", "wait"}
            BY Zenon, <6>1 DEF Goto, Back, TypeOK
          <6>3. QED BY Zenon, <6>2 DEF Fresh
        <5>3. QED BY Zenon, <5>1, <5>2
      <4>3. QED BY Zenon, <4>1, <4>2
    <3>5. QED BY Zenon, <1>3, <3>1, <3>2, <3>3, <3>4 DEF Step
  <2>3. \A u \in Threads : count[u] \in Int
    BY DEF TypeOK, Procs
  <2>4. \A u \in Threads : u # t => (Fresh(u)' <=> Fresh(u)) /\ \A b \in Addrs : Writes(u, b)' <=> Writes(u, b)
    BY Zenon, <1>2, <1>3
  <2>5. \A u \in Threads : Fresh(u)' => Fresh(u)
    BY Zenon, <2>2, <2>4
  <2>6. \A u \in Threads, b \in Addrs : Writes(u, b)' => Writes(u, b)
    BY Zenon, <2>2, <2>4
  <2>7. QED BY <1>1, <2>1, <2>3, <2>5, <2>6
<1>4. ASSUME NEW t \in Threads, Log(t)
      PROVE  EntryInv'
  <2>1. UNCHANGED <<content, flush_text, gone, live>> /\ count'[t] = count[t] + 1
    BY Zenon, <1>4 DEF Log, buffers, lists, TypeOK, Procs
  <2>2. \A b \in Addrs : ~Writes(t, b)'
    BY ZenonT(30), <1>4 DEF Log, Goto, TypeOK, Writes, Procs
  <2>3. \A u \in Threads : count[u] \in Int
    BY DEF TypeOK, Procs
  <2>4. t \in Procs
    BY Zenon DEF Procs
  <2>5. \A u \in Threads : u # t => /\ count'[u] = count[u] /\ (Fresh(u)' <=> Fresh(u))
                                    /\ \A b \in Addrs : Writes(u, b)' <=> Writes(u, b)
    BY ZenonT(30), <1>2, <1>4, <2>4
  <2>6. \A u \in Threads : count[u] <= count'[u] /\ (Fresh(u)' => (Fresh(u) /\ count'[u] = count[u]) \/ count[u] < count'[u])
    BY <2>1, <2>3, <2>5
  <2>7. \A u \in Threads, b \in Addrs : Writes(u, b)' => Writes(u, b) /\ count'[u] = count[u]
    BY Zenon, <2>2, <2>5
  <2>8. QED BY ZenonT(30), <1>1, <2>1, <2>6, <2>7
<1>5. ASSUME NEW t \in Procs, Checkout(t)
      PROVE  EntryInv'
  <2>1. PICK c \in Addrs : c = buffer[t]
    BY Zenon, <1>5, CheckoutStates
  <2>2. UNCHANGED <<flush_text, gone, live, buffer, count>> /\ pc[t] = "checkout"
    BY Zenon, <1>5 DEF Checkout, lists, At
  <2>3. CASE pc'[t] = "LB_OK" /\ t \in Threads
    <3>1. content' = [content EXCEPT ![c] = content[c] \union {Entry(t)}]
      BY Zenon, <1>5, <2>1, <2>3 DEF Checkout, Goto, TypeOK
    <3>2. content'[c] = content[c] \union {Entry(t)} /\ \A b \in Addrs : b # c => content'[b] = content[b]
      BY Zenon, <3>1 DEF TypeOK
    <3>3. count[t] \in 1 .. MaxLog /\ Entry(t) = <<t, count[t]>>
      BY ZenonT(30), <2>2, <2>3 DEF LocalInv, Entry
    <3>4. ~Somewhere(Entry(t))
      <4>1. Fresh(t)
        BY Zenon, <2>2 DEF Fresh
      <4>2. QED BY <2>3, <3>3, <4>1, SizesAssumption DEF EntryInv
    <3>5. c \in live
      BY Zenon, <1>5, <2>1, <2>2 DEF UsersKeepBuffers, Holds
    <3>6. \A b \in Addrs : Entry(t) \notin content[b] /\ Entry(t) \notin flush_text \union gone
      BY Zenon, <3>4 DEF Somewhere
    <3>7. \A a, b \in Addrs : a # b => content'[a] \intersect content'[b] = {}
      <4>1. \A a \in Addrs : a # c => content[a] \intersect content'[c] = {}
        <5>1. SUFFICES ASSUME NEW a \in Addrs, a # c
                       PROVE  content[a] \intersect content'[c] = {}
          BY Zenon
        <5>2. content[a] \intersect content[c] = {}
          BY Zenon, <5>1 DEF EntryInv
        <5>3. QED BY Zenon, <3>2, <3>6, <5>2
      <4>2. \A a, b \in Addrs : a # b => content[a] \intersect content[b] = {}
        BY Zenon DEF EntryInv
      <4>3. QED BY Zenon, <3>2, <4>1, <4>2
    <3>8. \A b \in Addrs : content'[b] \intersect (flush_text \union gone) = {}
      BY <3>2, <3>6 DEF EntryInv
    <3>9. \A b \in Addrs \ live : content'[b] = {}
      BY ZenonT(30), <3>2, <3>5 DEF EntryInv
    <3>10. \A u \in Threads, b \in Addrs : Writes(u, b)' => Entry(u)' \in content'[b]
      <4>1. Entry(t)' = Entry(t) /\ \A u \in Threads : Entry(u)' = Entry(u)
        BY Zenon, <2>2 DEF Entry
      <4>2. \A b \in Addrs : Writes(t, b)' => b = c
        BY Zenon, <2>1, <2>2 DEF Writes
      <4>3. \A u \in Threads, b \in Addrs : u # t /\ Writes(u, b)' => Writes(u, b)
        BY Zenon, <1>2, <1>5 DEF Step
      <4>4. QED BY <3>2, <4>1, <4>2, <4>3 DEF EntryInv
    <3>11. \A e : Somewhere(e)' => Somewhere(e) \/ e = Entry(t)
      BY Zenon, <2>2, <3>2 DEF Somewhere
    <3>12. \A u \in Threads, n \in 1 .. MaxLog : Somewhere(<<u, n>>)' => n <= count[u] /\ (Fresh(u)' => n < count[u])
      <4>1. SUFFICES ASSUME NEW u \in Threads, NEW n \in 1 .. MaxLog, Somewhere(<<u, n>>)'
                     PROVE  n <= count[u] /\ (Fresh(u)' => n < count[u])
        BY Zenon
      <4>2. CASE <<u, n>> = Entry(t)
        <5>1. u = t /\ n = count[t] /\ ~Fresh(t)'
          BY <2>3, <3>3, <4>2 DEF Fresh
        <5>2. QED BY <3>3, <5>1, SizesAssumption
      <4>3. CASE Somewhere(<<u, n>>)
        <5>1. Fresh(u)' => Fresh(u)
          BY Zenon, <1>2, <1>5, <2>3 DEF Step, Fresh
        <5>2. QED BY Zenon, <4>3, <5>1 DEF EntryInv
      <4>4. QED BY Zenon, <3>11, <4>1, <4>2, <4>3
    <3>13. QED BY Zenon, <2>2, <3>7, <3>8, <3>9, <3>10, <3>12 DEF EntryInv
  <2>4. CASE ~(pc'[t] = "LB_OK" /\ t \in Threads)
    <3>1. content' = content
      <4>1. pc'[t] = CheckoutResult(t, m_state[buffer[t]])
        BY Zenon, <1>5 DEF Checkout, Goto, TypeOK
      <4>2. QED BY Zenon, <1>5, <2>4, <4>1 DEF Checkout
    <3>2. Fresh(t) /\ \A b \in Addrs : ~Writes(t, b)'
      BY Zenon, <1>5, <2>2, <2>4, CheckoutStates DEF Fresh, Writes
    <3>3. \A u \in Threads : count[u] \in Int
      BY DEF TypeOK, Procs
    <3>4. \A u \in Threads : u # t => (Fresh(u)' <=> Fresh(u)) /\ \A b \in Addrs : Writes(u, b)' <=> Writes(u, b)
      BY Zenon, <1>2, <1>5 DEF Step
    <3>5. \A u \in Threads : Fresh(u)' => Fresh(u)
      BY Zenon, <3>2, <3>4
    <3>6. \A u \in Threads, b \in Addrs : Writes(u, b)' => Writes(u, b)
      BY Zenon, <3>2, <3>4
    <3>7. QED BY <1>1, <2>2, <3>1, <3>3, <3>5, <3>6
  <2>5. QED BY Zenon, <2>3, <2>4
<1>6. CASE BackStep
  <2>1. PICK D \in SUBSET Addrs :
           /\ live' = live \ D
           /\ \A b \in Addrs : content'[b] = IF b \in D THEN {} ELSE content[b]
           /\ \A e \in flush_text' \union gone' : e \in flush_text \union gone \/ \E d \in D : e \in content[d]
           /\ flush_text' \intersect gone' = {}
           /\ \A d \in D : Unused(d)
    BY Zenon, <1>6, BackEntries
  <2>2. count' = count /\ buffer' = buffer /\ \A t \in Threads : pc'[t] = pc[t]
    BY Zenon, <1>6, BackLocals, BackThreads
  <2>3. \A b, c \in Addrs : b # c => content'[b] \intersect content'[c] = {}
    BY Zenon, <2>1 DEF EntryInv
  <2>4. \A b \in Addrs : content'[b] \intersect (flush_text' \union gone') = {}
    <3>1. SUFFICES ASSUME NEW b \in Addrs, NEW e \in content'[b], e \in flush_text' \union gone'
                   PROVE  FALSE
      BY Zenon
    <3>2. b \notin D /\ e \in content[b]
      BY Zenon, <2>1, <3>1
    <3>3. CASE e \in flush_text \union gone
      BY Zenon, <3>2, <3>3 DEF EntryInv
    <3>4. CASE \E d \in D : e \in content[d]
      BY Zenon, <3>2, <3>4 DEF EntryInv
    <3>5. QED BY Zenon, <2>1, <3>1, <3>3, <3>4
  <2>5. \A b \in Addrs \ live' : content'[b] = {}
    BY Zenon, <2>1 DEF EntryInv
  <2>6. \A t \in Threads, b \in Addrs : Writes(t, b)' => Entry(t)' \in content'[b]
    <3>1. SUFFICES ASSUME NEW t \in Threads, NEW b \in Addrs, Writes(t, b)'
                   PROVE  Entry(t)' \in content'[b]
      BY Zenon
    <3>2. Writes(t, b) /\ Entry(t)' = Entry(t)
      BY Zenon, <2>2, <3>1 DEF Writes, Entry
    <3>3. b \notin D
      BY Zenon, <2>1, <3>2 DEF Unused, Writers, Procs
    <3>4. Entry(t) \in content[b] /\ content'[b] = content[b]
      BY Zenon, <2>1, <3>2, <3>3 DEF EntryInv
    <3>5. QED BY Zenon, <3>2, <3>4
  <2>7. \A e : Somewhere(e)' => Somewhere(e)
    BY Zenon, <2>1 DEF Somewhere
  <2>8. \A t \in Threads : Fresh(t)' <=> Fresh(t)
    BY Zenon, <2>2 DEF Fresh
  <2>9. QED BY Zenon, <2>1, <2>2, <2>3, <2>4, <2>5, <2>6, <2>7, <2>8 DEF EntryInv
<1>7. QED BY Zenon, <1>3, <1>4, <1>5, <1>6 DEF Next, Step, BackStep
-----------------------------------------------------------------------------

(* Sets of processes *)
LEMMA Laws == CountLaws
<1>1. \A S \in SUBSET Procs : IsFiniteSet(S)
  BY Zenon, ThreadsAssumption, FS_AddElement, FS_Subset DEF Procs
<1>2. \A S \in SUBSET Procs : Cardinality(S) \in Nat /\ (Cardinality(S) = 0 <=> S = {})
  BY Zenon, <1>1, FS_CardinalityType, FS_EmptySet
<1>3. \A S, T \in SUBSET Procs : \A t \in T \ S : T = S \union {t} => Cardinality(T) = Cardinality(S) + 1
  BY ZenonT(30), <1>1, FS_AddElement
<1>4. QED BY Zenon, <1>2, <1>3 DEF CountLaws
-----------------------------------------------------------------------------
(* The queued buffers are counted *)
Signalling == {t \in Procs : At(t, "signal")}
InCur == {cur} \ {None}
QueueInv ==
  /\ IsFiniteSet(write_list) /\ IsFiniteSet(q) /\ IsFiniteSet(new_q)
  /\ pp = "wait" => q = {}
  /\ QueueCounted

LEMMA Plus ==
  ASSUME NEW S, IsFiniteSet(S), NEW x, x \notin S
  PROVE  IsFiniteSet(S \union {x}) /\ Cardinality(S \union {x}) = Cardinality(S) + 1
BY Zenon, FS_AddElement

LEMMA Minus ==
  ASSUME NEW S, IsFiniteSet(S), NEW x \in S
  PROVE  IsFiniteSet(S \ {x}) /\ Cardinality(S) = Cardinality(S \ {x}) + 1
<1>1. IsFiniteSet(S \ {x}) /\ x \notin S \ {x} /\ S = (S \ {x}) \union {x}
  BY Zenon, FS_Subset
<1>2. QED BY Zenon, <1>1, Plus

LEMMA QueueNats ==
  ASSUME TypeOK, QueueInv
  PROVE  /\ Cardinality(write_list) \in Nat /\ Cardinality(q) \in Nat /\ Cardinality(new_q) \in Nat
         /\ Cardinality(Signalling) \in Nat /\ num_flush_buffers \in Int
         /\ cur = None => Cardinality(InCur) = 0
         /\ cur # None => Cardinality(InCur) = 1
         /\ num_flush_buffers + Cardinality(Signalling)
              = Cardinality(write_list) + Cardinality(q) + Cardinality(InCur) + Cardinality(new_q)
<1>1. Cardinality(Signalling) \in Nat
  BY Zenon, Laws, ProcsFinite DEF Signalling
<1>2. cur = None => InCur = {}
  BY Zenon DEF InCur
<1>3. cur # None => InCur = {cur}
  BY Zenon DEF InCur
<1>4. QED BY Zenon, <1>1, <1>2, <1>3, FS_CardinalityType, FS_EmptySet, FS_Singleton DEF QueueInv, QueueCounted, TypeOK, Signalling, InCur

LEMMA CountedForm ==
  /\ QueueCounted <=> num_flush_buffers + Cardinality(Signalling)
                       = Cardinality(write_list) + Cardinality(q) + Cardinality(InCur) + Cardinality(new_q)
  /\ QueueCounted' <=> num_flush_buffers' + Cardinality(Signalling')
                        = Cardinality(write_list') + Cardinality(q') + Cardinality(InCur') + Cardinality(new_q')
BY Zenon DEF QueueCounted, Signalling, InCur

LEMMA InCurStays == cur' = cur => InCur' = InCur
BY Zenon DEF InCur

\* The queues and the processes that are to count do not change.
LEMMA QueueStays ==
  ASSUME QueueInv, UNCHANGED <<write_list, num_flush_buffers, cur, q, new_q>>, pp' = "wait" => pp = "wait" \/ q = {},
         Signalling' = Signalling
  PROVE  QueueInv'
<1>1. QueueCounted'
  BY Zenon DEF QueueInv, QueueCounted, Signalling
<1>2. QED BY Zenon, <1>1 DEF QueueInv

LEMMA QueueStep == TypeOK /\ LocalInv /\ ListInv /\ HandInv /\ QueueInv /\ [Next]_vars => QueueInv'
<1> SUFFICES ASSUME TypeOK, LocalInv, ListInv, HandInv, QueueInv, [Next]_vars
             PROVE  QueueInv'
  BY Zenon
<1>1. ASSUME NEW t \in Procs, Log(t) \/ Acquire(t) \/ Checkout(t) \/ Replace(t) \/ CountUsers(t) \/ Release(t) \/ Checkin(t)
      PROVE  QueueInv'
  <2>1. UNCHANGED <<write_list, num_flush_buffers, cur, q, new_q, pp>>
    BY Zenon, <1>1 DEF Log, Acquire, Checkout, Replace, CountUsers, Release, Checkin, lists
  <2>2. pc[t] # "signal" /\ pc'[t] # "signal"
    <3>1. CASE Log(t) \/ Acquire(t) \/ Replace(t) \/ CountUsers(t)
      BY Zenon, <3>1 DEF TypeOK, Log, Acquire, Replace, CountUsers, Goto, At
    <3>2. CASE Checkout(t)
      BY Zenon, <3>2, CheckoutStates
    <3>3. CASE Release(t)
      BY Zenon, <3>3, ReleasesTo
    <3>4. CASE Checkin(t)
      BY Zenon, <3>4, ReturnsTo DEF Checkin, At
    <3>5. QED BY Zenon, <1>1, <3>1, <3>2, <3>3, <3>4
  <2>3. Signalling' = Signalling
    BY Zenon, <1>1, <2>2, StepMoves DEF Step, Moves, Signalling, At
  <2>4. QED BY Zenon, <2>1, <2>3, QueueStays
<1>2. ASSUME NEW t \in Procs, Queue(t)
      PROVE  QueueInv'
  <2>1. buffer[t] \notin write_list
    BY Zenon, <1>2 DEF Queue, At, InHand, HandInv, Listed
  <2>2. /\ write_list' = write_list \union {buffer[t]} /\ pc[t] = "queue"
        /\ UNCHANGED <<num_flush_buffers, cur, q, new_q, pp>>
    BY Zenon, <1>2 DEF Queue, At
  <2>3. IsFiniteSet(write_list') /\ Cardinality(write_list') = Cardinality(write_list) + 1
    BY Zenon, <2>1, <2>2, Plus DEF QueueInv
  <2>4. Cardinality(Signalling') = Cardinality(Signalling) + 1
    <3>1. t \notin Signalling /\ t \in Signalling' /\ Signalling \ {t} = Signalling' \ {t}
      BY Zenon, <1>2 DEF Queue, Goto, At, TypeOK, Signalling
    <3>2. QED BY Zenon, <3>1, Laws, OneMore DEF Signalling
  <2>5. QueueCounted'
    BY <2>2, <2>3, <2>4, QueueNats, CountedForm, InCurStays
  <2>6. QED BY Zenon, <2>2, <2>3, <2>5 DEF QueueInv
<1>3. ASSUME NEW t \in Procs, Signal(t)
      PROVE  QueueInv'
  <2>1. num_flush_buffers' = num_flush_buffers + 1 /\ UNCHANGED <<write_list, cur, q, new_q, pp>>
    BY Zenon, <1>3 DEF Signal
  <2>2. Cardinality(Signalling) = Cardinality(Signalling') + 1
    <3>1. t \in Signalling /\ t \notin Signalling' /\ Signalling \ {t} = Signalling' \ {t}
      BY <1>3, ReturnsTo DEF Signal, At, TypeOK, Signalling
    <3>2. QED BY ZenonT(30), <3>1, Laws, OneMore DEF Signalling
  <2>3. Cardinality(Signalling') \in Nat
    BY Zenon, Laws, ProcsFinite DEF Signalling
  <2>4. QueueCounted'
    BY <2>1, <2>2, <2>3, QueueNats, CountedForm, InCurStays
  <2>5. QED BY Zenon, <2>1, <2>4 DEF QueueInv
<1>4. ASSUME PreprocStep
      PROVE  Signalling' = Signalling
  BY Zenon, <1>4 DEF PreprocStep, PreprocTake, PreprocTestReferences, PreprocTestWriters, PreprocFormat, PreprocEnd, Signalling, At
<1>5. CASE PreprocTake
  <2>1. q = {} /\ q' = write_list /\ write_list' = {} /\ pp' = "test" /\ UNCHANGED <<num_flush_buffers, cur, new_q>>
    BY Zenon, <1>5 DEF PreprocTake, Preproc, QueueInv
  <2>2. IsFiniteSet({}) /\ Cardinality({}) = 0
    BY Zenon, FS_EmptySet
  <2>3. Signalling' = Signalling
    BY Zenon, <1>4, <1>5 DEF PreprocStep
  <2>4. QueueCounted'
    BY <2>1, <2>2, <2>3, QueueNats, CountedForm, InCurStays
  <2>5. QED BY Zenon, <2>1, <2>2, <2>4 DEF QueueInv
<1>6. CASE PreprocTestReferences
  <2>1. PICK b \in q : /\ q' = q \ {b} /\ pp' # "wait" /\ pp = "test" /\ UNCHANGED <<num_flush_buffers, new_q>>
                       /\ \/ write_list' = write_list \union {b} /\ cur' = cur
                          \/ write_list' = write_list /\ cur' = b
    BY Zenon, <1>6 DEF PreprocTestReferences, Preproc
  <2>2. b \notin write_list /\ b # None /\ cur = None
    BY Zenon, <1>6, <2>1, AddrsAssumption DEF ListInv, TypeOK
  <2>3. IsFiniteSet(q') /\ Cardinality(q) = Cardinality(q') + 1 /\ Cardinality(q') \in Nat
    BY Zenon, <2>1, Minus, FS_CardinalityType DEF QueueInv
  <2>4. Signalling' = Signalling
    BY Zenon, <1>4, <1>6 DEF PreprocStep
  <2>5. CASE write_list' = write_list \union {b} /\ cur' = cur
    <3>1. IsFiniteSet(write_list') /\ Cardinality(write_list') = Cardinality(write_list) + 1
      BY Zenon, <2>2, <2>5, Plus DEF QueueInv
    <3>2. QueueCounted'
      BY <2>1, <2>3, <2>4, <2>5, <3>1, QueueNats, CountedForm, InCurStays
    <3>3. QED BY Zenon, <2>1, <2>3, <3>1, <3>2 DEF QueueInv
  <2>6. CASE write_list' = write_list /\ cur' = b
    <3>1. InCur' = {b} /\ Cardinality({b}) = 1
      BY Zenon, <2>2, <2>6, FS_Singleton DEF InCur
    <3>2. QueueCounted'
      BY <2>1, <2>2, <2>3, <2>4, <2>6, <3>1, QueueNats, CountedForm, InCurStays
    <3>3. QED BY Zenon, <2>1, <2>3, <2>6, <3>2 DEF QueueInv
  <2>7. QED BY Zenon, <2>1, <2>5, <2>6
<1>7. CASE PreprocTestWriters
  <2>1. cur # None /\ cur \notin write_list /\ cur \notin new_q
    BY Zenon, <1>7 DEF ListInv, PreprocTestWriters, Preproc, Taken
  <2>2. /\ cur' = None /\ pp' = "test" /\ q' = q
        /\ \/ write_list' = write_list \union {cur} /\ UNCHANGED <<num_flush_buffers, new_q>>
           \/ num_flush_buffers' = num_flush_buffers - 1 /\ UNCHANGED <<write_list, new_q>>
           \/ new_q' = new_q \union {cur} /\ UNCHANGED <<num_flush_buffers, write_list>>
    BY Zenon, <1>7 DEF PreprocTestWriters, Preproc
  <2>3. InCur' = {} /\ Cardinality({}) = 0 /\ Signalling' = Signalling
    BY Zenon, <1>4, <1>7, <2>2, FS_EmptySet DEF InCur, PreprocStep
  <2>4. CASE write_list' = write_list \union {cur} /\ UNCHANGED <<num_flush_buffers, new_q>>
    <3>1. IsFiniteSet(write_list') /\ Cardinality(write_list') = Cardinality(write_list) + 1
      BY Zenon, <2>1, <2>4, Plus DEF QueueInv
    <3>2. QueueCounted'
      BY <2>1, <2>2, <2>3, <2>4, <3>1, QueueNats, CountedForm, InCurStays
    <3>3. QED BY Zenon, <2>2, <2>4, <3>1, <3>2 DEF QueueInv
  <2>5. CASE num_flush_buffers' = num_flush_buffers - 1 /\ UNCHANGED <<write_list, new_q>>
    <3>1. QueueCounted'
      BY <2>1, <2>2, <2>3, <2>5, QueueNats, CountedForm, InCurStays
    <3>2. QED BY Zenon, <2>2, <2>5, <3>1 DEF QueueInv
  <2>6. CASE new_q' = new_q \union {cur} /\ UNCHANGED <<num_flush_buffers, write_list>>
    <3>1. IsFiniteSet(new_q') /\ Cardinality(new_q') = Cardinality(new_q) + 1
      BY Zenon, <2>1, <2>6, Plus DEF QueueInv
    <3>2. QueueCounted'
      BY <2>1, <2>2, <2>3, <2>6, <3>1, QueueNats, CountedForm, InCurStays
    <3>3. QED BY Zenon, <2>2, <2>6, <3>1, <3>2 DEF QueueInv
  <2>7. QED BY Zenon, <2>2, <2>4, <2>5, <2>6
<1>8. CASE PreprocFormat
  <2>1. PICK b \in new_q : new_q' = new_q \ {b} /\ num_flush_buffers' = num_flush_buffers - 1
    BY Zenon, <1>8 DEF PreprocFormat
  <2>2. UNCHANGED <<write_list, cur, q, pp>>
    BY Zenon, <1>8 DEF PreprocFormat, Preproc
  <2>3. IsFiniteSet(new_q') /\ Cardinality(new_q) = Cardinality(new_q') + 1 /\ Cardinality(new_q') \in Nat
    BY Zenon, <2>1, Minus, FS_CardinalityType DEF QueueInv
  <2>4. Signalling' = Signalling
    BY Zenon, <1>4, <1>8 DEF PreprocStep
  <2>5. QueueCounted'
    BY <2>1, <2>2, <2>3, <2>4, QueueNats, CountedForm, InCurStays
  <2>6. QED BY Zenon, <2>2, <2>3, <2>5 DEF QueueInv
<1>9. CASE PreprocEnd
  <2>1. UNCHANGED <<write_list, num_flush_buffers, cur, q, new_q>> /\ q = {}
    BY Zenon, <1>9 DEF PreprocEnd
  <2>2. QED BY Zenon, <1>4, <1>9, <2>1, QueueStays DEF PreprocStep
<1>10. CASE Wakeup \/ FlushStep \/ UNCHANGED vars
  <2>1. UNCHANGED <<write_list, num_flush_buffers, cur, q, new_q, pp>>
    BY Zenon, <1>10 DEF Wakeup, FlushStep, Flush, NotExpired, Expired, vars, lists
  <2>2. Signalling' = Signalling
    BY Zenon, <1>10 DEF Wakeup, FlushStep, Flush, NotExpired, Expired, vars, Goto, At, TypeOK, Signalling, Procs
  <2>3. QED BY Zenon, <2>1, <2>2, QueueStays
<1>11. QED
  BY Zenon, <1>1, <1>2, <1>3, <1>5, <1>6, <1>7, <1>8, <1>9, <1>10 DEF Next, Step, PreprocStep, Procs
-----------------------------------------------------------------------------
LEMMA IInvInit == Init => IInv
<1> SUFFICES ASSUME Init
             PROVE  IInv
  BY Zenon
<1>1. PICK b \in Addrs : m_log_buffer = [ptr |-> b, version |-> 0] /\ live = {b}
  BY Zenon, AddrsAssumption DEF Init
<1>2. /\ m_log_buffer.ptr = b /\ m_log_buffer.version = 0
      /\ m_state = [a \in Addrs |-> Empty] /\ m_references = [a \in Addrs |-> 0] /\ content = [a \in Addrs |-> {}]
      /\ write_list = {} /\ q = {} /\ cur = None /\ new_q = {} /\ flush_buffers = {} /\ flush_text = {} /\ gone = {}
      /\ num_flush_buffers = 0 /\ pp = "wait" /\ preproc_notify = TRUE /\ flush_notify = TRUE /\ format \in Formats
      /\ pc = [t \in Procs |-> IF t = Flusher THEN "wait" ELSE "idle"]
      /\ buffer = [t \in Procs |-> None] /\ size = [t \in Procs |-> 0] /\ offset = [t \in Procs |-> 0]
      /\ old_version = [t \in Procs |-> 0] /\ count = [t \in Procs |-> 0]
  BY Zenon, <1>1 DEF Init
<1>3. TypeOK
  BY <1>1, <1>2 DEF TypeOK, Empty
<1>4. \A t \in Procs : pc[t] \in {"idle", "wait"}
  BY Zenon, <1>2
<1>5. LocalInv
  BY <1>2, <1>4, ProcsAssumption, SizesAssumption DEF LocalInv, Procs
<1>6. ListInv /\ HandInv
  BY Zenon, <1>1, <1>2, <1>4 DEF ListInv, HandInv, InHand, Listed, Taken
<1>7. \A c \in Addrs : Unused(c) /\ Cardinality(Users(c)) = 0 /\ Cardinality(Writers(c)) = 0
  BY Zenon, <1>4, FS_EmptySet DEF Unused, Users, Writers, Holds, Writes
<1>8. CountInv
  BY Zenon, <1>2, <1>4, <1>7 DEF CountInv, CountOf, At, Empty
<1>9. FullInv /\ OneReplaces
  BY Zenon, <1>1, <1>2, <1>4, <1>7 DEF FullInv, OneReplaces, At, Unused
<1>10. UsersKeepBuffers
  BY Zenon, <1>7, KeepForm
<1>11. RoomInv
  BY <1>2, <1>4, SizesAssumption DEF RoomInv, RoomIsOwn, Writes, Empty, Procs
<1>12. QED BY Zenon, <1>3, <1>5, <1>6, <1>8, <1>9, <1>10, <1>11 DEF IInv

LEMMA IInvStep == IInv /\ [Next]_vars => IInv'
BY Zenon, Laws, TypeStep, LocalStep, PlaceStep, CountStep, FullStep, KeepStep, RoomStep DEF IInv

LEMMA IInvAlways == Spec => []IInv
BY IInvInit, IInvStep, PTL DEF Spec

LEMMA EntryInit == Init => HeldInv /\ EntryInv
<1> SUFFICES ASSUME Init
             PROVE  HeldInv /\ EntryInv
  BY Zenon
<1>1. PICK b : m_log_buffer = [ptr |-> b, version |-> 0] /\ live = {b}
  BY Zenon DEF Init
<1>2. HeldInv
  BY Zenon, <1>1 DEF Init, HeldInv, InPlace
<1>3. content = [a \in Addrs |-> {}] /\ flush_text = {} /\ gone = {}
  BY Zenon DEF Init
<1>4. \A t \in Threads : pc[t] \in {"idle", "wait"}
  BY Zenon DEF Init, Procs
<1>5. QED BY Zenon, <1>2, <1>3, <1>4 DEF EntryInv, Writes, Somewhere

LEMMA EntryAlways == Spec => [](HeldInv /\ EntryInv)
<1>1. IInv /\ HeldInv /\ EntryInv /\ [Next]_vars => HeldInv' /\ EntryInv'
  BY Zenon, Laws, HeldStep, EntryStep
<1>2. QED BY <1>1, IInvAlways, EntryInit, PTL DEF Spec

LEMMA QueueInit == Init => QueueInv
<1> SUFFICES ASSUME Init
             PROVE  QueueInv
  BY Zenon
<1>1. /\ write_list = {} /\ q = {} /\ new_q = {} /\ num_flush_buffers = 0
      /\ InCur = {} /\ Signalling = {}
  BY Zenon DEF Init, InCur, Signalling, At
<1>2. IsFiniteSet({}) /\ Cardinality({}) = 0
  BY Zenon, FS_EmptySet
<1>3. QED BY <1>1, <1>2, CountedForm DEF QueueInv

LEMMA QueueAlways == Spec => []QueueInv
<1>1. IInv /\ QueueInv /\ [Next]_vars => QueueInv'
  BY Zenon, QueueStep DEF IInv
<1>2. QED BY <1>1, IInvAlways, QueueInit, PTL DEF Spec

\* The variables of the log keep their types; the counts that are kept as unsigned
\* numbers (version, num_writers) never fall below zero (LogObject.cc:250, LogBuffer.cc:344).
THEOREM LogTypes == Spec => []TypeOK
BY IInvAlways, PTL DEF IInv

\* However many threads log and whichever of them is delayed, no buffer is deleted,
\* formatted or passed to the flush thread while one has a reference to it or is
\* writing its entry (preproc_buffers, LogFile::preproc_and_try_delete).
THEOREM BuffersAreKept == Spec => []UsersKeepBuffers
BY IInvAlways, PTL DEF IInv

\* Entries that are written at the same time have disjoint room within the buffer
\* (LogBuffer::checkout_write).
THEOREM EntriesHaveRoom == Spec => []RoomIsOwn
BY IInvAlways, PTL DEF IInv, RoomInv

\* A thread that was told LB_FULL finds the buffer still current, so that its new buffer is
\* never given up (LogObject::_checkout_write).
THEOREM FullIsReplacedOnce == Spec => []OneReplaces
BY IInvAlways, PTL DEF IInv

\* No entry is lost or written twice: one that was given room is in one buffer that is still
\* to be flushed, or in the text made from it, or written or counted as lost.
THEOREM EntriesAreKeptOnce == Spec => []EntriesOnce
BY IInvAlways, EntryAlways, EntryImplies, PTL

\* _num_flush_buffers counts the queued buffers, but for those a thread has pushed and is
\* about to count (LogBufferManager::add_to_flush_queue, preproc_buffers).
THEOREM QueuesAreCounted == Spec => []QueueCounted
BY QueueAlways, PTL DEF QueueInv
=============================================================================
