---------------------------- MODULE SharedMutex ----------------------------
(***************************************************************************)
(* What a shared (reader-writer) mutex promises its callers: any number of  *)
(* shared holders, or one exclusive holder, never both.  The contract that  *)
(* ts::bravo::shared_mutex (include/tsutil/Bravo.h) states through its      *)
(* lock, lock_shared, unlock and unlock_shared signatures.                  *)
(***************************************************************************)
CONSTANT Threads

VARIABLES shared,      \* threads inside a shared critical section
          exclusive    \* threads inside an exclusive critical section

vars == <<shared, exclusive>>

Init == shared = {} /\ exclusive = {}

AcquireShared(t) ==
  /\ exclusive = {}
  /\ t \notin shared
  /\ shared' = shared \cup {t}
  /\ UNCHANGED exclusive

ReleaseShared(t) ==
  /\ t \in shared
  /\ shared' = shared \ {t}
  /\ UNCHANGED exclusive

AcquireExclusive(t) ==
  /\ exclusive = {}
  /\ shared = {}
  /\ exclusive' = {t}
  /\ UNCHANGED shared

ReleaseExclusive(t) ==
  /\ exclusive = {t}
  /\ exclusive' = {}
  /\ UNCHANGED shared

Next == \E t \in Threads : \/ AcquireShared(t) \/ ReleaseShared(t)
                           \/ AcquireExclusive(t) \/ ReleaseExclusive(t)

Spec == Init /\ [][Next]_vars
=============================================================================
