------------------------------- MODULE Bravo -------------------------------
(***************************************************************************)
(* ts::bravo::shared_mutex (include/tsutil/Bravo.h), the biased             *)
(* reader-writer lock that guards the certificate tables, OCSP responses,   *)
(* the connection tracker's exempt list and the cache host table.           *)
(*                                                                          *)
(* A reader that finds read_bias set publishes itself in a slot of its own  *)
(* and re-reads the bias; otherwise it takes the underlying shared mutex.   *)
(* A writer takes the underlying mutex and then revokes the bias: it clears *)
(* read_bias and waits for every slot to empty.                             *)
(*                                                                          *)
(* Each atomic access is one step.  With StoreBuffers = TRUE the writer's   *)
(* release store of read_bias may become visible to the other threads after *)
(* the relaxed slot loads that follow it, which is what a release store     *)
(* followed by a relaxed load may do on every supported processor, x86      *)
(* included; with FALSE every access takes effect at once.                  *)
(***************************************************************************)
EXTENDS Integers, FiniteSets

CONSTANTS Threads,       \* threads that use the lock
          SLOT_SIZE,     \* number of reader slots
          Index,         \* Index[t] = DenseThreadId::self() % SLOT_SIZE
          StoreBuffers   \* may a store be delayed past a later load?

ASSUME BravoAssumption ==
  /\ SLOT_SIZE \in Nat \ {0}
  /\ Index \in [Threads -> 0 .. SLOT_SIZE - 1]
  /\ StoreBuffers \in BOOLEAN

VARIABLES read_bias,     \* Mutex::read_bias
          readers,       \* Mutex::readers[i].mu
          inhibited,     \* _now() < inhibit_until
          uShared,       \* shared holders of Mutex::underlying
          uOwner,        \* the exclusive holder of Mutex::underlying, a set
          pc,            \* where each thread is
          token,         \* the caller's Token (0: taken by the slow path)
          scan,          \* the slot a revoking thread looks at next
          buffered       \* threads whose read_bias = FALSE is still buffered

vars == <<read_bias, readers, inhibited, uShared, uOwner, pc, token, scan, buffered>>

Slots == 0 .. SLOT_SIZE - 1

ReaderPC == {"slotCas", "recheck", "undo", "slow", "slowLoad", "slowStore", "shared"}
WriterPC == {"revoke", "clear", "scan", "exclusive"}

TypeOK ==
  /\ read_bias \in BOOLEAN
  /\ readers \in [Slots -> BOOLEAN]
  /\ inhibited \in BOOLEAN
  /\ uShared \subseteq Threads
  /\ uOwner \subseteq Threads
  /\ pc \in [Threads -> {"idle"} \cup ReaderPC \cup WriterPC]
  /\ token \in [Threads -> 0 .. SLOT_SIZE]
  /\ scan \in [Threads -> 0 .. SLOT_SIZE]
  /\ buffered \subseteq Threads

Init ==
  /\ read_bias = FALSE
  /\ readers = [i \in Slots |-> FALSE]
  /\ inhibited = FALSE
  /\ uShared = {}
  /\ uOwner = {}
  /\ pc = [t \in Threads |-> "idle"]
  /\ token = [t \in Threads |-> 0]
  /\ scan = [t \in Threads |-> 0]
  /\ buffered = {}

Goto(t, l) == pc' = [pc EXCEPT ![t] = l]

----------------------------------------------------------------------------
(* lock_shared / try_lock_shared                                           *)

\* Mutant of LoadBias: the token of the previous acquisition is kept.
LoadBiasMutant(t) ==
  /\ pc[t] = "idle"
  /\ Goto(t, IF read_bias THEN "slotCas" ELSE "slow")
  /\ UNCHANGED <<read_bias, readers, inhibited, uShared, uOwner, token, scan, buffered>>

\* Clear the token and load the bias: the fast path only when it is set.
LoadBias(t) ==
  /\ pc[t] = "idle"
  /\ token' = [token EXCEPT ![t] = 0]
  /\ Goto(t, IF read_bias THEN "slotCas" ELSE "slow")
  /\ UNCHANGED <<read_bias, readers, inhibited, uShared, uOwner, scan, buffered>>

\* The CAS of the thread's slot, which another thread of the same index may
\* hold; compare_exchange_weak of try_lock_shared may also fail for no reason.
SlotCas(t) ==
  /\ pc[t] = "slotCas"
  /\ \/ /\ ~readers[Index[t]]
        /\ readers' = [readers EXCEPT ![Index[t]] = TRUE]
        /\ Goto(t, "recheck")
     \/ Goto(t, "slow") /\ UNCHANGED readers
  /\ UNCHANGED <<read_bias, inhibited, uShared, uOwner, token, scan, buffered>>

\* Mutant of Recheck: the slot grants the lock without a second look at the bias.
RecheckMutant(t) ==
  /\ pc[t] = "recheck"
  /\ token' = [token EXCEPT ![t] = Index[t] + 1]
  /\ Goto(t, "shared")
  /\ UNCHANGED <<read_bias, readers, inhibited, uShared, uOwner, scan, buffered>>

\* The second load of the bias decides whether the slot grants the lock.
Recheck(t) ==
  /\ pc[t] = "recheck"
  /\ IF read_bias
     THEN token' = [token EXCEPT ![t] = Index[t] + 1] /\ Goto(t, "shared")
     ELSE Goto(t, "undo") /\ UNCHANGED token
  /\ UNCHANGED <<read_bias, readers, inhibited, uShared, uOwner, scan, buffered>>

\* Mutant of UndoSlot: the slot stays set after a failed recheck.
UndoSlotMutant(t) ==
  /\ pc[t] = "undo"
  /\ Goto(t, "slow")
  /\ UNCHANGED <<read_bias, readers, inhibited, uShared, uOwner, token, scan, buffered>>

\* The reader gives its slot back and takes the slow path.
UndoSlot(t) ==
  /\ pc[t] = "undo"
  /\ readers' = [readers EXCEPT ![Index[t]] = FALSE]
  /\ Goto(t, "slow")
  /\ UNCHANGED <<read_bias, inhibited, uShared, uOwner, token, scan, buffered>>

\* underlying.lock_shared(), or a try_lock_shared() that succeeds.
SlowLock(t) ==
  /\ pc[t] = "slow"
  /\ uOwner = {}
  /\ uShared' = uShared \cup {t}
  /\ Goto(t, "slowLoad")
  /\ UNCHANGED <<read_bias, readers, inhibited, uOwner, token, scan, buffered>>

\* try_lock_shared() returns false.
SlowFail(t) ==
  /\ pc[t] = "slow"
  /\ uOwner # {}
  /\ Goto(t, "idle")
  /\ UNCHANGED <<read_bias, readers, inhibited, uShared, uOwner, token, scan, buffered>>

\* The BRAVO policy: set the bias when it is clear and no longer inhibited.
SlowLoad(t) ==
  /\ pc[t] = "slowLoad"
  /\ Goto(t, IF ~read_bias /\ ~inhibited THEN "slowStore" ELSE "shared")
  /\ UNCHANGED <<read_bias, readers, inhibited, uShared, uOwner, token, scan, buffered>>

\* Mutant of SlowStore: the bias is set after the underlying lock was given up.
SlowStoreMutant(t) ==
  /\ pc[t] = "slowStore"
  /\ read_bias' = TRUE
  /\ uShared' = uShared \ {t}
  /\ Goto(t, "shared")
  /\ UNCHANGED <<readers, inhibited, uOwner, token, scan, buffered>>

\* The bias is set while the underlying mutex is held shared.
SlowStore(t) ==
  /\ pc[t] = "slowStore"
  /\ read_bias' = TRUE
  /\ Goto(t, "shared")
  /\ UNCHANGED <<readers, inhibited, uShared, uOwner, token, scan, buffered>>

UnlockShared(t) ==
  /\ pc[t] = "shared"
  /\ IF token[t] = 0
     THEN uShared' = uShared \ {t} /\ UNCHANGED readers
     ELSE readers' = [readers EXCEPT ![token[t] - 1] = FALSE] /\ UNCHANGED uShared
  /\ Goto(t, "idle")
  /\ UNCHANGED <<read_bias, inhibited, uOwner, token, scan, buffered>>

----------------------------------------------------------------------------
(* lock / try_lock, with _revoke                                           *)

\* underlying.lock(), or a try_lock() that succeeds.
Lock(t) ==
  /\ pc[t] = "idle"
  /\ uOwner = {} /\ uShared = {}
  /\ uOwner' = {t}
  /\ Goto(t, "revoke")
  /\ UNCHANGED <<read_bias, readers, inhibited, uShared, token, scan, buffered>>

RevokeLoad(t) ==
  /\ pc[t] = "revoke"
  /\ Goto(t, IF read_bias THEN "clear" ELSE "exclusive")
  /\ UNCHANGED <<read_bias, readers, inhibited, uShared, uOwner, token, scan, buffered>>

RevokeClear(t) ==
  /\ pc[t] = "clear"
  /\ IF StoreBuffers
     THEN buffered' = buffered \cup {t} /\ UNCHANGED read_bias
     ELSE read_bias' = FALSE /\ UNCHANGED buffered
  /\ scan' = [scan EXCEPT ![t] = 0]
  /\ Goto(t, "scan")
  /\ UNCHANGED <<readers, inhibited, uShared, uOwner, token>>

\* The buffered store reaches memory.
Drain(t) ==
  /\ t \in buffered
  /\ buffered' = buffered \ {t}
  /\ read_bias' = FALSE
  /\ UNCHANGED <<readers, inhibited, uShared, uOwner, pc, token, scan>>


\* Wait for slot scan[t] to empty and go to the next one.
RevokeScan(t) ==
  /\ pc[t] = "scan"
  /\ scan[t] < SLOT_SIZE
  /\ ~readers[scan[t]]
  /\ scan' = [scan EXCEPT ![t] = @ + 1]
  /\ UNCHANGED <<read_bias, readers, inhibited, uShared, uOwner, pc, token, buffered>>

\* inhibit_until = n + (n - start) * SLOWDOWN_GUARD: in the future unless the
\* clock did not advance during the scan.
RevokeDone(t) ==
  /\ pc[t] = "scan"
  /\ scan[t] = SLOT_SIZE
  /\ inhibited' \in BOOLEAN
  /\ Goto(t, "exclusive")
  /\ UNCHANGED <<read_bias, readers, uShared, uOwner, token, scan, buffered>>

\* Releasing the underlying mutex is a read-modify-write and drains the buffer.
Unlock(t) ==
  /\ pc[t] = "exclusive"
  /\ t \notin buffered
  /\ uOwner' = {}
  /\ Goto(t, "idle")
  /\ UNCHANGED <<read_bias, readers, inhibited, uShared, token, scan, buffered>>

\* The clock passes inhibit_until.
InhibitExpires ==
  /\ inhibited
  /\ inhibited' = FALSE
  /\ UNCHANGED <<read_bias, readers, uShared, uOwner, pc, token, scan, buffered>>

----------------------------------------------------------------------------
ReaderStep(t) == \/ SlotCas(t) \/ Recheck(t) \/ UndoSlot(t) \/ SlowLock(t) \/ SlowFail(t)
                 \/ SlowLoad(t) \/ SlowStore(t) \/ UnlockShared(t)
WriterStep(t) == \/ RevokeLoad(t) \/ RevokeClear(t) \/ RevokeScan(t) \/ RevokeDone(t)
                 \/ Unlock(t)

Next == \/ \E t \in Threads : LoadBias(t) \/ Lock(t) \/ ReaderStep(t) \/ WriterStep(t)
        \/ InhibitExpires

Spec == Init /\ [][Next]_vars

\* The same with buffered stores that reach memory some time later.
NextBuffered == Next \/ \E t \in Threads : Drain(t)
SpecBuffered == Init /\ [][NextBuffered]_vars

\* Every thread inside the lock's code or its critical section keeps running;
\* nobody is obliged to ask for the lock.
Fairness == \A t \in Threads : WF_vars(ReaderStep(t) \/ WriterStep(t))

FairSpec == Spec /\ Fairness

----------------------------------------------------------------------------
(* Properties                                                              *)

SharedHolders == {t \in Threads : pc[t] = "shared"}
ExclusiveHolders == {t \in Threads : pc[t] = "exclusive"}

\* Mutual exclusion: lock() never returns while a reader holds the lock, by its
\* slot or by the underlying mutex, and two writers never hold it together.
MutualExclusion ==
  /\ ExclusiveHolders = {} \/ SharedHolders = {}
  /\ \A t, u \in ExclusiveHolders : t = u

\* A reader that holds the lock by its slot owns that slot alone and finds it
\* set until it clears it itself: unlock_shared of one reader, or the undo of a
\* failed recheck, never releases another reader that hashes to the same slot.
FastHolders == {t \in Threads : pc[t] \in {"recheck", "undo"} \/ (pc[t] = "shared" /\ token[t] # 0)}
SlotOwnership ==
  /\ \A t \in FastHolders : readers[Index[t]]
  /\ \A t, u \in FastHolders : Index[t] = Index[u] => t = u

\* Implementation of the abstract reader-writer lock: a thread holds it exactly
\* between the step that decides the acquisition and the one that releases it.
Abstract == INSTANCE SharedMutex WITH shared <- SharedHolders, exclusive <- ExclusiveHolders
ImplementsSharedMutex == Abstract!Spec

\* Revocation ends: a writer that started to wait for the slots gets the lock,
\* because with the bias clear no new reader enters by a slot.
RevocationEnds == \A t \in Threads : pc[t] = "scan" ~> pc[t] = "exclusive"
=============================================================================
