---------------------------- MODULE Bravo_proofs ----------------------------
(***************************************************************************)
(* Proofs about Bravo for any number of threads and slots.  Ownership of    *)
(* the slots and of the underlying mutex holds whatever the memory order;   *)
(* mutual exclusion, and with it the implementation of the abstract lock,   *)
(* is proved for StoreBuffers = FALSE.                                      *)
(***************************************************************************)
EXTENDS Bravo, TLAPS

Acquiring == ReaderPC \ {"shared"}
ByToken(t) == pc[t] = "shared" /\ token[t] # 0
ByUnderlying(t) == pc[t] \in {"slowLoad", "slowStore"} \/ (pc[t] = "shared" /\ token[t] = 0)

\* Who holds the underlying mutex, and who owns which slot.
Ownership ==
  /\ TypeOK
  /\ \A t \in Threads : t \in uOwner <=> pc[t] \in WriterPC
  /\ \A t \in Threads : t \in uShared <=> ByUnderlying(t)
  /\ \A t, u \in uOwner : t = u
  /\ uOwner = {} \/ uShared = {}
  /\ \A t \in Threads : pc[t] \in Acquiring => token[t] = 0
  /\ \A t \in Threads : ByToken(t) => token[t] = Index[t] + 1
  /\ SlotOwnership

\* A reader inside by its slot is seen by the bias or by the scan that clears it.
BiasInv ==
  /\ buffered = {}
  /\ \A t \in Threads : pc[t] \in {"scan", "exclusive"} => ~read_bias
  /\ \A t \in Threads : ByToken(t) =>
       read_bias \/ \E w \in Threads : pc[w] = "scan" /\ scan[w] <= Index[t]

USE BravoAssumption

\* Every step keeps the type invariant and the ownership facts, whatever the
\* memory order: the CAS gives a slot to one reader, the underlying mutex
\* admits shared holders or one exclusive holder.
LEMMA OwnershipStep == Ownership /\ [NextBuffered]_vars => Ownership'
<1> SUFFICES ASSUME Ownership, [NextBuffered]_vars PROVE Ownership'
  OBVIOUS
<1> USE DEF Ownership, TypeOK, Acquiring, ByToken, ByUnderlying, WriterPC, ReaderPC, SlotOwnership,
            FastHolders, Goto, Slots
<1>1. ASSUME NEW t \in Threads, LoadBias(t) PROVE Ownership'
  BY <1>1, SMTT(30) DEF LoadBias
<1>2. ASSUME NEW t \in Threads, Lock(t) PROVE Ownership'
  BY <1>2, SMTT(30) DEF Lock
<1>3. ASSUME NEW t \in Threads, SlotCas(t) PROVE Ownership'
  <2>1. CASE pc' = [pc EXCEPT ![t] = "recheck"] /\ ~readers[Index[t]]
                /\ readers' = [readers EXCEPT ![Index[t]] = TRUE]
    BY <1>3, <2>1, SMTT(30) DEF SlotCas
  <2>2. CASE pc' = [pc EXCEPT ![t] = "slow"] /\ UNCHANGED readers
    BY <1>3, <2>2, SMTT(30) DEF SlotCas
  <2> QED
    BY <1>3, <2>1, <2>2, SMTT(30) DEF SlotCas
<1>4. ASSUME NEW t \in Threads, Recheck(t) PROVE Ownership'
  <2>0. Index[t] + 1 \in 1 .. SLOT_SIZE
    OBVIOUS
  <2>1. CASE token' = [token EXCEPT ![t] = Index[t] + 1] /\ pc' = [pc EXCEPT ![t] = "shared"]
    <3>1. TypeOK'
      BY <1>4, <2>0, <2>1, SMTT(30) DEF Recheck
    <3>2. SlotOwnership'
      BY <1>4, <2>0, <2>1, SMTT(30) DEF Recheck
    <3>3. \A u \in Threads : ByUnderlying(u)' <=> ByUnderlying(u)
      BY <1>4, <2>0, <2>1, SMTT(30) DEF Recheck
    <3>4. \A u \in Threads : ByToken(u)' => token'[u] = Index[u] + 1
      BY <1>4, <2>0, <2>1, SMTT(30) DEF Recheck
    <3>5. \A u \in Threads : pc'[u] \in Acquiring => token'[u] = 0
      BY <1>4, <2>0, <2>1, SMTT(30) DEF Recheck
    <3> QED
      BY <1>4, <2>1, <3>1, <3>2, <3>3, <3>4, <3>5, SMTT(30) DEF Recheck
  <2>2. CASE pc' = [pc EXCEPT ![t] = "undo"] /\ UNCHANGED token
    BY <1>4, <2>2, SMTT(30) DEF Recheck
  <2> QED
    BY <1>4, <2>1, <2>2, ZenonT(30) DEF Recheck
<1>5. ASSUME NEW t \in Threads, UndoSlot(t) PROVE Ownership'
  BY <1>5, SMTT(30) DEF UndoSlot
<1>6. ASSUME NEW t \in Threads, SlowLock(t) PROVE Ownership'
  BY <1>6, SMTT(30) DEF SlowLock
<1>7. ASSUME NEW t \in Threads, SlowFail(t) PROVE Ownership'
  BY <1>7, SMTT(30) DEF SlowFail
<1>8. ASSUME NEW t \in Threads, SlowLoad(t) PROVE Ownership'
  BY <1>8, SMTT(30) DEF SlowLoad
<1>9. ASSUME NEW t \in Threads, SlowStore(t) PROVE Ownership'
  BY <1>9, SMTT(30) DEF SlowStore
<1>10. ASSUME NEW t \in Threads, UnlockShared(t) PROVE Ownership'
  <2>1. CASE token[t] = 0
    BY <1>10, <2>1, SMTT(30) DEF UnlockShared
  <2>2. CASE token[t] # 0
    <3>0. Index[t] \in Int /\ token[t] = Index[t] + 1
      BY <1>10, <2>2, SMTT(30) DEF UnlockShared
    <3>1. token[t] - 1 = Index[t]
      BY <3>0
    <3>2. readers' = [readers EXCEPT ![Index[t]] = FALSE]
      BY <1>10, <2>2, <3>1, SMTT(30) DEF UnlockShared
    <3> QED
      BY <1>10, <2>2, <3>2, SMTT(30) DEF UnlockShared
  <2> QED
    BY <2>1, <2>2
<1>11. ASSUME NEW t \in Threads, RevokeLoad(t) PROVE Ownership'
  BY <1>11, SMTT(30) DEF RevokeLoad
<1>12. ASSUME NEW t \in Threads, RevokeClear(t) PROVE Ownership'
  <2>1. TypeOK'
    <3>1. read_bias' \in BOOLEAN /\ buffered' \subseteq Threads
      <4>1. CASE StoreBuffers
        BY <1>12, <4>1, SMTT(30) DEF RevokeClear
      <4>2. CASE ~StoreBuffers
        BY <1>12, <4>2, ZenonT(30) DEF RevokeClear
      <4> QED
        BY <4>1, <4>2
    <3> QED
      BY <1>12, <3>1, SMTT(30) DEF RevokeClear
  <2> QED
    BY <1>12, <2>1, SMTT(30) DEF RevokeClear
<1>13. ASSUME NEW t \in Threads, RevokeScan(t) PROVE Ownership'
  BY <1>13, SMTT(30) DEF RevokeScan
<1>14. ASSUME NEW t \in Threads, RevokeDone(t) PROVE Ownership'
  BY <1>14, SMTT(30) DEF RevokeDone
<1>15. ASSUME NEW t \in Threads, Unlock(t) PROVE Ownership'
  BY <1>15, SMTT(30) DEF Unlock
<1>16. ASSUME NEW t \in Threads, Drain(t) PROVE Ownership'
  BY <1>16, ZenonT(30) DEF Drain
<1>17. CASE InhibitExpires
  BY <1>17, ZenonT(30) DEF InhibitExpires
<1>18. CASE UNCHANGED vars
  BY <1>18 DEF vars
<1> QED
  BY <1>1, <1>2, <1>3, <1>4, <1>5, <1>6, <1>7, <1>8, <1>9, <1>10, <1>11, <1>12, <1>13,
     <1>14, <1>15, <1>16, <1>17, <1>18 DEF NextBuffered, Next, ReaderStep, WriterStep

\* The initial state satisfies the ownership facts.
LEMMA OwnershipInit == Init => Ownership
<1>1. Init => read_bias \in BOOLEAN /\ readers \in [Slots -> BOOLEAN] /\ inhibited \in BOOLEAN
  BY Zenon DEF Init
<1>2. Init => TypeOK
  BY <1>1 DEF Init, TypeOK
<1> QED
  BY <1>2 DEF Init, Ownership, Acquiring, ByToken, ByUnderlying, WriterPC, ReaderPC,
              SlotOwnership, FastHolders

\* Slot ownership for every number of threads and slots and either memory order.
THEOREM SlotsAreOwned == SpecBuffered => [](TypeOK /\ SlotOwnership)
<1>1. Ownership => TypeOK /\ SlotOwnership
  BY DEF Ownership
<1> QED
  BY <1>1, OwnershipInit, OwnershipStep, PTL DEF SpecBuffered

\* A behaviour without delayed stores is one in which none is delayed.
LEMMA SpecIsBuffered == Spec => SpecBuffered
<1>1. [Next]_vars => [NextBuffered]_vars
  BY DEF NextBuffered
<1> QED
  BY <1>1, PTL DEF Spec, SpecBuffered

\* With every store visible at once, a step keeps BiasInv: a reader is inside by
\* its slot only while the bias is set or a writer has still to scan its slot.
LEMMA BiasStep ==
  ASSUME ~StoreBuffers, Ownership, BiasInv, [Next]_vars
  PROVE  BiasInv'
<1> USE DEF Ownership, TypeOK, BiasInv, Acquiring, ByToken, ByUnderlying, WriterPC, ReaderPC,
            SlotOwnership, FastHolders, Goto, Slots
<1>1. ASSUME NEW t \in Threads, LoadBias(t) PROVE BiasInv'
  BY <1>1, SMTT(30) DEF LoadBias
<1>2. ASSUME NEW t \in Threads, Lock(t) PROVE BiasInv'
  BY <1>2, SMTT(30) DEF Lock
<1>3. ASSUME NEW t \in Threads, SlotCas(t) PROVE BiasInv'
  BY <1>3, SMTT(30) DEF SlotCas
<1>4. ASSUME NEW t \in Threads, Recheck(t) PROVE BiasInv'
  BY <1>4, SMTT(30) DEF Recheck
<1>5. ASSUME NEW t \in Threads, UndoSlot(t) PROVE BiasInv'
  BY <1>5, SMTT(30) DEF UndoSlot
<1>6. ASSUME NEW t \in Threads, SlowLock(t) PROVE BiasInv'
  BY <1>6, SMTT(30) DEF SlowLock
<1>7. ASSUME NEW t \in Threads, SlowFail(t) PROVE BiasInv'
  BY <1>7, SMTT(30) DEF SlowFail
<1>8. ASSUME NEW t \in Threads, SlowLoad(t) PROVE BiasInv'
  BY <1>8, SMTT(30) DEF SlowLoad
<1>9. ASSUME NEW t \in Threads, SlowStore(t) PROVE BiasInv'
  BY <1>9, SMTT(30) DEF SlowStore
<1>10. ASSUME NEW t \in Threads, UnlockShared(t) PROVE BiasInv'
  BY <1>10, SMTT(30) DEF UnlockShared
<1>11. ASSUME NEW t \in Threads, RevokeLoad(t) PROVE BiasInv'
  BY <1>11, SMTT(30) DEF RevokeLoad
<1>12. ASSUME NEW t \in Threads, RevokeClear(t) PROVE BiasInv'
  BY <1>12, SMTT(30) DEF RevokeClear
<1>13. ASSUME NEW t \in Threads, RevokeScan(t) PROVE BiasInv'
  BY <1>13, SMTT(30) DEF RevokeScan
<1>14. ASSUME NEW t \in Threads, RevokeDone(t) PROVE BiasInv'
  BY <1>14, SMTT(30) DEF RevokeDone
<1>15. ASSUME NEW t \in Threads, Unlock(t) PROVE BiasInv'
  BY <1>15, SMTT(30) DEF Unlock
<1>16. CASE InhibitExpires
  BY <1>16, SMTT(30) DEF InhibitExpires
<1>17. CASE UNCHANGED vars
  BY <1>17 DEF vars
<1> QED
  BY <1>1, <1>2, <1>3, <1>4, <1>5, <1>6, <1>7, <1>8, <1>9, <1>10, <1>11, <1>12, <1>13,
     <1>14, <1>15, <1>16, <1>17 DEF Next, ReaderStep, WriterStep

\* Ownership and BiasInv together exclude a writer beside a reader or a writer.
LEMMA InvExcludes == Ownership /\ BiasInv => MutualExclusion
  BY DEF Ownership, TypeOK, BiasInv, ByToken, ByUnderlying, WriterPC, ReaderPC,
         MutualExclusion, SharedHolders, ExclusiveHolders

\* Mutual exclusion of ts::bravo::shared_mutex for any number of threads and
\* slots, when the writer's store of read_bias is visible before its slot loads.
THEOREM Exclusion == ~StoreBuffers => (Spec => []MutualExclusion)
<1> SUFFICES ASSUME ~StoreBuffers PROVE Spec => []MutualExclusion
  OBVIOUS
<1>1. Init => BiasInv
  BY DEF Init, BiasInv, ByToken
<1>2. Ownership /\ BiasInv /\ [Next]_vars => BiasInv'
  BY BiasStep
<1>3. [Next]_vars => [NextBuffered]_vars
  BY DEF NextBuffered
<1> QED
  BY <1>1, <1>2, <1>3, OwnershipInit, OwnershipStep, InvExcludes, PTL DEF Spec

\* Every step of the lock is a step of the abstract reader-writer lock or leaves
\* its holders alone.
LEMMA AbstractStep ==
  ASSUME TypeOK, MutualExclusion, MutualExclusion', [Next]_vars
  PROVE  [Abstract!Next]_(Abstract!vars)
<1> DEFINE Same == SharedHolders' = SharedHolders /\ ExclusiveHolders' = ExclusiveHolders
<1> USE DEF TypeOK, WriterPC, ReaderPC, MutualExclusion, SharedHolders, ExclusiveHolders, Goto
<1> USE DEF Abstract!vars, Abstract!Next, Abstract!AcquireShared, Abstract!ReleaseShared,
            Abstract!AcquireExclusive, Abstract!ReleaseExclusive
<1>1. ASSUME NEW t \in Threads,
             LoadBias(t) \/ Lock(t) \/ SlotCas(t) \/ UndoSlot(t) \/ SlowLock(t) \/ SlowFail(t)
               \/ RevokeClear(t) \/ RevokeScan(t)
      PROVE  Same
  BY <1>1 DEF LoadBias, Lock, SlotCas, UndoSlot, SlowLock, SlowFail, RevokeClear, RevokeScan
<1>2. ASSUME NEW t \in Threads, Recheck(t) \/ SlowLoad(t) \/ SlowStore(t)
      PROVE  Same \/ Abstract!AcquireShared(t)
  BY <1>2 DEF Recheck, SlowLoad, SlowStore
<1>3. ASSUME NEW t \in Threads, UnlockShared(t) PROVE Abstract!ReleaseShared(t)
  BY <1>3 DEF UnlockShared
<1>4. ASSUME NEW t \in Threads, RevokeLoad(t) \/ RevokeDone(t)
      PROVE  Same \/ Abstract!AcquireExclusive(t)
  BY <1>4 DEF RevokeLoad, RevokeDone
<1>5. ASSUME NEW t \in Threads, Unlock(t) PROVE Abstract!ReleaseExclusive(t)
  BY <1>5 DEF Unlock
<1>6. CASE InhibitExpires \/ UNCHANGED vars
  BY <1>6 DEF InhibitExpires, vars
<1> QED
  BY <1>1, <1>2, <1>3, <1>4, <1>5, <1>6 DEF Next, ReaderStep, WriterStep

\* ts::bravo::shared_mutex implements the abstract reader-writer lock for any
\* number of threads and slots, when stores are visible at once.
THEOREM Implements == ~StoreBuffers => (Spec => ImplementsSharedMutex)
<1> SUFFICES ASSUME ~StoreBuffers PROVE Spec => ImplementsSharedMutex
  OBVIOUS
<1>1. Init => Abstract!Init
  BY DEF Init, Abstract!Init, SharedHolders, ExclusiveHolders
<1>2. Spec => []TypeOK
  BY SlotsAreOwned, SpecIsBuffered, PTL
<1>3. Spec => []MutualExclusion
  BY Exclusion
<1>4. TypeOK /\ MutualExclusion /\ MutualExclusion' /\ [Next]_vars
        => [Abstract!Next]_(Abstract!vars)
  BY AbstractStep
<1> QED
  BY <1>1, <1>2, <1>3, <1>4, PTL DEF Spec, ImplementsSharedMutex, Abstract!Spec
=============================================================================
