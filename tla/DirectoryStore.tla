--------------------------- MODULE DirectoryStore ---------------------------
(***************************************************************************)
(* What the two copies of the directory on a stripe promise together: one   *)
(* stored directory, replaced in a single step by a snapshot of the one in  *)
(* memory, and found again after a crash.  The module names no copy, no     *)
(* serial and no order of writes.  A crash while a stripe is being cleared  *)
(* may bring back a directory stored earlier, as long as the clearing has   *)
(* not ended.                                                               *)
(***************************************************************************)
CONSTANTS Contents, Empty, None, Repairs

VARIABLES memory, snapshot, stored, past, state

vars == <<memory, snapshot, stored, past, state>>

Init ==
  /\ memory = Empty /\ snapshot = None /\ stored = Empty /\ past = {Empty} /\ state = "down"

Update ==
  /\ state = "up"
  /\ memory' \in Contents
  /\ UNCHANGED <<snapshot, stored, past, state>>

Snapshot ==
  /\ state = "up"
  /\ snapshot' = memory
  /\ UNCHANGED <<memory, stored, past, state>>

\* The stored directory is replaced, all of it at once.
Commit ==
  /\ state = "up" /\ snapshot # None
  /\ stored' = snapshot
  /\ past' = past \union {snapshot}
  /\ snapshot' = None
  /\ UNCHANGED <<memory, state>>

Crash ==
  /\ state' = "down" /\ memory' = Empty /\ snapshot' = None
  /\ stored' = stored \/ (state = "clearing" /\ stored' \in past)
  /\ UNCHANGED past

Restart ==
  /\ state = "down" /\ state' = "up"
  /\ \/ memory' = stored /\ snapshot' = None
     \/ memory' \in Repairs[stored] /\ snapshot' = memory'
  /\ UNCHANGED <<stored, past>>

StartClear ==
  /\ state = "down" /\ state' = "clearing"
  /\ memory' = Empty /\ snapshot' = None
  /\ UNCHANGED <<stored, past>>

FallBack ==
  /\ state = "clearing"
  /\ stored' \in past
  /\ UNCHANGED <<memory, snapshot, past, state>>

Cleared ==
  /\ state = "clearing" /\ state' = "up"
  /\ stored' = Empty /\ past' = {Empty}
  /\ UNCHANGED <<memory, snapshot>>

Next == Update \/ Snapshot \/ Commit \/ Crash \/ Restart \/ StartClear \/ FallBack \/ Cleared

Spec == Init /\ [][Next]_vars
=============================================================================
