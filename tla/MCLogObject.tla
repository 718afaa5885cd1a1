---------------------------- MODULE MCLogObject ----------------------------
(***************************************************************************)
(* LogObject with a small set of buffers for TLC.                           *)
(***************************************************************************)
EXTENDS LogObject, FiniteSetsExt

\* The addresses are alike, so that it does not matter which of the free ones is taken.
MCAlloc(S) == IF S = {} THEN {} ELSE {Min(S)}
=============================================================================
