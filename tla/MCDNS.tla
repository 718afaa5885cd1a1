------------------------------- MODULE MCDNS -------------------------------
(***************************************************************************)
(* DNS with the least free query id taken, for TLC.                         *)
(***************************************************************************)
EXTENDS DNS

MCNames(l) == IF l = 1 THEN {"a.b"} ELSE {"a.b", "c"}
MCPick(S) == Min(S)
=============================================================================
