---------------------------- MODULE MCNosqlClient ----------------------------
(***************************************************************************)
(* An instance of NosqlClient for TLC.                                     *)
(***************************************************************************)
EXTENDS NosqlClient
CONSTANTS c1, c2, k1, k2, v1

Callers == {c1, c2}
Keys == {k1, k2}
LockedKeys == {k1}
Values == {v1}
=============================================================================
