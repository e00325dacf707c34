----------------------------- MODULE MCCaseStore -----------------------------
(***************************************************************************)
(* An instance of CaseStore for TLC.                                       *)
(***************************************************************************)
EXTENDS CaseStore, TLC
CONSTANTS r1, r2, r3, a, b, s1, s2

Requests == {r1, r2, r3}
Officers == {a, b}
Sessions == {s1, s2}
Symmetry == Permutations(Request) \cup Permutations(Session)
=============================================================================
