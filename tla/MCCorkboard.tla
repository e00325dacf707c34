---------------------------- MODULE MCCorkboard ----------------------------
(***************************************************************************)
(* An instance of Corkboard for TLC: a note and a pinned FIR, and two      *)
(* calls that may overlap.                                                 *)
(***************************************************************************)
EXTENDS Corkboard
CONSTANTS note, fir, c1, c2

Cards == {note, fir}
Pins == {fir}
Calls == {c1, c2}
=============================================================================
