----------------------------- MODULE MCCasework -----------------------------
(***************************************************************************)
(* An instance of Casework for TLC.                                        *)
(***************************************************************************)
EXTENDS Casework, TLC
CONSTANTS r1, r2, r3

Requests == {r1, r2, r3}
\* Two requests of one instance and one of another.
Homes == [r \in Requests |-> IF r = r3 THEN "b" ELSE "a"]

\* The review queue, the hypotheses, the feedback and the admission of queries
\* share no document: a behaviour of this instance is about one of them.
Areas == {{"alert", "resolveAlert"},
          {"hypothesis", "resolveHypothesis", "check", "deleteCase"},
          {"feedback"}, {"query"}}
OneArea ==
  \E A \in Areas : \A r \in Request : pc[r] # "off" => job[r].kind \in A

MCSpec == Init /\ [][Next /\ OneArea']_vars

Symmetry == Permutations({r1, r2})
=============================================================================
