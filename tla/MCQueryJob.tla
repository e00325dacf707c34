----------------------------- MODULE MCQueryJob -----------------------------
(***************************************************************************)
(* An instance of QueryJob for TLC: one job, delivered and redelivered.    *)
(***************************************************************************)
EXTENDS QueryJob
CONSTANTS j1, d1, d2, d3, inline

OneJob == {j1}
Deliveries == {d1, d2, d3}
OfOneJob == [d \in Deliveries |-> j1]
=============================================================================
