---------------------------- MODULE MCQueryClient ----------------------------
(***************************************************************************)
(* An instance of QueryClient for TLC: a second job for the post that is   *)
(* sent again; each job runs in a Function container or inline, and the    *)
(* event of the first one is delivered twice.                              *)
(***************************************************************************)
EXTENDS QueryClient
CONSTANTS j1, j2, d1, d2, d3, inline

Jobs == {j1, j2}
Deliveries == {d1, d2, d3}
OfJobs == [d \in Deliveries |-> IF d = d2 THEN j2 ELSE j1]
=============================================================================
