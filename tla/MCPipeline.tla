----------------------------- MODULE MCPipeline -----------------------------
(* Instances of Pipeline for TLC. *)
EXTENDS Pipeline

CONSTANTS f1, f2, x1, x2

MCFir == {f1, f2}

\* The default plan, the one that lets rag hits meet graph hits, and one with sql.
MCPlan == {<<"graph", "rag">>, <<"rag", "graph">>, <<"sql", "graph">>}
DefaultPlan == {<<"graph", "rag">>}

\* Two officers may exclude the accused of the same FIR.
MCExclusion == {x1, x2}
MCAbout == (x1 :> <<f1, "ruled_out">>) @@ (x2 :> <<f1, "alibi_confirmed">>)

MCRecency == (f1 :> 100) @@ (f2 :> 40)

\* A scanned FIR, which a graph link may still rank.
MCScanned == {f1}

\* The floor of the trust weight, and the trust after many confirmations.
MCTrust == {30, 95}
=============================================================================
