------------------------------ MODULE Pipeline ------------------------------
(***************************************************************************)
(* The queries of one chat session through the LangGraph pipeline          *)
(* (pipeline_function/pipeline/langgraph_router.py): the route that the    *)
(* parsed intent takes, the evidence that the retrieval steps assemble     *)
(* (evidence.py, retrieval/executor.py), its confidence and the demotion   *)
(* of links that an officer has excluded (confidence_engine.py), and the   *)
(* context that a follow-up query starts from (main.py).                   *)
(*                                                                         *)
(* The queries follow each other; officers create and reverse exclusions   *)
(* (shared/exclusion_engine.py) at any time.  Each FIR has one accused.    *)
(* Texts, entities and the visualization are left out, and so are the      *)
(* scores given at retrieval, which the confidence engine overwrites.      *)
(***************************************************************************)
EXTENDS Naturals, Sequences, FiniteSets, SequencesExt

CONSTANTS
  Fir,           \* FIRs that the sources may find
  Plan,          \* plans of the DAG planner: sequences of sources
  Exclusion,     \* the exclusions that officers may record (exclusion_ids)
  About,         \* About[x]: the FIR and the type of exclusion x
  Recency,       \* Recency[f]: the score of compute_recency, in percent
  Scanned,       \* the FIRs whose fields were extracted by OCR (ocr_extracted)
  Trust,         \* values of get_trust_weight, in percent
  TurnsMax,      \* bound on the queries of a run
  RetrievalsMax, \* bound on those of them that retrieve evidence
  PenaltiesMax   \* bound on the items of an answer rejected in the session

Sources == {"rag", "graph", "sql"}

ASSUME FirAssumption == IsFiniteSet(Fir)
ASSUME PlanAssumption == \A p \in Plan : p \in Seq(Sources)
ASSUME AboutAssumption == About \in [Exclusion -> Fir \X {"ruled_out", "alibi_confirmed"}]
ASSUME RecencyAssumption == Recency \in [Fir -> {40, 60, 80, 100}]
ASSUME ScannedAssumption == Scanned \subseteq Fir
ASSUME TrustAssumption == Trust \subseteq 30 .. 99
ASSUME BoundsAssumption == TurnsMax \in Nat /\ RetrievalsMax \in Nat

VARIABLES
  node,        \* the graph node that runs, or where the query is otherwise
  intent,      \* what the language model made of the query
  plan,
  items,       \* the evidence, a sequence of items
  prior,       \* "prior_evidence_items" of "session:<id>"
  edges,       \* edges[x]: the status of the EXCLUDED_FROM edge of x
  known,       \* the exclusions that were active all through the query
  ever,        \* those that were active at some time in the query
  found,       \* the FIRs that the query retrieved
  turns,       \* queries so far
  retrievals   \* queries so far that retrieve evidence

exclusionVars == <<edges, known, ever>>
counters == <<turns, retrievals>>
vars == <<node, intent, plan, items, prior, exclusionVars, found, counters>>

\* "unavailable" is _fallback_intent, whose "intent" is "lookup" and which
\* carries the flag "fallback"; "fallback" is the intent of that name.
Retrieving == {"lookup", "coreference", "fallback"}
Intents == {"malicious", "greeting", "follow_up", "unavailable"} \cup Retrieving

Replies == {"firewall_node", "canned_response_node", "chat_fallback_node"}
Nodes == Replies \cup
  {"understanding_query", "follow_up_guard_node", "resolve_coreference_node",
   "resolving_entities", "planning_execution", "retrieving_evidence",
   "translate_evidence_node", "confidence_scoring", "building_visualization",
   "set_synthesis_mode", "synthesizing_response", "END"}
Resting == {"idle", "done", "failed"}

\* In units of 0.0001.
Scores == 0 .. 10000
Tiers == {"unscored", "unverified", "low", "medium", "high"}
Item == [fir : Fir, sources : SUBSET Sources, accused : BOOLEAN, dated : BOOLEAN,
         text : BOOLEAN, tier : Tiers, score : Scores, excluded : BOOLEAN]

TypeOK ==
  /\ node \in Nodes \cup Resting
  /\ intent \in Intents \cup {"none"}
  /\ plan \in Plan \cup {<< >>}
  /\ items \in Seq(Item) /\ prior \in Seq(Item)
  /\ edges \in [Exclusion -> {"none", "checked", "active", "reversed"}]
  /\ known \subseteq ever /\ ever \subseteq Exclusion
  /\ found \subseteq Fir
  /\ turns \in 0 .. TurnsMax /\ retrievals \in 0 .. RetrievalsMax

Init ==
  /\ node = "idle" /\ intent = "none" /\ plan = << >>
  /\ items = << >> /\ prior = << >>
  /\ edges = [x \in Exclusion |-> "none"] /\ known = {} /\ ever = {}
  /\ found = {}
  /\ turns = 0 /\ retrievals = 0

-----------------------------------------------------------------------------
(* Exclusions                                                              *)

Active == {x \in Exclusion : edges[x] = "active"}
SamePair(x, y) == About[x][1] = About[y][1]

\* create_exclusion looks for an active exclusion of the pair and then writes
\* the edge, without a lock.
CheckExclusion(x) ==
  /\ edges[x] = "none"
  /\ \A y \in Active : ~ SamePair(x, y)
  /\ edges' = [edges EXCEPT ![x] = "checked"]
  /\ UNCHANGED <<node, intent, plan, items, prior, known, ever, found, counters>>

WriteExclusion(x) ==
  /\ edges[x] = "checked"
  /\ edges' = [edges EXCEPT ![x] = "active"]
  /\ ever' = IF node \in Nodes THEN ever \cup {x} ELSE ever
  /\ UNCHANGED <<node, intent, plan, items, prior, known, found, counters>>

\* The write of reverse_exclusion: the edge stays in the graph.
ReverseExclusion(x) ==
  /\ edges[x] = "active"
  /\ edges' = [edges EXCEPT ![x] = "reversed"]
  /\ known' = known \ {x}
  /\ UNCHANGED <<node, intent, plan, items, prior, ever, found, counters>>

\* Mutant: edges of any status.
LookupAnyStatus == {x \in Exclusion : edges[x] \in {"active", "reversed"}}

\* get_active_exclusions_bulk: the active edges, of which the result holds one
\* per FIR and accused, the last one of an unordered query.
Lookup == {x \in Exclusion : edges[x] = "active"}

Picks ==
  {P \in SUBSET Lookup :
     \A x \in Lookup : Cardinality({y \in P : SamePair(x, y)}) = 1}

-----------------------------------------------------------------------------
(* Retrieval: the evidence object                                          *)

NewItem(f, source, text) ==
  [fir |-> f, sources |-> {source}, accused |-> source = "graph",
   dated |-> source = "sql", text |-> text, tier |-> "unscored", score |-> 0,
   excluded |-> FALSE]

FirsOf(s) == {s[n].fir : n \in DOMAIN s}

\* add_rag_results, add_sql_results: one item more for each hit.
Appended(s, F, source, text) ==
  LET hits == SetToSeq(F)
  IN s \o [n \in DOMAIN hits |-> NewItem(hits[n], source, text)]

\* Mutant: the accused of a graph hit are not added to an item of the FIR.
MergedSourcesOnly(s, F) ==
  Appended([n \in DOMAIN s |->
              IF s[n].fir \in F THEN [s[n] EXCEPT !.sources = @ \cup {"graph"}] ELSE s[n]],
           F \ FirsOf(s), "graph", FALSE)

\* add_graph_results: into the first item of the FIR, or as a new one.
Merged(s, F) ==
  LET First(f) == CHOOSE n \in DOMAIN s :
                    s[n].fir = f /\ \A m \in 1 .. n - 1 : s[m].fir # f
      Met == [n \in DOMAIN s |->
                IF s[n].fir \in F /\ n = First(s[n].fir)
                THEN [s[n] EXCEPT !.sources = @ \cup {"graph"}, !.accused = TRUE]
                ELSE s[n]]
  IN Appended(Met, F \ FirsOf(s), "graph", FALSE)

Added(s, F, source, text) ==
  CASE source = "graph" -> Merged(s, F)
    [] source = "rag" -> Appended(s, F, "rag", text)
    [] source = "sql" -> Appended(s, F, "sql", TRUE)

\* The results are added in the order of the plan, whatever order they came in.
\* A source that timed out or failed adds nothing.
Assembled(p, results, text) ==
  LET upTo[n \in 0 .. Len(p)] ==
        IF n = 0 THEN << >> ELSE Added(upTo[n - 1], results[n], p[n], text)
  IN upTo[Len(p)]

-----------------------------------------------------------------------------
(* The confidence engine                                                   *)

Convergence(i) ==
  CASE {"graph", "rag"} \subseteq i.sources -> 100
    [] "graph" \in i.sources /\ "rag" \notin i.sources -> 75
    [] "graph" \notin i.sources /\ "sql" \in i.sources -> 65
    [] OTHER -> 55

\* Only the metadata of a rag hit tell of OCR; a graph hit that meets the item
\* leaves them to it.
OcrExtracted(i) == "rag" \in i.sources /\ i.fir \in Scanned

\* The paths of run_graph_step name no edge type, so they count as indirect.
Strength(i) ==
  LET path == IF "graph" \in i.sources \/ i.text THEN 50 ELSE 30
  IN IF OcrExtracted(i) THEN (path * 90) \div 100 ELSE path

Flagged(i) == "graph" \notin i.sources \/ OcrExtracted(i)

RecencyOf(i) == IF i.dated THEN Recency[i.fir] ELSE 50

Base(i) == Convergence(i) * 45 + Strength(i) * 40 + RecencyOf(i) * 15

AssignTier(final, flagged) ==
  CASE flagged /\ final < 7000 -> "unverified"
    [] final >= 8000 -> "high"
    [] final >= 6000 /\ final < 8000 /\ (flagged => final >= 7000) -> "medium"
    [] final >= 4000 /\ final < 6000 /\ ~flagged -> "low"
    [] OTHER -> "unverified"

\* round(final, 3); then the halving for a link rejected in this session.
Rounded(final) == ((final + 5) \div 10) * 10

\* Mutant: divided by the factor 0.5.
PenalisedUpwards(score, penalty) == IF penalty THEN score * 2 ELSE score

Penalised(score, penalty) == IF penalty THEN score \div 2 ELSE score

TierAfter(tier, score) ==
  IF score < 6000 /\ tier \in {"high", "medium"} THEN "low" ELSE tier

Scored(i, trust, penalty) ==
  LET final == (Base(i) * trust) \div 100
      tier == AssignTier(final, Flagged(i))
      score == Penalised(Rounded(final), penalty)
  IN [i EXCEPT !.tier = TierAfter(tier, score), !.score = score]

\* alibi_covers_incident: an item without a date is never covered, and the
\* alibis that the model's officers record cover the date of their FIR.
Applies(x, i) ==
  /\ About[x][1] = i.fir
  /\ About[x][2] = "alibi_confirmed" => i.dated

\* Mutant: a factor that leaves an excluded link among the others.
DemotedMildly(i, pick) ==
  IF i.accused /\ \E x \in pick : Applies(x, i)
  THEN [i EXCEPT !.excluded = TRUE, !.score = @ \div 2] ELSE i

\* EXCLUSION_DEMOTION_FACTOR = 0.05, rounded to four places.
Demoted(i, pick) ==
  IF i.accused /\ \E x \in pick : Applies(x, i)
  THEN [i EXCEPT !.excluded = TRUE, !.score = (@ * 5 + 50) \div 100] ELSE i

\* Mutant: excluded links are left out of the answer.
RankedWithoutExcluded(s) == SelectSeq(s, LAMBDA i : ~ i.excluded)

\* Item n is among the first Place(s, n) of the ranking: before it come those with
\* a higher score and, of those with its score, the earlier ones.
Place(s, n) ==
  Cardinality({m \in DOMAIN s :
                 s[m].score > s[n].score \/ (s[m].score = s[n].score /\ m <= n)})

\* A stable sort by descending score.
Ranked(s) == [k \in DOMAIN s |-> s[CHOOSE n \in DOMAIN s : Place(s, n) = k]]

-----------------------------------------------------------------------------
(* The nodes of the graph                                                  *)

Submit ==
  /\ node \in Resting /\ turns < TurnsMax
  /\ node' = "understanding_query" /\ turns' = turns + 1
  /\ known' = Active /\ ever' = Active
  /\ UNCHANGED <<intent, plan, items, prior, edges, found, retrievals>>

\* route_after_understanding
Route(i) ==
  CASE i = "malicious" -> "firewall_node"
    [] i = "greeting" -> "canned_response_node"
    [] i = "follow_up" -> "follow_up_guard_node"
    [] i = "unavailable" -> "chat_fallback_node"
    [] i = "coreference" -> "resolve_coreference_node"
    [] OTHER -> "resolving_entities"

Understand ==
  /\ node = "understanding_query"
  /\ \E i \in Intents :
       /\ i \in Retrieving => retrievals < RetrievalsMax
       /\ intent' = i /\ node' = Route(i)
       /\ retrievals' = retrievals + (IF i \in Retrieving THEN 1 ELSE 0)
  /\ UNCHANGED <<plan, items, prior, exclusionVars, found, turns>>

\* A fixed answer, or that of a language model, over empty evidence.
StaticReply ==
  /\ node \in Replies
  /\ node' = "END" /\ items' = << >>
  /\ UNCHANGED <<intent, plan, prior, exclusionVars, found, counters>>

\* The stored items name neither the accused nor the date of the FIR.
Restored(i) == [i EXCEPT !.accused = FALSE, !.dated = FALSE]

FollowUpGuard ==
  /\ node = "follow_up_guard_node"
  /\ node' = IF prior = << >> THEN "END" ELSE "set_synthesis_mode"
  /\ items' = [n \in DOMAIN prior |-> Restored(prior[n])]
  /\ UNCHANGED <<intent, plan, prior, exclusionVars, found, counters>>

\* The plain edges, out of nodes that leave the modelled state alone.
Edges ==
  {<<"resolve_coreference_node", "resolving_entities">>,
   <<"resolving_entities", "planning_execution">>,
   <<"translate_evidence_node", "confidence_scoring">>,
   <<"building_visualization", "set_synthesis_mode">>,
   <<"set_synthesis_mode", "synthesizing_response">>,
   <<"synthesizing_response", "END">>}

PassOn ==
  /\ \E e \in Edges : node = e[1] /\ node' = e[2]
  /\ UNCHANGED <<intent, plan, items, prior, exclusionVars, found, counters>>

MakePlan ==
  /\ node = "planning_execution"
  /\ \E p \in Plan : plan' = p
  /\ node' = "retrieving_evidence"
  /\ UNCHANGED <<intent, items, prior, exclusionVars, found, counters>>

Retrieve ==
  /\ node = "retrieving_evidence"
  /\ \E results \in [DOMAIN plan -> SUBSET Fir], text \in BOOLEAN :
       /\ items' = Assembled(plan, results, text)
       /\ found' = UNION {results[n] : n \in DOMAIN plan}
  /\ node' \in {"translate_evidence_node", "confidence_scoring"}
  /\ UNCHANGED <<intent, plan, prior, exclusionVars, counters>>

\* The scores and the demotion, at the instant at which the exclusions are read.
\* The trust of an item goes by its edge type and its crime type, and officers may
\* change it while the items are scored; a penalty is on one edge of the session.
Score ==
  /\ node = "confidence_scoring"
  /\ \E trust \in [DOMAIN items -> Trust], penalised \in SUBSET (DOMAIN items),
        pick \in Picks :
       /\ Cardinality(penalised) <= PenaltiesMax
       /\ items' = Ranked([n \in DOMAIN items |->
                     Demoted(Scored(items[n], trust[n], n \in penalised), pick)])
  /\ node' = "building_visualization"
  /\ UNCHANGED <<intent, plan, prior, exclusionVars, found, counters>>

\* The state of the graph goes with its run.
RunOver ==
  /\ intent' = "none" /\ plan' = << >> /\ items' = << >>
  /\ known' = {} /\ ever' = {} /\ found' = {}

\* The context of the next query, which queries of some intents leave alone.
Context == IF intent \in {"malicious", "greeting", "fallback"} THEN prior ELSE items

Save ==
  /\ node = "END" /\ node' = "done"
  /\ prior' = Context
  /\ RunOver
  /\ UNCHANGED <<edges, counters>>

\* A call raises: in the graph or in saving, there with or without effect.
Fail ==
  /\ node \in Nodes /\ node' = "failed"
  /\ prior' \in {prior} \cup (IF node = "END" THEN {Context} ELSE {})
  /\ RunOver
  /\ UNCHANGED <<edges, counters>>

Step == Understand \/ StaticReply \/ FollowUpGuard \/ PassOn \/ MakePlan \/ Retrieve
        \/ Score \/ Save

Next ==
  \/ Submit \/ Step \/ Fail
  \/ \E x \in Exclusion : CheckExclusion(x) \/ WriteExclusion(x) \/ ReverseExclusion(x)

\* Nothing is promised of the progress of a query: run_query of the graph client
\* has no timeout, and the nodes of scoring and of visualization await it.
Spec == Init /\ [][Next]_vars

-----------------------------------------------------------------------------
(* Properties                                                              *)

\* The nodes that have the ranked evidence.
Answering == {"building_visualization", "set_synthesis_mode", "synthesizing_response",
              "END"}

Fresh == node \in Answering /\ intent \in Retrieving

\* However little the trust in a source and whatever the officer rejected, no
\* link of an excluded accused ranks above one that is not excluded, in the
\* answer and in the follow-ups to it: the factor 0.05 is small enough for the
\* scores that the weights, the floor of the trust and the halving allow.
ExcludedSink ==
  node \in Answering =>
    \A m, n \in DOMAIN items : m < n /\ items[m].excluded => items[n].excluded

RuledOut(x, i) == About[x] = <<i.fir, "ruled_out">> /\ "graph" \in i.sources

\* An accused ruled out all through a query, and of whom officers recorded no
\* other exclusion for the FIR, is marked excluded at every graph link to it,
\* also when another source found the FIR first.
SoleRuledOutDemoted ==
  Fresh => \A n \in DOMAIN items, x \in known :
    RuledOut(x, items[n]) /\ (\A y \in ever \ {x} : ~ SamePair(x, y)) => items[n].excluded

\* A reversed exclusion has no effect: what a fresh answer marks excluded had an
\* active exclusion at some time in the query.
ReversedForgotten ==
  Fresh => \A n \in DOMAIN items :
    items[n].excluded => \E x \in ever : About[x][1] = items[n].fir

\* No FIR that a source found is lost in assembling, demoting and ranking:
\* exclusions demote, they never delete.
NothingDropped ==
  node \in Answering \cup {"translate_evidence_node", "confidence_scoring"} =>
    found \subseteq FirsOf(items)

\* The guard of the saved context: only a query that was neither blocked nor a
\* fallback overwrites it.
ContextKept ==
  [][prior' # prior => intent \notin {"malicious", "greeting", "fallback", "unavailable"}]_vars
=============================================================================
