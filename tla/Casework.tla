------------------------------ MODULE Casework ------------------------------
(***************************************************************************)
(* The shared documents of the investigation workspace and the requests    *)
(* that update them: the review queue (shared/review_queue_engine.py,      *)
(* routes/review_queue.py), the hypotheses (shared/hypothesis_engine.py),  *)
(* the feedback on leads (shared/feedback_engine.py, routes/feedback.py)   *)
(* and what a query passes before it is dispatched: the rate limit and the *)
(* ownership of a session (routes/query.py; a session of a case is checked *)
(* by reads alone).                                                        *)
(*                                                                         *)
(* A request is a sequence of steps, each the write of a record of its own *)
(* or the read-modify-write of a shared document inside its get_lock       *)
(* block; delete_case deletes an index of the hypotheses without its lock. *)
(* The locks are those of one AppSail instance: requests of two instances  *)
(* do not exclude each other.  A storage call takes effect at once or not  *)
(* at all, may raise either way, which ends the request, and a read sees   *)
(* the last write (ItemStore promises less).  A document is the set of the *)
(* requests it has an entry of.                                            *)
(***************************************************************************)
EXTENDS Naturals, Sequences, FiniteSets

CONSTANTS
  Request,
  Home,         \* Home[r]: the AppSail instance that serves r
  PushAttempts, \* max_attempts, 5 in the code
  RateLimit,    \* FEEDBACK_RATE_LIMIT and QUERY_RATE_LIMIT, 10 and 30 in the code
  MinSamples,   \* MIN_SAMPLES_FOR_NARROW_SCOPE, 15 in the code
  PriorStrength \* PRIOR_STRENGTH, 10 in the code

ASSUME BoundsAssumption ==
  /\ PushAttempts \in Nat \ {0} /\ RateLimit \in Nat \ {0}
  /\ MinSamples \in Nat \ {0} /\ PriorStrength \in Nat \ {0}

VARIABLES
  doc,      \* doc[k]: the requests that document k has an entry of
  window,   \* history: the requests that a rate counter let pass since it last expired
  job,      \* job[r]: what r asks for
  pc, at,   \* the progress of r and the number of its step
  seen,     \* what r read inside its block
  tries     \* the attempts of push_review_item

vars == <<doc, window, job, pc, at, seen, tries>>

\* The records of a kind have a key each and are written blindly.
Records == {"alerts", "hypotheses", "corrections", "checks"}
\* The rate counters: of feedback, and of the queries of two officers.
Rates == {"rate", "queriesA", "queriesB"}
\* One index, counter, set or owner each, for one FIR, case, edge type and session.
Shared == {"queue", "byFir", "byCase", "trust", "narrow", "penalties", "owner"} \cup Rates
\* doc[i] for a request i that made an alert or a hypothesis: who resolved it.
Docs == Records \cup Shared \cup {"lastCheck"} \cup Request

ASSUME RequestAssumption ==
  /\ IsFiniteSet(Request)
  /\ Request \cap (Records \cup Shared \cup {"lastCheck"}) = {}

NoJob == [kind |-> "none"]

\* scoped: with a case id, or with a crime type; rejects: the verdict "corrected";
\* counter: that of the officer who asks.
\* Of a "deleteCase" only the deletion of the index of hypotheses is meant: delete_case
\* gathers it with those of the documents of CaseStore, whose outcomes it may not share.
Job == [kind : {"alert", "deleteCase"}]
       \cup [kind : {"resolveAlert", "resolveHypothesis", "check"}, of : Request]
       \cup [kind : {"hypothesis"}, scoped : BOOLEAN]
       \cup [kind : {"feedback"}, scoped : BOOLEAN, rejects : BOOLEAN]
       \cup [kind : {"query"}, counter : {"queriesA", "queriesB"}]

\* Mutant: an alert is indexed before it is stored.
IndexedFirst == <<<<"push", "queue">>, <<"put", "alerts">>>>

AlertSteps == <<<<"put", "alerts">>, <<"push", "queue">>>>

Steps(j) ==
  CASE j.kind = "alert" -> AlertSteps
    [] j.kind = "resolveAlert" -> <<<<"resolvePending", j.of>>>>
    [] j.kind = "hypothesis" ->
         <<<<"put", "hypotheses">>, <<"add", "byFir">>>>
           \o IF j.scoped THEN <<<<"add", "byCase">>>> ELSE << >>
    [] j.kind = "resolveHypothesis" -> <<<<"resolve", j.of>>>>
    [] j.kind = "deleteCase" -> <<<<"clear", "byCase">>>>
    [] j.kind = "check" -> <<<<"put", "checks">>, <<"replace", "lastCheck">>>>
    [] j.kind = "feedback" ->
         <<<<"limit", "rate">>, <<"put", "corrections">>, <<"add", "trust">>>>
           \o (IF j.scoped THEN <<<<"add", "narrow">>>> ELSE << >>)
           \o (IF j.rejects THEN <<<<"add", "penalties">>>> ELSE << >>)
    [] j.kind = "query" -> <<<<"limit", j.counter>>, <<"claim", "owner">>>>
    [] OTHER -> << >>

How(r) == Steps(job[r])[at[r]][1]
Of(r) == Steps(job[r])[at[r]][2]

Blocks == {"write", "verify", "again"}
Blind == {"put", "replace", "clear"}
Ended == {"ok", "refused", "error"}

TypeOK ==
  /\ doc \in [Docs -> SUBSET Request]
  /\ window \in [Rates -> SUBSET Request]
  /\ job \in [Request -> Job \cup {NoJob}]
  /\ pc \in [Request -> {"off", "go"} \cup Blocks \cup Ended]
  /\ at \in [Request -> 1 .. 6]
  /\ seen \in [Request -> SUBSET Request]
  /\ tries \in [Request -> 1 .. PushAttempts]

Init ==
  /\ doc = [k \in Docs |-> {}]
  /\ window = [k \in Rates |-> {}]
  /\ job = [r \in Request |-> NoJob]
  /\ pc = [r \in Request |-> "off"]
  /\ at = [r \in Request |-> 1]
  /\ seen = [r \in Request |-> {}]
  /\ tries = [r \in Request |-> 1]

Goto(r, l) == pc' = [pc EXCEPT ![r] = l]

\* The locals of a request that leaves a block, or ends, are gone.
Forget(r) ==
  /\ seen' = [seen EXCEPT ![r] = {}]
  /\ tries' = [tries EXCEPT ![r] = 1]

\* On to the next step, or to the answer.
Advance(r) ==
  /\ at' = [at EXCEPT ![r] = @ + 1]
  /\ Goto(r, IF at[r] = Len(Steps(job[r])) THEN "ok" ELSE "go")
  /\ Forget(r)

Stop(r, l) == Goto(r, l) /\ Forget(r) /\ UNCHANGED at

-----------------------------------------------------------------------------
\* The officer has seen the alert or the hypothesis in a list.
Listed(j) ==
  CASE j.kind = "resolveAlert" -> j.of \in doc["queue"]
    [] j.kind \in {"resolveHypothesis", "check"} -> j.of \in doc["byFir"] \cup doc["byCase"]
    [] OTHER -> TRUE

Arrive(r) ==
  /\ pc[r] = "off"
  /\ \E j \in Job :
       /\ Listed(j)
       /\ job' = [job EXCEPT ![r] = j]
  /\ Goto(r, "go")
  /\ UNCHANGED <<doc, window, at, seen, tries>>

Written(r) ==
  CASE How(r) = "put" -> doc[Of(r)] \cup {r}
    [] How(r) \in {"add", "push", "limit"} -> seen[r] \cup {r}
    [] How(r) \in {"resolve", "resolvePending", "replace", "claim"} -> {r}
    [] How(r) = "clear" -> {}

\* nosql_set, or nosql_delete, takes effect.
Store(r) ==
  /\ doc' = [doc EXCEPT ![Of(r)] = Written(r)]
  /\ window' = IF How(r) = "limit" THEN [window EXCEPT ![Of(r)] = @ \cup {r}] ELSE window

\* A record of its own; the last check, which is overwritten blindly; or the index of
\* the hypotheses of a case, which delete_case deletes without the lock of the index.
Put(r) ==
  /\ pc[r] = "go"
  /\ How(r) \in Blind
  /\ Store(r)
  /\ Advance(r)
  /\ UNCHANGED job

\* Mutant: get_lock hands every caller a lock of its own.
LockIgnored(r) == TRUE

\* No request of the instance is inside a block of the same document.
LockFree(r) ==
  \A q \in Request :
    pc[q] \in Blocks /\ Home[q] = Home[r] => Of(q) # Of(r)

\* Mutant: the limit admits one more.
OverLimit(n) == n > RateLimit

AtLimit(n) == n >= RateLimit

\* Mutant: resolve_review_item does not look at the status.
NeverRefused(r) == How(r) = "limit" /\ AtLimit(Cardinality(doc[Of(r)]))

OwnedBySame(r) == \E q \in doc[Of(r)] : job[q] = job[r]

\* 429 at the limit, 409 when the alert is not pending, 403 when the session is
\* another officer's.
RefusedAt(r) ==
  \/ How(r) = "limit" /\ AtLimit(Cardinality(doc[Of(r)]))
  \/ How(r) = "resolvePending" /\ doc[Of(r)] # {}
  \/ How(r) = "claim" /\ doc[Of(r)] # {} /\ ~ OwnedBySame(r)

\* The index has the alert already, the session is the officer's own.
NothingToWrite(r) ==
  \/ How(r) = "push" /\ r \in doc[Of(r)]
  \/ How(r) = "claim" /\ OwnedBySame(r)

\* The block is entered with its first storage call, a read.
Read(r) ==
  /\ \/ pc[r] = "go" /\ How(r) \notin Blind /\ LockFree(r)
     \/ pc[r] = "again"
  /\ IF RefusedAt(r) THEN Stop(r, "refused")
     ELSE IF NothingToWrite(r) THEN Advance(r)
     ELSE /\ seen' = [seen EXCEPT ![r] = doc[Of(r)]]
          /\ Goto(r, "write")
          /\ UNCHANGED <<at, tries>>
  /\ UNCHANGED <<doc, window, job>>

Write(r) ==
  /\ pc[r] = "write"
  /\ Store(r)
  /\ IF How(r) = "push"
     THEN Goto(r, "verify") /\ UNCHANGED <<at, seen, tries>>
     ELSE Advance(r)
  /\ UNCHANGED job

\* Mutant: one attempt more than max_attempts.
OneMoreTry(r) == tries[r] > PushAttempts

LastTry(r) == tries[r] = PushAttempts

\* Another instance may have overwritten the index: push_review_item tries
\* again, and after the last attempt gives up without an error.
Verify(r) ==
  /\ pc[r] = "verify"
  /\ IF r \in doc[Of(r)] \/ LastTry(r)
     THEN Advance(r)
     ELSE /\ tries' = [tries EXCEPT ![r] = @ + 1]
          /\ Goto(r, "again")
          /\ UNCHANGED <<at, seen>>
  /\ UNCHANGED <<doc, window, job>>

\* A storage call raises: a read or a write without effect, or a write that
\* took effect all the same.
Fail(r) ==
  /\ pc[r] \in {"go"} \cup Blocks
  /\ \/ UNCHANGED <<doc, window>>
     \/ pc[r] = "write" /\ Store(r)
     \/ pc[r] = "go" /\ How(r) \in Blind /\ Store(r)
  /\ Stop(r, "error")
  /\ UNCHANGED job

\* The TTL of a rate counter, an hour or a minute after its last update.
ExpireRate(k) ==
  /\ doc[k] # {}
  /\ doc' = [doc EXCEPT ![k] = {}]
  /\ window' = [window EXCEPT ![k] = {}]
  /\ UNCHANGED <<job, pc, at, seen, tries>>

Step(r) == Put(r) \/ Read(r) \/ Write(r) \/ Verify(r) \/ Fail(r)

Next ==
  \/ \E r \in Request : Arrive(r) \/ Step(r)
  \/ \E k \in Rates : ExpireRate(k)

Spec == Init /\ [][Next]_vars

-----------------------------------------------------------------------------
(* Trust                                                                   *)

\* Mutant: the verdicts are swapped.
Corrections(S) == {r \in S : job[r].rejects}

Confirmations(S) == {r \in S : ~job[r].rejects}

\* _smoothed_trust, as a fraction: the prior is worth PriorStrength samples of
\* 0.7, and the floor is 0.3.
Smoothed(S) ==
  LET num == 10 * Cardinality(Confirmations(S)) + 7 * PriorStrength
      den == 10 * (Cardinality(S) + PriorStrength)
  IN IF 10 * num < 3 * den THEN [num |-> 3, den |-> 10] ELSE [num |-> num, den |-> den]

NarrowApplies == Cardinality(doc["narrow"]) >= MinSamples

Weight == Smoothed(IF NarrowApplies THEN doc["narrow"] ELSE doc["trust"])

AtMost(a, b) == a.num * b.den <= b.num * a.den

-----------------------------------------------------------------------------
Writes(q, k) == pc[q] = "write" /\ pc'[q] # "write" /\ Of(q) = k

\* A resolution of a hypothesis and a last check are meant to be replaced.
Replaced == {i \in Request : job[i].kind = "hypothesis"} \cup {"lastCheck"}

\* r has a step that writes to document k.
Uses(r, k) ==
  \E i \in DOMAIN Steps(job[r]) : Steps(job[r])[i][2] = k /\ Steps(job[r])[i][1] # "clear"

\* The step in which r deletes document k.
Clears(r, k) == pc[r] = "go" /\ pc'[r] # "go" /\ How(r) = "clear" /\ Of(r) = k

\* An entry of an index or a set, a count, the resolution of an alert and the
\* owner of a session are only ever lost where another AppSail instance than that
\* of the entry writes to the document (the get_lock blocks of push_review_item,
\* _add_to_index, record_feedback_event, _apply_session_penalty,
\* resolve_review_item and _authorize_session), or in the very step in which
\* delete_case deletes the index, however that meets the blocks of _add_to_index.
EntriesKept ==
  [][\A k \in Docs \ (Replaced \cup Rates) : \A r \in doc[k] \ doc'[k] :
       \E q \in Request : (Uses(q, k) /\ Home[q] # Home[r]) \/ Clears(q, k)]_vars

OneInstance ==
  \A q, r \in Request : pc[q] # "off" /\ pc[r] # "off" => Home[q] = Home[r]

CaseDeleted == \E q \in Request : job[q].kind = "deleteCase" /\ pc[q] \in Ended

\* With one instance, what was acknowledged can be found: an alert and a
\* hypothesis are in their indexes, that of a case until the case is deleted, a
\* feedback counts in the trust it is about and a rejected lead is penalised, and a
\* session answers one officer only (push_review_item, create_hypothesis,
\* record_feedback_event, _authorize_session, delete_case).
AcknowledgedListed ==
  OneInstance => \A r \in Request : pc[r] = "ok" =>
    \A i \in DOMAIN Steps(job[r]) :
      LET s == Steps(job[r])[i]
      IN /\ s[1] \in {"put", "add", "push"} =>
              r \in doc[s[2]] \/ (s[2] = "byCase" /\ CaseDeleted)
         /\ s[1] = "claim" => \E q \in doc[s[2]] : job[q] = job[r]

\* What an index, a counter or a last check names has its record, also after a
\* failure halfway (the order of the writes of push_review_item,
\* create_hypothesis, check_hypothesis and record_feedback_event).
ListedRecorded ==
  /\ doc["queue"] \subseteq doc["alerts"]
  /\ doc["byFir"] \cup doc["byCase"] \subseteq doc["hypotheses"]
  /\ doc["trust"] \cup doc["narrow"] \cup doc["penalties"] \subseteq doc["corrections"]
  /\ doc["lastCheck"] \subseteq doc["checks"]

\* One instance lets at most RateLimit requests pass before the counter expires,
\* whatever fails or overlaps (_enforce_rate_limit, _enforce_query_rate_limit).
RateCapped ==
  \A k \in Rates :
    (\A q, r \in window[k] : Home[q] = Home[r]) => Cardinality(window[k]) <= RateLimit

\* With one instance, feedback moves the trust weight its own way: a rejection
\* never raises it and a confirmation never lowers it, except at the sample that
\* brings the narrow scope into force (get_trust_weight, _smoothed_trust).
TrustFollows ==
  [][OneInstance /\ NarrowApplies' = NarrowApplies =>
       \A r \in Request :
         Writes(r, "trust") \/ Writes(r, "narrow") =>
           IF job[r].rejects THEN AtMost(Weight', Weight) ELSE AtMost(Weight, Weight')]_vars
=============================================================================
