# A formal model of CIS

CIS is an assistant for criminal investigations: officers ask questions in a
chat, a pipeline of language-model and retrieval steps answers them from a
graph, a vector store and SQL, and the officers keep cases, sessions, boards,
exclusions and hypotheses beside the chat. This directory holds TLA+ models of
the parts of it whose correctness depends on the *order* of steps: locks,
read-modify-writes of shared documents, redelivered events, crashes, retries and
timeouts. TLC checks the models on small instances; TLAPS proves every
safety property of them for every size.

Paths below are relative to the repository (`src/`). `PROJECT.json` has the
line-by-line map from definitions to code, the runs, the mutants (for each
checked property, a plausible bug that TLC finds through it), the hazards and
the list of theorems.

## 1. The system

Three kinds of process touch the same data:

  - **AppSail**: one FastAPI process (`backend/`), an asyncio event loop. It
    serves the REST API, creates query jobs, streams their status, and, when
    the post to Catalyst Signals fails, runs the pipeline itself.
  - **The pipeline Function** (`pipeline_function/main.py`, deployed through
    `functions/`): containers that Catalyst starts per Signals event and may
    kill at any time.
  - **The browser** (`client/src/`): a React application with zustand stores.

AppSail and the Function share a NoSQL table of items (`shared/catalyst_client.py`)
which offers get, set and delete of one item and **no** transaction, no
compare-and-set and no multi-item write. Everything that must be atomic relies
on `get_lock(key)`, an in-process registry of asyncio locks. Every NoSQL call is
an `await`: other coroutines run in between. A call that raises may have taken
effect. A read may return what an item was before its last write: the store is
eventually consistent (`routes/cases.py:31-35`), which section 4 says who models.
AppSail may run as several instances; each has a registry of its own.

### Inventory

| Component | State | Operations | Makes it correct |
|---|---|---|---|
| Lock registry (`shared/catalyst_client.py:20-110`) | `_locks`, an OrderedDict of at most `_LOCKS_MAX` asyncio locks | `get_lock`, `get_session_lock`, `get_case_lock`; acquire and release by `async with` | two blocks with the same key never overlap; every waiter enters |
| Audit log (`shared/audit_engine.py`) | items `audit:seq`, `audit:entry:<n>` | `write_hash_chained_entry`, `verify_audit_chain` | append-only, chained to genesis, acknowledged entries stay, no false alarm |
| Query dispatch (`backend/job_dispatch.py`, `routes/query.py`) | `job:<id>` | `dispatch_query_job`, `write_job_status`, `_local_pipeline_runner` | a job is worked on once; a result is never dropped; a job settles |
| Pipeline Function (`pipeline_function/main.py`, `functions/ps_1_cis_function/main.py`) | `job:<id>`, `history:<s>`, `session:<s>` | `handler`, `_run_pipeline` | redelivery is harmless; history keeps every turn; the follow-up context belongs to the last turn |
| LangGraph pipeline (`pipeline/langgraph_router.py`) | one run's graph state; `job:<id>` | nodes, conditional edges | the evidence of an answer is complete, ranked by the exclusions in force; a query that was not understood leaves the context alone |
| Evidence, confidence (`pipeline/evidence.py`, `confidence_engine.py`, `retrieval/executor.py`) | one run's evidence items | add, rank, score, demote | no hit is lost; an excluded link sinks below all others; a tier never promises more than the score |
| Query client (`chatStore.ts`, `sse.ts`, `pollJob.ts`, `fetchWithRetry`, `backend/sse_poller.py`) | the messages of a session | send, retry, stream, poll | the message settles; what it shows is stored |
| Cases and sessions (`routes/cases.py`, `routes/sessions.py`) | `case:<id>`, `user_cases:<u>`, `case_sessions:<id>`, `session_meta:<s>`, `history:<s>`, `case_board:<id>`, `case_board_layout:<id>` | create, delete, collaborators, sessions, pins, layout | no lost update; a deleted case stays deleted with its board; the record of a listed session is stored |
| NoSQL client (`catalyst_client.py:676-908`) | token cache, token lock | `_get_nosql_access_token`, `_nosql_request`, get, set, delete | a call takes effect between its start and its end, under a lock once, however often it is tried; at most one refresh at a time; a retry after 401 uses a newer token; every call ends |
| Exclusions and claims (`shared/exclusion_engine.py`, `claim_logger.py`) | `EXCLUDED_FROM` edges, `claim:<id>`, `claim_index:<fir>` | create, reverse, log, flag | one active exclusion per accused and FIR; the first reversal is kept; a contradicted claim is flagged once |
| Hypotheses (`shared/hypothesis_engine.py`) | `hypothesis:<id>`, its indexes, `last_check:<id>` | create, check, resolve | an indexed hypothesis has its record; indexes keep every id, that of a case until the case is deleted |
| Review queue (`shared/review_queue_engine.py`) | `review_queue:<id>`, the index | push, list, resolve | a pushed item is stored before it is listed and stays listed; it is resolved once |
| Feedback (`shared/feedback_engine.py`, `routes/feedback.py`) | counts per evidence type in two scopes, penalties, a counter per officer | record, weight, limit | no count is lost; the weight follows the verdicts; the limit holds |
| Admission of a query (`routes/query.py`) | the officer's counter, `session_owner:<s>` | rate limit, first claim | the limit holds; one owner per session |
| Evidence board (`boardStore.ts`, `CorkboardCanvas.tsx`, `case_board_layout:<id>`) | the local layout and dismissals, a flush timer | edit, flush, load | an edit is not undone by an answer that is older than it |
| Authentication, export, OCR, speech, graph routes, ingestion, other UI components | login counters, sessions; none | sequential checks, read-only queries, external calls | not modelled, see section 7 |

### How they interact

    browser --POST /api/query--> AppSail --event--> Signals --event--> Function
       ^                           |  \                                  |
       |  SSE / poll               |   `-- inline run when the post      |
       +---------------------------+       raises                        |
                                   v                                     v
                     NoSQL items: job:, history:, session:, case..., audit:...

  - AppSail and the Function meet only in NoSQL items (shared state without
    shared locks) and through Signals events (at-least-once messages).
  - Within AppSail, coroutines meet in the same items under `get_lock`.
  - The browser meets the server through a POST it may repeat, a stream the
    gateway may cut after some 45 s, and bounded polling.

### What is hard

`PROJECT.json` lists the hazards with their lines. In short: locks that are
local to a process while two processes write; an LRU eviction that ignores
whether a lock is held; read-modify-writes without a lock (`write_job_status`,
`create_exclusion`, `reverse_exclusion`); at-least-once delivery with a check
that reads the status before the first stage write; an ambiguous time-out of the
post that starts a second run; deaths between two writes; a deletion that
gathers many deletes of which one may raise; streams, polls and retries that
race the answer; a token that one coroutine drops while another refreshes it; an
attempt that took effect although its answer was lost; an index that two
instances update; answers of flushes and loads that overwrite later edits.

## 2. The modules and the code

Each module's head comment names its files; here is how state and actions
correspond. A storage call, an external call or a lock acquisition is an
`await`, so the code between two of them is one action, and every request, run
or call has a program counter that says which await it is at.

**`KeyedMutex`** (abstract). What `get_lock` promises its callers: per key an
owner and a FIFO queue. A request enters a free key or queues; a release hands
the key to the head.

**`LockRegistry`** (`catalyst_client.py:20-110`). `pos` and `lockOf` are the
OrderedDict `_locks`: order and content. `locked` and `waiters` are the
`_locked` flag and the `_waiters` deque of each asyncio lock. Actions: `Enter`
(the lookup with its hit, miss and eviction, and the first step of `acquire`,
which the event loop cannot separate), `Wake` (a suspended `acquire` resumes),
`Leave` (`release`, and the wake-up of the head).

**`AuditLog`** (abstract). A sequence that is only appended to.

**`AuditChain`** (`audit_engine.py`). `seqDoc` and `entries` are the items;
`holder[p]` the audit lock of process `p`. `Lock`, `ReadSeq`, `ReadPrev`,
`PutEntry`, `PutSeq` are the awaits of `write_hash_chained_entry`;
`StorageFails` ends a call at any of them, with or without an effect in the
store; `Crash(p)` kills a process with its lock. `VerifyStart(n)` starts
`verify_audit_chain` at entry `n`, `VerifyPrior` reads the hash of the entry
before it if there is one, `VerifyStep` compares one entry, `VerifyEnd` ends the
walk, all without the lock. SHA-256 is taken to be injective: a hash is the
sequence of what it covers.

**`QueryJob`** (`job_dispatch.py`, `pipeline_function/main.py`, the status
writes of `langgraph_router.py`). `doc` is `job:<id>`, `history` and `context`
the session's items, `holder` AppSail's session lock. Dispatcher: `Submit`,
`CreateJob`, `CreateJobFails`, `PostAccepted`, `RunInline`. Signals: `Deliver`.
A run: `Check` (the idempotency check, Function only), `ReadHistory`,
`StageRead`/`StagePut` and `DoneRead`/`DonePut` (`write_job_status` reads, then
writes), `LockSession`, `ReadTurns`, `PutTurns`, `PutContext`, and on an
exception `PipelineFails` or `RunFails`, `ReportRead`, `ReportPut`,
`ReportFails`. `FunctionDies` and `AppSailDies` kill runs anywhere. A Function
container handles one event at a time (`_loop.run_until_complete`), so the
session lock of its process is always free (`LockFree`). Three constants name
what the repository does not decide: `SignalsConfigured` (a publisher URL is
set), `AmbiguousPost` (a post that raises may have been accepted),
`OverlappingDelivery` (Signals may redeliver while a delivery runs; FALSE in
every run, nothing in the repository says).

**`QueryClient`** (`chatStore.ts`, `sse.ts`, `pollJob.ts`, `utils.ts`,
`sse_poller.py`) EXTENDS `QueryJob` and composes with it: every step is a step
of the server or of the browser. `Send`, `Resend` (`fetchWithRetry` repeats a
POST whose connection was reset: a second job), `PostAnswered` (the 200
response, whose body is still to come), `PostFails`; the stream events `SseJob`
(from which the browser learns `jobId`), `SseAnswer`, `SseDone`, `SseError`;
`StreamEnds`: the stream breaks, which shows an error, or the gateway closes it
(`CutOff`), after which the browser polls if it knows `jobId` and otherwise does
nothing more ("ended"); `Poll`, `PollAgain` up to `PollMax`.

**`CaseStore`** (`routes/cases.py`, `routes/sessions.py`, the history append of
a query). Requests on one case: delete, add collaborator, create / patch /
delete session, pin, unpin, save layout, append a turn. Every handler goes
through the awaits of its source in order: `GetMeta`, `Require` (the
authorisation before the lock), `Acquire`, `RequireLocked` (the one inside it),
`ReadBlock`, `WriteBlock`, and for deletions `Unindex`, `PlanPurge`, `Purge`.
`PurgeRaises` is `asyncio.gather` raising on the first failed delete while the
others go on; `Fail` any other storage failure. The case lock is a mutex: what
`LockRegistryProofs` proves of the registry.

**`Pipeline`** (`langgraph_router.py`, `evidence.py`, `confidence_engine.py`,
`retrieval/executor.py`, `exclusion_engine.py`, and the save of the context in
`main.py`). `node` is the graph node that runs; `items` the evidence; `prior`
the saved context; `edges` the exclusions. `Understand` draws the intent,
`Route` is the conditional edge, `PassOn` a node that changes nothing modelled,
`MakePlan`, `Retrieve` (any findings of the sources, assembled in plan order as
`Assembled` says), `Score` (convergence, strength with the OCR discount of
`Scanned` FIRs, recency, a trust weight for each item, session penalty, tier,
exclusion lookup, demotion and ranking), `FollowUpGuard` (the evidence of the
previous answer is used again), `Save`, `Fail`. No fairness is assumed: a graph
query has no timeout. Officers: `CheckExclusion` then `WriteExclusion`, with an
await in between, and `ReverseExclusion`. Scores are integers in units of
0.0001, rounded as `round(x, 3)` rounds. What the sources find, the trust
weights of the items (by edge type and crime type) and the penalties are inputs.
`known`, `ever` and `found` remember the exclusions and findings of the running
query for the properties; run-local state is reset when a query ends.

**`ItemStore`** (abstract). What a storage call promises its callers: it takes
effect between its start and its end (`Write`, `Read`), it returns after that
(`Return`), an exception leaves open whether it took effect (`Raise`), and a
deletion may leave an empty document (`Soften`) that disappears by its TTL
(`Expire`). The items in `Locked` are those whose writers all share a `get_lock`
block in one process; a write of such an item takes effect at one moment. On the
others (`job:<id>`, `last_check:<id>`, what two processes write) writers overlap,
and a write may take effect again until its call ends. A read may be served a
`stale` item until the replicas have caught up (`CatchUp`).

**`NosqlClient`** (`catalyst_client.py:676-908`). `call[c]` is what the caller
asks for, `attempt` and `token` the locals of `_nosql_request`, `cached` and
`tokenLock` the token cache and its lock, `issued` and `expired` the service's
view of tokens, `items` the table, `stale` the older items that a read may still
be served. A token is found by `UseCached`, or by
`AwaitLock` and then, inside the lock, `Reuse` (another call has refreshed it
meanwhile, or it is the static one) or `StartGrant` with `Granted` or
`GrantFails`. An attempt: `Serve` or `Reject` at the service, then `Return`,
`TryAgain` (429, 5xx, a transport error before or after the effect),
`Unauthorized` (401: the cache is dropped, whatever it holds by then) or
`Refuse`; `NextAttempt` is the bounded loop and `Raise` its end, which
`nosql_delete` answers with its soft deletion. `Lapse` and `Revoke` let tokens
expire on either side.

**`Casework`** (`review_queue_engine.py`, `hypothesis_engine.py`,
`feedback_engine.py`, their routes, and the admission part of
`routes/query.py`). These handlers share one pattern, so a request is a sequence
of steps (`Steps`): `put` a record of its own, `add` or `push` itself into a
shared document inside its lock, pass a rate `limit`, `resolve` or
`resolvePending` (an alert, refused unless pending), `replace` the last check,
`claim` a session, `clear` the index of the hypotheses of a case, which
`delete_case` does without the lock of the index (`cases.py:208`). `Arrive`
chooses the request, `Put` is a blind write, `Read` and `Write` the two halves
of a locked read-modify-write with its refusals (429, 409, 403), `Verify` the
second look of `push_review_item` at the index with its bounded retries, `Fail`
a storage failure with or without effect, `ExpireRate` the TTL of a counter.
`Home[r]` is the AppSail instance that serves `r`; locks hold within an
instance. `Weight` is `_smoothed_trust` with its two scopes, its prior and its
floor, as exact fractions.

**`Corkboard`** (`boardStore.ts`, `CorkboardCanvas.tsx`). `local` is what the
store holds for a case, `timer` the debounce timer, `call` the requests in
flight, `server` the stored layout. Edits: `Place`, `Remove`, `Dismiss`,
`Materialize` (the effect that writes derived cards into the layout). Calls:
`Flush`, `Open` (a load), `Serve`, `Answer` (the answer replaces what is local),
`CallFails`.

**MC modules** (`MCLockRegistry`, `MCAuditChain`, `MCQueryJob`, `MCQueryClient`,
`MCCaseStore`, `MCPipeline`, `MCNosqlClient`, `MCCasework`, `MCCorkboard`) name
the instances that the `.cfg` files choose. Definitions with names such as
`ErrorForgotten` or `LookupAnyStatus` are variants of a definition with a
plausible mistake in it; no specification uses them. They are there to show that
a property would notice.

## 3. Plan

Composition: `QueryClient` contains `QueryJob`. `LockRegistry` implements
`KeyedMutex`; `AuditChain`, `QueryJob`, `CaseStore` and `Casework` take a lock
as a mutex, which is justified by that proof as long as the keys fit.
`NosqlClient` implements `ItemStore`; these modules take a storage call to be
that, with writes that take effect once and reads that see the last write.
`AuditChain` implements `AuditLog`. `Pipeline` refines what `QueryJob` treats as
the body of a run; the trust weights and penalties that it takes as inputs are
those of `Casework`, and the layout that `Corkboard` flushes is stored by
`CaseStore`.

Done, in this order: locks (everything else relies on them), audit log, query
jobs, the browser, cases and sessions, the pipeline's evidence and ranking, the
storage client, the investigation workspace, the evidence board.

Every component whose properties hold has its proof module: `LockRegistryProofs`,
`AuditChainProofs`, `NosqlClientProofs`, `CaseworkProofs`, `CaseStoreProofs`,
`QueryJobProofs`, `QueryClientProofs` (on top of `QueryJobProofs`) and
`PipelineProofs`.

To do:

 1. An abstract specification of a job (worked on once, its result stored once
    and kept) that `QueryJob` is shown, and proved, to implement where posts and
    deliveries are reliable.
 2. The pins of `boardStore.ts` and the lists of `casesStore.ts`, whose rollback
    restores the list of before the failed call.

## 4. What is checked

| Run | Question | Result |
|---|---|---|
| `lock_registry` | Does `get_lock` give every key a fair mutex while all keys fit? | yes: `MutualExclusion`, `WaiterEnters`, `ImplementsKeyedMutex` |
| `lock_eviction` | And with more keys than `_LOCKS_MAX`? | **no**: the lock of a running block is evicted, the next caller gets a new one (`MutualExclusion`) |
| `audit_chain` | Is the log append-only, chained, and verified without false alarms, under storage failures and crashes? | yes with one writer process: `ChainIntact`, `AcknowledgedKept`, `NoFalseAlarm`, `CallsEnd`, `ImplementsAuditLog` |
| `audit_two_processes` | And when AppSail and the Function both write? | **no**: the counter goes back and entries are overwritten (`CounterMonotonic`) |
| `query_client` | With a browser that repeats its post, redelivery, storage failures and deaths: is a job worked on once, does the session keep its turns and its context, does the message settle, and is what it shows stored? | yes: `WorkOnce`, `TurnsKept`, `ShownIsStored`; `ClientSettles` unless the stream was closed before its first event; `JobSettles` unless a process died or even the failure report failed |
| `query_ambiguous_post` | And if the post times out after Signals accepted the event? | **no**: the inline run and the delivery both work (`WorkOnce`) |
| `case_store` | Do concurrent requests on a case lose nothing, and does a deletion last? | yes: `UpdatesKept`, `ListedHasMeta`, `BoardGoesWithCase`, `CaseStaysDeleted` (the last three except after a deletion that broke off) |
| `nosql_client` | Does a storage call end, and take effect between its start and its end, on a locked item once, whatever its attempts meet, and is the token refreshed by one call at a time? | yes: `ImplementsItemStore`, `CallsEnd`, `OneNeededGrant`, `RejectedNotReused` |
| `casework` | Do alerts, hypotheses, feedback and admissions survive concurrent requests, the deletion of a case, other instances and failures halfway? | yes within what the locks of one instance can give: `EntriesKept`, `AcknowledgedListed`, `ListedRecorded`, `RateCapped`, `TrustFollows` |
| `pipeline` | Do exclusions, penalties and the assembly of evidence do what the ranking promises? | yes: `ExcludedSink`, `SoleRuledOutDemoted`, `ReversedForgotten`, `NothingDropped` |
| `pipeline_fallback` | Does a query that was not understood leave the follow-up context alone? | **no**: the fallback's intent is "lookup" and its empty evidence is saved (`ContextKept`) |
| `dismissal_lost` | Does a FIR that was taken off the board stay off? | **no**: the answer of an earlier flush brings it back (`DismissalSticks`) |

The five "no" are the findings of `PROJECT.json`, each with the comment of the
source that it contradicts. Every property of a "yes" run has a mutant: a
changed definition with which TLC finds the property violated.

### Bounds, and why they are enough

  - *lock_registry*: 3 tasks (holder, waiter, newcomer), 2 keys in a registry of
    2, one Lock object to spare. Each key can be contended while the other is in
    use. *lock_eviction* adds a third key, the least that evicts. The proofs
    cover all other sizes.
  - *audit_chain*: 3 calls, so that a number is left behind by one, used again
    by the second and followed by the third; `MaxSeq` 4 is never reached. 2
    processes, of which one writes. Proved for all sizes.
  - *query_client*: 2 jobs, the second for the repeated post; the first is
    delivered and redelivered; 2 polls, so that the first may be early and the
    last may come too late; one stage write; a history of 2 turns. 531,860 states,
    3 minutes.
    *query_ambiguous_post*: 1 job and 3 deliveries, 2 stage writes. The safety
    properties are proved for all other bounds.
  - *case_store*: 3 requests on one case, so that one may overtake two others;
    2 officers, 2 sessions, interchangeable (symmetry; no liveness is checked).
    683,974 states, 1.6 minutes. Proved for all sizes.
  - *pipeline*: 2 FIRs, two exclusions of the accused of one of them; 3 plans,
    graph first (the default), rag first, and sql before graph, the only one
    that yields dated graph items; one of the FIRs was read by OCR; trust 0.30 (its
    floor) and 0.95, for each item either; 2 queries,
    of which one retrieves and the other may follow up; at most one item with a
    session penalty. `ExcludedSink` compares two items, and two exist. 1,637,140
    states, 0.7 minutes.
    *pipeline_fallback* needs the default plan only. The safety properties are
    proved for any FIRs, plans, exclusions, trust weights and penalties.
  - *nosql_client*: 2 calls with 2 attempts each, one item that is written under
    a lock and one that is not, one value, 2 grants that succeed (`MaxGrants`, a
    bound of the model: one to be rejected and one for the retry): one call is
    rejected, refreshes and tries again while the other drops or replaces the
    token, and both may write one item. 708,969 states, 2 minutes. Its safety
    properties and the refinement are proved for all sizes.
  - *casework*: 3 requests, two on one instance (interchangeable; no liveness is
    checked) and one on another, the least with which two requests exclude each
    other and a third does not; limits and `MinSamples` of 1, so that the second
    request meets them; 2 attempts of a push, so that the last one fails too.
    1,703,266 states, 2.7 minutes.
    `OneArea` keeps a behaviour to one group of documents: the groups share
    none, so a behaviour over several is one of each side by side. All of it
    is proved for all sizes and without that restriction.
  - *dismissal_lost*: a note and a FIR, 2 calls in flight, the least that overlap.

Deadlock is checked where the system can go on for ever (the lock registry);
elsewhere the calls or requests of an instance are used up and it may stop.

### Worth knowing

*What a read returns.* A comment in `routes/cases.py:31-35` says that the store is
eventually consistent: a `case:` or `session_meta:` document written moments ago
can read back as absent, which `_nosql_get_stable` retries for two lists.
`ItemStore` and `NosqlClient` allow such reads. Every other module assumes that a
read sees the last write, and what is checked and proved of them holds under that
assumption (and, for the locks, inside one instance). Where a read lags, more can
happen: a query in a new session is answered 404 (`query.py:58-60`), a locked
read-modify-write starts from an older list and loses an entry, a number of the
audit log is used twice. No lock of this code helps against that.

The following are consequences of the code that the runs bring out and that no
document of the repository speaks against:

  - A stream that is closed cleanly before its "job" event leaves the message
    spinning for ever: `chatStore.ts:136` polls only with a job id and has no
    else. `ClientSettles` excepts exactly that.
  - `delete_case` deletes `hypotheses_by_case:<id>` without the lock of that index:
    an `_add_to_index` that has read it before writes the old entries back, for a
    case that is gone.
  - On an item without a lock, the repetition of an attempt that did take effect
    can undo a write that overlapped it: a status of a job, the last check of a
    hypothesis.

  - In the default plan the graph is asked first, and `add_graph_results` only
    merges into items of an earlier step. A FIR that both sources find becomes
    two items, neither convergent; the rag one has no accused and is never
    demoted. `SoleRuledOutDemoted` speaks of graph items.
  - Graph hits carry no FIR date, so an alibi, which covers items of a date,
    demotes an item only when sql came before the graph in the plan.
  - The paths of `run_graph_step` name no edge type, so the strength is at most
    0.50 and the base score at most 0.80, which a trust below 1 takes under the
    0.80 of the tier "high": no answer reaches it.
  - A follow-up shows the exclusion marks of the earlier answer, not of now.
  - A job may go from "done" back to "failed" when the append of its turn fails
    (`job_dispatch.py:205`); the result stays in the document, and so does what
    was shown (`ShownIsStored`).
  - Runs of one session that are spread over processes lose turns: the session
    lock is local. `TurnsKept` speaks of runs in one process.
  - A stream that breaks after the answer was shown replaces it by an error.
  - `create_case_session` that queued behind `delete_case` writes a session list
    for the deleted case. Nothing reads it.
  - Two officers who exclude the same accused at once leave two active
    exclusions, and the lookup sees one of them: an alibi may hide a "ruled
    out". `SoleRuledOutDemoted` speaks of an exclusion without a rival.
  - A later resolution of a hypothesis replaces the first, without a look at the
    status.
  - `push_review_item` gives up without an error when its verification has
    failed five times, which takes another instance at every attempt.
    `EntriesKept` asks for an instance with *some* step on the document, not for
    one inside its block at that moment: with three instances, a writer that has
    ended by then may have left the stale document that another one extends.
  - The rate counters renew their TTL with every request that they let pass:
    they count since the last pause and are not a rolling window.
  - At its 15th sample the narrow trust scope comes into force, and the weight
    jumps to it, in either direction.
  - A late 401 drops a token that another call has just been granted; the next
    call pays for one more grant, and no more. An error of the grant itself is
    raised past the retries.
  - Every answer of a flush or a load replaces the local board. Opening the board
    within the 0.8 s before a flush undoes a removal in the same way.

## 5. Fairness

Only what the code's scheduling gives is assumed, and only of steps in progress.

  - `LockRegistry`: WF of `Wake` and `Leave`. The event loop runs ready tasks,
    and a block ends: the storage calls in it have a 15 s timeout and at most
    6 attempts. No task has to ask for a lock.
  - `AuditChain`: WF of the steps of a started call, for the same reason.
  - `QueryJob`: WF of `Dispatch(j)` and `Step(r)` (event loops run what is
    ready), and of `FirstDelivery(j)`: Signals delivers an accepted event at
    least once. Redelivery, failures and deaths are never obliged. `JobSettles`
    therefore takes for granted that the body of a run ends: a container is
    killed at its time limit, but an inline run whose graph query hangs
    (`graph_client.py:52-58`) has none.
  - `QueryClient`: WF of the browser's own steps (`fetch`, the stream and the
    poll timer return), and `QueryJob`'s fairness for the server. `ClientSettles`
    does not lean on the latter for an outcome: a run may die and its job stay
    without one, and the poll is bounded. The gateway closes every stream, so a
    stream that never brings its first event ends too.
  - `NosqlClient`: WF per call: a coroutine goes on when it can, the token lock is
    left by every path, and httpx ends a request after 15 s. Expiry is never
    obliged.
  - `Pipeline`: none, only safety is stated. A node may not end: `run_query`
    (`graph_client.py:52-58`) awaits the graph without a timeout in the scoring
    and the visualization.
  - `CaseStore`, `Casework`, `Corkboard`: none, only safety is stated.

## 6. What is proved

The eight proof modules extend their component's module (`QueryClientProofs`
also `QueryJobProofs`); no proof depends on the sizes of a `.cfg`. Only
`PipelineProofs` reaches a definition that recurs over data, the assembly of the
evidence; it argues by the least step at which something goes wrong.

**`LockRegistryProofs`**, for any sets of tasks, keys and locks, under the named
assumptions of `LockRegistry` (the null values are not members, keys are
finitely many, `LocksMax` is positive).

  - `MutualExclusion` is not inductive: nothing in it says that the flag of a
    lock and its holder agree. `LockInv` adds that: the lock objects of distinct
    keys are distinct (`EntriesDistinct`), a key has a place exactly when it has
    an object (`EntriesPaired`), a task refers to an object exactly while it is
    not idle (`TasksRefer`), the flag is set exactly while a task is inside
    (`FlagMeansHeld`), a deque holds only tasks that wait, once each
    (`DequeWaits`, `DequeDistinct`), no object has two holders
    (`ObjectExclusion`). `LockInvariant` proves it inductive *without* comparing
    the number of keys with `LocksMax`: eviction never breaks a single Lock
    object. `TypeCorrect` and `ObjectExclusionHolds` follow.
  - Under `KeysFit` (`Cardinality(Key) <= LocksMax`) a miss finds room
    (`MissIsNotFull`, from the cardinality theorems), so a task's object stays
    the one stored under its key (`NotEvicted`), and exclusion per object becomes
    exclusion per key: `MutualExclusionHolds`. The step where the bound is used
    is the one that `lock_eviction` violates.
  - `LockRegistryImplementsKeyedMutex`: with the same hypothesis every step maps
    to a step of `KeyedMutex` or a stutter under the mapping `Owner`, `Queue`.

**`AuditChainProofs`**, for any calls and processes. `TypeCorrect` needs nothing
else; the rest assumes `SingleWriterProcess`, that all calls run in one process,
which is what `audit_two_processes` shows to be necessary. `AuditInv` says: the
lock's holder is the only call inside (`HolderInside`); the number and the hash
that a call read are still current (`ReadsCurrent`); the entries up to the
counter chain to genesis (`ChainIntact`); an acknowledged entry is at its number
(`AcknowledgedKept`); a recorded entry belongs to a call that has ended
(`RecordedEnded`); the verifier's hash is the hash of the entry it looked at last
(`VerifierFollows`). The hard cases are an entry stored beyond the counter by a
failed call, which a later call may overwrite (`StoreBeyondTail`), and a verifier
in the middle of its walk (`ChainGrows`, `VerifyInv`). From `AuditInv` follow
`ChainIntactHolds`, `AcknowledgedKeptHolds`, `NoFalseAlarmHolds`, the action
properties `CounterMonotonicHolds` and `RecordedImmutableHolds`, and
`AuditChainImplementsAuditLog`.

**`NosqlClientProofs`**, for any number of calls, keys, values and attempts.

  - `TypeCorrect` comes with `Typed`: a running call asks for something, and
    where no token can be granted there is a static one.
  - `Tokens`, inductive on top of it, says that a call inside a grant holds the
    lock and the cache is empty then, and that the cached token, and the token
    that a call is about to send, are newer than the last one which that call
    saw rejected.
    `OneNeededGrantHolds` and `RejectedNotReusedHolds` follow.
  - `Effects`: a call that was served has taken effect; two calls that write the
    same `Locked` item never run together, so that what such a write left is
    still stored while its call runs. With it every step maps to a step of
    `ItemStore` or a stutter: `NosqlClientImplementsItemStore`. A repeated attempt
    on a `Locked` item maps to a stutter if the first had its effect, on any other
    item to another `Write`.

**`CaseworkProofs`**, for any finite set of requests, any number of instances and
any limits. All proofs rest on two facts stated once: which documents each kind
of step touches and in which order (`StepShape`), and what a step of one request
changes (`Frame`). On top of `Typed` (`TypeCorrect`), each property has an
invariant of its own, since none is inductive:

  - `EntriesKeptHolds` from `Entries`: requests of one instance are never in the
    block of one document together, and what a request read there still covers
    the document, unless another instance works on it. The deletion of an index
    (`ClearEnds`) only makes the document smaller, and so leaves that true.
  - `RateCappedHolds` from `Counted`: the counter covers what was let through
    since it expired, and a request about to write saw a count below the limit.
  - `ListedRecordedHolds` from `Recorded`: a request past its `put` has its
    record, and what it read of an index is recorded, so what it writes is.
  - `AcknowledgedListedHolds` from `PassedKept`: with one instance, every step
    that a request has behind it has left its entry, which the index of a case
    keeps until a deletion has ended (`DeletedStays`).
  - `TrustFollowsHolds` from `ReadCurrent`: with one instance, a block that adds
    to the count of a trust has read what is stored when it writes. Then a write
    adds one verdict to the counts (`VerdictMoves`), and one verdict moves the
    ratio its own way, on either side of the floor (`RatioFalls`, `RatioRises`).

**`CaseStoreProofs`**, for any requests, officers and sessions. `Typed` says where
each kind of request can be and that a request is inside a block exactly when it
holds the lock; `Frame` says what one step changes. On top of them, where no
deletion has broken off:

  - `Guarded`: a request past the authorisation under the lock has a case whose
    owner or collaborators still allow it, and what a deletion plans to delete
    covers what is left of the case. From it
    `BoardGoesWithCaseHolds` and `CaseStaysDeletedHolds`. The exception is part of
    the properties: `gather` raises on the first failed delete.
  - `Current`: what a block has read is still stored when it writes, a new session
    has a fresh id, and a deletion takes a session off the list before it deletes
    its items. From it `ListedHasMetaHolds`.
  - `Kept`: as long as nobody deletes the case, what an acknowledged request added
    is in its document, since by `Current` the write of a block starts from what
    is stored. From it `UpdatesKeptHolds`.

**`QueryJobProofs`**, for any numbers of jobs, deliveries, stage writes and turns.

  - `TypeCorrect` and `TurnsKeptHolds` need nothing else. The latter rests on
    `Ordered`: inside the session lock of a process a run is alone, and the
    history that it read is still stored when it writes.
  - `WorkOnceHolds` assumes `Reliable`: if Signals is configured, a post that
    raises was not accepted, and a delivery does not begin while another of the
    same job runs. `query_ambiguous_post` shows that the first half is necessary.
    The invariant is `Single`: an inline run and an accepted event exclude each
    other (`Apart`); two runs of a job are never alive together, one that was let
    in by its check follows no run that has worked, the status of a job that was
    worked on is one that the check turns away, and what a run read of the
    document is still there when it writes (`Alone`). The hard case is a
    redelivery after a container died between two status writes.
  - `ResultStays`, under the same assumption, says that a stored result is never
    dropped: `write_job_status` reads the document and carries the result over,
    and no other writer comes between its read and its write.

**`QueryClientProofs`**: every step of the composition is a step of `QueryJob` or
leaves its state alone (`ServerOfClient`), so that `ClientWorksOnce` and
`ClientTurnsKept` are those of the server. `ShownIsStoredHolds` adds `Placed`,
where the browser can be, and `Stored`: an answer that it shows was read from the
document of the job it follows, where it stays by the argument of `ResultStays`.

**`PipelineProofs`**, for any finite set of FIRs, any plans, exclusions, recency
scores and penalties, and any trust from 0.30 to 0.99.

  - *The assembly.* `AssembledRaw`: each stage of it exists and is a sequence of
    raw items, and every FIR of a result taken in is there from then on (`Least`
    gives the first stage at which that would fail). An item that names the graph
    as a source has an accused; nothing is excluded or scored yet.
  - *The ranking.* `Place` is one-to-one into the places of the sequence, so by
    counting every place is taken: the ranking is a permutation of the items,
    sorted by score.
  - *The scores.* An item that is not excluded has 625 to 7920 (in units of
    0.0001), the worst being no graph, no text, OCR, oldest date, least trust and
    a penalty; an excluded one at most 396. The floor of the trust is what keeps
    these ranges apart.
  - *The exclusions.* `PicksCover`: the lookup returns an exclusion of each pair
    that has one, so a sole "ruled out" is found.
  - `PipelineInv`, inductive, says of each node what these give: the exclusions
    known all through the query are active (`Watched`), no retrieving intent is at
    the follow-up guard (`Routed`), the evidence is complete and raw before it is
    scored (`Gathered`), and it is sunken afterwards, as is the saved context
    (`Ordered`). `ExcludedSinkHolds`, `SoleRuledOutDemotedHolds`,
    `ReversedForgottenHolds` and `NothingDroppedHolds` follow.

**Only model-checked**: liveness (`WaiterEnters`, the two `CallsEnd`,
`JobSettles`, `ClientSettles`), which the prover does not support
under fairness. Every other property of a "yes" run is proved.
`CounterMonotonicHolds`, `RecordedImmutableHolds` and `ObjectExclusionHolds` have
no passing run of their own; `ResultStays` is a part of `ShownIsStored`.

## 7. What is not modelled

  - *Claims and their contradiction alerts* (`claim_logger.py`): `log_claim` is
    only called by `synthesizer.synthesize`, which `langgraph_router.py` does
    not use.
  - *Authentication and roles*: sequential checks and a login throttle (which
    reads its counter, waits for the password check and writes the
    counter plus one, without a lock).
  - *Graph, export, OCR, speech and translation routes*: read-only queries,
    rendering and calls of external services; nothing is ordered but the request.
  - *Prompts, parsing, the parse cache, synthesis texts, visualization*: data
    that no property of order depends on. `Pipeline` has their outcomes as inputs.
  - *Other client stores and components*: rendering, and optimistic updates with a
    rollback, of which section 3 plans the pins and the lists. Feedback calls and
    the restored history of `chatStore.ts`. Voice input.
  - *Ingestion and data scripts*: offline batches without concurrency.
  - The mock file of the storage client, the token cache for Zia
    (`catalyst_client.py:158-191`, of the same shape as the one modelled), and an
    attempt that takes effect after its caller gave it up: `NosqlClient` and
    `ItemStore` assume that a call that has ended has no later effect.
  - Expiry, other than of rate counters and soft deletions (jobs, the 8 h of a
    session penalty), and the warm-up ping.
  - `functions/ps_1_cis_function/` holds deployed copies of `shared/` and of the
    pipeline; the map names the originals. `Docs/skills/` is documentation
    tooling and no part of CIS. Both are a large part of the repository's code,
    which is why the map covers a small share of all its lines.
