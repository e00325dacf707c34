------------------------------ MODULE QueryJob ------------------------------
(***************************************************************************)
(* The life of the query jobs of one chat session, on the server side.     *)
(*                                                                         *)
(* dispatch_query_job (AppSail) creates the job document "job:<id>" and    *)
(* posts the job to Catalyst Signals; when the post raises, it runs the    *)
(* pipeline as a task of its own process instead.  Signals delivers an     *)
(* accepted event at least once, each time to a Function container that    *)
(* skips a job which is no longer queued.  Both kinds of run then do the   *)
(* same: they write the stages of the pipeline and its outcome to the job  *)
(* document, and append the turn to "history:<session>" and the follow-up  *)
(* context to "session:<session>" under the session lock of their own      *)
(* process.                                                                *)
(*                                                                         *)
(* Every storage call is an await and may raise; one that raises may have  *)
(* taken effect.  write_job_status reads the document and writes it back,  *)
(* without a lock, so it is two actions.                                   *)
(***************************************************************************)
EXTENDS Naturals, Sequences

CONSTANTS
  Job,              \* jobs of one session
  Delivery,         \* deliveries of events that Signals may make
  JobOf,            \* the job that each of them is for
  Inline,           \* the run that the dispatcher starts itself
  NoJob, NoRun,
  Stages,           \* bound on the stage writes of one run
  HistoryMax,       \* turns kept in the history
  SignalsConfigured,\* ZC_SIGNALS_PUBLISHER_URL is set
  AmbiguousPost,    \* a post that raises may have been accepted
  OverlappingDelivery \* Signals may redeliver while a delivery is running

ASSUME DeliveryAssumption ==
  /\ Inline \notin Delivery
  /\ JobOf \in [Delivery -> Job]
ASSUME NoJobAssumption == NoJob \notin Job
ASSUME BoundsAssumption == Stages \in Nat \ {0} /\ HistoryMax \in Nat \ {0}
ASSUME DeploymentAssumption ==
  /\ SignalsConfigured \in BOOLEAN
  /\ AmbiguousPost \in BOOLEAN
  /\ OverlappingDelivery \in BOOLEAN

Run == {<<j, Inline>> : j \in Job} \cup {<<JobOf[d], d>> : d \in Delivery}
RunsOf(j) == {r \in Run : r[1] = j}
InlineRun(r) == r[2] = Inline

ASSUME NoRunAssumption == NoRun \notin Run

VARIABLES
  doc,          \* doc[j]: the item "job:<j>"
  dpc,          \* dpc[j]: where the dispatcher of j is
  sent,         \* the jobs whose event Signals has accepted
  rpc,          \* rpc[r]: where run r is
  stage,        \* stage[r]: stage writes r has made
  snap,         \* snap[r]: the document write_job_status has read
  turns,        \* turns[r]: the history r has read
  history,      \* the item "history:<session>", a sequence of jobs
  context,      \* the job whose evidence "session:<session>" holds
  holder        \* the inline run inside the session lock of AppSail

jobVars == <<doc, dpc, sent>>
runVars == <<rpc, stage, snap, turns>>
sessionVars == <<history, context, holder>>
vars == <<jobVars, runVars, sessionVars>>

Status == {"none", "queued", "running", "done", "failed"}
Doc == [status : Status, result : BOOLEAN]
NoDoc == [status |-> "none", result |-> FALSE]

\* Inside run_langgraph_pipeline, before and after a read for a status write.
InPipeline == {"stage", "stagePut", "donePut"}
\* Inside the session lock that guards the history.
InLock == {"readTurns", "putTurns", "putContext"}
Reporting == {"failed", "failedPut"}
Ended == {"ended", "skipped", "unreported", "dead"}

TypeOK ==
  /\ doc \in [Job -> Doc]
  /\ dpc \in [Job -> {"idle", "create", "post", "returned", "error"}]
  /\ sent \in SUBSET Job
  /\ rpc \in [Run -> {"off", "check", "readHistory", "lock"}
                       \cup InPipeline \cup InLock \cup Reporting \cup Ended]
  /\ stage \in [Run -> 0 .. Stages]
  /\ snap \in [Run -> Doc]
  /\ turns \in [Run -> Seq(Job)]
  /\ history \in Seq(Job) /\ Len(history) <= HistoryMax
  /\ context \in Job \cup {NoJob}
  /\ holder \in Run \cup {NoRun}

Init ==
  /\ doc = [j \in Job |-> NoDoc]
  /\ dpc = [j \in Job |-> "idle"]
  /\ sent = {}
  /\ rpc = [r \in Run |-> "off"]
  /\ stage = [r \in Run |-> 0]
  /\ snap = [r \in Run |-> NoDoc]
  /\ turns = [r \in Run |-> << >>]
  /\ history = << >> /\ context = NoJob /\ holder = NoRun

Goto(r, l) == rpc' = [rpc EXCEPT ![r] = l]

\* The end of the call whose local it is.
Forget(r) == snap' = [snap EXCEPT ![r] = NoDoc]

-----------------------------------------------------------------------------
(* dispatch_query_job                                                      *)

\* The lookup of a cached answer always misses: nothing writes that key.
Submit(j) ==
  /\ dpc[j] = "idle"
  /\ dpc' = [dpc EXCEPT ![j] = "create"]
  /\ UNCHANGED <<doc, sent, runVars, sessionVars>>

\* The job id is fresh: nobody else can touch the document yet.
CreateJob(j) ==
  /\ dpc[j] = "create"
  /\ doc' = [doc EXCEPT ![j].status = "queued"]
  /\ dpc' = [dpc EXCEPT ![j] = "post"]
  /\ UNCHANGED <<sent, runVars, sessionVars>>

\* The request fails with a 500; the write may have been applied.
CreateJobFails(j) ==
  /\ dpc[j] = "create"
  /\ doc' \in {doc, [doc EXCEPT ![j].status = "queued"]}
  /\ dpc' = [dpc EXCEPT ![j] = "error"]
  /\ UNCHANGED <<sent, runVars, sessionVars>>

PostAccepted(j) ==
  /\ dpc[j] = "post"
  /\ SignalsConfigured
  /\ sent' = sent \cup {j}
  /\ dpc' = [dpc EXCEPT ![j] = "returned"]
  /\ UNCHANGED <<doc, runVars, sessionVars>>

\* No URL, or the post raised: a timeout after 5 s does not say whether
\* Signals took the event.
RunInline(j) ==
  /\ dpc[j] = "post"
  /\ sent' \in IF SignalsConfigured /\ AmbiguousPost THEN {sent, sent \cup {j}}
               ELSE {sent}
  /\ Goto(<<j, Inline>>, "readHistory")
  /\ dpc' = [dpc EXCEPT ![j] = "returned"]
  /\ UNCHANGED <<doc, stage, snap, turns, sessionVars>>

-----------------------------------------------------------------------------
(* Signals and the idempotency check of the Function                       *)

Deliver(r) ==
  /\ r[1] \in sent
  /\ ~ InlineRun(r)
  /\ rpc[r] = "off"
  /\ \/ OverlappingDelivery
     \/ \A s \in RunsOf(r[1]) : InlineRun(s) \/ rpc[s] \in {"off"} \cup Ended
  /\ Goto(r, "check")
  /\ UNCHANGED <<jobVars, stage, snap, turns, sessionVars>>

\* A redelivery that compares with the terminal statuses only.
CheckTerminalOnly(r) ==
  /\ rpc[r] = "check"
  /\ Goto(r, IF doc[r[1]].status \in {"done", "failed"} THEN "skipped"
             ELSE "readHistory")
  /\ UNCHANGED <<jobVars, stage, snap, turns, sessionVars>>

\* A redelivery check that takes the dispatcher's document for a run's.
CheckExists(r) ==
  /\ rpc[r] = "check"
  /\ Goto(r, IF doc[r[1]].status # "none" THEN "skipped" ELSE "readHistory")
  /\ UNCHANGED <<jobVars, stage, snap, turns, sessionVars>>

Check(r) ==
  /\ rpc[r] = "check"
  /\ Goto(r, IF doc[r[1]].status \notin {"none", "queued"} THEN "skipped"
             ELSE "readHistory")
  /\ UNCHANGED <<jobVars, stage, snap, turns, sessionVars>>

CheckFails(r) ==
  /\ rpc[r] = "check"
  /\ Goto(r, "unreported")
  /\ UNCHANGED <<jobVars, stage, snap, turns, sessionVars>>

-----------------------------------------------------------------------------
(* _run_pipeline and _local_pipeline_runner                                *)

LockIgnored(r) == r \in Run

\* Function containers handle one event at a time, so only the inline runs
\* meet each other at a lock.
LockFree(r) == InlineRun(r) => holder = NoRun

\* A block under the session lock that only reads.
ReadHistory(r) ==
  /\ rpc[r] = "readHistory"
  /\ LockFree(r)
  /\ Goto(r, "stage")
  /\ UNCHANGED <<jobVars, stage, snap, turns, sessionVars>>

ReadStatus(r, from, to) ==
  /\ rpc[r] = from
  /\ snap' = [snap EXCEPT ![r] = doc[r[1]]]
  /\ Goto(r, to)
  /\ UNCHANGED <<jobVars, stage, turns, sessionVars>>

\* A write that replaces the document instead of updating it.
StatusPutFresh(r, status) ==
  doc' = [doc EXCEPT ![r[1]] = [status |-> status, result |-> status = "done"]]

StatusPut(r, status) ==
  doc' = [doc EXCEPT ![r[1]] =
            [status |-> status, result |-> snap[r].result \/ status = "done"]]

StageRead(r) == stage[r] < Stages /\ ReadStatus(r, "stage", "stagePut")

StagePut(r) ==
  /\ rpc[r] = "stagePut"
  /\ StatusPut(r, "running")
  /\ stage' = [stage EXCEPT ![r] = @ + 1]
  /\ Forget(r)
  /\ Goto(r, "stage")
  /\ UNCHANGED <<dpc, sent, turns, sessionVars>>

\* The graph has ended; every path through it writes at least two stages.
DoneRead(r) == stage[r] = Stages /\ ReadStatus(r, "stage", "donePut")

DonePut(r) ==
  /\ rpc[r] = "donePut"
  /\ StatusPut(r, "done")
  /\ Forget(r)
  /\ Goto(r, "lock")
  /\ UNCHANGED <<dpc, sent, stage, turns, sessionVars>>

LockSession(r) ==
  /\ rpc[r] = "lock"
  /\ LockFree(r)
  /\ holder' = IF InlineRun(r) THEN r ELSE holder
  /\ Goto(r, "readTurns")
  /\ UNCHANGED <<jobVars, stage, snap, turns, history, context>>

ReadTurns(r) ==
  /\ rpc[r] = "readTurns"
  /\ turns' = [turns EXCEPT ![r] = history]
  /\ Goto(r, "putTurns")
  /\ UNCHANGED <<jobVars, stage, snap, sessionVars>>

\* history[-10:]
LastTurns(h) ==
  IF Len(h) <= HistoryMax THEN h ELSE SubSeq(h, Len(h) - HistoryMax + 1, Len(h))

NewHistory(r) == LastTurns(Append(turns[r], r[1]))

PutTurns(r) ==
  /\ rpc[r] = "putTurns"
  /\ history' = NewHistory(r)
  /\ turns' = [turns EXCEPT ![r] = << >>]
  /\ Goto(r, "putContext")
  /\ UNCHANGED <<jobVars, stage, snap, context, holder>>

Unlock(r) == holder' = IF holder = r THEN NoRun ELSE holder

\* A greeting, a blocked or an unrecognised query leaves the context alone.
PutContext(r) ==
  /\ rpc[r] = "putContext"
  /\ context' \in {context, r[1]}
  /\ Unlock(r)
  /\ Goto(r, "ended")
  /\ UNCHANGED <<jobVars, stage, snap, turns, history>>

-----------------------------------------------------------------------------
(* Failures of a run                                                       *)

\* Any exception inside run_langgraph_pipeline: it reports the failure
\* itself and returns None, so that no turn is appended.
PipelineFails(r) ==
  /\ rpc[r] \in InPipeline
  /\ \/ UNCHANGED doc
     \/ rpc[r] = "stagePut" /\ StatusPut(r, "running")
     \/ rpc[r] = "donePut" /\ StatusPut(r, "done")
  /\ Forget(r)
  /\ Goto(r, "failed")
  /\ UNCHANGED <<dpc, sent, stage, turns, sessionVars>>

\* An exception in the code around it, the append of the turn included.
RunFails(r) ==
  /\ rpc[r] \in {"readHistory"} \cup InLock
  /\ \/ UNCHANGED <<history, context>>
     \/ rpc[r] = "putTurns" /\ history' = NewHistory(r) /\ UNCHANGED context
     \/ rpc[r] = "putContext" /\ context' = r[1] /\ UNCHANGED history
  /\ turns' = [turns EXCEPT ![r] = << >>]
  /\ Unlock(r)
  /\ Goto(r, "failed")
  /\ UNCHANGED <<jobVars, stage, snap>>

ReportRead(r) == ReadStatus(r, "failed", "failedPut")

ReportPut(r) ==
  /\ rpc[r] = "failedPut"
  /\ StatusPut(r, "failed")
  /\ Forget(r)
  /\ Goto(r, "ended")
  /\ UNCHANGED <<dpc, sent, stage, turns, sessionVars>>

\* "Also failed to write failed status".
ReportFails(r) ==
  /\ rpc[r] \in Reporting
  /\ \/ UNCHANGED doc
     \/ rpc[r] = "failedPut" /\ StatusPut(r, "failed")
  /\ Forget(r)
  /\ Goto(r, "unreported")
  /\ UNCHANGED <<dpc, sent, stage, turns, sessionVars>>

Alive(r) == rpc[r] \notin {"off"} \cup Ended

\* The platform kills a Function container.
FunctionDies(r) ==
  /\ ~ InlineRun(r)
  /\ Alive(r)
  /\ Forget(r)
  /\ turns' = [turns EXCEPT ![r] = << >>]
  /\ Goto(r, "dead")
  /\ UNCHANGED <<jobVars, stage, sessionVars>>

\* AppSail restarts: its requests, its tasks and its locks are gone.
AppSailDies ==
  /\ \/ \E j \in Job : dpc[j] \in {"create", "post"}
     \/ \E r \in Run : InlineRun(r) /\ Alive(r)
  /\ dpc' = [j \in Job |-> IF dpc[j] \in {"create", "post"} THEN "error" ELSE dpc[j]]
  /\ rpc' = [r \in Run |-> IF InlineRun(r) /\ Alive(r) THEN "dead" ELSE rpc[r]]
  /\ snap' = [r \in Run |-> IF InlineRun(r) THEN NoDoc ELSE snap[r]]
  /\ turns' = [r \in Run |-> IF InlineRun(r) THEN << >> ELSE turns[r]]
  /\ holder' = NoRun
  /\ UNCHANGED <<doc, sent, stage, history, context>>

-----------------------------------------------------------------------------

Dispatch(j) == CreateJob(j) \/ CreateJobFails(j) \/ PostAccepted(j) \/ RunInline(j)

Step(r) ==
  \/ Check(r) \/ ReadHistory(r)
  \/ StageRead(r) \/ StagePut(r) \/ DoneRead(r) \/ DonePut(r)
  \/ LockSession(r) \/ ReadTurns(r) \/ PutTurns(r) \/ PutContext(r)
  \/ ReportRead(r) \/ ReportPut(r)

FirstDelivery(j) ==
  /\ \A r \in RunsOf(j) : InlineRun(r) \/ rpc[r] = "off"
  /\ \E r \in RunsOf(j) : Deliver(r)

Fails(r) == CheckFails(r) \/ PipelineFails(r) \/ RunFails(r) \/ ReportFails(r)

Next ==
  \/ \E j \in Job : Submit(j) \/ Dispatch(j)
  \/ \E r \in Run : Deliver(r) \/ Step(r) \/ Fails(r) \/ FunctionDies(r)
  \/ AppSailDies

(***************************************************************************)
(* The event loops run every request and every run that can proceed, and   *)
(* Signals delivers an accepted event at least once.  Nothing obliges a    *)
(* query to be submitted, storage to fail or a process to die.             *)
(***************************************************************************)
Fairness ==
  /\ \A j \in Job : WF_vars(Dispatch(j))
  /\ \A r \in Run : WF_vars(Step(r))
  /\ \A j \in Job : WF_vars(FirstDelivery(j))

Spec == Init /\ [][Next]_vars /\ Fairness

-----------------------------------------------------------------------------
(* Properties                                                              *)

Worked(r) == stage[r] > 0

OneProcess == \A r \in Run : InlineRun(r) \/ rpc[r] = "off"

\* The pipeline works on a job once.  _run_pipeline skips a redelivered
\* event so that it does not "run the entire pipeline twice, double-spending
\* LLM calls and double-writing history".
WorkOnce ==
  \A j \in Job : \A r, s \in RunsOf(j) : Worked(r) /\ Worked(s) => r = s

\* An answer written to the job document stays in it, whoever writes a
\* status after it.
ResultKept == [][\A j \in Job : doc[j].result => doc'[j].result]_vars

\* As long as all runs are in one process (those of a Function container and
\* of AppSail do not exclude each other), every write of the history adds a turn
\* to the turns that are there, of which only the cap drops one, and the
\* follow-up context is written for the newest turn, not for one that another
\* query of the session has already followed.
TurnsKept ==
  [][OneProcess =>
       /\ history' # history => \E j \in Job : history' = LastTurns(Append(history, j))
       /\ context' # context => context' = history[Len(history)]]_vars

\* What may leave a job without an outcome: its dispatcher or a run of it
\* died, or a run could not even store that it failed.
Abandoned(j) ==
  \/ dpc[j] = "error"
  \/ \E r \in RunsOf(j) : rpc[r] \in {"dead", "unreported"}

\* Nothing else does: a job that was queued gets an outcome and keeps one, and
\* every run that begins ends, also one that waits for another run's lock.
JobSettles ==
  <>[](/\ \A j \in Job : doc[j].status \in {"none", "done", "failed"} \/ Abandoned(j)
       /\ \A r \in Run : ~ Alive(r))

=============================================================================
