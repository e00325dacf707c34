--------------------------- MODULE QueryClientProofs ---------------------------
(***************************************************************************)
(* Theorems about QueryClient: what QueryJobProofs shows of every server   *)
(* holds of the one this client drives, and the answer it shows is stored. *)
(***************************************************************************)
EXTENDS QueryClient, QueryJobProofs

\* A step of the client, or of the server under it, is a step of QueryJob or
\* leaves the server alone.
LEMMA ServerRefined == ClientNext => Next \/ UNCHANGED vars
BY DEF ClientNext, ServerStep, ClientStep, Post, Stream, Send, Resend, PostFails, PostAnswered,
   SseJob, SseAnswer, SseDone, SseError, StreamEnds, Poll, PollAgain, Next

LEMMA ServerOfClient == ClientSpec => Init /\ [][Next]_vars
<1>1. ClientInit => Init
  BY DEF ClientInit
<1>2. [ClientNext]_allVars => [Next]_vars
  BY ServerRefined DEF allVars
<1>3. QED
  BY <1>1, <1>2, PTL DEF ClientSpec

-----------------------------------------------------------------------------
(* The message                                                             *)

\* No answer is shown before the stream or the polls bring one; the post is gone
\* once an answer is shown, so its job stays the one the answer is of; a job that
\* the browser knows is that of its last post.
Placed ==
  /\ ClientTypeOK
  /\ jobId # NoJob => jobId = cur
  /\ cpc \in {"idle", "posting"} => jobId = NoJob
  /\ cpc = "polling" => jobId # NoJob
  /\ cpc # "idle" => cur \in Job
  /\ cpc \in {"idle", "posting", "streaming"} => shown # "answer"
  /\ cpc = "answered" => shown = "answer"

\* What a step of the client changes, and which job an answer comes from.
LEMMA ClientStepMoves ==
  ASSUME Placed, ClientStep
  PROVE  /\ UNCHANGED <<vars, cur, retried>> /\ cpc # "idle"
         /\ jobId' \in {jobId, cur}
         /\ cpc' = "polling" => jobId' # NoJob
         /\ polls' \in 0 .. PollMax
         /\ cpc' \in {"streaming", "answered", "polling", "settled", "ended"}
         /\ shown' \in {"nothing", "answer", "error"}
         /\ cpc' = "streaming" => shown' # "answer"
         /\ cpc' = "answered" => shown' = "answer"
         /\ shown' = "answer" => shown = "answer" \/ doc[cur].status = "done"
<1>a. PollMax \in Nat \ {0} /\ polls \in 0 .. PollMax /\ shown \in {"nothing", "answer", "error"}
  BY PollMaxAssumption DEF Placed, ClientTypeOK
<1>b. jobId # NoJob => jobId = cur
  BY DEF Placed
<1> USE DEF Settle
<1>0. CASE SseJob
  BY <1>a, <1>0 DEF SseJob, Placed
<1>1. CASE Post
  BY <1>a, <1>1 DEF Post, PostFails, PostAnswered, Placed
<1>2. CASE SseAnswer
  BY <1>a, <1>2 DEF SseAnswer
<1>3. CASE SseDone
  BY <1>a, <1>3 DEF SseDone, Placed
<1>4. CASE SseError
  BY <1>a, <1>4 DEF SseError
<1>5. CASE StreamEnds
  BY <1>a, <1>5 DEF StreamEnds, Streaming, CutOff, Break
<1>6. CASE Poll
  BY <1>a, <1>b, <1>6 DEF Poll, Placed
<1>7. CASE PollAgain
  BY <1>a, <1>7 DEF PollAgain, Placed
<1>8. QED
  BY <1>0, <1>1, <1>2, <1>3, <1>4, <1>5, <1>6, <1>7 DEF ClientStep, Stream

\* A restart of AppSail ends the stream that it serves.
LEMMA ServerStepMoves ==
  ASSUME ServerStep
  PROVE  /\ Next /\ UNCHANGED <<cur, jobId, retried, polls>>
         /\ \/ UNCHANGED <<cpc, shown>>
            \/ cpc \in {"streaming", "answered"} /\ UNCHANGED shown
               /\ cpc' = IF jobId = NoJob THEN "ended" ELSE "polling"
            \/ cpc \in {"streaming", "answered"} /\ cpc' = "settled" /\ shown' = "error"
<1>1. CASE AppSailDies /\ IF Streaming THEN CutOff \/ Break ELSE UNCHANGED <<cpc, shown>>
  BY <1>1 DEF ServerStep, Next, clientVars, Streaming, CutOff, Break, Settle
<1>2. CASE UNCHANGED clientVars
  BY <1>2 DEF ServerStep, Next, clientVars
<1>3. QED
  BY <1>1, <1>2 DEF ServerStep

LEMMA PlacedInvariant == ClientSpec => []Placed
<1>1. ClientInit /\ Typed => Placed
  <2>1. 0 \in 0 .. PollMax
    BY PollMaxAssumption
  <2>2. QED
    BY <2>1 DEF ClientInit, Typed, Placed, ClientTypeOK
<1>2. Placed /\ Typed' /\ [ClientNext]_allVars => Placed'
  <2> SUFFICES ASSUME Placed, Typed', [ClientNext]_allVars PROVE Placed'
    OBVIOUS
  <2>1. CASE UNCHANGED allVars
    BY <2>1 DEF allVars, clientVars, Placed, ClientTypeOK, Typed
  <2>2. CASE ClientStep
    BY <2>2, ClientStepMoves DEF Placed, ClientTypeOK, Typed
  <2>3. CASE ServerStep
    BY <2>3, ServerStepMoves DEF Placed, ClientTypeOK, Typed
  <2>4. CASE \E j \in Job : Send(j) \/ Resend(j)
    BY <2>4 DEF Send, Resend, Placed, ClientTypeOK, Typed
  <2>5. QED
    BY <2>1, <2>2, <2>3, <2>4 DEF ClientNext
<1>3. QED
  BY <1>1, <1>2, ServerOfClient, TypedInvariant, PTL DEF ClientSpec

\* The server may write over the document of the answer, but not over the answer.
Stored == shown = "answer" => doc[cur].result

LEMMA StepStored ==
  ASSUME Typed, Single, Placed, Stored, ClientNext
  PROVE  Stored'
<1>1. CASE ClientStep
  <2>1. doc[cur].status = "done" => doc[cur].result
    BY <1>1, ClientStepMoves DEF Placed, Typed
  <2>2. QED
    BY <1>1, <2>1, ClientStepMoves DEF Stored, vars, jobVars
<1>2. CASE ServerStep
  <2>1. CASE shown' = "answer"
    <3>1. shown = "answer" /\ cur \in Job /\ cur' = cur
      BY <1>2, <2>1, ServerStepMoves DEF Placed
    <3>2. QED
      BY <1>2, <3>1, ServerStepMoves, ResultCarried DEF Stored
  <2>2. QED
    BY <2>1 DEF Stored
<1>3. CASE \E j \in Job : Send(j) \/ Resend(j)
  BY <1>3 DEF Send, Resend, Placed, Stored
<1>4. QED
  BY <1>1, <1>2, <1>3 DEF ClientNext

-----------------------------------------------------------------------------
(* The theorems                                                            *)

\* Every server theorem is one of the client's: the runs of its jobs are kept
\* apart although the client may post its query twice.
THEOREM ClientWorksOnce ==
  ASSUME Reliable
  PROVE  ClientSpec => []WorkOnce
<1>1. Single => WorkOnce
  BY DEF Single, Alone, WorkOnce, RunsOf
<1>2. QED
  BY <1>1, ServerOfClient, SingleInvariant, PTL

\* The message's state and the attempts of pollForCompletedJob, never more than
\* POLL_MAX_ATTEMPTS, stay in their ranges, with those of the server.
THEOREM ClientTypeCorrect == ClientSpec => []ClientTypeOK
<1>1. Placed => ClientTypeOK
  BY DEF Placed
<1>2. QED
  BY <1>1, PlacedInvariant, PTL

\* An answer on the screen is in the job document, and stays there: a reload of the
\* client, or the poll after a cut-off stream, finds it.
THEOREM ShownIsStoredHolds ==
  ASSUME Reliable
  PROVE  ClientSpec => ShownIsStored
<1>1. ClientInit => Stored
  BY DEF ClientInit, Stored
<1>2. Typed /\ Single /\ Placed /\ Stored /\ [ClientNext]_allVars => Stored'
  BY StepStored DEF allVars, vars, jobVars, clientVars, Stored
<1>3. Typed /\ Single /\ [Next]_vars => [\A j \in Job : doc[j].result => doc'[j].result]_vars
  BY ResultCarried
<1>4. Stored <=> (shown = "answer" => doc[cur].result)
  BY DEF Stored
<1>5. QED
  BY <1>1, <1>2, <1>3, <1>4, ServerOfClient, TypedInvariant, SingleInvariant, PlacedInvariant, PTL
     DEF ClientSpec, ShownIsStored, ResultKept

\* In one process every turn is appended to the stored history, and the follow-up
\* context is that of the newest turn, whatever this client posts.
THEOREM ClientTurnsKept == ClientSpec => TurnsKept
BY ServerOfClient, TurnsAlwaysKept, PTL

===============================================================================
