----------------------------- MODULE QueryClient -----------------------------
(***************************************************************************)
(* One query of the chat, seen from the browser: sendQuery                 *)
(* (client/src/stores/chatStore.ts) posts it through fetchWithRetry, reads *)
(* the server-sent events of stream_job_status (backend/sse_poller.py),    *)
(* and falls back to polling /api/query/status when the gateway closes the *)
(* stream first.  The server is QueryJob; here its jobs are submitted only *)
(* by this client, and a post that the network resets is sent again, as a  *)
(* second job.                                                             *)
(***************************************************************************)
EXTENDS QueryJob

CONSTANT PollMax    \* attempts of pollForCompletedJob

ASSUME PollMaxAssumption == PollMax \in Nat \ {0}

VARIABLES
  cpc,      \* "answered": the answer has arrived, the "done" event has not;
            \* "ended": the stream is over and no job to poll is known
  cur,      \* the job of the last post
  jobId,    \* the job the browser knows: that of the stream's first event
  retried,  \* fetchWithRetry has used its retry
  shown,    \* what the assistant's message shows
  polls     \* attempts made so far

clientVars == <<cpc, cur, jobId, retried, shown, polls>>
allVars == <<vars, clientVars>>

ClientTypeOK ==
  /\ TypeOK
  /\ cpc \in {"idle", "posting", "streaming", "answered", "polling", "settled", "ended"}
  /\ {cur, jobId} \subseteq Job \cup {NoJob}
  /\ retried \in BOOLEAN
  /\ shown \in {"nothing", "answer", "error"}
  /\ polls \in 0 .. PollMax

ClientInit ==
  /\ Init
  /\ cpc = "idle" /\ cur = NoJob /\ jobId = NoJob /\ retried = FALSE
  /\ shown = "nothing" /\ polls = 0

Settle(text) ==
  /\ cpc' = "settled"
  /\ shown' = text

-----------------------------------------------------------------------------
(* The post                                                                *)

\* Job ids are random: any unused one will do.
Fresh == CHOOSE j \in Job : dpc[j] = "idle"

Send(j) ==
  /\ cpc = "idle"
  /\ j = Fresh
  /\ Submit(j)
  /\ cur' = j
  /\ cpc' = "posting"
  /\ UNCHANGED <<jobId, retried, shown, polls>>

\* fetch throws a TypeError: the server may have begun, or finished, to
\* dispatch the first job.
Resend(j) ==
  /\ cpc = "posting"
  /\ ~ retried
  /\ j = Fresh
  /\ Submit(j)
  /\ cur' = j
  /\ retried' = TRUE
  /\ UNCHANGED <<cpc, jobId, shown, polls>>

\* The retry fails too, or the response is an error: a 500 of the dispatcher,
\* a 504 of the gateway.
PostFails ==
  /\ cpc = "posting"
  /\ Settle("error")
  /\ UNCHANGED <<vars, cur, jobId, retried, polls>>

\* The 200 response: its body is still to come.
PostAnswered ==
  /\ cpc = "posting"
  /\ dpc[cur] = "returned"
  /\ cpc' = "streaming"
  /\ UNCHANGED <<vars, cur, jobId, retried, shown, polls>>

-----------------------------------------------------------------------------
(* stream_job_status and streamQuery                                       *)

\* The first event of the stream: from here on the browser can poll.
SseJob ==
  /\ cpc = "streaming"
  /\ jobId = NoJob
  /\ jobId' = cur
  /\ UNCHANGED <<vars, cpc, cur, retried, shown, polls>>

SseAnswer ==
  /\ cpc = "streaming"
  /\ jobId # NoJob
  /\ doc[cur].status = "done"
  /\ cpc' = "answered"
  /\ shown' = "answer"
  /\ UNCHANGED <<vars, cur, jobId, retried, polls>>

SseDone ==
  /\ cpc = "answered"
  /\ Settle("answer")
  /\ UNCHANGED <<vars, cur, jobId, retried, polls>>

\* The job failed, or SSE_MAX_POLL_SECONDS have passed.
SseError ==
  /\ cpc = "streaming"
  /\ jobId # NoJob
  /\ doc[cur].status # "done"
  /\ Settle("error")
  /\ UNCHANGED <<vars, cur, jobId, retried, polls>>

Streaming == cpc \in {"streaming", "answered"}

\* A browser without the fallback: a stream that is cut off is the end.
CutOffForGood ==
  /\ cpc' = "ended"
  /\ UNCHANGED shown

\* Closed without a terminal event: poll instead.  Before the "job" event there is
\* nothing to poll, and sendQuery returns without touching the message.
CutOff ==
  /\ cpc' = IF jobId = NoJob THEN "ended" ELSE "polling"
  /\ UNCHANGED shown

\* A stream that breaks makes reader.read() throw: the message becomes an
\* error, even over an answer that has arrived.
Break == Settle("error")

StreamEnds ==
  /\ Streaming
  /\ CutOff \/ Break
  /\ UNCHANGED <<vars, cur, jobId, retried, polls>>

-----------------------------------------------------------------------------
(* pollForCompletedJob                                                     *)

Poll ==
  /\ cpc = "polling"
  /\ \/ doc[jobId].status = "done" /\ Settle("answer")
     \/ doc[jobId].status = "failed" /\ Settle("error")
  /\ UNCHANGED <<vars, cur, jobId, retried, polls>>

\* A poll that counts its attempts but does not stop.
PollUncapped ==
  /\ cpc = "polling"
  /\ polls' = polls + 1
  /\ UNCHANGED <<vars, cpc, cur, jobId, retried, shown>>

\* An attempt without an outcome: the job is not there yet, or the request
\* failed.
PollAgain ==
  /\ cpc = "polling"
  /\ polls < PollMax
  /\ polls' = polls + 1
  /\ IF polls' = PollMax THEN Settle("error") ELSE UNCHANGED <<cpc, shown>>
  /\ UNCHANGED <<vars, cur, jobId, retried>>

-----------------------------------------------------------------------------

\* Everything QueryJob does by itself.  A restart of AppSail also ends the
\* stream it was serving, and a post it was answering.
ServerStep ==
  \/ /\ \/ \E j \in Job : Dispatch(j)
        \/ \E r \in Run : Deliver(r) \/ Step(r) \/ Fails(r) \/ FunctionDies(r)
     /\ UNCHANGED clientVars
  \/ /\ AppSailDies
     /\ IF Streaming THEN CutOff \/ Break ELSE UNCHANGED <<cpc, shown>>
     /\ UNCHANGED <<cur, jobId, retried, polls>>

Post == PostAnswered \/ PostFails

Stream == SseJob \/ SseAnswer \/ SseDone \/ SseError \/ StreamEnds

ClientStep == Post \/ Stream \/ Poll \/ PollAgain

ClientNext ==
  \/ ServerStep
  \/ \E j \in Job : Send(j) \/ Resend(j)
  \/ ClientStep

(***************************************************************************)
(* The gateway closes a response after some 45 s at the latest, and        *)
(* pollForCompletedJob has a timer.  Of the server, QueryJob's Fairness.    *)
(***************************************************************************)
ClientSpec == ClientInit /\ [][ClientNext]_allVars /\ WF_allVars(ClientStep) /\ Fairness

-----------------------------------------------------------------------------
(* Properties                                                              *)

\* The message stops spinning, with an answer or an error, even when no
\* outcome of the job is ever written, and does not start again.  It goes on
\* spinning only after a stream that was closed before the browser had read
\* which job it is about (sendQuery's "if (!sawTerminalEvent && jobId)").
ClientSettles ==
  <>[](cpc \in {"idle", "settled"} \/ (cpc = "ended" /\ jobId = NoJob))

\* An answer on the screen is in the job document, from which a reload of the
\* client can fetch it, and an answer that is there stays, whoever writes a
\* status after it (write_job_status, read_job_status).
ShownIsStored == ResultKept /\ [](shown = "answer" => doc[cur].result)

=============================================================================
