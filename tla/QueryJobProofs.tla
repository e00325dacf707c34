---------------------------- MODULE QueryJobProofs ----------------------------
(***************************************************************************)
(* Theorems about QueryJob for any jobs, deliveries, stages and length of  *)
(* the history.  Moves says what one action of a run changes; Single, what *)
(* keeps the runs of a job apart; Ordered, what the session lock keeps.    *)
(***************************************************************************)
EXTENDS QueryJob, SequenceTheorems, TLAPS

-----------------------------------------------------------------------------
(* Types                                                                   *)

\* A job's runs are its inline run and its deliveries.
LEMMA Runs ==
  /\ \A r \in Run : r[1] \in Job /\ (InlineRun(r) => r = <<r[1], Inline>>)
  /\ \A j \in Job : <<j, Inline>> \in Run /\ InlineRun(<<j, Inline>>)
BY DeliveryAssumption DEF Run, InlineRun

\* history[-10:] is a history, and ends with the newest turn.
LEMMA LastTurnsEnd ==
  ASSUME NEW t \in Seq(Job), t # << >>
  PROVE  /\ LastTurns(t) \in Seq(Job) /\ LastTurns(t) # << >>
         /\ Len(LastTurns(t)) <= HistoryMax
         /\ LastTurns(t)[Len(LastTurns(t))] = t[Len(t)]
<1>1. Len(t) \in Nat \ {0} /\ HistoryMax \in Nat \ {0}
  BY BoundsAssumption
<1>2. CASE Len(t) <= HistoryMax
  BY <1>2 DEF LastTurns
<1>3. CASE ~(Len(t) <= HistoryMax)
  <2> DEFINE m == Len(t) - HistoryMax + 1
  <2>1. m \in 1 .. Len(t) /\ \A i \in m .. Len(t) : t[i] \in Job
    BY <1>1, <1>3
  <2>2. LastTurns(t) = SubSeq(t, m, Len(t))
    BY <1>3 DEF LastTurns
  <2>3. /\ SubSeq(t, m, Len(t)) \in Seq(Job)
        /\ Len(SubSeq(t, m, Len(t))) = HistoryMax
        /\ SubSeq(t, m, Len(t))[HistoryMax] = t[Len(t)]
    BY <1>1, <2>1, SubSeqProperties
  <2>4. SubSeq(t, m, Len(t)) # << >>
    BY <1>1, <2>3
  <2>5. QED
    BY <1>1, <2>2, <2>3, <2>4
<1>4. QED
  BY <1>2, <1>3

LEMMA LastTurnsOfAppend ==
  ASSUME NEW h \in Seq(Job), NEW j \in Job
  PROVE  /\ LastTurns(Append(h, j)) \in Seq(Job) /\ LastTurns(Append(h, j)) # << >>
         /\ Len(LastTurns(Append(h, j))) <= HistoryMax
         /\ LastTurns(Append(h, j))[Len(LastTurns(Append(h, j)))] = j
<1>1. Append(h, j) \in Seq(Job) /\ Append(h, j) # << >> /\ Append(h, j)[Len(Append(h, j))] = j
  OBVIOUS
<1>2. QED
  BY <1>1, LastTurnsEnd, Zenon

\* Where a status write is under way.
Putting == {"stagePut", "donePut", "failedPut"}

\* A document that says "done" has the answer, a run that comes out of its
\* history read has made no stage write, and a job runs after its dispatch.
Typed ==
  /\ TypeOK
  /\ \A j \in Job : doc[j].status = "done" => doc[j].result
  /\ \A r \in Run : /\ rpc[r] \in {"off", "check", "readHistory"} => stage[r] = 0
                    /\ rpc[r] = "stagePut" => stage[r] < Stages
                    /\ rpc[r] # "off" => dpc[r[1]] \in {"returned", "error"}
  /\ \A j \in sent : dpc[j] \in {"returned", "error"}

RunStep(r) == Deliver(r) \/ Step(r) \/ Fails(r) \/ FunctionDies(r)

\* What a step of r does, and what it leaves alone.
Moves(r) ==
  /\ UNCHANGED <<dpc, sent>>
  /\ \A q \in Run \ {r} :
       rpc'[q] = rpc[q] /\ stage'[q] = stage[q] /\ snap'[q] = snap[q] /\ turns'[q] = turns[q]
  /\ \A j \in Job \ {r[1]} : doc'[j] = doc[j]
  /\ rpc'[r] # "off"
  /\ Alive(r) \/ (Deliver(r) /\ stage'[r] = 0 /\ rpc'[r] = "check")
  /\ \/ doc' = doc
     \/ rpc[r] \in Putting /\ (snap[r].result => doc'[r[1]].result)
          /\ doc'[r[1]].status \in {"running", "done", "failed"}
          /\ rpc'[r] \notin Putting
  /\ stage'[r] = stage[r] \/ (rpc[r] = "stagePut" /\ doc'[r[1]].status = "running")
  /\ rpc'[r] \in Putting => snap'[r] = doc'[r[1]] /\ rpc[r] \notin Putting
  /\ Alive(r)' /\ rpc'[r] # "check" =>
       \/ Alive(r) /\ rpc[r] # "check"
       \/ rpc[r] = "check" /\ doc[r[1]].status \in {"none", "queued"}

LEMMA StatusPutTyped ==
  ASSUME Typed, NEW r \in Run, NEW status \in {"running", "done", "failed"}, StatusPut(r, status)
  PROVE  /\ doc' \in [Job -> Doc]
         /\ \A j \in Job : doc'[j].status = "done" => doc'[j].result
         /\ \A j \in Job \ {r[1]} : doc'[j] = doc[j]
         /\ doc'[r[1]].status = status
         /\ snap[r].result => doc'[r[1]].result
<1>1. r[1] \in Job
  BY Runs
<1>2. snap[r].result \in BOOLEAN
  BY DEF Typed, TypeOK, Doc
<1>3. doc'[r[1]] = [status |-> status, result |-> snap[r].result \/ status = "done"]
  BY <1>1 DEF StatusPut, Typed, TypeOK
<1>4. doc'[r[1]] \in Doc
  BY <1>2, <1>3 DEF Doc, Status
<1>5. \A j \in Job \ {r[1]} : doc'[j] = doc[j]
  BY DEF StatusPut, Typed, TypeOK
<1>6. doc' \in [Job -> Doc]
  BY <1>1, <1>4, <1>5 DEF StatusPut, Typed, TypeOK
<1>7. doc'[r[1]].status = status /\ doc'[r[1]].result = (snap[r].result \/ status = "done")
  BY <1>3
<1>8. ASSUME NEW j \in Job, doc'[j].status = "done" PROVE doc'[j].result
  BY <1>5, <1>7, <1>8 DEF Typed
<1>9. QED
  BY <1>5, <1>6, <1>7, <1>8

LEMMA StepTyped ==
  ASSUME Typed, NEW r \in Run, RunStep(r)
  PROVE  Moves(r) /\ Typed'
<1> DEFINE Fine == Moves(r) /\ Typed'
<1>a. /\ r[1] \in Job /\ NoDoc \in Doc /\ doc[r[1]] \in Doc
      /\ << >> \in Seq(Job) /\ HistoryMax \in Nat \ {0} /\ Stages \in Nat \ {0}
  BY Runs, BoundsAssumption DEF NoDoc, Doc, Status, Typed, TypeOK
<1>b. NewHistory(r) \in Seq(Job) /\ Len(NewHistory(r)) <= HistoryMax
  <2>1. turns[r] \in Seq(Job)
    BY DEF Typed, TypeOK
  <2>2. QED
    BY <1>a, <2>1, LastTurnsOfAppend, Zenon DEF NewHistory
<1>1. ASSUME Deliver(r) PROVE Fine
  BY <1>1 DEF Deliver, Goto, Moves, Typed, TypeOK, jobVars, sessionVars, Alive, Putting, Ended
<1>2. ASSUME Check(r) PROVE Fine
  BY <1>a, <1>2 DEF Check, Goto, Moves, Typed, TypeOK, jobVars, sessionVars, Alive, Putting, Ended,
     InPipeline, InLock, Reporting, Doc, Status
<1>3. ASSUME CheckFails(r) PROVE Fine
  BY <1>3 DEF CheckFails, Goto, Moves, Typed, TypeOK, jobVars, sessionVars, Alive, Putting, Ended
<1>4. ASSUME ReadHistory(r) PROVE Fine
  BY <1>4 DEF ReadHistory, Goto, Moves, Typed, TypeOK, jobVars, sessionVars, Alive, Putting, Ended,
     InPipeline
<1>5. ASSUME StageRead(r) PROVE Fine
  BY <1>a, <1>5 DEF StageRead, ReadStatus, Goto, Forget, Moves, Typed, TypeOK, jobVars, runVars, sessionVars,
     Alive, Putting, Ended, InPipeline, InLock, Reporting
<1>6. ASSUME DoneRead(r) PROVE Fine
  BY <1>a, <1>6 DEF DoneRead, ReadStatus, Goto, Forget, Moves, Typed, TypeOK, jobVars, runVars, sessionVars,
     Alive, Putting, Ended, InPipeline, InLock, Reporting
<1>7. ASSUME ReportRead(r) PROVE Fine
  BY <1>a, <1>7 DEF ReportRead, ReadStatus, Goto, Forget, Moves, Typed, TypeOK, jobVars, runVars, sessionVars,
     Alive, Putting, Ended, InPipeline, InLock, Reporting
<1>8. ASSUME StagePut(r) PROVE Fine
  <2>1. stage[r] < Stages /\ stage[r] \in 0 .. Stages
    BY <1>8 DEF StagePut, Typed, TypeOK
  <2>2. stage[r] + 1 \in 0 .. Stages
    BY <1>a, <2>1
  <2>3. QED
    BY <1>a, <1>8, <2>2, StatusPutTyped DEF StagePut, Goto, Forget, Moves, Typed, TypeOK, jobVars, runVars, sessionVars,
     Alive, Putting, Ended, InPipeline, InLock, Reporting
<1>9. ASSUME DonePut(r) PROVE Fine
  BY <1>a, StatusPutTyped, <1>9 DEF DonePut, Goto, Forget, Moves, Typed, TypeOK, jobVars, runVars, sessionVars,
     Alive, Putting, Ended, InPipeline, InLock, Reporting
<1>10. ASSUME ReportPut(r) PROVE Fine
  BY <1>a, StatusPutTyped, <1>10 DEF ReportPut, Goto, Forget, Moves, Typed, TypeOK, jobVars, runVars, sessionVars,
     Alive, Putting, Ended, InPipeline, InLock, Reporting
<1>11. ASSUME LockSession(r) PROVE Fine
  BY <1>a, <1>11 DEF LockSession, Goto, Forget, Moves, Typed, TypeOK, jobVars, runVars, sessionVars,
     Alive, Putting, Ended, InPipeline, InLock, Reporting
<1>12. ASSUME ReadTurns(r) PROVE Fine
  BY <1>a, <1>12 DEF ReadTurns, Goto, Forget, Moves, Typed, TypeOK, jobVars, runVars, sessionVars,
     Alive, Putting, Ended, InPipeline, InLock, Reporting
<1>13. ASSUME PutTurns(r) PROVE Fine
  BY <1>a, <1>b, <1>13 DEF PutTurns, Unlock, Goto, Forget, Moves, Typed, TypeOK, jobVars, runVars, sessionVars,
     Alive, Putting, Ended, InPipeline, InLock, Reporting
<1>14. ASSUME PutContext(r) PROVE Fine
  BY <1>a, <1>14 DEF PutContext, Unlock, Goto, Forget, Moves, Typed, TypeOK, jobVars, runVars, sessionVars,
     Alive, Putting, Ended, InPipeline, InLock, Reporting
<1>15. ASSUME PipelineFails(r) PROVE Fine
  BY <1>a, StatusPutTyped, <1>15 DEF PipelineFails, Goto, Forget, Moves, Typed, TypeOK, jobVars, runVars, sessionVars,
     Alive, Putting, Ended, InPipeline, InLock, Reporting
<1>16. ASSUME RunFails(r) PROVE Fine
  BY <1>a, <1>b, <1>16 DEF RunFails, Unlock, Goto, Forget, Moves, Typed, TypeOK, jobVars, runVars, sessionVars,
     Alive, Putting, Ended, InPipeline, InLock, Reporting
<1>17. ASSUME ReportFails(r) PROVE Fine
  BY <1>a, StatusPutTyped, <1>17 DEF ReportFails, Goto, Forget, Moves, Typed, TypeOK, jobVars, runVars, sessionVars,
     Alive, Putting, Ended, InPipeline, InLock, Reporting
<1>18. ASSUME FunctionDies(r) PROVE Fine
  BY <1>a, <1>18 DEF FunctionDies, Goto, Forget, Moves, Typed, TypeOK, jobVars, runVars, sessionVars,
     Alive, Putting, Ended, InPipeline, InLock, Reporting
<1>19. QED
  BY <1>1, <1>2, <1>3, <1>4, <1>5, <1>6, <1>7, <1>8, <1>9, <1>10, <1>11, <1>12, <1>13, <1>14, <1>15,
     <1>16, <1>17, <1>18 DEF RunStep, Step, Fails

-----------------------------------------------------------------------------
(* The steps that are no run's                                             *)

LEMMA DispatchTyped ==
  ASSUME Typed, NEW j \in Job, Submit(j) \/ Dispatch(j)
  PROVE  Typed'
<1>a. <<j, Inline>> \in Run /\ doc[j] \in Doc /\ Stages \in Nat \ {0}
  BY Runs, BoundsAssumption DEF Typed, TypeOK
<1>1. CASE Submit(j)
  BY <1>1 DEF Submit, Typed, TypeOK, runVars, sessionVars
<1>2. ASSUME doc' = [doc EXCEPT ![j].status = "queued"]
      PROVE  doc' \in [Job -> Doc] /\ \A i \in Job : doc'[i].status = "done" => doc'[i].result
  BY <1>a, <1>2 DEF Typed, TypeOK, Doc, Status
<1>3. CASE CreateJob(j)
  BY <1>2, <1>3 DEF CreateJob, Typed, TypeOK, runVars, sessionVars
<1>4. CASE CreateJobFails(j)
  BY <1>2, <1>4 DEF CreateJobFails, Typed, TypeOK, runVars, sessionVars
<1>5. CASE PostAccepted(j)
  BY <1>5 DEF PostAccepted, Typed, TypeOK, runVars, sessionVars
<1>6. CASE RunInline(j)
  <2>1. sent' \in SUBSET Job /\ UNCHANGED <<doc, stage, snap, turns, sessionVars>>
        /\ dpc' = [dpc EXCEPT ![j] = "returned"]
        /\ rpc' = [rpc EXCEPT ![<<j, Inline>>] = "readHistory"]
    BY <1>6 DEF RunInline, Goto, Typed, TypeOK
  <2>2. \A i \in sent' : dpc'[i] \in {"returned", "error"}
    BY <1>6 DEF RunInline, Typed, TypeOK
  <2>3. rpc[<<j, Inline>>] = "off" /\ stage[<<j, Inline>>] = 0
    BY <1>a, <1>6 DEF RunInline, Typed
  <2>4. ASSUME NEW r \in Run
        PROVE  /\ rpc'[r] \in {"off", "check", "readHistory"} => stage'[r] = 0
               /\ rpc'[r] = "stagePut" => stage'[r] < Stages
               /\ rpc'[r] # "off" => dpc'[r[1]] \in {"returned", "error"}
    <3>1. r[1] \in Job
      BY Runs
    <3>2. dpc'[r[1]] \in {dpc[r[1]], "returned"}
      BY <2>1, <3>1 DEF Typed, TypeOK
    <3>3. CASE r = <<j, Inline>>
      <4>1. rpc'[r] = "readHistory" /\ stage'[r] = 0 /\ r[1] = j
        BY <1>a, <2>1, <2>3, <3>3 DEF Typed, TypeOK
      <4>2. dpc'[r[1]] = "returned"
        BY <2>1, <4>1 DEF Typed, TypeOK
      <4>3. QED
        BY <4>1, <4>2
    <3>4. CASE r # <<j, Inline>>
      <4>1. rpc'[r] = rpc[r] /\ stage'[r] = stage[r]
        BY <2>1, <3>4 DEF Typed, TypeOK
      <4>2. QED
        BY <3>2, <4>1 DEF Typed
    <3>5. QED
      BY <3>3, <3>4
  <2>5. TypeOK'
    BY <1>a, <2>1 DEF Typed, TypeOK, sessionVars
  <2>6. QED
    BY <2>1, <2>2, <2>4, <2>5 DEF Typed
<1>7. QED
  BY <1>1, <1>3, <1>4, <1>5, <1>6 DEF Dispatch

LEMMA RestartTyped ==
  ASSUME Typed, AppSailDies
  PROVE  Typed'
<1>a. NoDoc \in Doc /\ << >> \in Seq(Job)
  BY DEF NoDoc, Doc, Status
<1>1. /\ UNCHANGED <<doc, sent, stage, history, context>> /\ holder' = NoRun
      /\ dpc' \in [Job -> {"idle", "create", "post", "returned", "error"}]
      /\ \A j \in Job : dpc'[j] \in {dpc[j], "error"}
  BY DEF AppSailDies, Typed, TypeOK
<1>2. /\ \A r \in Run : rpc'[r] = rpc[r] \/ (rpc'[r] = "dead" /\ rpc[r] # "off" /\ InlineRun(r))
      /\ rpc' \in [Run -> {"off", "check", "readHistory", "lock"}
                           \cup InPipeline \cup InLock \cup Reporting \cup Ended]
  BY DEF AppSailDies, Typed, TypeOK, Alive, Ended
<1>3. snap' \in [Run -> Doc] /\ turns' \in [Run -> Seq(Job)]
  BY <1>a DEF AppSailDies, Typed, TypeOK
<1>4. TypeOK'
  BY <1>1, <1>2, <1>3 DEF Typed, TypeOK
<1>5. ASSUME NEW r \in Run
      PROVE  /\ rpc'[r] \in {"off", "check", "readHistory"} => stage'[r] = 0
             /\ rpc'[r] = "stagePut" => stage'[r] < Stages
             /\ rpc'[r] # "off" => dpc'[r[1]] \in {"returned", "error"}
  <2>1. r[1] \in Job
    BY Runs
  <2>2. QED
    BY <1>1, <1>2, <2>1 DEF Typed
<1>6. \A j \in sent' : dpc'[j] \in {"returned", "error"}
  BY <1>1 DEF Typed, TypeOK
<1>7. QED
  BY <1>1, <1>4, <1>5, <1>6 DEF Typed

LEMMA TypedInvariant == Init /\ [][Next]_vars => []Typed
<1>1. Init => Typed
  <2> SUFFICES ASSUME Init PROVE Typed
    OBVIOUS
  <2>1. NoDoc \in Doc /\ NoDoc.status = "none" /\ << >> \in Seq(Job) /\ Len(<< >>) = 0
    BY DEF NoDoc, Doc, Status
  <2>2. 0 \in 0 .. Stages /\ 0 <= HistoryMax
    BY BoundsAssumption
  <2>3. TypeOK
    BY <2>1, <2>2 DEF Init, TypeOK
  <2>4. QED
    BY <2>1, <2>3 DEF Init, Typed
<1>2. Typed /\ [Next]_vars => Typed'
  <2> SUFFICES ASSUME Typed, [Next]_vars PROVE Typed'
    OBVIOUS
  <2>1. CASE UNCHANGED vars
    BY <2>1 DEF vars, jobVars, runVars, sessionVars, Typed, TypeOK
  <2>2. CASE Next
    BY <2>2, DispatchTyped, RestartTyped, StepTyped DEF Next, RunStep
  <2>3. QED
    BY <2>1, <2>2
<1>3. QED
  BY <1>1, <1>2, PTL

\* The documents of the jobs, the history (never longer than its cap) and the
\* progress of every run are type-correct (write_job_status, append_history).
THEOREM TypeCorrect == Spec => []TypeOK
<1>1. Typed => TypeOK
  BY DEF Typed
<1>2. QED
  BY <1>1, TypedInvariant, PTL DEF Spec

-----------------------------------------------------------------------------
(* One run of a job at a time                                              *)

\* A post that raised was not accepted, and an event is redelivered only after
\* its last delivery ended; without a Signals URL there are no events at all.
Reliable == SignalsConfigured => ~AmbiguousPost /\ ~OverlappingDelivery

Apart(r) ==
  /\ InlineRun(r) => (rpc[r] # "off" => r[1] \notin sent)
  /\ ~InlineRun(r) /\ rpc[r] # "off" => r[1] \in sent

\* A run that works has been let in by its check, or is the first.
Alone(r) ==
  /\ Alive(r) => \A q \in Run \ {r} : q[1] = r[1] => ~Alive(q)
  /\ Alive(r) /\ rpc[r] # "check" => \A q \in Run \ {r} : q[1] = r[1] => ~Worked(q)
  /\ Worked(r) => \A q \in Run \ {r} : q[1] = r[1] => ~Worked(q)
  /\ Worked(r) => doc[r[1]].status \in {"running", "done", "failed"}
  /\ rpc[r] \in Putting => snap[r] = doc[r[1]]

Single ==
  /\ sent # {} => SignalsConfigured
  /\ \A r \in Run : Apart(r) /\ Alone(r)


\* Nobody else runs the job of a run that takes a step.
LEMMA NobodyElse ==
  ASSUME Reliable, Typed, Single, NEW r \in Run, RunStep(r), NEW q \in Run \ {r}, q[1] = r[1]
  PROVE  ~Alive(q)
<1>1. CASE Alive(r)
  BY <1>1 DEF Single, Alone
<1>2. CASE Deliver(r)
  <2>1. r[1] \in sent /\ SignalsConfigured /\ ~OverlappingDelivery
    BY <1>2 DEF Deliver, Single, Reliable
  <2>2. CASE InlineRun(q)
    BY <2>1, <2>2 DEF Single, Apart, Alive
  <2>3. CASE ~InlineRun(q)
    BY <1>2, <2>1, <2>3 DEF Deliver, RunsOf, Alive
  <2>4. QED
    BY <2>2, <2>3
<1>3. QED
  BY <1>1, <1>2, StepTyped DEF Moves

LEMMA StepSingle ==
  ASSUME Reliable, Typed, Single, NEW r \in Run, RunStep(r)
  PROVE  Single'
<1>a. Moves(r) /\ r[1] \in Job
  BY StepTyped, Runs
<1>b. ASSUME NEW q \in Run \ {r} PROVE rpc'[q] = rpc[q] /\ stage'[q] = stage[q] /\ snap'[q] = snap[q]
  BY <1>a DEF Moves
<1>1. ASSUME NEW q \in Run PROVE Apart(q)'
  <2>1. CASE Deliver(r) /\ q = r
    BY <1>a, <2>1 DEF Deliver, Moves, Apart
  <2>2. CASE rpc[r] # "off" \/ q # r
    BY <1>a, <1>b, <2>2 DEF Moves, Single, Apart
  <2>3. QED
    BY <1>a, <2>1, <2>2 DEF Moves, Alive
<1>2. Alone(r)'
  <2>1. ASSUME NEW q \in Run \ {r}, q[1] = r[1] PROVE ~Alive(q)'
    BY <1>b, <2>1, NobodyElse DEF Alive
  <2>2. ASSUME NEW q \in Run \ {r}, q[1] = r[1], Alive(r)', rpc'[r] # "check" PROVE ~Worked(q)'
    BY <1>a, <1>b, <2>2 DEF Moves, Single, Alone, Worked
  <2>3. ASSUME NEW q \in Run \ {r}, q[1] = r[1], Worked(r)' PROVE ~Worked(q)'
    <3>1. Worked(r) \/ rpc[r] = "stagePut"
      BY <1>a, <2>3 DEF Moves, Worked
    <3>2. QED
      BY <1>b, <2>3, <3>1 DEF Single, Alone, Worked, Alive, Ended
  <2>4. Worked(r)' => doc'[r[1]].status \in {"running", "done", "failed"}
    BY <1>a DEF Moves, Single, Alone, Worked
  <2>5. QED
    BY <1>a, <2>1, <2>2, <2>3, <2>4 DEF Alone, Moves
<1>3. ASSUME NEW q \in Run \ {r}, q[1] = r[1] PROVE Alone(q)'
  <2>1. ~Alive(q)' /\ rpc'[q] \notin Putting
    BY <1>b, <1>3, NobodyElse DEF Alive, Putting, Ended
  <2>2. Worked(q)' => Worked(q)
    BY <1>b, <1>3 DEF Worked
  <2>3. ASSUME NEW p \in Run \ {q}, p[1] = q[1], Worked(q) PROVE ~Worked(p)'
    <3>1. CASE p = r
      <4>1. ~Worked(r) /\ rpc[r] # "stagePut"
        BY <1>3, <2>3, <3>1 DEF Single, Alone, Alive, Ended
      <4>2. QED
        BY <1>a, <3>1, <4>1 DEF Moves, Worked
    <3>2. CASE p # r
      BY <1>b, <2>3, <3>2 DEF Single, Alone, Worked
    <3>3. QED
      BY <3>1, <3>2
  <2>4. Worked(q) => doc'[q[1]].status \in {"running", "done", "failed"}
    BY <1>a, <1>3 DEF Moves, Single, Alone
  <2>5. QED
    BY <2>1, <2>2, <2>3, <2>4 DEF Alone
<1>4. ASSUME NEW q \in Run \ {r}, q[1] # r[1] PROVE Alone(q)'
  <2>1. q[1] \in Job /\ doc'[q[1]] = doc[q[1]]
    BY <1>a, <1>4, Runs DEF Moves
  <2>2. ASSUME NEW p \in Run \ {q}, p[1] = q[1] PROVE rpc'[p] = rpc[p] /\ stage'[p] = stage[p]
    BY <1>b, <1>4, <2>2
  <2>3. QED
    BY <1>b, <1>4, <2>1, <2>2 DEF Single, Alone, Alive, Worked
<1>5. (sent # {} => SignalsConfigured)'
  BY <1>a DEF Moves, Single
<1>6. QED
  BY <1>1, <1>2, <1>3, <1>4, <1>5 DEF Single

LEMMA DispatchSingle ==
  ASSUME Reliable, Typed, Single, NEW j \in Job, Submit(j) \/ Dispatch(j)
  PROVE  Single'
<1> DEFINE i == <<j, Inline>>
<1>a. i \in Run /\ InlineRun(i) /\ i[1] = j
  BY Runs
<1>b. j \notin sent /\ \A r \in Run : r[1] = j => rpc[r] = "off" /\ ~Worked(r)
  BY DEF Submit, Dispatch, CreateJob, CreateJobFails, PostAccepted, RunInline, Typed, Worked
<1> HIDE DEF i
<1>1. /\ UNCHANGED <<stage, snap>>
      /\ \A k \in Job \ {j} : doc'[k] = doc[k]
      /\ \/ UNCHANGED sent /\ UNCHANGED rpc
         \/ SignalsConfigured /\ sent' = sent \cup {j} /\ UNCHANGED rpc
         \/ UNCHANGED sent /\ rpc' = [rpc EXCEPT ![i] = "readHistory"]
  BY DEF Submit, Dispatch, CreateJob, CreateJobFails, PostAccepted, RunInline, Goto, i, Reliable,
     runVars, Typed, TypeOK
<1>2. /\ \A r \in Run \ {i} : rpc'[r] = rpc[r]
      /\ rpc'[i] \in {"off", "readHistory"}
  BY <1>a, <1>b, <1>1 DEF Typed, TypeOK
<1>3. ASSUME NEW r \in Run PROVE Apart(r)'
  <2>1. CASE r[1] = j
    BY <1>a, <1>b, <1>1, <1>2, <2>1, Runs DEF Single, Apart, i
  <2>2. CASE r[1] # j
    BY <1>a, <1>1, <1>2, <2>2 DEF Single, Apart
  <2>3. QED
    BY <2>1, <2>2
<1>4. ASSUME NEW r \in Run, r[1] = j PROVE Alone(r)'
  <2>1. \A q \in Run \ {i} : q[1] = j => ~Alive(q)'
    BY <1>b, <1>2 DEF Alive
  <2>2. \A q \in Run : q[1] = j => ~Worked(q)'
    BY <1>b, <1>1 DEF Worked
  <2>3. rpc'[r] \notin Putting
    BY <1>a, <1>b, <1>2, <1>4 DEF Putting
  <2>4. QED
    BY <1>4, <2>1, <2>2, <2>3 DEF Alone
<1>5. ASSUME NEW r \in Run, r[1] # j PROVE Alone(r)'
  <2>1. r[1] \in Job /\ doc'[r[1]] = doc[r[1]]
    BY <1>1, <1>5, Runs
  <2>2. \A q \in Run : q[1] = r[1] => rpc'[q] = rpc[q] /\ stage'[q] = stage[q] /\ snap'[q] = snap[q]
    BY <1>a, <1>1, <1>2, <1>5
  <2>3. QED
    BY <2>1, <2>2 DEF Single, Alone, Alive, Worked
<1>6. (sent # {} => SignalsConfigured)'
  BY <1>1 DEF Single
<1>7. QED
  BY <1>3, <1>4, <1>5, <1>6 DEF Single

LEMMA RestartSingle ==
  ASSUME Typed, Single, AppSailDies
  PROVE  Single'
<1>1. /\ UNCHANGED <<doc, sent, stage>>
      /\ \A r \in Run : \/ rpc'[r] = rpc[r] /\ (Alive(r) => snap'[r] = snap[r])
                        \/ rpc'[r] = "dead" /\ rpc[r] # "off"
  BY DEF AppSailDies, Typed, TypeOK, Alive
<1>2. ASSUME NEW r \in Run PROVE /\ rpc'[r] = "off" <=> rpc[r] = "off"
                                 /\ Alive(r)' => Alive(r) /\ rpc'[r] = rpc[r] /\ snap'[r] = snap[r]
  BY <1>1 DEF Alive, Ended
<1>3. ASSUME NEW r \in Run PROVE Apart(r)'
  BY <1>1, <1>2 DEF Single, Apart
<1>4. ASSUME NEW r \in Run PROVE Alone(r)'
  <2>1. rpc'[r] \in Putting => Alive(r)'
    BY DEF Alive, Putting, Ended
  <2>2. QED
    BY <1>1, <1>2, <2>1 DEF Single, Alone, Worked
<1>5. QED
  BY <1>1, <1>3, <1>4 DEF Single

LEMMA SingleInvariant ==
  ASSUME Reliable
  PROVE  Init /\ [][Next]_vars => []Single
<1>1. Init => Single
  BY DEF Init, Single, Apart, Alone, Alive, Worked, Putting
<1>2. Typed /\ Single /\ [Next]_vars => Single'
  <2> SUFFICES ASSUME Typed, Single, [Next]_vars PROVE Single'
    OBVIOUS
  <2>1. CASE UNCHANGED vars
    BY <2>1 DEF vars, jobVars, runVars, Single, Apart, Alone, Alive, Worked
  <2>2. CASE Next
    BY <2>2, DispatchSingle, RestartSingle, StepSingle DEF Next, RunStep
  <2>3. QED
    BY <2>1, <2>2
<1>3. QED
  BY <1>1, <1>2, TypedInvariant, PTL

\* The pipeline works on a job once: a redelivery finds a job that is no longer
\* queued (_run_pipeline), if the deliveries of an event do not overlap and a post
\* that raised was not accepted (the run of query_ambiguous_post shows the rest).
THEOREM WorkOnceHolds ==
  ASSUME Reliable
  PROVE  Spec => []WorkOnce
<1>1. Single => WorkOnce
  BY DEF Single, Alone, WorkOnce, RunsOf
<1>2. QED
  BY <1>1, SingleInvariant, PTL DEF Spec

\* write_job_status carries the result over.
LEMMA ResultCarried ==
  ASSUME Typed, Single, Next, NEW j \in Job, doc[j].result
  PROVE  doc'[j].result
<1>1. ASSUME NEW r \in Run, RunStep(r) PROVE doc'[j].result
  <2>1. Moves(r) /\ r[1] \in Job
    BY <1>1, StepTyped, Runs
  <2>2. CASE j = r[1]
    BY <2>1, <2>2 DEF Moves, Single, Alone
  <2>3. CASE j # r[1]
    BY <2>1, <2>3 DEF Moves
  <2>4. QED
    BY <2>2, <2>3
<1>2. ASSUME NEW i \in Job, Submit(i) \/ Dispatch(i) PROVE doc'[j].result
  <2>1. doc' = doc \/ doc' = [doc EXCEPT ![i].status = "queued"]
    BY <1>2 DEF Submit, Dispatch, CreateJob, CreateJobFails, PostAccepted, RunInline
  <2>2. doc[j] \in Doc /\ doc[i] \in Doc /\ doc \in [Job -> Doc]
    BY DEF Typed, TypeOK
  <2>3. CASE doc' = [doc EXCEPT ![i].status = "queued"]
    BY <2>2, <2>3 DEF Doc
  <2>4. QED
    BY <2>1, <2>3
<1>3. ASSUME AppSailDies PROVE doc'[j].result
  BY <1>3 DEF AppSailDies
<1>4. QED
  BY <1>1, <1>2, <1>3 DEF Next, RunStep

\* An answer stays in the job document: write_job_status carries the result it has
\* read over, and no other writer of the document comes in between.
THEOREM ResultStays ==
  ASSUME Reliable
  PROVE  Spec => ResultKept
<1>1. Typed /\ Single /\ [Next]_vars => [\A j \in Job : doc[j].result => doc'[j].result]_vars
  BY ResultCarried
<1>2. QED
  BY <1>1, TypedInvariant, SingleInvariant, PTL DEF Spec, ResultKept

-----------------------------------------------------------------------------
(* The history under the session lock                                      *)

\* What a step of r does to the items of the session and to its lock.
Appends(r) ==
  /\ history' # history => rpc[r] = "putTurns" /\ history' = NewHistory(r)
  /\ context' # context => rpc[r] = "putContext" /\ context' = r[1] /\ history' = history
  /\ holder' # holder => holder = r \/ (holder = NoRun /\ holder' = r)
  /\ rpc'[r] \in InLock =>
       \/ rpc[r] \in InLock /\ holder' = holder
       \/ rpc[r] = "lock" /\ (InlineRun(r) => holder = NoRun /\ holder' = r)
  /\ rpc'[r] = "putTurns" => turns'[r] = history /\ history' = history
  /\ rpc'[r] = "putContext" => rpc[r] = "putTurns" /\ history' = NewHistory(r)

LEMMA StepAppends ==
  ASSUME Typed, NEW r \in Run, RunStep(r)
  PROVE  Appends(r)
<1> USE DEF Typed, TypeOK, Appends, Goto, InLock
<1>1. CASE UNCHANGED sessionVars /\ rpc'[r] \notin InLock
  BY <1>1 DEF sessionVars
<1>2. CASE LockSession(r)
  BY <1>2 DEF LockSession, LockFree
<1>3. CASE ReadTurns(r)
  BY <1>3 DEF ReadTurns, sessionVars
<1>4. CASE PutTurns(r)
  BY <1>4 DEF PutTurns
<1>5. CASE PutContext(r)
  BY <1>5 DEF PutContext, Unlock
<1>6. CASE RunFails(r)
  BY <1>6 DEF RunFails, Unlock
<1>7. QED
  BY <1>1, <1>2, <1>3, <1>4, <1>5, <1>6 DEF RunStep, Step, Fails, Deliver, Check, CheckFails,
     ReadHistory, ReadStatus, StageRead, DoneRead, ReportRead, StagePut, DonePut, ReportPut,
     PipelineFails, ReportFails, FunctionDies

\* In one process, the run inside the lock has read the history that is stored,
\* and follows it with the context of the turn it has just put there.
Ordered ==
  OneProcess => \A r \in Run :
    /\ rpc[r] \in InLock => holder = r
    /\ rpc[r] = "putTurns" => turns[r] = history
    /\ rpc[r] = "putContext" => history # << >> /\ history[Len(history)] = r[1]

\* Only runs of one process take steps as long as there is one process.
LEMMA OnlyInline ==
  ASSUME Typed, NEW r \in Run, RunStep(r), OneProcess'
  PROVE  OneProcess /\ InlineRun(r)
<1>1. Moves(r)
  BY StepTyped
<1>2. InlineRun(r)
  BY <1>1 DEF OneProcess, Moves
<1>3. \A q \in Run : InlineRun(q) \/ rpc[q] = "off"
  BY <1>1, <1>2 DEF OneProcess, Moves
<1>4. QED
  BY <1>2, <1>3 DEF OneProcess

\* The new history ends with the turn of the run.
LEMMA NewTurnLast ==
  ASSUME Typed, NEW r \in Run
  PROVE  NewHistory(r) # << >> /\ NewHistory(r)[Len(NewHistory(r))] = r[1]
<1>1. turns[r] \in Seq(Job) /\ r[1] \in Job
  BY Runs DEF Typed, TypeOK
<1>2. QED
  BY <1>1, LastTurnsOfAppend, Zenon DEF NewHistory

LEMMA StepOrdered ==
  ASSUME Typed, Ordered, NEW r \in Run, RunStep(r)
  PROVE  Ordered'
<1> SUFFICES ASSUME OneProcess', NEW q \in Run
             PROVE  /\ rpc'[q] \in InLock => holder' = q
                    /\ rpc'[q] = "putTurns" => turns'[q] = history'
                    /\ rpc'[q] = "putContext" => history' # << >> /\ history'[Len(history')] = q[1]
  BY DEF Ordered
<1>a. Moves(r) /\ Appends(r) /\ OneProcess /\ InlineRun(r) /\ NoRun \notin Run
  BY StepTyped, StepAppends, OnlyInline, NoRunAssumption
<1>b. \A p \in Run : /\ rpc[p] \in InLock => holder = p
                     /\ rpc[p] = "putTurns" => turns[p] = history
                     /\ rpc[p] = "putContext" => history # << >> /\ history[Len(history)] = p[1]
  BY <1>a DEF Ordered
<1>1. CASE q = r
  <2>1. rpc'[r] \in InLock => holder' = r
    BY <1>a, <1>b DEF Appends
  <2>2. rpc'[r] = "putContext" => history' # << >> /\ history'[Len(history')] = r[1]
    BY <1>a, NewTurnLast DEF Appends
  <2>3. rpc'[r] = "putTurns" => turns'[r] = history'
    BY <1>a DEF Appends
  <2>4. QED
    BY <1>1, <2>1, <2>2, <2>3
<1>2. CASE q # r /\ rpc[q] \in InLock
  <2>1. holder = q /\ rpc[r] \notin InLock
    BY <1>b, <1>2
  <2>2. holder' = q /\ history' = history
    BY <1>a, <1>2, <2>1 DEF Appends, InLock
  <2>3. QED
    BY <1>a, <1>b, <1>2, <2>2 DEF Moves
<1>3. CASE q # r /\ rpc[q] \notin InLock
  BY <1>a, <1>3 DEF Moves, InLock
<1>4. QED
  BY <1>1, <1>2, <1>3

LEMMA OthersOrdered ==
  ASSUME Typed, Ordered, (\E j \in Job : Submit(j) \/ Dispatch(j)) \/ AppSailDies
  PROVE  Ordered'
<1>1. CASE \E j \in Job : Submit(j) \/ Dispatch(j)
  <2>1. PICK j \in Job : Submit(j) \/ Dispatch(j)
    BY <1>1
  <2> DEFINE i == <<j, Inline>>
  <2>2. i \in Run /\ InlineRun(i)
    BY Runs
  <2> HIDE DEF i
  <2>3. /\ UNCHANGED <<sessionVars, turns>>
        /\ UNCHANGED rpc \/ rpc' = [rpc EXCEPT ![i] = "readHistory"]
    BY <2>1 DEF Submit, Dispatch, CreateJob, CreateJobFails, PostAccepted, RunInline, Goto, i, runVars
  <2>4. \A r \in Run : rpc'[r] = rpc[r] \/ (rpc'[r] = "readHistory" /\ InlineRun(r))
    BY <2>2, <2>3 DEF Typed, TypeOK
  <2>5. QED
    BY <2>3, <2>4 DEF Ordered, OneProcess, sessionVars, InLock
<1>2. CASE AppSailDies
  <2>1. /\ UNCHANGED <<history, context>>
        /\ \A r \in Run : rpc'[r] = IF InlineRun(r) /\ Alive(r) THEN "dead" ELSE rpc[r]
    BY <1>2 DEF AppSailDies, Typed, TypeOK
  <2>2. OneProcess' => \A r \in Run : rpc'[r] \notin InLock
    BY <2>1 DEF OneProcess, Alive, InLock, Ended
  <2>3. QED
    BY <2>2 DEF Ordered, InLock
<1>3. QED
  BY <1>1, <1>2

LEMMA OrderedInvariant == Init /\ [][Next]_vars => []Ordered
<1>1. Init => Ordered
  BY DEF Init, Ordered, InLock
<1>2. Typed /\ Ordered /\ [Next]_vars => Ordered'
  <2> SUFFICES ASSUME Typed, Ordered, [Next]_vars PROVE Ordered'
    OBVIOUS
  <2>1. CASE UNCHANGED vars
    BY <2>1 DEF vars, runVars, sessionVars, Ordered, OneProcess
  <2>2. CASE Next
    BY <2>2, OthersOrdered, StepOrdered DEF Next, RunStep
  <2>3. QED
    BY <2>1, <2>2
<1>3. QED
  BY <1>1, <1>2, TypedInvariant, PTL

LEMMA TurnsAlwaysKept == Init /\ [][Next]_vars => TurnsKept
<1> DEFINE Kept ==
      OneProcess =>
        /\ history' # history => \E j \in Job : history' = LastTurns(Append(history, j))
        /\ context' # context => context' = history[Len(history)]
<1>1. Typed /\ Ordered /\ [Next]_vars => [Kept]_vars
  <2> SUFFICES ASSUME Typed, Ordered, Next, OneProcess
               PROVE  /\ history' # history => \E j \in Job : history' = LastTurns(Append(history, j))
                      /\ context' # context => context' = history[Len(history)]
    OBVIOUS
  <2>1. ASSUME NEW r \in Run, RunStep(r)
        PROVE  /\ history' # history => \E j \in Job : history' = LastTurns(Append(history, j))
               /\ context' # context => context' = history[Len(history)]
    <3>1. Appends(r) /\ r[1] \in Job
      BY <2>1, StepAppends, Runs
    <3>2. QED
      BY <3>1 DEF Appends, Ordered, NewHistory
  <2>2. ASSUME (\E j \in Job : Submit(j) \/ Dispatch(j)) \/ AppSailDies
        PROVE  UNCHANGED <<history, context>>
    BY <2>2 DEF Submit, Dispatch, CreateJob, CreateJobFails, PostAccepted, RunInline, AppSailDies,
       sessionVars
  <2>3. QED
    BY <2>1, <2>2 DEF Next, RunStep
<1>2. QED
  BY <1>1, TypedInvariant, OrderedInvariant, PTL DEF TurnsKept

\* In one process a write of the history appends one turn to those that are stored,
\* and the context is written for the newest turn: the read and both writes of a
\* finished run are inside the session lock.
THEOREM TurnsKeptHolds == Spec => TurnsKept
BY TurnsAlwaysKept, PTL DEF Spec


===============================================================================
