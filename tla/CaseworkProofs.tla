--------------------------- MODULE CaseworkProofs ---------------------------
(***************************************************************************)
(* Theorems about Casework for any finite set of requests, any number of   *)
(* AppSail instances and any bounds.  StepShape says which document each   *)
(* kind of step is about and in which order they come; Frame says what one *)
(* step of a request changes.  The invariants follow from these two.       *)
(***************************************************************************)
EXTENDS Casework, FiniteSetTheorems, TLAPS

-----------------------------------------------------------------------------
(* The steps of a request                                                  *)

Indexes == {"byFir", "byCase", "trust", "narrow", "penalties"}

\* What precedes step i of j: the record of what an index names.
Precedes(j, i, record) ==
  \E n \in 1 .. i - 1 : Steps(j)[n] = <<"put", record>>

\* The document of step i of j, by its kind.
Shape(j, i) ==
  LET s == Steps(j)[i] IN
    /\ s[1] \in {"put", "replace", "clear", "limit", "push", "add", "resolve",
                 "resolvePending", "claim"}
    /\ s[1] = "put" => s[2] \in Records
    /\ s[1] = "replace" => s[2] = "lastCheck" /\ Precedes(j, i, "checks")
    /\ s[1] = "clear" => s[2] = "byCase" /\ j.kind = "deleteCase" /\ Len(Steps(j)) = 1
    /\ s[1] = "limit" => s[2] \in Rates
    /\ s[1] = "claim" => s[2] = "owner"
    /\ s[1] = "push" => s[2] = "queue" /\ Precedes(j, i, "alerts")
    /\ s[1] = "add" =>
         \/ s[2] \in {"byFir", "byCase"} /\ Precedes(j, i, "hypotheses")
                                        /\ j.kind = "hypothesis"
         \/ s[2] \in {"trust", "narrow", "penalties"} /\ Precedes(j, i, "corrections")
    /\ s[1] = "resolve" => j.kind = "resolveHypothesis" /\ s[2] = j.of /\ s[2] \in Request
    /\ s[1] = "resolvePending" => s[2] \in Request

LEMMA StepShape ==
  ASSUME NEW j \in Job
  PROVE  /\ Len(Steps(j)) \in 1 .. 5
         /\ DOMAIN Steps(j) = 1 .. Len(Steps(j))
         /\ \A i \in 1 .. Len(Steps(j)) : Shape(j, i)
<1>1. CASE j.kind = "alert"
  BY <1>1 DEF Steps, AlertSteps, Records, Shape, Precedes
<1>2. CASE j.kind \in {"resolveAlert", "resolveHypothesis"}
  <2>1. j.of \in Request
    BY <1>2 DEF Job
  <2>2. CASE j.kind = "resolveAlert"
    BY <2>1, <2>2 DEF Steps, Shape
  <2>3. CASE j.kind = "resolveHypothesis"
    BY <2>1, <2>3 DEF Steps, Shape
  <2>4. QED
    BY <1>2, <2>2, <2>3
<1>3. CASE j.kind = "hypothesis"
  <2>1. CASE j.scoped
    BY <1>3, <2>1 DEF Steps, Records, Shape, Precedes
  <2>2. CASE ~j.scoped
    BY <1>3, <2>2 DEF Steps, Records, Shape, Precedes
  <2>3. QED
    BY <2>1, <2>2
<1>4. CASE j.kind \in {"check", "deleteCase"}
  <2>1. CASE j.kind = "check"
    BY <2>1 DEF Steps, Records, Shape, Precedes
  <2>2. CASE j.kind = "deleteCase"
    BY <2>2 DEF Steps, Shape
  <2>3. QED
    BY <1>4, <2>1, <2>2
<1>5. CASE j.kind = "feedback"
  <2>1. CASE j.scoped /\ j.rejects
    BY <1>5, <2>1 DEF Steps, Records, Rates, Shape, Precedes
  <2>2. CASE j.scoped /\ ~j.rejects
    BY <1>5, <2>2 DEF Steps, Records, Rates, Shape, Precedes
  <2>3. CASE ~j.scoped /\ j.rejects
    BY <1>5, <2>3 DEF Steps, Records, Rates, Shape, Precedes
  <2>4. CASE ~j.scoped /\ ~j.rejects
    BY <1>5, <2>4 DEF Steps, Records, Rates, Shape, Precedes
  <2>5. QED
    BY <2>1, <2>2, <2>3, <2>4
<1>6. CASE j.kind = "query"
  <2>1. j.counter \in {"queriesA", "queriesB"}
    BY <1>6 DEF Job
  <2>2. QED
    BY <1>6, <2>1 DEF Steps, Rates, Shape
<1>7. QED
  BY <1>1, <1>2, <1>3, <1>4, <1>5, <1>6 DEF Job

-----------------------------------------------------------------------------
(* Types, and what one step changes                                        *)

Active == {"go"} \cup Blocks

\* A request that goes on is at one of its steps, in a block only for a step
\* that has one, and a request that has not arrived has no job.
Typed ==
  /\ TypeOK
  /\ \A r \in Request : pc[r] = "off" => job[r] = NoJob /\ at[r] = 1
  /\ \A r \in Request : pc[r] # "off" => job[r] \in Job
  /\ \A r \in Request : pc[r] \in Active => at[r] \in 1 .. Len(Steps(job[r]))
  /\ \A r \in Request : pc[r] \in Blocks => How(r) \notin Blind
  /\ \A r \in Request : pc[r] = "verify" => How(r) = "push"

LEMMA CurrentShape ==
  ASSUME Typed, NEW r \in Request, pc[r] \in Active
  PROVE  /\ job[r] \in Job
         /\ Len(Steps(job[r])) \in 1 .. 5
         /\ at[r] \in 1 .. Len(Steps(job[r]))
         /\ Shape(job[r], at[r])
         /\ Of(r) \in Docs
         /\ How(r) # "clear" => Uses(r, Of(r))
<1>1. job[r] \in Job /\ at[r] \in 1 .. Len(Steps(job[r]))
  BY DEF Typed, Active, Blocks
<1>2. /\ Len(Steps(job[r])) \in 1 .. 5
      /\ DOMAIN Steps(job[r]) = 1 .. Len(Steps(job[r]))
      /\ Shape(job[r], at[r])
  BY <1>1, StepShape
<1>3. Of(r) \in Docs
  BY <1>2 DEF Shape, Of, Docs, Shared, Rates, Records
<1>4. How(r) # "clear" => Uses(r, Of(r))
  BY <1>1, <1>2 DEF Uses, Of, How
<1>5. QED
  BY <1>1, <1>2, <1>3, <1>4

LEMMA TypedInit == Init => Typed
BY BoundsAssumption DEF Init, Typed, TypeOK, Active, Blocks, Docs, NoJob

\* What r leaves behind when it passes a step.
Passed(r) ==
  /\ How(r) \in {"put", "add"} => r \in doc'[Of(r)]
  /\ How(r) = "push" => pc[r] = "verify" \/ r \in doc'[Of(r)]
  /\ How(r) = "claim" => \E q \in doc'[Of(r)] : job[q] = job[r]

Stores(r) ==
  /\ Store(r)
  /\ pc[r] = "write" \/ How(r) \in Blind
  /\ pc'[r] # "write"

\* A step of r: the table, its own progress, and nothing of the other requests.
Frame(r) ==
  /\ UNCHANGED job
  /\ pc[r] \in Active
  /\ pc' = [pc EXCEPT ![r] = pc'[r]]
  /\ at' = [at EXCEPT ![r] = at'[r]]
  /\ seen' = [seen EXCEPT ![r] = seen'[r]]
  /\ pc'[r] \in Active \cup Ended
  /\ UNCHANGED <<doc, window>> \/ Stores(r)
  /\ pc'[r] \in Blocks => /\ at'[r] = at[r]
                          /\ How(r) \notin Blind
                          /\ pc[r] \in Blocks \/ LockFree(r)
  /\ pc'[r] = "write" => /\ UNCHANGED <<doc, window>>
                         /\ seen'[r] = doc[Of(r)]
                         /\ ~RefusedAt(r) /\ ~NothingToWrite(r)
  /\ pc'[r] = "verify" => How(r) = "push" /\ r \in doc'[Of(r)]
  /\ pc'[r] = "ok" => at[r] = Len(Steps(job[r])) /\ at'[r] = at[r] + 1
  /\ pc'[r] = "go" => at[r] # Len(Steps(job[r]))
  /\ pc'[r] \in Active => at'[r] \in 1 .. Len(Steps(job[r]))
  /\ at'[r] = at[r] \/ (at'[r] = at[r] + 1 /\ Passed(r))

\* Storing leaves every other document alone and adds at most r to this one.
LEMMA StoreFacts ==
  ASSUME Typed, NEW r \in Request, pc[r] \in Active, Store(r)
  PROVE  /\ doc' = [doc EXCEPT ![Of(r)] = Written(r)]
         /\ Written(r) \in SUBSET Request
         /\ doc' \in [Docs -> SUBSET Request]
         /\ window' \in [Rates -> SUBSET Request]
         /\ doc'[Of(r)] = Written(r)
         /\ \A k \in Docs : k # Of(r) => doc'[k] = doc[k]
<1>1. /\ Of(r) \in Docs
      /\ How(r) \in {"put", "replace", "clear", "limit", "push", "add", "resolve",
                     "resolvePending", "claim"}
      /\ How(r) = "limit" => Of(r) \in Rates
  BY CurrentShape DEF Shape, How, Of
<1>2. doc[Of(r)] \in SUBSET Request /\ seen[r] \in SUBSET Request
  BY <1>1 DEF Typed, TypeOK
<1>3. Written(r) \in SUBSET Request
  BY <1>1, <1>2 DEF Written
<1>4. QED
  BY <1>1, <1>3 DEF Store, Typed, TypeOK

\* Going on from a step.
LEMMA AdvanceFacts ==
  ASSUME Typed, NEW r \in Request, pc[r] \in Active, Advance(r)
  PROVE  /\ pc' = [pc EXCEPT ![r] = pc'[r]]
         /\ at' = [at EXCEPT ![r] = at'[r]]
         /\ seen' = [seen EXCEPT ![r] = seen'[r]]
         /\ pc'[r] \in {"go", "ok"}
         /\ pc' \in [Request -> {"off", "go"} \cup Blocks \cup Ended]
         /\ at'[r] = at[r] + 1
         /\ pc'[r] = "ok" => at[r] = Len(Steps(job[r]))
         /\ pc'[r] = "go" => at[r] # Len(Steps(job[r]))
         /\ pc'[r] = "go" => at'[r] \in 1 .. Len(Steps(job[r]))
         /\ at' \in [Request -> 1 .. 6]
         /\ seen' \in [Request -> SUBSET Request]
         /\ tries' \in [Request -> 1 .. PushAttempts]
<1>1. Len(Steps(job[r])) \in 1 .. 5 /\ at[r] \in 1 .. Len(Steps(job[r]))
  BY CurrentShape
<1>2. TypeOK
  BY DEF Typed
<1>3. at' = [at EXCEPT ![r] = at[r] + 1] /\ at[r] + 1 \in 1 .. 6
  <2>1. at' = [at EXCEPT ![r] = at[r] + 1]
    BY DEF Advance
  <2>2. \A l \in 1 .. 5 : at[r] \in 1 .. l => at[r] + 1 \in 1 .. 6
    BY <1>2 DEF TypeOK
  <2>3. QED
    BY <1>1, <2>1, <2>2
<1>4. pc' = [pc EXCEPT ![r] = IF at[r] = Len(Steps(job[r])) THEN "ok" ELSE "go"]
  BY DEF Advance, Goto
<1>5. seen' = [seen EXCEPT ![r] = {}] /\ tries' = [tries EXCEPT ![r] = 1]
  BY DEF Advance, Forget
<1>6. pc'[r] = (IF at[r] = Len(Steps(job[r])) THEN "ok" ELSE "go") /\ at'[r] = at[r] + 1
  BY <1>2, <1>3, <1>4 DEF TypeOK
<1>7. /\ at' \in [Request -> 1 .. 6]
      /\ seen' \in [Request -> SUBSET Request]
      /\ tries' \in [Request -> 1 .. PushAttempts]
  BY <1>2, <1>3, <1>5, BoundsAssumption DEF TypeOK
<1>8. pc' = [pc EXCEPT ![r] = pc'[r]]
  BY <1>4, <1>6
<1>9. at' = [at EXCEPT ![r] = at'[r]] /\ seen' = [seen EXCEPT ![r] = seen'[r]]
  BY <1>2, <1>3, <1>5 DEF TypeOK
<1>10. pc' \in [Request -> {"off", "go"} \cup Blocks \cup Ended]
  BY <1>2, <1>4 DEF TypeOK, Ended
<1>11. QED
  BY <1>1, <1>6, <1>7, <1>8, <1>9, <1>10

\* A step that goes on, with or without a write, has a frame.
LEMMA AdvanceFrame ==
  ASSUME Typed, NEW r \in Request, pc[r] \in Active, Advance(r), Passed(r),
         UNCHANGED job,
         UNCHANGED <<doc, window>> \/ (Store(r) /\ (pc[r] = "write" \/ How(r) \in Blind))
  PROVE  Frame(r)
<1>1. pc'[r] \in {"go", "ok"}
  BY AdvanceFacts
<1>2. /\ pc'[r] \in Active \cup Ended
      /\ pc'[r] \notin Blocks
      /\ pc'[r] # "write" /\ pc'[r] # "verify"
      /\ pc'[r] \in Active => pc'[r] = "go"
  BY <1>1 DEF Active, Blocks, Ended
<1>3. UNCHANGED <<doc, window>> \/ Stores(r)
  BY <1>2 DEF Stores
<1>4. QED
  BY <1>2, <1>3, AdvanceFacts DEF Frame

\* Typed after a step that has a frame and keeps the types.
LEMMA TypedFrame ==
  ASSUME Typed, NEW r \in Request, Frame(r), TypeOK'
  PROVE  Typed'
<1>a. TypeOK
  BY DEF Typed
<1>1. \A q \in Request \ {r} : pc'[q] = pc[q] /\ at'[q] = at[q]
  BY <1>a DEF Frame, TypeOK
<1>2. \A q \in Request : job'[q] = job[q] /\ How(q)' = Steps(job[q])[at'[q]][1]
  BY DEF Frame, How
<1>3. pc[r] # "off" /\ pc'[r] # "off"
  BY DEF Frame, Active, Blocks, Ended
<1>4. pc'[r] \in Active => at'[r] \in 1 .. Len(Steps(job'[r]))
  BY <1>2 DEF Frame
<1>5. pc'[r] \in Blocks => How(r)' \notin Blind
  BY <1>2 DEF Frame, How
<1>6. pc'[r] = "verify" => How(r)' = "push"
  BY <1>2 DEF Frame, How, Blocks
<1>7. QED
  BY <1>1, <1>2, <1>3, <1>4, <1>5, <1>6 DEF Typed, How

LEMMA StepFrame ==
  ASSUME Typed, NEW r \in Request, Step(r)
  PROVE  Frame(r) /\ Typed'
<1>a. TypeOK
  BY DEF Typed
<1>1. ASSUME Put(r) PROVE Frame(r) /\ TypeOK'
  <2>1. /\ pc[r] = "go" /\ How(r) \in Blind
        /\ Store(r)
        /\ Advance(r)
        /\ UNCHANGED job
        /\ pc[r] \in Active
    BY <1>1 DEF Put, Active
  <2>2. Passed(r)
    <3>1. doc'[Of(r)] = Written(r)
      BY <2>1, StoreFacts
    <3>2. How(r) \in Blind => How(r) \notin {"add", "push", "claim"}
      BY DEF Blind
    <3>3. How(r) = "put" => r \in Written(r)
      BY DEF Written
    <3>4. QED
      BY <2>1, <3>1, <3>2, <3>3 DEF Passed
  <2>3. Frame(r)
    BY <2>1, <2>2, AdvanceFrame
  <2>4. TypeOK'
    BY <1>a, <2>1, StoreFacts, AdvanceFacts DEF TypeOK
  <2>5. QED
    BY <2>3, <2>4
<1>2. ASSUME Read(r) PROVE Frame(r) /\ TypeOK'
  <2>1. /\ pc[r] \in {"go", "again"} /\ pc[r] \in Active
        /\ How(r) \notin Blind
        /\ pc[r] \in Blocks \/ LockFree(r)
        /\ UNCHANGED <<doc, window, job>>
    BY <1>2 DEF Read, Active, Blocks, Typed
  <2>2. CASE RefusedAt(r)
    <3>1. Stop(r, "refused")
      BY <1>2, <2>2 DEF Read
    <3>2. /\ pc' = [pc EXCEPT ![r] = "refused"]
          /\ seen' = [seen EXCEPT ![r] = {}]
          /\ tries' = [tries EXCEPT ![r] = 1]
          /\ UNCHANGED at
      BY <3>1 DEF Stop, Goto, Forget
    <3>3. pc'[r] = "refused" /\ seen' = [seen EXCEPT ![r] = seen'[r]]
      BY <1>a, <3>2 DEF TypeOK
    <3>4. Frame(r)
      BY <1>a, <2>1, <3>2, <3>3 DEF Frame, Active, Blocks, Ended, TypeOK
    <3>5. TypeOK'
      BY <1>a, <2>1, <3>2, BoundsAssumption DEF TypeOK, Ended
    <3>6. QED
      BY <3>4, <3>5
  <2>3. CASE ~RefusedAt(r) /\ NothingToWrite(r)
    <3>1. Advance(r)
      BY <1>2, <2>3 DEF Read
    <3>2. Passed(r)
      BY <2>1, <2>3 DEF Passed, NothingToWrite, OwnedBySame
    <3>3. Frame(r)
      BY <2>1, <3>1, <3>2, AdvanceFrame
    <3>4. TypeOK'
      BY <1>a, <2>1, <3>1, AdvanceFacts DEF TypeOK
    <3>5. QED
      BY <3>3, <3>4
  <2>4. CASE ~RefusedAt(r) /\ ~NothingToWrite(r)
    <3>1. /\ pc' = [pc EXCEPT ![r] = "write"]
          /\ seen' = [seen EXCEPT ![r] = doc[Of(r)]]
          /\ UNCHANGED <<at, tries>>
      BY <1>2, <2>4 DEF Read, Goto
    <3>2. Of(r) \in Docs /\ at[r] \in 1 .. Len(Steps(job[r]))
      BY <2>1, CurrentShape
    <3>3. pc'[r] = "write" /\ seen'[r] = doc[Of(r)] /\ doc[Of(r)] \in SUBSET Request
      BY <1>a, <3>1, <3>2 DEF TypeOK
    <3>4. Frame(r)
      BY <1>a, <2>1, <2>4, <3>1, <3>2, <3>3 DEF Frame, Active, Blocks, TypeOK
    <3>5. TypeOK'
      BY <1>a, <2>1, <3>1, <3>3 DEF TypeOK, Blocks
    <3>6. QED
      BY <3>4, <3>5
  <2>5. QED
    BY <2>2, <2>3, <2>4
<1>3. ASSUME Write(r) PROVE Frame(r) /\ TypeOK'
  <2>1. /\ pc[r] = "write" /\ pc[r] \in Active /\ pc[r] \in Blocks
        /\ How(r) \notin Blind
        /\ Store(r)
        /\ UNCHANGED job
    BY <1>3 DEF Write, Active, Blocks, Typed
  <2>2. doc'[Of(r)] = Written(r)
    BY <2>1, StoreFacts
  <2>3. CASE How(r) = "push"
    <3>1. pc' = [pc EXCEPT ![r] = "verify"] /\ UNCHANGED <<at, seen, tries>>
      BY <1>3, <2>3 DEF Write, Goto
    <3>2. pc'[r] = "verify" /\ at[r] \in 1 .. Len(Steps(job[r]))
      BY <1>a, <2>1, <3>1, CurrentShape DEF TypeOK
    <3>3. r \in doc'[Of(r)]
      BY <2>2, <2>3 DEF Written
    <3>4. Frame(r)
      BY <1>a, <2>1, <2>3, <3>1, <3>2, <3>3 DEF Frame, Stores, Active, Blocks, TypeOK
    <3>5. TypeOK'
      BY <1>a, <2>1, <3>1, StoreFacts DEF TypeOK, Blocks
    <3>6. QED
      BY <3>4, <3>5
  <2>4. CASE How(r) # "push"
    <3>1. Advance(r)
      BY <1>3, <2>4 DEF Write
    <3>2. Passed(r)
      BY <2>1, <2>2, <2>4 DEF Passed, Written, Blind
    <3>3. Frame(r)
      BY <2>1, <3>1, <3>2, AdvanceFrame
    <3>4. TypeOK'
      BY <1>a, <2>1, <3>1, StoreFacts, AdvanceFacts DEF TypeOK
    <3>5. QED
      BY <3>3, <3>4
  <2>5. QED
    BY <2>3, <2>4
<1>4. ASSUME Verify(r) PROVE Frame(r) /\ TypeOK'
  <2>1. /\ pc[r] = "verify" /\ pc[r] \in Active /\ pc[r] \in Blocks
        /\ How(r) \notin Blind
        /\ UNCHANGED <<doc, window, job>>
    BY <1>4 DEF Verify, Active, Blocks, Typed
  <2>2. CASE r \in doc[Of(r)] \/ LastTry(r)
    <3>1. Advance(r)
      BY <1>4, <2>2 DEF Verify
    <3>2. Passed(r)
      BY <1>a, <2>1 DEF Passed, Blind, Typed
    <3>3. Frame(r)
      BY <2>1, <3>1, <3>2, AdvanceFrame
    <3>4. TypeOK'
      BY <1>a, <2>1, <3>1, AdvanceFacts DEF TypeOK
    <3>5. QED
      BY <3>3, <3>4
  <2>3. CASE ~(r \in doc[Of(r)] \/ LastTry(r))
    <3>1. /\ tries' = [tries EXCEPT ![r] = tries[r] + 1]
          /\ pc' = [pc EXCEPT ![r] = "again"]
          /\ UNCHANGED <<at, seen>>
      BY <1>4, <2>3 DEF Verify, Goto
    <3>2. pc'[r] = "again" /\ at[r] \in 1 .. Len(Steps(job[r]))
      BY <1>a, <2>1, <3>1, CurrentShape DEF TypeOK
    <3>3. tries[r] + 1 \in 1 .. PushAttempts
      BY <1>a, <2>3, BoundsAssumption DEF LastTry, TypeOK
    <3>4. Frame(r)
      BY <1>a, <2>1, <3>1, <3>2 DEF Frame, Active, Blocks, TypeOK
    <3>5. TypeOK'
      BY <1>a, <2>1, <3>1, <3>3 DEF TypeOK, Blocks
    <3>6. QED
      BY <3>4, <3>5
  <2>4. QED
    BY <2>2, <2>3
<1>5. ASSUME Fail(r) PROVE Frame(r) /\ TypeOK'
  <2>1. /\ pc[r] \in Active
        /\ pc' = [pc EXCEPT ![r] = "error"]
        /\ seen' = [seen EXCEPT ![r] = {}]
        /\ tries' = [tries EXCEPT ![r] = 1]
        /\ UNCHANGED <<at, job>>
    BY <1>5 DEF Fail, Stop, Goto, Forget, Active
  <2>2. pc'[r] = "error" /\ seen' = [seen EXCEPT ![r] = seen'[r]]
    BY <1>a, <2>1 DEF TypeOK
  <2>3. UNCHANGED <<doc, window>> \/ Stores(r)
    BY <1>5, <2>2 DEF Fail, Stores
  <2>4. Frame(r)
    BY <1>a, <2>1, <2>2, <2>3 DEF Frame, Active, Blocks, Ended, TypeOK
  <2>5. doc' \in [Docs -> SUBSET Request] /\ window' \in [Rates -> SUBSET Request]
    BY <1>a, <2>1, <2>3, StoreFacts DEF Stores, TypeOK
  <2>6. TypeOK'
    BY <1>a, <2>1, <2>5, BoundsAssumption DEF TypeOK, Ended
  <2>7. QED
    BY <2>4, <2>6
<1>6. QED
  BY <1>1, <1>2, <1>3, <1>4, <1>5, TypedFrame DEF Step

\* Arriving gives r a job, and only r.
LEMMA ArriveFacts ==
  ASSUME Typed, NEW r \in Request, Arrive(r)
  PROVE  /\ pc[r] = "off" /\ job[r] = NoJob
         /\ pc' = [pc EXCEPT ![r] = "go"]
         /\ \E j \in Job : Listed(j) /\ job' = [job EXCEPT ![r] = j]
         /\ UNCHANGED <<doc, window, at, seen, tries>>
         /\ Typed'
<1>a. TypeOK
  BY DEF Typed
<1>1. PICK j \in Job : Listed(j) /\ job' = [job EXCEPT ![r] = j]
  BY DEF Arrive
<1>2. /\ pc[r] = "off" /\ pc' = [pc EXCEPT ![r] = "go"]
      /\ UNCHANGED <<doc, window, at, seen, tries>>
  BY DEF Arrive, Goto
<1>3. job[r] = NoJob /\ at[r] = 1
  BY <1>2 DEF Typed
<1>4. Len(Steps(j)) \in 1 .. 5
  BY StepShape
<1>5. TypeOK'
  BY <1>a, <1>1, <1>2 DEF TypeOK
<1>6. /\ pc'[r] = "go" /\ job'[r] = j /\ at'[r] = 1
      /\ \A q \in Request \ {r} : pc'[q] = pc[q] /\ job'[q] = job[q] /\ at'[q] = at[q]
  BY <1>a, <1>1, <1>2, <1>3 DEF TypeOK
<1>7. 1 \in 1 .. Len(Steps(j))
  <2>1. \A l \in 1 .. 5 : 1 \in 1 .. l
    OBVIOUS
  <2>2. QED
    BY <1>4, <2>1
<1>8. Typed'
  BY <1>5, <1>6, <1>7 DEF Typed, How, Active, Blocks
<1>9. QED
  BY <1>1, <1>2, <1>3, <1>8

\* A step of the system is an arrival, a step of one request, the expiry of the
\* rate counter, or a stutter.
LEMMA NextCases ==
  ASSUME Typed, [Next]_vars
  PROVE  \/ \E r \in Request : Arrive(r)
         \/ \E r \in Request : Step(r) /\ Frame(r)
         \/ \E k \in Rates : /\ doc' = [doc EXCEPT ![k] = {}]
                           /\ window' = [window EXCEPT ![k] = {}]
                           /\ UNCHANGED <<job, pc, at, seen, tries>>
         \/ UNCHANGED vars
BY StepFrame DEF Next, ExpireRate

LEMMA TypedStep == Typed /\ [Next]_vars => Typed'
<1>1. SUFFICES ASSUME Typed, [Next]_vars PROVE Typed'
  OBVIOUS
<1>2. CASE \E r \in Request : Arrive(r)
  BY <1>1, <1>2, ArriveFacts
<1>3. CASE \E r \in Request : Step(r)
  BY <1>1, <1>3, StepFrame
<1>4. CASE \E k \in Rates : /\ doc' = [doc EXCEPT ![k] = {}]
                            /\ window' = [window EXCEPT ![k] = {}]
                            /\ UNCHANGED <<job, pc, at, seen, tries>>
  BY <1>1, <1>4 DEF Typed, TypeOK, How
<1>5. CASE UNCHANGED vars
  BY <1>1, <1>5 DEF vars, Typed, TypeOK, How
<1>6. QED
  BY <1>1, <1>2, <1>3, <1>4, <1>5, NextCases

LEMMA TypedInvariant == Spec => []Typed
BY TypedInit, TypedStep, PTL DEF Spec

\* The workspace is type-correct; push_review_item never exceeds its attempts.
THEOREM TypeCorrect == Spec => []TypeOK
<1>1. Typed => TypeOK
  BY DEF Typed
<1>2. QED
  BY <1>1, TypedInvariant, PTL

-----------------------------------------------------------------------------
(* Entries                                                                 *)

Foreign(r, k) == \E q \in Request : Uses(q, k) /\ Home[q] # Home[r]

\* Two requests of one instance are in blocks of different documents; a document
\* has entries only of requests that are about it; and what a block has not seen
\* was written while another instance works on the document.
Entries ==
  /\ \A q, r \in Request :
       pc[q] \in Blocks /\ pc[r] \in Blocks /\ Home[q] = Home[r] /\ q # r => Of(q) # Of(r)
  /\ \A k \in Docs : \A r \in doc[k] : Uses(r, k)
  /\ \A r \in Request : pc[r] = "write" =>
       /\ \A q \in seen[r] : Uses(q, Of(r))
       /\ doc[Of(r)] \subseteq seen[r] \/ Foreign(r, Of(r))
       /\ How(r) \in {"resolvePending", "claim"} => seen[r] = {}
  /\ \A r \in Request : job[r].kind = "resolveHypothesis" => job[job[r].of].kind = "hypothesis"

LEMMA EntriesInit == Init => Entries
BY DEF Init, Entries, Blocks, Docs, NoJob

\* Jobs do not change, so that what a request is about stays.
LEMMA UsesKept ==
  ASSUME Typed, [Next]_vars, NEW r \in Request, NEW k, Uses(r, k)
  PROVE  Uses(r, k)'
<1>1. CASE \E q \in Request : Arrive(q)
  <2>1. PICK q \in Request : Arrive(q)
    BY <1>1
  <2>2. job[q] = NoJob /\ \E j \in Job : job' = [job EXCEPT ![q] = j]
    BY <2>1, ArriveFacts
  <2>3. Steps(NoJob) = << >>
    BY DEF Steps, NoJob
  <2>4. r # q
    BY <2>2, <2>3 DEF Uses
  <2>5. job'[r] = job[r]
    BY <2>2, <2>4 DEF Typed, TypeOK
  <2>6. QED
    BY <2>5 DEF Uses
<1>2. CASE UNCHANGED job
  BY <1>2 DEF Uses
<1>3. QED
  BY <1>1, <1>2, NextCases DEF Frame, vars

\* Only a hypothesis is about the indexes of hypotheses.
LEMMA IndexedKind ==
  ASSUME Typed, NEW r \in Request, NEW k \in {"byFir", "byCase"}, Uses(r, k)
  PROVE  job[r].kind = "hypothesis"
<1>1. job[r] \in Job
  <2>1. Steps(NoJob) = << >>
    BY DEF Steps, NoJob
  <2>2. job[r] # NoJob
    BY <2>1 DEF Uses
  <2>3. QED
    BY <2>2 DEF Typed, TypeOK
<1>2. PICK i \in 1 .. Len(Steps(job[r])) :
        Steps(job[r])[i][2] = k /\ Steps(job[r])[i][1] # "clear" /\ Shape(job[r], i)
  BY <1>1, StepShape DEF Uses
<1>3. k \notin Request /\ k \notin Records
  BY RequestAssumption DEF Shared, Rates, Records
<1>4. QED
  BY <1>2, <1>3 DEF Shape, Rates

\* A blind write, other than the deletion of an index, is about documents that no
\* block is about.
LEMMA BlindApart ==
  ASSUME Typed, NEW q \in Request, NEW r \in Request, pc[q] \in Active, pc[r] \in Active,
         How(q) \in Blind \ {"clear"}, How(r) \notin Blind
  PROVE  Of(q) # Of(r)
<1>1. Of(q) \in Records \cup {"lastCheck"}
  BY CurrentShape DEF Shape, How, Of, Blind
<1>2. Of(r) \in Shared \cup Request
  BY CurrentShape DEF Shape, How, Of, Blind, Shared, Rates
<1>3. QED
  BY <1>1, <1>2, RequestAssumption DEF Records, Shared, Rates

\* What a write keeps of its document.
LEMMA StoreKeeps ==
  ASSUME Typed, Entries, NEW r \in Request, pc[r] \in Active, Stores(r)
  PROVE  /\ \A k \in Docs : \A q \in doc'[k] : Uses(q, k)
         /\ Of(r) \notin Replaced \cup Rates =>
              doc[Of(r)] \subseteq doc'[Of(r)] \/ Foreign(r, Of(r)) \/ How(r) = "clear"
<1>1. /\ doc'[Of(r)] = Written(r)
      /\ \A k \in Docs : k # Of(r) => doc'[k] = doc[k]
      /\ Of(r) \in Docs
      /\ How(r) # "clear" => Uses(r, Of(r))
      /\ Shape(job[r], at[r])
  BY StoreFacts, CurrentShape DEF Stores
<1>2. pc[r] = "write" \/ How(r) \in Blind
  BY DEF Stores
<1>3. CASE How(r) = "put"
  BY <1>1, <1>3 DEF Written, Entries
<1>4. CASE How(r) \in {"add", "push", "limit"}
  <2>1. pc[r] = "write" /\ Written(r) = seen[r] \cup {r}
    BY <1>2, <1>4 DEF Blind, Written
  <2>2. QED
    BY <1>1, <1>4, <2>1 DEF Entries
<1>5. CASE How(r) = "replace"
  <2>1. Written(r) = {r} /\ Of(r) \in Replaced
    BY <1>1, <1>5 DEF Written, Shape, How, Of, Replaced
  <2>2. QED
    BY <1>1, <1>5, <2>1 DEF Entries
<1>6. CASE How(r) = "resolve"
  <2>1. Written(r) = {r} /\ Of(r) \in Replaced
    BY <1>1, <1>6 DEF Written, Shape, How, Of, Replaced, Entries
  <2>2. QED
    BY <1>1, <1>6, <2>1 DEF Entries
<1>7. CASE How(r) \in {"resolvePending", "claim"}
  <2>1. pc[r] = "write" /\ Written(r) = {r}
    BY <1>2, <1>7 DEF Blind, Written
  <2>2. seen[r] = {} /\ (doc[Of(r)] \subseteq seen[r] \/ Foreign(r, Of(r)))
    BY <1>7, <2>1 DEF Entries
  <2>3. QED
    BY <1>1, <1>7, <2>1, <2>2 DEF Entries
<1>8. CASE How(r) = "clear"
  BY <1>1, <1>8 DEF Written, Entries
<1>9. QED
  BY <1>1, <1>3, <1>4, <1>5, <1>6, <1>7, <1>8 DEF Shape, How

\* The deletion of an index is the one step of its request, which ends with it.
LEMMA ClearEnds ==
  ASSUME Typed, NEW r \in Request, Frame(r), How(r) = "clear"
  PROVE  /\ pc[r] = "go" /\ pc'[r] \in Ended /\ pc'[r] # "go"
         /\ Of(r) = "byCase" /\ job[r].kind = "deleteCase"
<1>1. /\ pc[r] \in Active /\ pc'[r] \in Active \cup Ended
      /\ pc'[r] \in Blocks => How(r) \notin Blind
      /\ pc'[r] = "go" => at[r] # Len(Steps(job[r]))
  BY DEF Frame
<1>2. /\ Shape(job[r], at[r]) /\ at[r] \in 1 .. Len(Steps(job[r]))
  BY <1>1, CurrentShape
<1>3. Of(r) = "byCase" /\ job[r].kind = "deleteCase" /\ Len(Steps(job[r])) = 1
  BY <1>2 DEF Shape, How, Of
<1>4. at[r] = 1
  BY <1>2, <1>3
<1>5. "clear" \in Blind
  BY DEF Blind
<1>6. pc[r] = "go" /\ pc'[r] \in Ended
  BY <1>1, <1>3, <1>4, <1>5 DEF Active, Typed
<1>7. QED
  BY <1>3, <1>6 DEF Ended

LEMMA EntriesFrame ==
  ASSUME Typed, Entries, [Next]_vars, NEW r \in Request, Frame(r)
  PROVE  Entries'
<1>a. TypeOK
  BY DEF Typed
<1>b. pc[r] \in Active /\ (pc'[r] \in Blocks => pc'[r] \in Active)
  BY DEF Frame, Active
<1>1. /\ \A q \in Request \ {r} : pc'[q] = pc[q] /\ Of(q)' = Of(q) /\ How(q)' = How(q)
                                   /\ seen'[q] = seen[q]
      /\ pc'[r] \in Blocks => Of(r)' = Of(r) /\ How(r)' = How(r)
      /\ UNCHANGED job
  BY <1>a DEF Frame, TypeOK, Of, How
<1>2. \A q, s \in Request :
        pc'[q] \in Blocks /\ pc'[s] \in Blocks /\ Home[q] = Home[s] /\ q # s => Of(q)' # Of(s)'
  <2>1. \A q \in Request \ {r} :
          pc[q] \in Blocks /\ pc'[r] \in Blocks /\ Home[q] = Home[r] => Of(q) # Of(r)
    BY DEF Frame, LockFree, Entries
  <2>2. QED
    BY <1>1, <2>1 DEF Entries
<1>3. \A k \in Docs : \A q \in doc'[k] : Uses(q, k)'
  <2>1. \A k \in Docs : \A q \in doc'[k] : q \in Request /\ Uses(q, k)
    <3>1. CASE UNCHANGED doc
      BY <1>a, <3>1 DEF Entries, TypeOK
    <3>2. CASE Stores(r)
      BY <1>b, <3>2, StoreFacts, StoreKeeps DEF Stores
    <3>3. QED
      BY <3>1, <3>2 DEF Frame
  <2>2. QED
    BY <2>1, UsesKept
<1>4. ASSUME NEW q \in Request, pc'[q] = "write"
      PROVE  /\ Of(q)' = Of(q)
             /\ \A s \in seen'[q] : s \in Request /\ Uses(s, Of(q))
             /\ doc'[Of(q)] \subseteq seen'[q] \/ Foreign(q, Of(q))
             /\ How(q)' \in {"resolvePending", "claim"} => seen'[q] = {}
  <2>1. CASE q = r
    <3>1. /\ UNCHANGED doc /\ seen'[r] = doc[Of(r)]
          /\ ~RefusedAt(r) /\ ~NothingToWrite(r)
          /\ Of(r)' = Of(r) /\ How(r)' = How(r)
      BY <1>1, <1>4, <2>1 DEF Frame, Blocks
    <3>2. Of(r) \in Docs
      BY <1>b, CurrentShape
    <3>3. \A s \in seen'[r] : s \in Request /\ Uses(s, Of(r))
      BY <1>a, <3>1, <3>2 DEF Entries, TypeOK
    <3>4. How(r) \in {"resolvePending", "claim"} => seen'[r] = {}
      BY <3>1 DEF RefusedAt, NothingToWrite
    <3>5. QED
      BY <2>1, <3>1, <3>3, <3>4
  <2>2. CASE q # r
    <3>1. /\ pc[q] = "write" /\ seen'[q] = seen[q]
          /\ Of(q)' = Of(q) /\ How(q)' = How(q)
          /\ pc[q] \in Active /\ pc[q] \in Blocks
      BY <1>1, <1>4, <2>2 DEF Active, Blocks
    <3>2. /\ \A s \in seen[q] : Uses(s, Of(q))
          /\ doc[Of(q)] \subseteq seen[q] \/ Foreign(q, Of(q))
          /\ How(q) \in {"resolvePending", "claim"} => seen[q] = {}
      BY <3>1 DEF Entries
    <3>3. doc'[Of(q)] \subseteq doc[Of(q)] \/ Foreign(q, Of(q))
      <4>1. CASE UNCHANGED doc
        BY <4>1
      <4>2. CASE Stores(r) /\ Of(r) = Of(q) /\ How(r) = "clear"
        <5>1. doc'[Of(q)] = Written(r)
          BY <1>b, <4>2, StoreFacts DEF Stores
        <5>2. QED
          BY <4>2, <5>1 DEF Written
      <4>3. CASE Stores(r) /\ Of(r) = Of(q) /\ How(r) # "clear"
        <5>1. How(r) \notin Blind
          BY <1>b, <3>1, <4>3, BlindApart DEF Typed
        <5>2. pc[r] \in Blocks
          BY <4>3, <5>1 DEF Stores, Blocks
        <5>3. Home[r] # Home[q]
          BY <2>2, <3>1, <4>3, <5>2 DEF Entries
        <5>4. Uses(r, Of(r))
          BY <1>b, <4>3, CurrentShape
        <5>5. QED
          BY <4>3, <5>3, <5>4 DEF Foreign
      <4>4. CASE Stores(r) /\ Of(r) # Of(q)
        BY <1>b, <3>1, <4>4, StoreFacts, CurrentShape DEF Stores
      <4>5. QED
        BY <4>1, <4>2, <4>3, <4>4 DEF Frame
    <3>4. \A s \in seen[q] : s \in Request
      BY <1>a DEF TypeOK
    <3>5. QED
      BY <3>1, <3>2, <3>3, <3>4
  <2>3. QED
    BY <2>1, <2>2
<1>5. ASSUME NEW q \in Request, Of(q)' = Of(q)
      PROVE  /\ \A s \in Request : Uses(s, Of(q)) => Uses(s, Of(q))'
             /\ Foreign(q, Of(q)) => Foreign(q, Of(q))'
  BY <1>1, <1>5 DEF Foreign, Uses
<1>6. \A q \in Request : pc'[q] = "write" =>
        /\ \A s \in seen'[q] : Uses(s, Of(q))'
        /\ doc'[Of(q)'] \subseteq seen'[q] \/ Foreign(q, Of(q))'
        /\ How(q)' \in {"resolvePending", "claim"} => seen'[q] = {}
  BY <1>4, <1>5
<1>7. QED
  BY <1>1, <1>2, <1>3, <1>6 DEF Entries

LEMMA EntriesArrive ==
  ASSUME Typed, Entries, [Next]_vars, NEW r \in Request, Arrive(r)
  PROVE  Entries'
<1>a. TypeOK
  BY DEF Typed
<1>1. /\ pc[r] = "off" /\ job[r] = NoJob
      /\ pc' = [pc EXCEPT ![r] = "go"]
      /\ UNCHANGED <<doc, window, at, seen, tries>>
  BY ArriveFacts
<1>2. PICK j \in Job : Listed(j) /\ job' = [job EXCEPT ![r] = j]
  BY ArriveFacts
<1>3. \A q \in Request \ {r} : pc'[q] = pc[q] /\ job'[q] = job[q]
  BY <1>a, <1>1, <1>2 DEF TypeOK
<1>4. pc'[r] = "go" /\ job'[r] = j
  BY <1>a, <1>1, <1>2 DEF TypeOK
<1>5. \A q \in Request : pc'[q] \in Blocks =>
        q # r /\ pc[q] = pc'[q] /\ Of(q)' = Of(q) /\ How(q)' = How(q)
  BY <1>1, <1>3, <1>4 DEF Blocks, Of, How
<1>6. \A q \in Request, k \in Docs : Uses(q, k) => Uses(q, k)'
  BY UsesKept
<1>7. \A k \in Docs : \A q \in doc'[k] : Uses(q, k)'
  BY <1>a, <1>1, <1>6 DEF Entries, TypeOK
<1>8. ASSUME NEW q \in Request, pc'[q] = "write"
      PROVE  /\ \A s \in seen'[q] : Uses(s, Of(q))'
             /\ doc'[Of(q)'] \subseteq seen'[q] \/ Foreign(q, Of(q))'
             /\ How(q)' \in {"resolvePending", "claim"} => seen'[q] = {}
  <2>1. /\ q # r /\ pc[q] = "write" /\ Of(q)' = Of(q) /\ How(q)' = How(q)
        /\ pc[q] \in Active
    BY <1>5, <1>8 DEF Blocks, Active
  <2>2. /\ \A s \in seen[q] : s \in Request /\ Uses(s, Of(q))
        /\ doc[Of(q)] \subseteq seen[q] \/ Foreign(q, Of(q))
        /\ How(q) \in {"resolvePending", "claim"} => seen[q] = {}
    BY <1>a, <2>1 DEF Entries, TypeOK
  <2>3. \A s \in Request : Uses(s, Of(q)) => s # r
    <3>1. Steps(NoJob) = << >>
      BY DEF Steps, NoJob
    <3>2. QED
      BY <1>1, <3>1 DEF Uses
  <2>4. \A s \in Request : Uses(s, Of(q)) => Uses(s, Of(q))'
    BY <1>3, <2>1, <2>3 DEF Uses
  <2>5. Foreign(q, Of(q)) => Foreign(q, Of(q))'
    BY <2>4 DEF Foreign
  <2>6. QED
    BY <1>1, <2>1, <2>2, <2>4, <2>5
<1>9. \A q \in Request : job'[q].kind = "resolveHypothesis" => job'[job'[q].of].kind = "hypothesis"
  <2>1. \A q \in Request : job[q].kind = "hypothesis" => q # r
    BY <1>1 DEF NoJob
  <2>2. \A q \in Request \ {r} : job'[q].kind = "resolveHypothesis" =>
          job[q].of \in Request
    <3>1. \A q \in Request : job[q].kind = "resolveHypothesis" => job[q] \in Job
      BY <1>a DEF TypeOK, NoJob
    <3>2. \A x \in Job : x.kind = "resolveHypothesis" => x.of \in Request
      BY DEF Job
    <3>3. QED
      BY <1>3, <3>1, <3>2
  <2>3. CASE j.kind = "resolveHypothesis"
    <3>1. j.of \in Request
      BY <2>3 DEF Job
    <3>2. j.of \in doc["byFir"] \cup doc["byCase"]
      BY <1>2, <2>3 DEF Listed
    <3>3. "byFir" \in Docs /\ "byCase" \in Docs
      BY DEF Docs, Shared
    <3>4. job[j.of].kind = "hypothesis"
      BY <3>1, <3>2, <3>3, IndexedKind DEF Entries
    <3>5. QED
      BY <1>3, <1>4, <2>1, <2>2, <3>1, <3>4 DEF Entries
  <2>4. CASE j.kind # "resolveHypothesis"
    BY <1>3, <1>4, <2>1, <2>2, <2>4 DEF Entries
  <2>5. QED
    BY <2>3, <2>4
<1>10. \A q, s \in Request :
         pc'[q] \in Blocks /\ pc'[s] \in Blocks /\ Home[q] = Home[s] /\ q # s => Of(q)' # Of(s)'
  BY <1>5 DEF Entries
<1>11. \A q \in Request : pc'[q] = "write" =>
        /\ \A s \in seen'[q] : Uses(s, Of(q))'
        /\ doc'[Of(q)'] \subseteq seen'[q] \/ Foreign(q, Of(q))'
        /\ How(q)' \in {"resolvePending", "claim"} => seen'[q] = {}
  BY <1>8
<1>12. QED
  BY <1>7, <1>9, <1>10, <1>11 DEF Entries

LEMMA EntriesSame ==
  ASSUME Entries, UNCHANGED <<job, pc, at, seen>>,
         \A k \in Docs : doc'[k] \subseteq doc[k],
         \A q \in Request : pc[q] = "write" => Of(q) \in Docs
  PROVE  Entries'
<1>1. \A q \in Request : Of(q)' = Of(q) /\ How(q)' = How(q)
  BY DEF Of, How
<1>2. \A q, k : Uses(q, k)' = Uses(q, k)
  BY DEF Uses
<1>3. \A q, k : Foreign(q, k)' = Foreign(q, k)
  BY <1>2 DEF Foreign
<1>4. \A k \in Docs : \A q \in doc'[k] : Uses(q, k)'
  BY <1>2 DEF Entries
<1>5. \A q, r \in Request :
        pc'[q] \in Blocks /\ pc'[r] \in Blocks /\ Home[q] = Home[r] /\ q # r
          => Of(q)' # Of(r)'
  BY <1>1 DEF Entries
<1>6. ASSUME NEW r \in Request, pc'[r] = "write"
      PROVE  /\ \A q \in seen'[r] : Uses(q, Of(r))'
             /\ doc'[Of(r)'] \subseteq seen'[r] \/ Foreign(r, Of(r))'
             /\ How(r)' \in {"resolvePending", "claim"} => seen'[r] = {}
  BY <1>1, <1>2, <1>3, <1>6 DEF Entries
<1>7. \A r \in Request :
        job'[r].kind = "resolveHypothesis" => job'[job'[r].of].kind = "hypothesis"
  BY DEF Entries
<1>8. QED
  BY <1>4, <1>5, <1>6, <1>7 DEF Entries

LEMMA EntriesStep == Typed /\ Entries /\ [Next]_vars => Entries'
<1>1. SUFFICES ASSUME Typed, Entries, [Next]_vars PROVE Entries'
  OBVIOUS
<1>a. TypeOK
  BY <1>1 DEF Typed
<1>2. CASE \E r \in Request : Arrive(r)
  BY <1>1, <1>2, EntriesArrive
<1>3. CASE \E r \in Request : Frame(r)
  BY <1>1, <1>3, EntriesFrame
<1>4. CASE \E k \in Rates : /\ doc' = [doc EXCEPT ![k] = {}]
                            /\ window' = [window EXCEPT ![k] = {}]
                            /\ UNCHANGED <<job, pc, at, seen, tries>>
  <2>1. \A k \in Docs : doc'[k] \subseteq doc[k]
    BY <1>a, <1>4 DEF TypeOK
  <2>2. \A q \in Request : pc[q] = "write" => Of(q) \in Docs
    BY <1>1, CurrentShape DEF Active, Blocks
  <2>3. QED
    BY <1>1, <1>4, <2>1, <2>2, EntriesSame
<1>5. CASE UNCHANGED vars
  <2>1. UNCHANGED <<doc, job, pc, at, seen>>
    BY <1>5 DEF vars
  <2>2. \A q \in Request : pc[q] = "write" => Of(q) \in Docs
    BY <1>1, CurrentShape DEF Active, Blocks
  <2>3. QED
    BY <1>1, <2>1, <2>2, EntriesSame
<1>6. QED
  BY <1>1, <1>2, <1>3, <1>4, <1>5, NextCases

LEMMA EntriesInvariant == Spec => [](Typed /\ Entries)
<1>1. Init => Typed /\ Entries
  BY TypedInit, EntriesInit
<1>2. Typed /\ Entries /\ [Next]_vars => (Typed /\ Entries)'
  BY TypedStep, EntriesStep
<1>3. QED
  BY <1>1, <1>2, PTL DEF Spec

LEMMA EntriesKeptStep ==
  ASSUME Typed, Entries, [Next]_vars,
         NEW k \in Docs \ (Replaced \cup Rates), NEW r \in doc[k] \ doc'[k]
  PROVE  \E q \in Request : (Uses(q, k) /\ Home[q] # Home[r]) \/ Clears(q, k)
<1>a. TypeOK
  BY DEF Typed
<1>1. r \in Request /\ k \in Docs
  BY <1>a DEF TypeOK
<1>2. PICK q \in Request : Frame(q) /\ Stores(q) /\ Of(q) = k
  <2>1. doc' # doc /\ doc'[k] # doc[k]
    OBVIOUS
  <2>2. PICK q \in Request : Frame(q)
    BY <1>a, <1>1, <2>1, NextCases, ArriveFacts DEF vars, TypeOK
  <2>3. Stores(q)
    BY <2>1, <2>2 DEF Frame
  <2>4. Of(q) = k
    BY <1>1, <2>1, <2>2, <2>3, StoreFacts DEF Frame, Stores
  <2>5. QED
    BY <2>2, <2>3, <2>4
<1>3. CASE How(q) = "clear"
  BY <1>2, <1>3, ClearEnds DEF Clears
<1>4. CASE How(q) # "clear"
  <2>1. Foreign(q, k) /\ Uses(q, k)
    BY <1>2, <1>4, StoreKeeps, CurrentShape DEF Frame
  <2>2. CASE Home[q] # Home[r]
    BY <2>1, <2>2
  <2>3. CASE Home[q] = Home[r]
    BY <2>1, <2>3 DEF Foreign
  <2>4. QED
    BY <2>2, <2>3
<1>5. QED
  BY <1>3, <1>4

\* Only another instance, or the step that deletes the index of a case, can take an
\* entry away (the get_lock blocks of the review queue, the indexes, the trust counts,
\* the penalties, the alerts and the owner of a session; delete_case).
THEOREM EntriesKeptHolds == Spec => EntriesKept
<1>1. Typed /\ Entries /\ [Next]_vars =>
        [\A k \in Docs \ (Replaced \cup Rates) : \A r \in doc[k] \ doc'[k] :
           \E q \in Request : (Uses(q, k) /\ Home[q] # Home[r]) \/ Clears(q, k)]_vars
  BY EntriesKeptStep
<1>2. QED
  BY <1>1, EntriesInvariant, PTL DEF Spec, EntriesKept

-----------------------------------------------------------------------------
(* The rate limits                                                         *)

Mixed(k) == \E q, r \in window[k] : Home[q] # Home[r]

\* A counter never exceeds the limit, and counts every request that it let
\* pass, unless two instances overwrote each other.  The same is so for what a
\* request has read and is about to write.
Counted ==
  /\ \A k \in Rates : Cardinality(doc[k]) <= RateLimit
  /\ \A k \in Rates : window[k] \subseteq doc[k] \/ Mixed(k)
  /\ \A r \in Request : pc[r] = "write" /\ How(r) = "limit" =>
       /\ Cardinality(seen[r]) + 1 <= RateLimit
       /\ window[Of(r)] \subseteq seen[r] \/ \E q \in window[Of(r)] : Home[q] # Home[r]

\* Only the rate limits are about the rate counters.
LEMMA LimitShape ==
  ASSUME Typed, NEW r \in Request, pc[r] \in Active
  PROVE  How(r) = "limit" <=> Of(r) \in Rates
<1>1. Shape(job[r], at[r])
  BY CurrentShape
<1>2. \A k \in Rates : k \notin Request /\ k \notin Records
                       /\ k \notin {"queue", "byFir", "byCase", "trust", "narrow",
                                    "penalties", "owner", "lastCheck"}
  BY RequestAssumption DEF Shared, Rates, Records
<1>3. QED
  BY <1>1, <1>2 DEF Shape, How, Of

LEMMA CountOf ==
  ASSUME NEW S \in SUBSET Request
  PROVE  /\ IsFiniteSet(S)
         /\ Cardinality(S) \in Nat
         /\ \A r \in Request : Cardinality(S \cup {r}) <= Cardinality(S) + 1
         /\ \A T \in SUBSET S : Cardinality(T) <= Cardinality(S)
<1>1. IsFiniteSet(S) /\ Cardinality(S) \in Nat
  BY FS_Subset, FS_CardinalityType, RequestAssumption
<1>2. \A r \in Request : Cardinality(S \cup {r}) \in {Cardinality(S), Cardinality(S) + 1}
  BY <1>1, FS_AddElement
<1>3. \A T \in SUBSET S : Cardinality(T) <= Cardinality(S)
  BY <1>1, FS_Subset
<1>4. QED
  BY <1>1, <1>2, <1>3

LEMMA CountedInit == Init => Counted
<1>1. Cardinality({}) = 0
  BY FS_EmptySet
<1>2. Rates \subseteq Docs
  BY DEF Rates, Docs, Shared
<1>3. QED
  BY <1>1, <1>2, BoundsAssumption DEF Init, Counted

LEMMA CountedFrame ==
  ASSUME Typed, Entries, Counted, NEW r \in Request, Frame(r)
  PROVE  Counted'
<1>a. TypeOK /\ Rates \subseteq Docs
  BY DEF Typed, Rates, Docs, Shared
<1>b. pc[r] \in Active /\ Of(r) \in Docs
  BY CurrentShape DEF Frame
<1>1. /\ \A q \in Request \ {r} : pc'[q] = pc[q] /\ Of(q)' = Of(q) /\ How(q)' = How(q)
                                   /\ seen'[q] = seen[q]
      /\ pc'[r] = "write" => /\ Of(r)' = Of(r) /\ How(r)' = How(r)
                             /\ UNCHANGED <<doc, window>>
                             /\ seen'[r] = doc[Of(r)]
                             /\ ~RefusedAt(r)
  BY <1>a DEF Frame, TypeOK, Of, How, Blocks
<1>2. ASSUME pc'[r] = "write", How(r) = "limit"
      PROVE  /\ Cardinality(seen'[r]) + 1 <= RateLimit
             /\ window'[Of(r)] \subseteq seen'[r] \/ \E q \in window'[Of(r)] : Home[q] # Home[r]
  <2>1. Of(r) \in Rates /\ doc[Of(r)] \in SUBSET Request
    BY <1>a, <1>b, <1>2, LimitShape DEF TypeOK
  <2>2. ~(Cardinality(doc[Of(r)]) >= RateLimit)
    BY <1>1, <1>2 DEF RefusedAt, AtLimit
  <2>3. Cardinality(doc[Of(r)]) + 1 <= RateLimit
    BY <2>1, <2>2, CountOf, BoundsAssumption
  <2>4. window[Of(r)] \subseteq doc[Of(r)] \/ Mixed(Of(r))
    BY <2>1 DEF Counted
  <2>5. QED
    BY <1>1, <1>2, <2>3, <2>4 DEF Mixed
<1>3. CASE UNCHANGED <<doc, window>>
  <2>1. /\ \A k \in Rates : Cardinality(doc'[k]) <= RateLimit
        /\ \A k \in Rates : window'[k] \subseteq doc'[k] \/ Mixed(k)'
    BY <1>3 DEF Counted, Mixed
  <2>2. ASSUME NEW q \in Request \ {r}, pc'[q] = "write", How(q)' = "limit"
        PROVE  /\ Cardinality(seen'[q]) + 1 <= RateLimit
               /\ \/ window'[Of(q)'] \subseteq seen'[q]
                  \/ \E s \in window'[Of(q)'] : Home[s] # Home[q]
    BY <1>1, <1>3, <2>2 DEF Counted
  <2>3. QED
    BY <1>1, <1>2, <2>1, <2>2 DEF Counted
<1>4. CASE Stores(r) /\ How(r) # "limit"
  <2>1. /\ UNCHANGED window
        /\ \A k \in Rates : doc'[k] = doc[k]
    BY <1>a, <1>b, <1>4, LimitShape, StoreFacts DEF Stores, Store
  <2>2. /\ \A k \in Rates : Cardinality(doc'[k]) <= RateLimit
        /\ \A k \in Rates : window'[k] \subseteq doc'[k] \/ Mixed(k)'
    BY <2>1 DEF Counted, Mixed
  <2>3. ASSUME NEW q \in Request \ {r}, pc'[q] = "write", How(q)' = "limit"
        PROVE  /\ Cardinality(seen'[q]) + 1 <= RateLimit
               /\ \/ window'[Of(q)'] \subseteq seen'[q]
                  \/ \E s \in window'[Of(q)'] : Home[s] # Home[q]
    BY <1>1, <2>1, <2>3 DEF Counted
  <2>4. pc'[r] # "write"
    BY <1>4 DEF Stores
  <2>5. QED
    BY <2>2, <2>3, <2>4 DEF Counted
<1>5. CASE Stores(r) /\ How(r) = "limit"
  <2>1. /\ pc[r] = "write" /\ pc'[r] # "write"
        /\ Of(r) \in Rates
        /\ seen[r] \in SUBSET Request
    BY <1>a, <1>b, <1>5, LimitShape DEF Stores, Blind, TypeOK
  <2>2. /\ doc'[Of(r)] = seen[r] \cup {r}
        /\ \A k \in Docs : k # Of(r) => doc'[k] = doc[k]
        /\ window'[Of(r)] = window[Of(r)] \cup {r}
        /\ \A k \in Rates : k # Of(r) => window'[k] = window[k]
    BY <1>a, <1>b, <1>5, <2>1, StoreFacts DEF Stores, Store, Written, TypeOK
  <2>3. /\ Cardinality(seen[r]) + 1 <= RateLimit
        /\ window[Of(r)] \subseteq seen[r] \/ \E q \in window[Of(r)] : Home[q] # Home[r]
    BY <1>5, <2>1 DEF Counted
  <2>4. Cardinality(seen[r] \cup {r}) <= RateLimit
    <3>1. /\ Cardinality(seen[r]) \in Nat
          /\ Cardinality(seen[r] \cup {r}) \in Nat
          /\ Cardinality(seen[r] \cup {r}) <= Cardinality(seen[r]) + 1
      BY <2>1, CountOf
    <3>2. QED
      BY <2>3, <3>1, BoundsAssumption
  <2>5. ASSUME NEW k \in Rates
        PROVE  /\ Cardinality(doc'[k]) <= RateLimit
               /\ window'[k] \subseteq doc'[k] \/ Mixed(k)'
    <3>1. CASE k = Of(r)
      BY <2>2, <2>3, <2>4, <3>1 DEF Mixed
    <3>2. CASE k # Of(r)
      BY <1>a, <2>2, <3>2 DEF Counted, Mixed
    <3>3. QED
      BY <3>1, <3>2
  <2>6. ASSUME NEW q \in Request \ {r}, pc'[q] = "write", How(q)' = "limit"
        PROVE  /\ Cardinality(seen'[q]) + 1 <= RateLimit
               /\ \/ window'[Of(q)'] \subseteq seen'[q]
                  \/ \E s \in window'[Of(q)'] : Home[s] # Home[q]
    <3>1. /\ pc[q] = "write" /\ How(q) = "limit" /\ seen'[q] = seen[q] /\ Of(q)' = Of(q)
          /\ pc[q] \in Active /\ pc[q] \in Blocks /\ pc[r] \in Blocks
      BY <1>1, <2>1, <2>6 DEF Active, Blocks
    <3>2. Of(q) \in Rates
      BY <3>1, LimitShape
    <3>3. CASE Of(q) = Of(r)
      <4>1. Home[r] # Home[q]
        BY <3>1, <3>3 DEF Entries
      <4>2. QED
        BY <2>2, <3>1, <3>3, <4>1 DEF Counted
    <3>4. CASE Of(q) # Of(r)
      BY <2>2, <3>1, <3>2, <3>4 DEF Counted
    <3>5. QED
      BY <3>3, <3>4
  <2>7. QED
    BY <2>1, <2>5, <2>6 DEF Counted
<1>6. QED
  BY <1>3, <1>4, <1>5 DEF Frame

LEMMA CountedStep == Typed /\ Entries /\ Counted /\ [Next]_vars => Counted'
<1>1. SUFFICES ASSUME Typed, Entries, Counted, [Next]_vars PROVE Counted'
  OBVIOUS
<1>a. TypeOK /\ Rates \subseteq Docs
  BY <1>1 DEF Typed, Rates, Docs, Shared
<1>2. CASE \E r \in Request : Arrive(r)
  <2>1. PICK r \in Request : Arrive(r)
    BY <1>2
  <2>2. /\ UNCHANGED <<doc, window, at, seen>>
        /\ \A q \in Request : pc'[q] = "write" =>
             pc[q] = "write" /\ Of(q)' = Of(q) /\ How(q)' = How(q)
    BY <1>1, <1>a, <2>1, ArriveFacts DEF TypeOK, Of, How
  <2>3. QED
    BY <1>1, <2>2 DEF Counted, Mixed
<1>3. CASE \E r \in Request : Frame(r)
  BY <1>1, <1>3, CountedFrame
<1>4. CASE \E k \in Rates : /\ doc' = [doc EXCEPT ![k] = {}]
                            /\ window' = [window EXCEPT ![k] = {}]
                            /\ UNCHANGED <<job, pc, at, seen, tries>>
  <2>1. PICK k \in Rates : /\ doc' = [doc EXCEPT ![k] = {}]
                           /\ window' = [window EXCEPT ![k] = {}]
                           /\ UNCHANGED <<job, pc, at, seen, tries>>
    BY <1>4
  <2>2. /\ doc'[k] = {} /\ window'[k] = {}
        /\ \A l \in Rates : l # k => doc'[l] = doc[l] /\ window'[l] = window[l]
    BY <1>a, <2>1 DEF TypeOK
  <2>3. \A q \in Request : Of(q)' = Of(q) /\ How(q)' = How(q)
    BY <2>1 DEF Of, How
  <2>4. Cardinality({}) = 0 /\ 0 <= RateLimit
    BY FS_EmptySet, BoundsAssumption
  <2>5. \A l \in Rates : /\ Cardinality(doc'[l]) <= RateLimit
                         /\ window'[l] \subseteq doc'[l] \/ Mixed(l)'
    <3>1. Cardinality(doc'[k]) <= RateLimit /\ window'[k] \subseteq doc'[k]
      BY <2>2, <2>4
    <3>2. ASSUME NEW l \in Rates, l # k
          PROVE  /\ Cardinality(doc'[l]) <= RateLimit
                 /\ window'[l] \subseteq doc'[l] \/ Mixed(l)'
      <4>1. doc'[l] = doc[l] /\ window'[l] = window[l] /\ (Mixed(l)' <=> Mixed(l))
        BY <2>2, <3>2 DEF Mixed
      <4>2. QED
        BY <1>1, <4>1 DEF Counted
    <3>3. QED
      BY <3>1, <3>2
  <2>6. ASSUME NEW q \in Request, pc'[q] = "write", How(q)' = "limit"
        PROVE  /\ Cardinality(seen'[q]) + 1 <= RateLimit
               /\ \/ window'[Of(q)'] \subseteq seen'[q]
                  \/ \E s \in window'[Of(q)'] : Home[s] # Home[q]
    <3>1. Of(q) \in Rates
      BY <1>1, <2>1, <2>3, <2>6, LimitShape DEF Active, Blocks
    <3>2. QED
      BY <1>1, <2>1, <2>2, <2>3, <2>6, <3>1 DEF Counted
  <2>7. QED
    BY <2>5, <2>6 DEF Counted
<1>5. CASE UNCHANGED vars
  BY <1>1, <1>5 DEF vars, Counted, Mixed, Of, How
<1>6. QED
  BY <1>1, <1>2, <1>3, <1>4, <1>5, NextCases

\* Parallel and failing requests of one instance never exceed the limit of a
\* counter (the get_lock blocks of _enforce_rate_limit and
\* _enforce_query_rate_limit).
THEOREM RateCappedHolds == Spec => []RateCapped
<1>1. Init => Typed /\ Entries /\ Counted
  BY TypedInit, EntriesInit, CountedInit
<1>2. Typed /\ Entries /\ Counted /\ [Next]_vars => (Typed /\ Entries /\ Counted)'
  BY TypedStep, EntriesStep, CountedStep
<1>3. Typed /\ Counted => RateCapped
  <2>1. SUFFICES ASSUME Typed, Counted PROVE RateCapped
    OBVIOUS
  <2>2. ASSUME NEW k \in Rates, \A q, r \in window[k] : Home[q] = Home[r]
        PROVE  Cardinality(window[k]) <= RateLimit
    <3>1. window[k] \subseteq doc[k] /\ Cardinality(doc[k]) <= RateLimit
      BY <2>1, <2>2 DEF Counted, Mixed
    <3>2. doc[k] \in SUBSET Request /\ window[k] \in SUBSET Request
      BY <2>1 DEF Typed, TypeOK, Rates, Docs, Shared
    <3>3. /\ Cardinality(window[k]) <= Cardinality(doc[k])
          /\ Cardinality(window[k]) \in Nat /\ Cardinality(doc[k]) \in Nat
      BY <3>1, <3>2, CountOf
    <3>4. QED
      BY <3>1, <3>3, BoundsAssumption
  <2>3. QED
    BY <2>2 DEF RateCapped
<1>4. QED
  BY <1>1, <1>2, <1>3, PTL DEF Spec

-----------------------------------------------------------------------------
(* Records and what names them                                             *)

Named == {"queue", "lastCheck"} \cup Indexes

RecordOf(k) ==
  CASE k = "queue" -> "alerts"
    [] k \in {"byFir", "byCase"} -> "hypotheses"
    [] k = "lastCheck" -> "checks"
    [] OTHER -> "corrections"

\* What a document names, or is about to name, has its record; and a request
\* that passed the write of a record has that record.
Recorded ==
  /\ \A k \in Named : doc[k] \subseteq doc[RecordOf(k)]
  /\ \A r \in Request, k \in Records : Precedes(job[r], at[r], k) => r \in doc[k]
  /\ \A r \in Request : pc[r] = "write" /\ Of(r) \in Named => seen[r] \subseteq doc[RecordOf(Of(r))]

LEMMA NamesRecords ==
  /\ \A k \in Named : RecordOf(k) \in Records /\ k \in Docs /\ k \notin Records
  /\ Records \subseteq Docs
BY DEF Named, Indexes, RecordOf, Records, Docs, Shared

\* A step about a document that names records comes after that of its record.
LEMMA NamedShape ==
  ASSUME Typed, NEW r \in Request, pc[r] \in Active
  PROVE  /\ Of(r) \in Records => How(r) = "put"
         /\ Of(r) \in Named /\ How(r) # "clear" =>
              /\ How(r) \in {"push", "add", "replace"}
              /\ Precedes(job[r], at[r], RecordOf(Of(r)))
<1>1. Shape(job[r], at[r])
  BY CurrentShape
<1>2. \A k \in Records \cup Named : k \notin Request /\ k \notin Rates /\ k # "owner"
  BY RequestAssumption DEF Shared, Rates, Records, Named, Indexes
<1>3. Of(r) \in Records => How(r) = "put"
  BY <1>1, <1>2 DEF Shape, How, Of, Records
<1>4. Of(r) \in Named /\ How(r) # "clear" =>
        /\ How(r) \in {"push", "add", "replace"}
        /\ Precedes(job[r], at[r], RecordOf(Of(r)))
  <2>1. Of(r) \in Named /\ How(r) # "clear" => How(r) \in {"push", "add", "replace"}
    BY <1>1, <1>2, NamesRecords DEF Shape, How, Of
  <2>2. How(r) = "push" => Precedes(job[r], at[r], RecordOf(Of(r)))
    BY <1>1 DEF Shape, How, Of, RecordOf
  <2>3. How(r) = "replace" => Precedes(job[r], at[r], RecordOf(Of(r)))
    BY <1>1 DEF Shape, How, Of, RecordOf
  <2>4. How(r) = "add" => Precedes(job[r], at[r], RecordOf(Of(r)))
    BY <1>1 DEF Shape, How, Of, RecordOf
  <2>5. QED
    BY <2>1, <2>2, <2>3, <2>4
<1>5. QED
  BY <1>3, <1>4

LEMMA RecordedInit == Init => Recorded
<1>1. SUFFICES ASSUME Init PROVE Recorded
  OBVIOUS
<1>2. \A k \in Named : doc[k] = {}
  BY <1>1, NamesRecords DEF Init
<1>3. \A r \in Request, k \in Records : ~Precedes(job[r], at[r], k)
  BY <1>1 DEF Init, Precedes
<1>4. \A r \in Request : pc[r] # "write"
  BY <1>1 DEF Init
<1>5. QED
  BY <1>2, <1>3, <1>4 DEF Recorded

LEMMA RecordedFrame ==
  ASSUME Typed, Recorded, NEW r \in Request, Frame(r)
  PROVE  Recorded'
<1>a. TypeOK
  BY DEF Typed
<1>b. /\ pc[r] \in Active /\ Of(r) \in Docs
      /\ at[r] \in 1 .. Len(Steps(job[r])) /\ at[r] \in 1 .. 6
  BY <1>a, CurrentShape DEF Frame, TypeOK
<1>1. /\ \A q \in Request \ {r} : /\ pc'[q] = pc[q] /\ at'[q] = at[q]
                                   /\ Of(q)' = Of(q) /\ seen'[q] = seen[q]
      /\ UNCHANGED job
      /\ pc'[r] = "write" => Of(r)' = Of(r) /\ seen'[r] = doc[Of(r)]
  BY <1>a DEF Frame, TypeOK, Of, Blocks
<1>2. \A k \in Records : doc[k] \subseteq doc'[k]
  <2>1. CASE UNCHANGED doc
    BY <2>1
  <2>2. CASE Stores(r)
    <3>1. How(r) = "put" => doc'[Of(r)] = doc[Of(r)] \cup {r}
      BY <1>b, <2>2, StoreFacts DEF Stores, Written
    <3>2. \A k \in Docs : k # Of(r) => doc'[k] = doc[k]
      BY <1>b, <2>2, StoreFacts DEF Stores
    <3>3. QED
      BY <1>b, <3>1, <3>2, NamedShape, NamesRecords
  <2>3. QED
    BY <2>1, <2>2 DEF Frame
<1>3. ASSUME NEW q \in Request, NEW k \in Records, Precedes(job'[q], at'[q], k)
      PROVE  q \in doc'[k]
  <2>1. CASE Precedes(job[q], at[q], k)
    BY <1>2, <2>1 DEF Recorded
  <2>2. CASE ~Precedes(job[q], at[q], k)
    <3>1. q = r /\ job'[r] = job[r]
      BY <1>1, <1>3, <2>2
    <3>2. at'[r] = at[r] + 1 /\ Passed(r)
      BY <1>3, <2>2, <3>1 DEF Frame
    <3>3. PICK n \in 1 .. at'[r] - 1 : Steps(job[r])[n] = <<"put", k>>
      BY <1>3, <3>1 DEF Precedes
    <3>4. n \notin 1 .. at[r] - 1
      BY <2>2, <3>1, <3>3 DEF Precedes
    <3>5. n = at[r]
      BY <1>b, <3>2, <3>4
    <3>6. How(r) = "put" /\ Of(r) = k
      BY <3>3, <3>5 DEF How, Of
    <3>7. QED
      BY <3>1, <3>2, <3>6 DEF Passed
  <2>3. QED
    BY <2>1, <2>2
<1>4. ASSUME NEW k \in Named
      PROVE  doc'[k] \subseteq doc'[RecordOf(k)]
  <2>1. doc[RecordOf(k)] \subseteq doc'[RecordOf(k)] /\ doc[k] \subseteq doc[RecordOf(k)]
    BY <1>2, NamesRecords DEF Recorded
  <2>2. CASE UNCHANGED doc
    BY <2>1, <2>2
  <2>3. CASE Stores(r) /\ Of(r) # k
    BY <1>b, <2>1, <2>3, StoreFacts, NamesRecords DEF Stores
  <2>4. CASE Stores(r) /\ Of(r) = k /\ How(r) = "clear"
    <3>1. doc'[k] = Written(r)
      BY <1>b, <2>4, StoreFacts DEF Stores
    <3>2. QED
      BY <2>4, <3>1 DEF Written
  <2>5. CASE Stores(r) /\ Of(r) = k /\ How(r) # "clear"
    <3>1. /\ How(r) \in {"push", "add", "replace"}
          /\ Precedes(job[r], at[r], RecordOf(k))
      BY <1>b, <2>5, NamedShape
    <3>2. r \in doc[RecordOf(k)]
      BY <3>1, NamesRecords DEF Recorded
    <3>3. doc'[k] = Written(r)
      BY <1>b, <2>5, StoreFacts DEF Stores
    <3>4. CASE How(r) = "replace"
      BY <2>1, <3>2, <3>3, <3>4 DEF Written
    <3>5. CASE How(r) \in {"push", "add"}
      <4>1. pc[r] = "write" /\ seen[r] \subseteq doc[RecordOf(k)]
        BY <2>5, <3>5 DEF Stores, Blind, Recorded
      <4>2. doc'[k] = seen[r] \cup {r}
        BY <3>3, <3>5 DEF Written
      <4>3. QED
        BY <2>1, <3>2, <4>1, <4>2
    <3>6. QED
      BY <3>1, <3>4, <3>5
  <2>6. QED
    BY <2>2, <2>3, <2>4, <2>5 DEF Frame
<1>5. ASSUME NEW q \in Request, pc'[q] = "write", Of(q)' \in Named
      PROVE  seen'[q] \subseteq doc'[RecordOf(Of(q)')]
  <2>1. CASE q = r
    BY <1>1, <1>2, <1>5, <2>1, NamesRecords DEF Recorded
  <2>2. CASE q # r
    BY <1>1, <1>2, <1>5, <2>2, NamesRecords DEF Recorded
  <2>3. QED
    BY <2>1, <2>2
<1>6. \A q \in Request : pc'[q] = "write" /\ Of(q)' \in Named =>
        seen'[q] \subseteq doc'[RecordOf(Of(q)')]
  BY <1>5
<1>7. QED
  BY <1>3, <1>4, <1>6 DEF Recorded, Precedes, RecordOf

LEMMA RecordedStep == Typed /\ Recorded /\ [Next]_vars => Recorded'
<1>1. SUFFICES ASSUME Typed, Recorded, [Next]_vars PROVE Recorded'
  OBVIOUS
<1>a. TypeOK
  BY <1>1 DEF Typed
<1>2. CASE \E r \in Request : Arrive(r)
  <2>1. PICK r \in Request : Arrive(r)
    BY <1>2
  <2>2. /\ UNCHANGED <<doc, at, seen>>
        /\ at[r] = 1
        /\ \A q \in Request \ {r} : job'[q] = job[q]
        /\ \A q \in Request : pc'[q] = "write" => pc[q] = "write" /\ Of(q)' = Of(q)
    BY <1>1, <1>a, <2>1, ArriveFacts DEF TypeOK, Of, Typed
  <2>3. \A k : ~Precedes(job'[r], at'[r], k)
    BY <2>2 DEF Precedes
  <2>4. \A q \in Request, k \in Records : Precedes(job'[q], at'[q], k) => q \in doc'[k]
    BY <1>1, <2>2, <2>3 DEF Recorded
  <2>5. \A q \in Request : pc'[q] = "write" /\ Of(q)' \in Named =>
          seen'[q] \subseteq doc'[RecordOf(Of(q)')]
    BY <1>1, <2>2 DEF Recorded
  <2>6. QED
    BY <1>1, <2>2, <2>4, <2>5 DEF Recorded, Precedes, RecordOf
<1>3. CASE \E r \in Request : Frame(r)
  BY <1>1, <1>3, RecordedFrame
<1>4. CASE \E k \in Rates : /\ doc' = [doc EXCEPT ![k] = {}]
                            /\ window' = [window EXCEPT ![k] = {}]
                            /\ UNCHANGED <<job, pc, at, seen, tries>>
  <2>1. \A k \in Records \cup Named : doc'[k] = doc[k]
    BY <1>a, <1>4 DEF TypeOK, Rates, Records, Named, Indexes, Docs, Shared
  <2>2. UNCHANGED <<job, pc, at, seen>> /\ \A q \in Request : Of(q)' = Of(q)
    BY <1>4 DEF Of
  <2>3. QED
    BY <1>1, <2>1, <2>2, NamesRecords DEF Recorded, Precedes, RecordOf
<1>5. CASE UNCHANGED vars
  BY <1>1, <1>5 DEF vars, Recorded, Precedes, RecordOf, Of
<1>6. QED
  BY <1>1, <1>2, <1>3, <1>4, <1>5, NextCases

\* An index, a count or a last check never names what has no record, wherever a
\* request fails (the order of the writes of push_review_item,
\* create_hypothesis, check_hypothesis and record_feedback_event).
THEOREM ListedRecordedHolds == Spec => []ListedRecorded
<1>1. Init => Typed /\ Recorded
  BY TypedInit, RecordedInit
<1>2. Typed /\ Recorded /\ [Next]_vars => (Typed /\ Recorded)'
  BY TypedStep, RecordedStep
<1>3. Recorded => ListedRecorded
  <2>1. SUFFICES ASSUME Recorded PROVE ListedRecorded
    OBVIOUS
  <2>2. \A k \in Named : doc[k] \subseteq doc[RecordOf(k)]
    BY <2>1 DEF Recorded
  <2>3. QED
    BY <2>2 DEF Named, Indexes, RecordOf, ListedRecorded
<1>4. QED
  BY <1>1, <1>2, <1>3, PTL DEF Spec

-----------------------------------------------------------------------------
(* What was acknowledged                                                   *)

\* What a request leaves behind at a step that it passed.
Kept(r, n) ==
  LET s == Steps(job[r])[n]
  IN /\ s[1] \in {"put", "add", "push"} =>
          r \in doc[s[2]] \/ (s[2] = "byCase" /\ CaseDeleted)
     /\ s[1] = "claim" => \E q \in doc[s[2]] : job[q] = job[r]

\* With one instance, every step that was passed is still kept.
PassedKept ==
  /\ \A r \in Request : pc[r] = "ok" => at[r] = Len(Steps(job[r])) + 1
  /\ \A r \in Request : job[r] \in Job => at[r] \in 1 .. Len(Steps(job[r])) + 1
  /\ OneInstance => \A r \in Request :
       /\ job[r] \in Job => \A n \in 1 .. at[r] - 1 : Kept(r, n)
       /\ pc[r] = "verify" => r \in doc[Of(r)]

\* Whoever has a step on a document has arrived.
LEMMA UsesArrived ==
  ASSUME Typed, NEW r \in Request, NEW k, Uses(r, k)
  PROVE  pc[r] # "off" /\ job[r] \in Job
<1>1. Steps(NoJob) = << >>
  BY DEF Steps, NoJob
<1>2. job[r] # NoJob
  BY <1>1 DEF Uses
<1>3. QED
  BY <1>2 DEF Typed

LEMMA OneInstanceAlone ==
  ASSUME Typed, OneInstance, NEW r \in Request, pc[r] # "off", NEW k
  PROVE  ~Foreign(r, k)
BY UsesArrived DEF Foreign, OneInstance

\* The documents that Kept is about are those that EntriesKept is about.
LEMMA KeptDocs ==
  ASSUME Typed, NEW r \in Request, job[r] \in Job, NEW n \in 1 .. Len(Steps(job[r])),
         Steps(job[r])[n][1] \in {"put", "add", "push", "claim"}
  PROVE  /\ Steps(job[r])[n][2] \in Docs \ (Replaced \cup Rates)
         /\ Steps(job[r])[n][1] \in {"push", "claim"} => Steps(job[r])[n][2] # "byCase"
<1>1. Shape(job[r], n)
  BY StepShape
<1>2. Steps(job[r])[n][2] \in Records \cup Indexes \cup {"queue", "owner"}
  BY <1>1 DEF Shape, Indexes
<1>3. \A k \in Records \cup Indexes \cup {"queue", "owner"} :
        /\ k \in Docs /\ k \notin Rates /\ k \notin Request /\ k # "lastCheck"
  BY RequestAssumption DEF Docs, Shared, Rates, Records, Indexes
<1>4. Steps(job[r])[n][1] \in {"push", "claim"} => Steps(job[r])[n][2] # "byCase"
  BY <1>1 DEF Shape
<1>5. Steps(job[r])[n][2] \in Docs \ (Replaced \cup Rates)
  BY <1>2, <1>3 DEF Replaced
<1>6. QED
  BY <1>4, <1>5

\* A request that has ended does not go on, and jobs do not change.
LEMMA DeletedStays ==
  ASSUME Typed, NEW r \in Request, Frame(r)
  PROVE  /\ CaseDeleted => CaseDeleted'
         /\ How(r) = "clear" => CaseDeleted'
<1>1. /\ UNCHANGED job /\ pc' = [pc EXCEPT ![r] = pc'[r]] /\ pc[r] \notin Ended
  BY DEF Frame, Active, Blocks, Ended
<1>2. CaseDeleted => CaseDeleted'
  BY <1>1 DEF CaseDeleted, Typed, TypeOK
<1>3. How(r) = "clear" => CaseDeleted'
  BY <1>1, ClearEnds DEF CaseDeleted
<1>4. QED
  BY <1>2, <1>3

\* A step of the one instance takes no entry from these documents, but for the
\* deletion of the index of a case.
LEMMA NothingLost ==
  ASSUME Typed, Entries, OneInstance, NEW r \in Request, Frame(r),
         NEW k \in Docs \ (Replaced \cup Rates)
  PROVE  doc[k] \subseteq doc'[k] \/ (k = "byCase" /\ CaseDeleted')
<1>1. pc[r] \in Active /\ pc[r] # "off"
  BY DEF Frame, Active, Blocks
<1>2. CASE UNCHANGED doc
  BY <1>2
<1>3. CASE Stores(r) /\ Of(r) # k
  BY <1>1, <1>3, StoreFacts DEF Stores
<1>4. CASE Stores(r) /\ Of(r) = k /\ How(r) # "clear"
  BY <1>1, <1>4, StoreKeeps, OneInstanceAlone
<1>5. CASE How(r) = "clear" /\ Of(r) = k
  BY <1>5, ClearEnds, DeletedStays
<1>6. QED
  BY <1>2, <1>3, <1>4, <1>5 DEF Frame

LEMMA PassedKeptFrame ==
  ASSUME Typed, Entries, PassedKept, NEW r \in Request, Frame(r)
  PROVE  PassedKept'
<1>a. TypeOK
  BY DEF Typed
<1>b. /\ pc[r] \in Active /\ Of(r) \in Docs /\ job[r] \in Job
      /\ at[r] \in 1 .. Len(Steps(job[r])) /\ at[r] \in 1 .. 6
      /\ Len(Steps(job[r])) \in 1 .. 5
  BY <1>a, CurrentShape DEF Frame, TypeOK
<1>1. /\ \A q \in Request \ {r} : pc'[q] = pc[q] /\ at'[q] = at[q]
      /\ UNCHANGED job
      /\ \A q \in Request : job'[q] = job[q]
  BY <1>a DEF Frame, TypeOK
<1>2. \A q \in Request : pc'[q] = "ok" => at'[q] = Len(Steps(job'[q])) + 1
  <2>1. pc'[r] = "ok" => at'[r] = Len(Steps(job[r])) + 1
    BY DEF Frame
  <2>2. QED
    BY <1>1, <2>1 DEF PassedKept
<1>3. OneInstance' => OneInstance
  BY <1>1, <1>b DEF OneInstance, Frame, Active, Blocks, Ended
<1>4. ASSUME OneInstance, NEW q \in Request, job[q] \in Job,
             NEW n \in 1 .. Len(Steps(job[q])), Kept(q, n)
      PROVE  Kept(q, n)'
  <2> DEFINE s == Steps(job[q])[n]
  <2>1. s[1] \in {"put", "add", "push", "claim"} =>
          doc[s[2]] \subseteq doc'[s[2]] \/ (s[2] = "byCase" /\ CaseDeleted' /\ s[1] # "claim")
    <3>1. s[1] \in {"put", "add", "push", "claim"} =>
            doc[s[2]] \subseteq doc'[s[2]] \/ (s[2] = "byCase" /\ CaseDeleted')
      BY <1>4, KeptDocs, NothingLost
    <3>2. s[1] = "claim" => s[2] # "byCase"
      BY <1>4, KeptDocs
    <3>3. QED
      BY <3>1, <3>2
  <2>2. Steps(job'[q])[n] = s
    BY <1>1
  <2>3. s[1] \in {"put", "add", "push"} =>
          q \in doc'[s[2]] \/ (s[2] = "byCase" /\ CaseDeleted')
    BY <1>4, <2>1, DeletedStays DEF Kept
  <2>4. s[1] = "claim" => \E o \in doc'[s[2]] : job'[o] = job'[q]
    <3>1. SUFFICES ASSUME s[1] = "claim" PROVE \E o \in doc'[s[2]] : job'[o] = job'[q]
      OBVIOUS
    <3>2. PICK o \in doc[s[2]] : job[o] = job[q]
      BY <1>4, <3>1 DEF Kept
    <3>3. o \in doc'[s[2]]
      BY <2>1, <3>1, <3>2
    <3>4. QED
      BY <1>1, <3>2, <3>3
  <2>5. QED
    BY <2>2, <2>3, <2>4 DEF Kept
<1>5. ASSUME OneInstance, Passed(r), NEW n, n = at[r]
      PROVE  Kept(r, n)'
  <2>1. How(r) = "push" => r \in doc'[Of(r)]
    <3>1. CASE How(r) = "push" /\ pc[r] = "verify"
      <4>1. r \in doc[Of(r)]
        BY <1>5, <3>1 DEF PassedKept
      <4>2. Of(r) \in Docs \ (Replaced \cup Rates)
        BY <1>b, <3>1, KeptDocs DEF How, Of
      <4>3. Of(r) # "byCase"
        BY <1>b, <3>1, KeptDocs DEF How, Of
      <4>4. QED
        BY <1>5, <4>1, <4>2, <4>3, NothingLost
    <3>2. QED
      BY <1>5, <3>1 DEF Passed
  <2>2. How(r) \in {"put", "add", "push"} => r \in doc'[Of(r)]
    BY <1>5, <2>1 DEF Passed
  <2>3. job' = job
    BY <1>1
  <2>4. How(r) = "claim" => \E q \in doc'[Of(r)] : job'[q] = job'[r]
    BY <1>5, <2>3 DEF Passed
  <2>5. /\ Steps(job[r])[n] = Steps(job'[r])[n]
        /\ Steps(job[r])[n][1] = How(r) /\ Steps(job[r])[n][2] = Of(r)
    BY <1>5, <2>3 DEF How, Of
  <2>6. QED
    BY <2>2, <2>3, <2>4, <2>5 DEF Kept
<1>6. \A q \in Request : job'[q] \in Job => at'[q] \in 1 .. Len(Steps(job'[q])) + 1
  <2>1. at'[r] \in 1 .. Len(Steps(job[r])) + 1
    BY <1>b DEF Frame
  <2>2. QED
    BY <1>1, <2>1 DEF PassedKept
<1>7. ASSUME OneInstance, NEW q \in Request, job'[q] \in Job, NEW n \in 1 .. at'[q] - 1
      PROVE  Kept(q, n)'
  <2>1. job[q] \in Job
    BY <1>1, <1>7
  <2>2. CASE n \in 1 .. at[q] - 1
    <3>1. Kept(q, n)
      BY <1>7, <2>1, <2>2 DEF PassedKept
    <3>2. Len(Steps(job[q])) \in 1 .. 5 /\ at[q] \in 1 .. Len(Steps(job[q])) + 1
      BY <2>1, StepShape DEF PassedKept
    <3>3. n \in 1 .. Len(Steps(job[q]))
      BY <2>2, <3>2
    <3>4. QED
      BY <1>4, <1>7, <2>1, <3>1, <3>3
  <2>3. CASE n \notin 1 .. at[q] - 1
    <3>1. q = r
      BY <1>1, <1>7, <2>3
    <3>2. at'[r] = at[r] + 1 /\ Passed(r)
      BY <1>7, <2>3, <3>1 DEF Frame
    <3>3. n = at[r]
      BY <1>b, <1>7, <2>3, <3>1, <3>2
    <3>4. QED
      BY <1>5, <1>7, <3>1, <3>2, <3>3
  <2>4. QED
    BY <2>2, <2>3
<1>8. ASSUME OneInstance, NEW q \in Request, pc'[q] = "verify"
      PROVE  q \in doc'[Of(q)']
  <2>1. CASE q = r
    BY <1>1, <1>8, <2>1 DEF Frame, Blocks, Of
  <2>2. CASE q # r
    <3>1. pc[q] = "verify" /\ Of(q)' = Of(q) /\ q \in doc[Of(q)]
      BY <1>1, <1>8, <2>2 DEF Of, PassedKept
    <3>2. pc[q] \in Active /\ How(q) = "push"
      BY <3>1 DEF Active, Blocks, Typed
    <3>3. job[q] \in Job /\ at[q] \in 1 .. Len(Steps(job[q]))
      BY <3>2, CurrentShape
    <3>4. Of(q) \in Docs \ (Replaced \cup Rates) /\ Of(q) # "byCase"
      BY <3>2, <3>3, KeptDocs DEF How, Of
    <3>5. QED
      BY <1>8, <3>1, <3>4, NothingLost
  <2>3. QED
    BY <2>1, <2>2
<1>9. OneInstance' => \A q \in Request :
        /\ job'[q] \in Job => \A n \in 1 .. at'[q] - 1 : Kept(q, n)'
        /\ pc'[q] = "verify" => q \in doc'[Of(q)']
  BY <1>1, <1>3, <1>7, <1>8
<1>10. QED
  BY <1>2, <1>6, <1>9 DEF PassedKept, Kept

\* What has arrived keeps its job, so that what is kept stays kept as long as no
\* document shrinks but the rate counters.
LEMMA PassedKeptSame ==
  ASSUME Typed, Entries, PassedKept, TypeOK,
         \A k \in Docs \ Rates : doc'[k] = doc[k],
         \A q \in Request : pc[q] # "off" =>
           pc'[q] = pc[q] /\ job'[q] = job[q] /\ at'[q] = at[q],
         \A q \in Request : pc[q] = "off" =>
           /\ pc'[q] \in {"off", "go"} /\ at'[q] = 1
           /\ job'[q] \in Job \cup {NoJob}
  PROVE  PassedKept'
<1>1. ASSUME NEW q \in Request, pc[q] # "off", job[q] \in Job,
             NEW n \in 1 .. at[q] - 1, Kept(q, n)
      PROVE  Kept(q, n)'
  <2> DEFINE s == Steps(job[q])[n]
  <2>1. Len(Steps(job[q])) \in 1 .. 5 /\ at[q] \in 1 .. Len(Steps(job[q])) + 1
    BY <1>1, StepShape DEF PassedKept
  <2>2. n \in 1 .. Len(Steps(job[q]))
    BY <1>1, <2>1
  <2>3. s[1] \in {"put", "add", "push", "claim"} => s[2] \in Docs /\ doc'[s[2]] = doc[s[2]]
    BY <1>1, <2>2, KeptDocs
  <2>4. Steps(job'[q])[n] = s /\ job'[q] = job[q]
    BY <1>1
  <2>5. s[1] = "claim" => \E o \in doc'[s[2]] : job'[o] = job'[q]
    <3>1. SUFFICES ASSUME s[1] = "claim" PROVE \E o \in doc'[s[2]] : job'[o] = job'[q]
      OBVIOUS
    <3>2. PICK o \in doc[s[2]] : job[o] = job[q]
      BY <1>1, <3>1 DEF Kept
    <3>3. o \in Request /\ Uses(o, s[2])
      BY <2>3, <3>1 DEF Entries, TypeOK
    <3>4. job'[o] = job[o]
      BY <3>3, UsesArrived
    <3>5. QED
      BY <2>3, <2>4, <3>1, <3>2, <3>4
  <2>6. s[1] \in {"put", "add", "push"} =>
          q \in doc'[s[2]] \/ (s[2] = "byCase" /\ CaseDeleted')
    <3>1. CaseDeleted => CaseDeleted'
      BY DEF CaseDeleted, Ended
    <3>2. QED
      BY <1>1, <2>3, <3>1 DEF Kept
  <2>7. QED
    BY <2>4, <2>5, <2>6 DEF Kept
<1>2. OneInstance' => OneInstance
  BY DEF OneInstance
<1>3. ASSUME OneInstance, NEW q \in Request
      PROVE  /\ job'[q] \in Job => \A n \in 1 .. at'[q] - 1 : Kept(q, n)'
             /\ pc'[q] = "verify" => q \in doc'[Of(q)']
  <2>1. CASE pc[q] = "off"
    BY <2>1
  <2>2. CASE pc[q] # "off"
    <3>1. /\ pc'[q] = pc[q] /\ job'[q] = job[q] /\ at'[q] = at[q] /\ Of(q)' = Of(q)
          /\ job[q] \in Job
      BY <2>2 DEF Of, Typed
    <3>2. pc[q] = "verify" => q \in doc'[Of(q)]
      <4>1. SUFFICES ASSUME pc[q] = "verify" PROVE q \in doc'[Of(q)]
        OBVIOUS
      <4>2. pc[q] \in Active /\ How(q) = "push" /\ q \in doc[Of(q)]
        BY <1>3, <4>1 DEF Active, Blocks, Typed, PassedKept
      <4>3. at[q] \in 1 .. Len(Steps(job[q]))
        BY <4>2, CurrentShape
      <4>4. Of(q) \in Docs \ Rates
        BY <3>1, <4>2, <4>3, KeptDocs DEF How, Of
      <4>5. QED
        BY <4>2, <4>4
    <3>3. \A n \in 1 .. at[q] - 1 : Kept(q, n)
      BY <1>3, <3>1 DEF PassedKept
    <3>4. \A n \in 1 .. at[q] - 1 : Kept(q, n)'
      BY <1>1, <2>2, <3>1, <3>3
    <3>5. QED
      BY <3>1, <3>2, <3>4 DEF Kept
  <2>3. QED
    BY <2>1, <2>2
<1>4. \A q \in Request : /\ pc'[q] = "ok" => at'[q] = Len(Steps(job'[q])) + 1
                         /\ job'[q] \in Job => at'[q] \in 1 .. Len(Steps(job'[q])) + 1
  <2>1. SUFFICES ASSUME NEW q \in Request
                 PROVE  /\ pc'[q] = "ok" => at'[q] = Len(Steps(job'[q])) + 1
                        /\ job'[q] \in Job => at'[q] \in 1 .. Len(Steps(job'[q])) + 1
    OBVIOUS
  <2>2. CASE pc[q] = "off"
    <3>1. job'[q] \in Job => Len(Steps(job'[q])) \in 1 .. 5
      BY StepShape
    <3>2. QED
      BY <2>2, <3>1
  <2>3. CASE pc[q] # "off"
    BY <2>3 DEF PassedKept
  <2>4. QED
    BY <2>2, <2>3
<1>5. QED
  BY <1>2, <1>3, <1>4 DEF PassedKept, Kept

LEMMA PassedKeptStep == Typed /\ Entries /\ PassedKept /\ [Next]_vars => PassedKept'
<1>1. SUFFICES ASSUME Typed, Entries, PassedKept, [Next]_vars PROVE PassedKept'
  OBVIOUS
<1>a. TypeOK
  BY <1>1 DEF Typed
<1>b. \A q \in Request : pc[q] = "off" => job[q] = NoJob /\ at[q] = 1
  BY <1>1 DEF Typed
<1>2. CASE \E r \in Request : Arrive(r)
  <2>1. PICK r \in Request : Arrive(r)
    BY <1>2
  <2>2. /\ UNCHANGED <<doc, at>>
        /\ pc[r] = "off" /\ pc'[r] = "go" /\ job'[r] \in Job
        /\ \A q \in Request \ {r} : pc'[q] = pc[q] /\ job'[q] = job[q]
    BY <1>1, <1>a, <2>1, ArriveFacts DEF TypeOK
  <2>3. QED
    BY <1>1, <1>a, <1>b, <2>2, PassedKeptSame
<1>3. CASE \E r \in Request : Frame(r)
  BY <1>1, <1>3, PassedKeptFrame
<1>4. CASE \E k \in Rates : /\ doc' = [doc EXCEPT ![k] = {}]
                            /\ window' = [window EXCEPT ![k] = {}]
                            /\ UNCHANGED <<job, pc, at, seen, tries>>
  <2>1. \A k \in Docs \ Rates : doc'[k] = doc[k]
    BY <1>a, <1>4 DEF TypeOK
  <2>2. QED
    BY <1>1, <1>a, <1>b, <1>4, <2>1, PassedKeptSame
<1>5. CASE UNCHANGED vars
  BY <1>1, <1>a, <1>b, <1>5, PassedKeptSame DEF vars
<1>6. QED
  BY <1>1, <1>2, <1>3, <1>4, <1>5, NextCases

\* While one instance serves the requests, what was acknowledged can be found
\* (push_review_item, create_hypothesis, record_feedback_event,
\* _authorize_session).
THEOREM AcknowledgedListedHolds == Spec => []AcknowledgedListed
<1>1. Init => Typed /\ Entries /\ PassedKept
  <2>1. Init => PassedKept
    <3>1. NoJob \notin Job
      BY DEF NoJob, Job
    <3>2. QED
      BY <3>1 DEF Init, PassedKept
  <2>2. QED
    BY <2>1, TypedInit, EntriesInit
<1>2. Typed /\ Entries /\ PassedKept /\ [Next]_vars => (Typed /\ Entries /\ PassedKept)'
  BY TypedStep, EntriesStep, PassedKeptStep
<1>3. Typed /\ PassedKept => AcknowledgedListed
  <2>1. SUFFICES ASSUME Typed, PassedKept, OneInstance, NEW r \in Request, pc[r] = "ok",
                        NEW i \in DOMAIN Steps(job[r])
                 PROVE  Kept(r, i)
    BY DEF AcknowledgedListed, Kept
  <2>2. /\ job[r] \in Job
        /\ Len(Steps(job[r])) \in 1 .. 5
        /\ i \in 1 .. Len(Steps(job[r]))
        /\ at[r] = Len(Steps(job[r])) + 1
    BY <2>1, StepShape DEF Typed, PassedKept
  <2>3. i \in 1 .. at[r] - 1
    BY <2>2
  <2>4. QED
    BY <2>1, <2>2, <2>3 DEF PassedKept
<1>4. QED
  BY <1>1, <1>2, <1>3, PTL DEF Spec
-----------------------------------------------------------------------------
(* Trust                                                                   *)

Counting == {"trust", "narrow"}

\* With one instance, a block that extends a count has read what is stored when it
\* writes.
ReadCurrent ==
  OneInstance => \A r \in Request :
    pc[r] = "write" /\ Of(r) \in Counting => seen[r] = doc[Of(r)]

\* No block of the one instance works on the count that another block has read.
LEMMA ReadStays ==
  ASSUME Typed, Entries, OneInstance, NEW r \in Request, Frame(r),
         NEW q \in Request \ {r}, pc[q] = "write", Of(q) \in Counting
  PROVE  doc'[Of(q)] = doc[Of(q)]
<1>1. /\ pc[r] \in Active /\ pc[q] \in Active /\ pc[q] \in Blocks
      /\ pc[r] # "off" /\ pc[q] # "off"
  BY DEF Frame, Active, Blocks
<1>2. Home[r] = Home[q]
  BY <1>1 DEF OneInstance
<1>3. CASE UNCHANGED doc
  BY <1>3
<1>4. CASE Stores(r)
  <2>1. Of(r) # Of(q)
    <3>1. CASE How(r) \in Blind
      <4>1. CASE How(r) = "clear"
        BY <4>1, ClearEnds DEF Counting
      <4>2. CASE How(r) # "clear"
        BY <1>1, <3>1, <4>2, BlindApart DEF Typed
      <4>3. QED
        BY <4>1, <4>2
    <3>2. CASE pc[r] = "write"
      BY <1>1, <1>2, <3>2 DEF Entries, Blocks
    <3>3. QED
      BY <1>4, <3>1, <3>2 DEF Stores
  <2>2. Of(q) \in Docs
    BY <1>1, CurrentShape
  <2>3. QED
    BY <1>1, <1>4, <2>1, <2>2, StoreFacts DEF Stores
<1>5. QED
  BY <1>3, <1>4 DEF Frame

LEMMA OneInstanceBefore == Typed /\ [Next]_vars /\ OneInstance' => OneInstance
<1>1. SUFFICES ASSUME Typed, [Next]_vars PROVE \A q \in Request : pc[q] # "off" => pc'[q] # "off"
  BY DEF OneInstance
<1>a. TypeOK
  BY <1>1 DEF Typed
<1>2. CASE \E r \in Request : Arrive(r)
  BY <1>1, <1>2, <1>a, ArriveFacts DEF TypeOK
<1>3. CASE \E r \in Request : Frame(r)
  BY <1>1, <1>3, <1>a DEF Frame, TypeOK, Active, Blocks, Ended
<1>4. CASE UNCHANGED pc
  BY <1>4
<1>5. QED
  BY <1>1, <1>2, <1>3, <1>4, NextCases DEF vars

LEMMA ReadCurrentStep == Typed /\ Entries /\ ReadCurrent /\ [Next]_vars => ReadCurrent'
<1>1. SUFFICES ASSUME Typed, Entries, ReadCurrent, [Next]_vars, OneInstance',
                      NEW q \in Request, pc'[q] = "write", Of(q)' \in Counting
               PROVE  seen'[q] = doc'[Of(q)']
  BY DEF ReadCurrent
<1>a. TypeOK /\ OneInstance
  BY <1>1, OneInstanceBefore DEF Typed
<1>2. ASSUME pc[q] = "write", UNCHANGED <<job, seen>>, at'[q] = at[q], doc'[Of(q)] = doc[Of(q)]
      PROVE  seen'[q] = doc'[Of(q)']
  BY <1>1, <1>a, <1>2 DEF ReadCurrent, How, Of
<1>3. CASE \E r \in Request : Arrive(r)
  <2>1. PICK r \in Request : Arrive(r)
    BY <1>3
  <2>2. /\ UNCHANGED <<doc, at, seen>> /\ q # r /\ pc[q] = "write"
        /\ job'[q] = job[q]
    BY <1>1, <1>a, <2>1, ArriveFacts DEF TypeOK
  <2>3. QED
    BY <1>1, <1>a, <2>2 DEF ReadCurrent, How, Of
<1>4. CASE \E r \in Request : Frame(r)
  <2>1. PICK r \in Request : Frame(r)
    BY <1>4
  <2>2. CASE q = r
    BY <1>1, <2>1, <2>2 DEF Frame, Blocks, Of
  <2>3. CASE q # r
    <3>1. pc[q] = "write" /\ seen'[q] = seen[q] /\ at'[q] = at[q] /\ UNCHANGED job
      BY <1>1, <1>a, <2>1, <2>3 DEF Frame, TypeOK
    <3>2. doc'[Of(q)] = doc[Of(q)]
      BY <1>1, <1>a, <2>1, <2>3, <3>1, ReadStays DEF Of
    <3>3. QED
      BY <1>1, <1>a, <3>1, <3>2 DEF ReadCurrent, How, Of
  <2>4. QED
    BY <2>2, <2>3
<1>5. CASE \E k \in Rates : /\ doc' = [doc EXCEPT ![k] = {}]
                            /\ window' = [window EXCEPT ![k] = {}]
                            /\ UNCHANGED <<job, pc, at, seen, tries>>
  <2>1. pc[q] = "write" /\ Of(q) \in Counting
    BY <1>1, <1>5 DEF Of
  <2>2. Of(q) \in Docs
    BY <2>1 DEF Counting, Docs, Shared
  <2>3. Of(q) \notin Rates
    BY <2>1 DEF Counting, Rates
  <2>4. doc'[Of(q)] = doc[Of(q)]
    BY <1>a, <1>5, <2>3 DEF TypeOK
  <2>5. QED
    BY <1>2, <1>5, <2>1, <2>4
<1>6. CASE UNCHANGED vars
  BY <1>1, <1>2, <1>6 DEF vars
<1>7. QED
  BY <1>1, <1>3, <1>4, <1>5, <1>6, NextCases

\* The arithmetic of the smoothed trust: one sample more, with the floor of 0.3.
Ratio(num, den) ==
  IF 10 * num < 3 * den THEN [num |-> 3, den |-> 10] ELSE [num |-> num, den |-> den]

LEMMA RatioFalls ==
  ASSUME NEW n \in Nat, NEW d \in Nat
  PROVE  AtMost(Ratio(n, d + 10), Ratio(n, d))
<1>1. CASE 10 * n < 3 * d
  BY <1>1 DEF Ratio, AtMost
<1>2. CASE ~(10 * n < 3 * d) /\ 10 * n < 3 * (d + 10)
  BY <1>2 DEF Ratio, AtMost
<1>3. CASE ~(10 * n < 3 * d) /\ ~(10 * n < 3 * (d + 10))
  <2>1. n * d <= n * (d + 10)
    OBVIOUS
  <2>2. QED
    BY <1>3, <2>1 DEF Ratio, AtMost
<1>4. QED
  BY <1>1, <1>2, <1>3

LEMMA RatioRises ==
  ASSUME NEW n \in Nat, NEW d \in Nat, n <= d
  PROVE  AtMost(Ratio(n, d), Ratio(n + 10, d + 10))
<1>1. CASE 10 * (n + 10) < 3 * (d + 10)
  BY <1>1 DEF Ratio, AtMost
<1>2. CASE 10 * n < 3 * d /\ ~(10 * (n + 10) < 3 * (d + 10))
  BY <1>2 DEF Ratio, AtMost
<1>3. CASE ~(10 * n < 3 * d) /\ ~(10 * (n + 10) < 3 * (d + 10))
  <2>1. n * (d + 10) <= (n + 10) * d
    <3>1. n * (d + 10) = n * d + 10 * n /\ (n + 10) * d = n * d + 10 * d
      OBVIOUS
    <3>2. QED
      BY <3>1
  <2>2. QED
    BY <1>3, <2>1 DEF Ratio, AtMost
<1>4. QED
  BY <1>1, <1>2, <1>3

LEMMA RatioSame ==
  ASSUME NEW n \in Nat, NEW d \in Nat
  PROVE  AtMost(Ratio(n, d), Ratio(n, d))
BY DEF Ratio, AtMost

\* The counts behind the trust.
Good(S) == 10 * Cardinality(Confirmations(S)) + 7 * PriorStrength
All(S) == 10 * (Cardinality(S) + PriorStrength)

LEMMA Counts ==
  ASSUME NEW S \in SUBSET Request
  PROVE  /\ IsFiniteSet(S) /\ IsFiniteSet(Confirmations(S))
         /\ Good(S) \in Nat /\ All(S) \in Nat /\ Good(S) <= All(S)
         /\ Smoothed(S) = Ratio(Good(S), All(S))
<1>1. Confirmations(S) \subseteq S
  BY DEF Confirmations
<1>2. /\ IsFiniteSet(S) /\ IsFiniteSet(Confirmations(S))
      /\ Cardinality(Confirmations(S)) <= Cardinality(S)
      /\ Cardinality(S) \in Nat /\ Cardinality(Confirmations(S)) \in Nat
  BY <1>1, RequestAssumption, FS_Subset, FS_CardinalityType
<1>3. Good(S) \in Nat /\ All(S) \in Nat /\ Good(S) <= All(S)
  BY <1>2, BoundsAssumption DEF Good, All
<1>4. Smoothed(S) = Ratio(Good(S), All(S))
  BY DEF Smoothed, Ratio, Good, All
<1>5. QED
  BY <1>2, <1>3, <1>4

\* One verdict more moves the trust its own way.
LEMMA VerdictMoves ==
  ASSUME NEW S \in SUBSET Request, NEW r \in Request
  PROVE  IF job[r].rejects THEN AtMost(Smoothed(S \cup {r}), Smoothed(S))
         ELSE AtMost(Smoothed(S), Smoothed(S \cup {r}))
<1>0. S \cup {r} \in SUBSET Request
  OBVIOUS
<1>1. CASE r \in S
  <2>1. S \cup {r} = S
    BY <1>1
  <2>2. AtMost(Smoothed(S), Smoothed(S))
    BY Counts, RatioSame
  <2>3. QED
    BY <2>1, <2>2
<1>2. CASE r \notin S
  <2>1. Cardinality(S \cup {r}) = Cardinality(S) + 1 /\ Cardinality(S) \in Nat
    BY <1>2, Counts, FS_AddElement, FS_CardinalityType
  <2>2. All(S \cup {r}) = All(S) + 10
    BY <2>1, BoundsAssumption DEF All
  <2>3. CASE job[r].rejects
    <3>1. Confirmations(S \cup {r}) = Confirmations(S)
      BY <2>3 DEF Confirmations
    <3>2. Good(S \cup {r}) = Good(S)
      BY <3>1 DEF Good
    <3>3. QED
      BY <1>0, <2>2, <2>3, <3>2, Counts, RatioFalls
  <2>4. CASE ~job[r].rejects
    <3>1. Confirmations(S \cup {r}) = Confirmations(S) \cup {r} /\ r \notin Confirmations(S)
      BY <1>2, <2>4 DEF Confirmations
    <3>2. /\ Cardinality(Confirmations(S \cup {r})) = Cardinality(Confirmations(S)) + 1
          /\ Cardinality(Confirmations(S)) \in Nat
      BY <3>1, Counts, FS_AddElement, FS_CardinalityType
    <3>3. Good(S \cup {r}) = Good(S) + 10
      BY <3>2, BoundsAssumption DEF Good
    <3>4. QED
      BY <1>0, <2>2, <2>4, <3>3, Counts, RatioRises
  <2>5. QED
    BY <2>3, <2>4
<1>3. QED
  BY <1>1, <1>2

LEMMA TrustStep ==
  ASSUME Typed, Entries, ReadCurrent, [Next]_vars, OneInstance,
         NarrowApplies' = NarrowApplies, NEW r \in Request,
         Writes(r, "trust") \/ Writes(r, "narrow")
  PROVE  IF job[r].rejects THEN AtMost(Weight', Weight) ELSE AtMost(Weight, Weight')
<1>a. TypeOK
  BY DEF Typed
<1>1. /\ pc[r] = "write" /\ pc'[r] # "write"
      /\ pc[r] \in Active /\ Of(r) \in {"trust", "narrow"}
  BY DEF Writes, Active, Blocks
<1>2. Frame(r)
  <2>1. pc' # pc
    BY <1>1
  <2>2. CASE \E q \in Request : Arrive(q)
    BY <1>1, <1>a, <2>2, ArriveFacts DEF TypeOK
  <2>3. CASE \E q \in Request : Frame(q)
    BY <1>1, <1>a, <2>3 DEF Frame, TypeOK
  <2>4. QED
    BY <2>1, <2>2, <2>3, NextCases DEF vars
<1>3. How(r) = "add"
  BY <1>1, RequestAssumption, CurrentShape DEF Shape, How, Of, Records, Rates, Shared, Typed,
     Blocks, Blind
<1>4. seen[r] = doc[Of(r)]
  BY <1>1 DEF ReadCurrent, Counting
<1>5. UNCHANGED job
  BY <1>2 DEF Frame
<1>6. {"trust", "narrow"} \subseteq Docs
  BY DEF Docs, Shared
<1>7. CASE UNCHANGED doc
  <2>1. Weight' = Weight
    BY <1>5, <1>7 DEF Weight, NarrowApplies, Smoothed, Confirmations
  <2>2. AtMost(Weight, Weight)
    BY <1>a, <1>6, Counts, RatioSame DEF Weight, TypeOK
  <2>3. QED
    BY <2>1, <2>2
<1>8. CASE Stores(r)
  <2>1. /\ doc'[Of(r)] = doc[Of(r)] \cup {r}
        /\ \A k \in Docs : k # Of(r) => doc'[k] = doc[k]
    BY <1>1, <1>3, <1>4, <1>8, StoreFacts DEF Stores, Written
  <2>2. PICK k \in {"trust", "narrow"} :
          /\ Weight = Smoothed(doc[k])
          /\ Weight' = Smoothed(doc'[k])
    BY <1>5 DEF Weight, Smoothed, Confirmations
  <2>3. doc[k] \in SUBSET Request
    BY <1>a, <1>6 DEF TypeOK
  <2>4. CASE k = Of(r)
    BY <2>1, <2>2, <2>3, <2>4, VerdictMoves
  <2>5. CASE k # Of(r)
    <3>1. AtMost(Smoothed(doc[k]), Smoothed(doc[k]))
      BY <2>3, Counts, RatioSame
    <3>2. QED
      BY <1>6, <2>1, <2>2, <2>5, <3>1
  <2>6. QED
    BY <2>4, <2>5
<1>9. QED
  BY <1>2, <1>7, <1>8 DEF Frame

\* While one instance serves the requests, feedback moves the trust weight its own
\* way, for any prior and any number of samples (get_trust_weight, _smoothed_trust,
\* record_feedback_event).
THEOREM TrustFollowsHolds == Spec => TrustFollows
<1>1. Init => Typed /\ Entries /\ ReadCurrent
  <2>1. Init => ReadCurrent
    BY DEF Init, ReadCurrent
  <2>2. QED
    BY <2>1, TypedInit, EntriesInit
<1>2. Typed /\ Entries /\ ReadCurrent /\ [Next]_vars => (Typed /\ Entries /\ ReadCurrent)'
  BY TypedStep, EntriesStep, ReadCurrentStep
<1>3. Typed /\ Entries /\ ReadCurrent /\ [Next]_vars =>
        [OneInstance /\ NarrowApplies' = NarrowApplies =>
           \A r \in Request :
             Writes(r, "trust") \/ Writes(r, "narrow") =>
               IF job[r].rejects THEN AtMost(Weight', Weight) ELSE AtMost(Weight, Weight')]_vars
  BY TrustStep
<1>4. QED
  BY <1>1, <1>2, <1>3, PTL DEF Spec, TrustFollows
=============================================================================
