--------------------------- MODULE CaseStoreProofs ---------------------------
(***************************************************************************)
(* Theorems about CaseStore for any requests, officers and sessions.       *)
(* Typed says where a request of each kind can be and what it has read;    *)
(* Frame what one step leaves alone.  Guarded, Current and Kept are        *)
(* inductive on top of them and give the properties of the runs.           *)
(***************************************************************************)
EXTENDS CaseStore, TLAPS

-----------------------------------------------------------------------------
(* Where a request can be                                                  *)

Inside == {"requireLocked", "read", "write", "unindex"}

\* r is inside its block under the case lock.
InBlock(r) == pc[r] \in Inside \/ (pc[r] = "purge" /\ op[r] = "deleteCase")

OnSessions == {"createSession", "deleteSession", "patchSession", "query"}
ReadFirst == {"createSession", "deleteSession", "patchSession", "pin", "unpin"}

\* The arguments that a handler has, and the awaits it goes through.
Routed(r) ==
  /\ op[r] = "none" <=> pc[r] = "off"
  /\ op[r] = "addCollaborator" => target[r] \in Officer
  /\ op[r] \in OnSessions => session[r] \in Session
  /\ pc[r] = "getMeta" => op[r] \in {"deleteSession", "patchSession", "query"}
  /\ pc[r] = "require" => op[r] \in {"createSession", "query"}
  /\ pc[r] = "putMeta" => op[r] = "createSession"
  /\ pc[r] = "lock" => op[r] # "query"
  /\ pc[r] = "requireLocked" => op[r] \notin {"query", "createSession"}
  /\ pc[r] = "read" => op[r] \in ReadFirst \cup {"deleteCase"}
  /\ pc[r] = "write" => op[r] \in ReadFirst \cup {"addCollaborator", "putLayout"}
  /\ pc[r] = "unindex" => op[r] = "deleteCase"
  /\ pc[r] \in {"purge", "broken"} => op[r] \in {"deleteSession", "deleteCase"}
  /\ pc[r] = "index" => op[r] = "addCollaborator"
  /\ pc[r] = "append" => op[r] = "query"

\* What it holds in its locals there.
Loaded(r) ==
  /\ pc[r] = "unindex" => seen[r] \subseteq Officer
  /\ pc[r] = "write" =>
       /\ op[r] = "addCollaborator" => seen[r] \subseteq Officer
       /\ op[r] \in {"createSession", "deleteSession"} => seen[r] \subseteq Session
       /\ op[r] \in {"pin", "unpin"} => seen[r] \subseteq Request
  /\ pc[r] \notin {"purge", "broken"} => todo[r] = {}
  /\ op[r] = "deleteSession" => todo[r] \subseteq SessionItems({session[r]})

Typed ==
  /\ TypeOK
  /\ \A r \in Request : Routed(r) /\ Loaded(r) /\ (InBlock(r) <=> holder = r)

\* What a step of r leaves alone.
Frame(r) ==
  /\ pc[r] \notin {"off", "ok", "error"} /\ pc'[r] # "off"
  /\ UNCHANGED argVars
  /\ \A q \in Request \ {r} : pc'[q] = pc[q] /\ seen'[q] = seen[q] /\ todo'[q] = todo[q]
  /\ \A q \in Request \ {r} : holder' = q <=> holder = q

LEMMA TypedInit == Init => Typed
BY CreatorAssumption, NoValueAssumption
   DEF Init, Typed, TypeOK, Routed, Loaded, InBlock, Inside, OnSessions, Ops

\* The requests that do not move keep what Typed says of them.
LEMMA TypedFrame ==
  ASSUME Typed, NEW r \in Request, Frame(r), TypeOK',
         Routed(r)', Loaded(r)', InBlock(r)' <=> holder' = r
  PROVE  Typed'
<1>1. ASSUME NEW q \in Request \ {r}
      PROVE  Routed(q)' /\ Loaded(q)' /\ (InBlock(q)' <=> holder' = q)
  BY DEF Frame, argVars, Typed, Routed, Loaded, InBlock, OnSessions, ReadFirst
<1>2. QED
  BY <1>1 DEF Typed

LEMMA ArriveTyped ==
  ASSUME Typed, NEW r \in Request, Arrive(r)
  PROVE  Typed'
<1>a. TypeOK /\ Routed(r) /\ Loaded(r) /\ holder # r
  BY DEF Typed, Arrive, OnCase, Unpin, AddCollaborator, CreateSession, OnSession, Begin,
         InBlock, Inside
<1>1. PICK o \in Officer, name \in Ops, first \in {"lock", "require", "getMeta"} :
        /\ Begin(r, name, o, first)
        /\ first = "lock" => name \notin OnSessions
        /\ first = "require" => name = "createSession"
        /\ first = "getMeta" => name \in OnSessions \ {"createSession"}
        /\ \/ UNCHANGED <<target, session, pin>> /\ name \notin OnSessions \cup {"addCollaborator"}
           \/ /\ \E p \in Request : pin' = [pin EXCEPT ![r] = p]
              /\ UNCHANGED <<target, session>>
              /\ name = "unpin"
           \/ /\ \E u \in Officer : target' = [target EXCEPT ![r] = u]
              /\ UNCHANGED <<session, pin>>
              /\ name = "addCollaborator"
           \/ /\ \E s \in Session : session' = [session EXCEPT ![r] = s]
              /\ UNCHANGED <<target, pin>>
              /\ name \in OnSessions
  BY DEF Arrive, OnCase, Unpin, AddCollaborator, CreateSession, OnSession, OnSessions, Ops
<1>2. TypeOK'
  BY <1>a, <1>1 DEF Begin, Goto, TypeOK, docVars, Locked, Inside
<1>3. Routed(r)' /\ Loaded(r)' /\ ~InBlock(r)' /\ holder' # r
  BY <1>a, <1>1 DEF Begin, Goto, TypeOK, Routed, Loaded, InBlock, Inside, OnSessions, Ops
<1>4. ASSUME NEW q \in Request \ {r}
      PROVE  Routed(q)' /\ Loaded(q)' /\ (InBlock(q)' <=> holder' = q)
  <2>1. /\ pc'[q] = pc[q] /\ op'[q] = op[q] /\ seen'[q] = seen[q] /\ todo'[q] = todo[q]
        /\ target'[q] = target[q] /\ session'[q] = session[q] /\ holder' = holder
    BY <1>a, <1>1 DEF Begin, Goto, TypeOK
  <2>2. QED
    BY <2>1 DEF Typed, Routed, Loaded, InBlock, OnSessions
<1>5. QED
  BY <1>2, <1>3, <1>4 DEF Typed

\* The documents keep their types, whatever write a request is at.
LEMMA EffectTyped ==
  ASSUME Typed, NEW r \in Request, UNCHANGED docVars \/ Effect(r)
  PROVE  /\ collaborators' \subseteq Officer
         /\ sessions' \subseteq Session /\ meta' \subseteq Session /\ hist' \subseteq Session
         /\ board' \subseteq Request
         /\ layout' \in Request \cup {NoRequest}
         /\ indexed' \subseteq Officer
<1>a. TypeOK /\ Routed(r) /\ Loaded(r)
  BY DEF Typed
<1>1. CASE UNCHANGED docVars
  BY <1>a, <1>1 DEF TypeOK, docVars
<1>2. CASE pc[r] = "putMeta" /\ MetaPut(r)
  BY <1>a, <1>2 DEF TypeOK, Routed, MetaPut, OnSessions
<1>3. CASE pc[r] = "write" /\ BlockPut(r)
  <2>1. op[r] \in ReadFirst \cup {"addCollaborator", "putLayout"}
    BY <1>a, <1>3 DEF Routed
  <2>2. CASE op[r] \in {"createSession", "deleteSession"}
    BY <1>a, <1>3, <2>2 DEF TypeOK, Routed, Loaded, BlockPut, SessionsPut, NewSessions, OnSessions
  <2>3. CASE op[r] \in {"pin", "unpin"}
    BY <1>a, <1>3, <2>3 DEF TypeOK, Loaded, BlockPut, BoardPut
  <2>4. CASE op[r] = "putLayout"
    BY <1>a, <1>3, <2>4 DEF TypeOK, BlockPut, LayoutPut
  <2>5. CASE op[r] = "patchSession"
    BY <1>a, <1>3, <2>5 DEF TypeOK, Routed, BlockPut, MetaPut, OnSessions
  <2>6. CASE op[r] = "addCollaborator"
    BY <1>a, <1>3, <2>6 DEF TypeOK, Routed, Loaded, BlockPut, CasePut
  <2>7. QED
    BY <2>1, <2>2, <2>3, <2>4, <2>5, <2>6 DEF ReadFirst
<1>4. CASE pc[r] = "index" /\ IndexPut(indexed \cup {target[r]})
  BY <1>a, <1>4 DEF TypeOK, Routed, IndexPut
<1>5. CASE pc[r] = "unindex" /\ \E u \in seen[r] : IndexPut(indexed \ {u})
  BY <1>a, <1>5 DEF TypeOK, IndexPut
<1>6. CASE pc[r] = "append" /\ HistoryPut(r)
  BY <1>a, <1>6 DEF TypeOK, Routed, HistoryPut, OnSessions
<1>7. QED
  BY <1>1, <1>2, <1>3, <1>4, <1>5, <1>6 DEF Effect

LEMMA DeleteTyped ==
  ASSUME TypeOK, NEW i, UNCHANGED docVars \/ Delete(i)
  PROVE  /\ collaborators' \subseteq Officer
         /\ sessions' \subseteq Session /\ meta' \subseteq Session /\ hist' \subseteq Session
         /\ board' \subseteq Request
         /\ layout' \in Request \cup {NoRequest}
         /\ indexed' \subseteq Officer
<1>1. CASE UNCHANGED docVars
  BY <1>1 DEF TypeOK, docVars
<1>2. CASE Delete(i)
  BY <1>2 DEF TypeOK, Delete
<1>3. QED
  BY <1>1, <1>2

\* Each step has a frame and leads its request to where Typed expects it.
LEMMA StepTyped ==
  ASSUME Typed, NEW r \in Request, Step(r)
  PROVE  Frame(r) /\ Typed'
<1>a. TypeOK /\ Routed(r) /\ Loaded(r) /\ (InBlock(r) <=> holder = r)
  BY DEF Typed
<1>b. NoRequest \notin Request
  BY NoValueAssumption
<1> DEFINE Fine == /\ Frame(r) /\ TypeOK'
                   /\ Routed(r)' /\ Loaded(r)' /\ (InBlock(r)' <=> holder' = r)
<1>1. ASSUME GetMeta(r) PROVE Fine
  BY <1>a, <1>1 DEF GetMeta, Goto, Frame, TypeOK, docVars, argVars, Routed, Loaded, InBlock,
     Inside, OnSessions, Locked, Ended
<1>2. ASSUME Require(r) PROVE Fine
  BY <1>a, <1>2 DEF Require, Goto, Frame, TypeOK, docVars, argVars, Routed, Loaded, InBlock,
     Inside, OnSessions, Locked, Ended
<1>3. ASSUME PutMeta(r) PROVE Fine
  BY <1>a, <1>3, EffectTyped DEF PutMeta, Goto, Frame, TypeOK, argVars, Routed, Loaded,
     InBlock, Inside, OnSessions, Locked, Ended
<1>4. ASSUME Acquire(r) PROVE Fine
  BY <1>a, <1>b, <1>4 DEF Acquire, LockFree, Goto, Frame, TypeOK, docVars, argVars, Routed, Loaded,
     InBlock, Inside, OnSessions, Locked, Ended, ReadFirst
<1>5. ASSUME RequireLocked(r) PROVE Fine
  BY <1>a, <1>b, <1>5 DEF RequireLocked, End, Unlock, See, Goto, Frame, TypeOK, docVars, argVars,
     Routed, Loaded, InBlock, Inside, OnSessions, Locked, Ended, ReadFirst, Ops
<1>6. ASSUME ReadBlock(r) PROVE Fine
  BY <1>a, <1>b, <1>6 DEF ReadBlock, End, Unlock, See, Goto, Frame, TypeOK, docVars, argVars,
     Routed, Loaded, InBlock, Inside, OnSessions, Locked, Ended, ReadFirst
<1>7. ASSUME WriteBlock(r) PROVE Fine
  BY <1>a, <1>b, <1>7, EffectTyped DEF WriteBlock, End, Unlock, Goto, Frame, TypeOK, argVars,
     Routed, Loaded, InBlock, Inside, OnSessions, Locked, Ended, ReadFirst, SessionItems
<1>8. ASSUME Unindex(r) PROVE Fine
  BY <1>a, <1>8 DEF Unindex, IndexPut, See, Goto, Frame, TypeOK, argVars,
     Routed, Loaded, InBlock, Inside, OnSessions, Locked, Ended, ReadFirst
<1>9. ASSUME PlanPurge(r) PROVE Fine
  BY <1>a, <1>9 DEF PlanPurge, Goto, Frame, TypeOK, docVars, argVars,
     Routed, Loaded, InBlock, Inside, OnSessions, Locked, Ended, ReadFirst, SessionItems
<1>10. ASSUME Purge(r) PROVE Fine
  <2>1. PICK i \in todo[r] :
          /\ Delete(i)
          /\ todo' = [todo EXCEPT ![r] = @ \ {i}]
          /\ IF pc[r] = "purge" /\ todo[r] = {i} THEN End(r, "ok") ELSE UNCHANGED <<pc, holder>>
    BY <1>10 DEF Purge
  <2>2. pc[r] \in {"purge", "broken"} /\ UNCHANGED <<argVars, seen>>
    BY <1>10 DEF Purge
  <2>3. TypeOK'
    BY <1>a, <1>b, <2>1, <2>2, DeleteTyped DEF End, Unlock, Goto, TypeOK, argVars, Locked, Ended
  <2>4. todo'[r] = todo[r] \ {i}
    BY <1>a, <2>1 DEF TypeOK
  <2>5. CASE pc[r] = "purge" /\ todo[r] = {i}
    <3>1. todo'[r] = {} /\ End(r, "ok")
      BY <2>1, <2>4, <2>5
    <3>2. QED
      BY <1>a, <1>b, <2>1, <2>2, <2>3, <2>5, <3>1 DEF End, Unlock, Goto, Frame, TypeOK, argVars,
         Routed, Loaded, InBlock, Inside, OnSessions
  <2>6. CASE ~(pc[r] = "purge" /\ todo[r] = {i})
    BY <1>a, <2>1, <2>2, <2>3, <2>4, <2>6 DEF Frame, TypeOK, argVars,
       Routed, Loaded, InBlock, Inside, OnSessions
  <2>7. QED
    BY <2>5, <2>6
<1>11. ASSUME PurgeRaises(r) PROVE Fine
  <2>1. PICK i \in todo[r] :
          /\ UNCHANGED docVars \/ Delete(i)
          /\ todo' = [todo EXCEPT ![r] = @ \ {i}]
    BY <1>11 DEF PurgeRaises
  <2>2. /\ pc[r] \in {"purge", "broken"}
        /\ End(r, "broken")
        /\ UNCHANGED <<argVars, seen>>
    BY <1>11 DEF PurgeRaises
  <2>3. TypeOK'
    BY <1>a, <1>b, <2>1, <2>2, DeleteTyped DEF End, Unlock, Goto, TypeOK, argVars, Locked, Ended
  <2>4. /\ pc'[r] = "broken" /\ holder' # r /\ todo'[r] \subseteq todo[r]
        /\ \A q \in Request \ {r} :
             pc'[q] = pc[q] /\ todo'[q] = todo[q] /\ (holder' = q <=> holder = q)
    BY <1>a, <1>b, <2>1, <2>2 DEF End, Unlock, Goto, TypeOK
  <2>5. Frame(r)
    BY <2>2, <2>4 DEF Frame
  <2>6. Routed(r)' /\ Loaded(r)' /\ ~InBlock(r)'
    BY <1>a, <2>2, <2>4 DEF Routed, Loaded, InBlock, Inside, OnSessions, argVars
  <2>7. QED
    BY <2>3, <2>4, <2>5, <2>6
<1>12. ASSUME Index(r) PROVE Fine
  BY <1>a, <1>12, EffectTyped DEF Index, Goto, Frame, TypeOK, argVars, Routed, Loaded,
     InBlock, Inside, OnSessions, Locked, Ended
<1>13. ASSUME AppendTurn(r) PROVE Fine
  BY <1>a, <1>13, EffectTyped DEF AppendTurn, Goto, Frame, TypeOK, argVars, Routed, Loaded,
     InBlock, Inside, OnSessions, Locked, Ended
<1>14. ASSUME Fail(r) PROVE Fine
  BY <1>a, <1>b, <1>14, EffectTyped DEF Fail, End, Unlock, Goto, Frame, TypeOK, argVars,
     Routed, Loaded, InBlock, Inside, OnSessions, Locked, Ended, ReadFirst
<1>15. Fine
  BY <1>1, <1>2, <1>3, <1>4, <1>5, <1>6, <1>7, <1>8, <1>9, <1>10, <1>11, <1>12, <1>13, <1>14
     DEF Step
<1>16. QED
  BY <1>15, TypedFrame

LEMMA TypedInvariant == Spec => []Typed
<1>1. Typed /\ [Next]_vars => Typed'
  <2> SUFFICES ASSUME Typed, [Next]_vars PROVE Typed'
    OBVIOUS
  <2>1. CASE UNCHANGED vars
    BY <2>1 DEF vars, docVars, argVars, Typed, TypeOK, Routed, Loaded, InBlock
  <2>2. CASE Next
    BY <2>2, ArriveTyped, StepTyped DEF Next
  <2>3. QED
    BY <2>1, <2>2
<1>2. QED
  BY <1>1, TypedInit, PTL DEF Spec

\* The documents and the requests are type-correct, and the case lock is never
\* left behind by a request that went on (End, Unlock: every return and raise of
\* the handlers of cases.py and sessions.py).
THEOREM TypeCorrect == Spec => []TypeOK
<1>1. Typed => TypeOK
  BY DEF Typed
<1>2. QED
  BY <1>1, TypedInvariant, PTL

-----------------------------------------------------------------------------
(* The board                                                               *)

ItemOf(kind) == [kind |-> kind, of |-> NoSession]

Planned(r) == op[r] = "deleteCase" /\ pc[r] = "purge"

\* A handler that has passed the check under the lock is still authorised, and
\* a deletion has taken from the board what it has done of its plan.
Guarded ==
  /\ \A r \in Request : pc[r] \in {"read", "write"} /\ op[r] \notin {"createSession", "deleteCase"} =>
       Authorised(r)
  /\ \A r \in Request : Planned(r) =>
       /\ board = {} \/ ItemOf("board") \in todo[r]
       /\ layout = NoRequest \/ ItemOf("layout") \in todo[r]
  /\ BoardGoesWithCase

GuardedOrBroken == BrokenOff \/ Guarded

\* A deletion of a session leaves the documents of the case alone.
LEMMA DeletesKind ==
  ASSUME Typed, NEW r \in Request, NEW i \in todo[r]
  PROVE  /\ pc[r] \in {"purge", "broken"}
         /\ op[r] = "deleteCase" \/ (i.kind \in {"meta", "hist"} /\ i.of = session[r])
BY DEF Typed, Routed, Loaded, SessionItems

\* The documents of the case do not change under a request that is in its block,
\* as long as no deletion has broken off.
LEMMA BlockHeld ==
  ASSUME Typed, NEW r \in Request, Step(r), NEW q \in Request \ {r}, InBlock(q)
  PROVE  UNCHANGED <<collaborators, sessions, board, layout>> \/ BrokenOff
<1>1. ~InBlock(r) /\ pc[r] # "write"
  BY DEF Typed, InBlock, Inside
<1>2. CASE UNCHANGED docVars
  BY <1>2 DEF docVars
<1>3. CASE Effect(r)
  BY <1>1, <1>3 DEF Effect, MetaPut, IndexPut, HistoryPut
<1>4. CASE \E i \in todo[r] : Delete(i)
  <2>1. PICK i \in todo[r] : Delete(i)
    BY <1>4
  <2>2. CASE op[r] = "deleteCase"
    BY <1>1, <2>2, DeletesKind DEF InBlock, BrokenOff
  <2>3. CASE i.kind \in {"meta", "hist"}
    BY <2>1, <2>3 DEF Delete
  <2>4. QED
    BY <2>2, <2>3, DeletesKind
<1>5. UNCHANGED docVars \/ Effect(r) \/ \E i \in todo[r] : Delete(i)
  BY DEF Step, GetMeta, Require, PutMeta, Acquire, RequireLocked, ReadBlock, WriteBlock,
     Unindex, PlanPurge, Purge, PurgeRaises, Index, AppendTurn, Fail, Effect
<1>6. QED
  BY <1>2, <1>3, <1>4, <1>5

LEMMA BrokenStays ==
  ASSUME Typed, NEW r \in Request, Arrive(r) \/ Step(r), BrokenOff
  PROVE  BrokenOff'
<1>1. PICK d \in Request : op[d] = "deleteCase" /\ pc[d] = "broken"
  BY DEF BrokenOff
<1>2. CASE Arrive(r)
  BY <1>1, <1>2 DEF Arrive, OnCase, Unpin, AddCollaborator, CreateSession, OnSession, Begin, Goto,
     BrokenOff, Typed, TypeOK
<1>3. CASE Step(r) /\ d # r
  BY <1>1, <1>3, StepTyped DEF Frame, argVars, BrokenOff
<1>4. CASE Step(r) /\ d = r
  <2>1. pc'[r] = "broken"
    BY <1>1, <1>4 DEF Step, GetMeta, Require, PutMeta, Acquire, RequireLocked, ReadBlock, WriteBlock,
       Unindex, PlanPurge, Purge, PurgeRaises, Index, AppendTurn, Fail, End, Goto, Typed, TypeOK, Ended
  <2>2. QED
    BY <1>1, <1>4, <2>1, StepTyped DEF Frame, argVars, BrokenOff
<1>5. QED
  BY <1>2, <1>3, <1>4

\* How a step may change the documents of the case: by the write of its block, or
\* by one of its planned deletions.
Writes(r) == pc[r] = "write" /\ holder = r /\ BlockPut(r)

Deletes(r, i) ==
  /\ Delete(i)
  /\ pc[r] \in {"purge", "broken"}
  /\ todo'[r] = todo[r] \ {i}
  /\ \/ pc'[r] = "broken"
     \/ pc'[r] = pc[r]
     \/ todo[r] = {i} /\ pc'[r] = "ok"

LEMMA HowDocumentsChange ==
  ASSUME Typed, NEW r \in Request, Step(r)
  PROVE  \/ UNCHANGED <<collaborators, sessions, board, layout>>
         \/ Writes(r)
         \/ \E i \in todo[r] : Deletes(r, i)
<1>a. TypeOK /\ (InBlock(r) <=> holder = r)
  BY DEF Typed
<1>1. CASE UNCHANGED docVars
  BY <1>1 DEF docVars
<1>2. CASE Effect(r)
  BY <1>a, <1>2 DEF Effect, MetaPut, IndexPut, HistoryPut, Writes, InBlock, Inside
<1>3. CASE Purge(r)
  BY <1>a, <1>3 DEF Purge, Deletes, End, Goto, TypeOK
<1>4. CASE PurgeRaises(r)
  BY <1>a, <1>4 DEF PurgeRaises, Deletes, End, Goto, TypeOK, docVars
<1>5. QED
  BY <1>1, <1>2, <1>3, <1>4 DEF Step, GetMeta, Require, PutMeta, Acquire, RequireLocked, ReadBlock,
     WriteBlock, Unindex, PlanPurge, Index, AppendTurn, Fail, Effect

\* A request passes the check under the lock while the case is there.
LEMMA EntersGuarded ==
  ASSUME Typed, NEW r \in Request, Step(r), pc'[r] \in {"read", "write"},
         op[r] \notin {"createSession", "deleteCase"}
  PROVE  /\ UNCHANGED docVars
         /\ Authorised(r) \/ pc[r] \in {"read", "write"}
BY DEF Typed, TypeOK, Routed, Step, GetMeta, Require, PutMeta, Acquire, RequireLocked, ReadBlock,
   WriteBlock, Unindex, PlanPurge, Purge, PurgeRaises, Index, AppendTurn, Fail, End, Goto, See,
   Ended, docVars

\* A deletion plans every document of the case before it deletes the first.
LEMMA EntersPlan ==
  ASSUME Typed, NEW r \in Request, Step(r), pc'[r] = "purge", op[r] = "deleteCase"
  PROVE  \/ pc[r] = "purge"
         \/ UNCHANGED docVars /\ todo'[r] = CaseItems \cup SessionItems(sessions)
BY DEF Typed, TypeOK, Routed, Step, GetMeta, Require, PutMeta, Acquire, RequireLocked, ReadBlock,
   WriteBlock, Unindex, PlanPurge, Purge, PurgeRaises, Index, AppendTurn, Fail, End, Goto, See,
   Ended, docVars

\* When the case is gone, what is left of its board is still planned for deletion.
LEMMA BoardFollows ==
  ASSUME Typed, Guarded, NEW r \in Request, Step(r), ~BrokenOff'
  PROVE  BoardGoesWithCase'
<1> SUFFICES ASSUME collaborators' = {}, ~(board' = {} /\ layout' = NoRequest)
             PROVE  \E q \in Request : Planned(q)'
  BY DEF BoardGoesWithCase, Planned
<1>a. Typed' /\ Frame(r) /\ ~BrokenOff /\ op' = op
  BY BrokenStays, StepTyped DEF Frame, argVars
<1>1. CASE UNCHANGED <<collaborators, sessions, board, layout>>
  <2>1. PICK d \in Request : Planned(d)
    BY <1>a, <1>1 DEF Guarded, BoardGoesWithCase, Planned
  <2>2. CASE d # r
    BY <1>a, <2>1, <2>2 DEF Frame, Planned
  <2>3. CASE d = r /\ pc'[r] # "purge"
    <3>1. pc'[r] = "broken" \/ \E i \in todo[r] : todo[r] = {i} /\ Delete(i)
      BY <2>1, <2>3 DEF Planned, Typed, TypeOK, Routed, Step, GetMeta, Require, PutMeta, Acquire,
         RequireLocked, ReadBlock, WriteBlock, Unindex, PlanPurge, Purge, PurgeRaises, Index,
         AppendTurn, Fail, End, Goto
    <3>2. ~(pc'[r] = "broken")
      BY <1>a, <2>1, <2>3 DEF Planned, BrokenOff
    <3>3. PICK i \in todo[r] : todo[r] = {i} /\ Delete(i)
      BY <3>1, <3>2
    <3>4. board' = {} /\ layout' = NoRequest
      BY <2>1, <2>3, <3>3 DEF Guarded, Planned, Delete, ItemOf
    <3>5. QED
      BY <3>4
  <2>4. QED
    BY <1>a, <2>1, <2>2, <2>3 DEF Planned
<1>2. CASE Writes(r)
  <2>1. op[r] \in ReadFirst \cup {"addCollaborator", "putLayout"}
    BY <1>2 DEF Typed, Routed, Writes
  <2>2. op[r] # "createSession" => Authorised(r)
    BY <1>2, <2>1 DEF Guarded, Writes, ReadFirst
  <2>3. collaborators # {} => collaborators' # {}
    BY <1>2, <2>1 DEF Writes, BlockPut, SessionsPut, BoardPut, LayoutPut, CasePut, MetaPut, ReadFirst
  <2>4. op[r] = "createSession"
    BY <2>2, <2>3 DEF Authorised
  <2>5. UNCHANGED <<collaborators, board, layout>>
    BY <1>2, <2>4 DEF Writes, BlockPut, SessionsPut
  <2>6. PICK d \in Request : Planned(d)
    BY <1>a, <2>5 DEF Guarded, BoardGoesWithCase, Planned
  <2>7. d # r
    BY <1>2, <2>6 DEF Planned, Writes
  <2>8. QED
    BY <1>a, <2>6, <2>7 DEF Frame, Planned
<1>3. ASSUME NEW i \in todo[r], Deletes(r, i)
      PROVE  \E q \in Request : Planned(q)'
  <2>1. CASE op[r] = "deleteCase"
    <3>1. Planned(r)
      BY <1>a, <1>3, <2>1 DEF Deletes, Planned, BrokenOff
    <3>2. CASE todo[r] = {i}
      BY <1>3, <3>1, <3>2 DEF Guarded, Deletes, Delete, ItemOf
    <3>3. CASE pc'[r] = pc[r]
      BY <1>a, <3>1, <3>3 DEF Planned
    <3>4. pc'[r] # "broken"
      BY <1>a, <2>1 DEF BrokenOff
    <3>5. QED
      BY <1>3, <3>2, <3>3, <3>4 DEF Deletes
  <2>2. CASE op[r] # "deleteCase"
    <3>1. UNCHANGED <<collaborators, board, layout>>
      BY <1>3, <2>2, DeletesKind DEF Deletes, Delete
    <3>2. PICK d \in Request : Planned(d)
      BY <1>a, <3>1 DEF Guarded, BoardGoesWithCase, Planned
    <3>3. QED
      BY <1>a, <2>2, <3>2 DEF Frame, Planned
  <2>3. QED
    BY <2>1, <2>2
<1>4. QED
  BY <1>1, <1>2, <1>3, HowDocumentsChange

LEMMA StepGuarded ==
  ASSUME Typed, GuardedOrBroken, NEW r \in Request, Step(r)
  PROVE  GuardedOrBroken'
<1> SUFFICES ASSUME Guarded, ~BrokenOff' PROVE Guarded'
  BY BrokenStays DEF GuardedOrBroken
<1>a. Typed' /\ Frame(r) /\ ~BrokenOff /\ UNCHANGED argVars
  BY BrokenStays, StepTyped DEF Frame
<1>b. ASSUME NEW q \in Request \ {r}, InBlock(q)
      PROVE  /\ UNCHANGED <<collaborators, sessions, board, layout>>
             /\ pc'[q] = pc[q] /\ op'[q] = op[q] /\ officer'[q] = officer[q] /\ todo'[q] = todo[q]
  BY <1>a, <1>b, BlockHeld DEF Frame, argVars
<1>1. ASSUME NEW q \in Request, pc'[q] \in {"read", "write"},
             op'[q] \notin {"createSession", "deleteCase"}
      PROVE  Authorised(q)'
  <2>1. CASE q = r
    BY <1>a, <1>1, <2>1, EntersGuarded DEF Authorised, Guarded, docVars, argVars
  <2>2. CASE q # r
    <3>1. pc'[q] = pc[q] /\ op'[q] = op[q]
      BY <1>a, <2>2 DEF Frame, argVars
    <3>2. InBlock(q)
      BY <1>1, <3>1 DEF InBlock, Inside
    <3>3. QED
      BY <1>1, <1>b, <2>2, <3>1, <3>2 DEF Guarded, Authorised
  <2>3. QED
    BY <2>1, <2>2
<1>2. ASSUME NEW q \in Request, Planned(q)'
      PROVE  /\ board' = {} \/ ItemOf("board") \in todo'[q]
             /\ layout' = NoRequest \/ ItemOf("layout") \in todo'[q]
  <2>1. op'[q] = op[q]
    BY <1>a DEF argVars
  <2>2. CASE q = r
    <3>1. CASE UNCHANGED docVars /\ todo'[r] = CaseItems \cup SessionItems(sessions)
      BY <2>2, <3>1 DEF CaseItems, ItemOf
    <3>2. CASE pc[r] = "purge"
      <4>1. PICK i \in todo[r] : Delete(i) /\ todo' = [todo EXCEPT ![r] = @ \ {i}]
        BY <1>2, <2>2, <3>2 DEF Planned, Typed, TypeOK, Step, GetMeta, Require, PutMeta, Acquire,
           RequireLocked, ReadBlock, WriteBlock, Unindex, PlanPurge, Purge, PurgeRaises, Index,
           AppendTurn, Fail, End, Goto
      <4>2. todo'[r] = todo[r] \ {i}
        BY <4>1 DEF Typed, TypeOK
      <4>3. QED
        BY <1>2, <2>1, <2>2, <3>2, <4>1, <4>2 DEF Guarded, Planned, Delete, ItemOf
    <3>3. QED
      BY <1>2, <2>1, <2>2, <3>1, <3>2, EntersPlan DEF Planned
  <2>3. CASE q # r
    <3>1. Planned(q)
      BY <1>a, <1>2, <2>1, <2>3 DEF Frame, Planned
    <3>2. QED
      BY <1>b, <2>3, <3>1 DEF Guarded, InBlock, Planned
  <2>4. QED
    BY <2>2, <2>3
<1>3. QED
  BY <1>1, <1>2, BoardFollows DEF Guarded

\* An arrival changes no document and leaves the others where they are.
LEMMA ArriveFrame ==
  ASSUME Typed, NEW r \in Request, Arrive(r)
  PROVE  /\ UNCHANGED <<docVars, holder, seen, todo>>
         /\ pc[r] = "off" /\ pc'[r] \in {"lock", "require", "getMeta"}
         /\ \A q \in Request \ {r} :
              /\ pc'[q] = pc[q] /\ op'[q] = op[q] /\ officer'[q] = officer[q]
              /\ target'[q] = target[q] /\ session'[q] = session[q] /\ pin'[q] = pin[q]
BY DEF Typed, TypeOK, Arrive, OnCase, Unpin, AddCollaborator, CreateSession, OnSession, Begin, Goto

LEMMA ArriveGuarded ==
  ASSUME Typed, GuardedOrBroken, NEW r \in Request, Arrive(r)
  PROVE  GuardedOrBroken'
<1> SUFFICES ASSUME Guarded, ~BrokenOff' PROVE Guarded'
  BY BrokenStays DEF GuardedOrBroken
<1>a. ~BrokenOff
  BY BrokenStays
<1>b. UNCHANGED <<docVars, todo>>
  BY ArriveFrame
<1>1. ASSUME NEW q \in Request, pc'[q] \in {"read", "write"},
             op'[q] \notin {"createSession", "deleteCase"}
      PROVE  Authorised(q)'
  BY <1>1, <1>b, ArriveFrame DEF Guarded, Authorised, docVars
<1>2. ASSUME NEW q \in Request, Planned(q)'
      PROVE  Planned(q)
  BY <1>2, ArriveFrame DEF Planned
<1>3. BoardGoesWithCase'
  <2>1. ASSUME NEW q \in Request, Planned(q) PROVE Planned(q)'
    BY <2>1, ArriveFrame DEF Planned
  <2>2. QED
    BY <1>a, <1>b, <2>1 DEF Guarded, BoardGoesWithCase, Planned, docVars
<1>4. QED
  BY <1>1, <1>2, <1>3, <1>b DEF Guarded, docVars

LEMMA GuardedInvariant == Spec => []GuardedOrBroken
<1>1. Init => GuardedOrBroken
  BY DEF Init, GuardedOrBroken, Guarded, Planned, BoardGoesWithCase
<1>2. Typed /\ GuardedOrBroken /\ [Next]_vars => GuardedOrBroken'
  <2> SUFFICES ASSUME Typed, GuardedOrBroken, [Next]_vars PROVE GuardedOrBroken'
    OBVIOUS
  <2>1. CASE UNCHANGED vars
    BY <2>1 DEF vars, docVars, argVars, GuardedOrBroken, Guarded, BrokenOff, Planned, Authorised,
       BoardGoesWithCase
  <2>2. CASE Next
    BY <2>2, ArriveGuarded, StepGuarded DEF Next
  <2>3. QED
    BY <2>1, <2>2
<1>3. QED
  BY <1>1, <1>2, TypedInvariant, PTL DEF Spec

\* A deleted case leaves no board behind and nobody writes one later: pin_to_case_board,
\* unpin and the layout check the collaborator again under the case lock.
THEOREM BoardGoesWithCaseHolds == Spec => []BoardGoesWithCase
<1>1. GuardedOrBroken => BoardGoesWithCase
  BY DEF GuardedOrBroken, Guarded, BoardGoesWithCase
<1>2. QED
  BY <1>1, GuardedInvariant, PTL

\* A case that is gone does not come back: add_collaborator, the only handler that
\* writes "case:<id>", writes it in the block that has checked its officer.
THEOREM CaseStaysDeletedHolds == Spec => CaseStaysDeleted
<1>1. Typed /\ GuardedOrBroken /\ [Next]_vars
        => [collaborators = {} /\ ~BrokenOff => collaborators' = {}]_vars
  <2> SUFFICES ASSUME Typed, Guarded, NEW r \in Request, Arrive(r) \/ Step(r), collaborators = {}
               PROVE  collaborators' = {}
    BY DEF Next, GuardedOrBroken
  <2>1. CASE Arrive(r)
    BY <2>1, ArriveFrame DEF docVars
  <2>2. CASE Step(r) /\ Writes(r)
    <3>1. op[r] \in ReadFirst \cup {"addCollaborator", "putLayout"}
      BY <2>2 DEF Typed, Routed, Writes
    <3>2. op[r] = "createSession"
      BY <2>2, <3>1 DEF Guarded, Authorised, Writes, ReadFirst
    <3>3. QED
      BY <2>2, <3>2 DEF Writes, BlockPut, SessionsPut
  <2>3. CASE Step(r) /\ \E i \in todo[r] : Deletes(r, i)
    BY <2>3 DEF Deletes, Delete
  <2>4. QED
    BY <2>1, <2>2, <2>3, HowDocumentsChange
<1>2. QED
  BY <1>1, TypedInvariant, GuardedInvariant, PTL DEF Spec, CaseStaysDeleted

-----------------------------------------------------------------------------
(* The list of sessions                                                    *)

\* r has an id that is not listed yet.
Creating(r) ==
  op[r] = "createSession" /\ pc[r] \in {"require", "putMeta", "lock", "read", "write"}

SeenCurrent(r) ==
  pc[r] = "write" =>
    /\ op[r] \in {"createSession", "deleteSession"} => seen[r] = sessions
    /\ op[r] \in {"pin", "unpin"} => seen[r] = board
    /\ op[r] = "addCollaborator" => seen[r] = collaborators

\* A new id is nobody else's, planned for no deletion, and recorded before it is listed.
FreshId(r) ==
  Creating(r) =>
    /\ session[r] \notin sessions
    /\ \A q \in Request \ {r} : session[q] # session[r]
    /\ \A q \in Request : \A i \in todo[q] : i.of # session[r]
    /\ pc[r] \in {"lock", "read", "write"} => session[r] \in meta

\* A deleted session is taken off the list before its items are deleted.
UnlistedFirst(r) ==
  op[r] = "deleteSession" /\ pc[r] \in {"purge", "broken"} => session[r] \notin sessions

ListPlanned(r) == Planned(r) => sessions = {} \/ ItemOf("sessions") \in todo[r]

\* Every id was drawn by a creation.
Drawn(s) == s = NoSession \/ \E q \in Request : op[q] = "createSession" /\ session[q] = s

Current ==
  /\ \A r \in Request : SeenCurrent(r) /\ FreshId(r) /\ UnlistedFirst(r) /\ ListPlanned(r)
  /\ \A s \in sessions : Drawn(s)
  /\ \A r \in Request : op[r] \in OnSessions => Drawn(session[r])
  /\ \A r \in Request : \A i \in todo[r] : Drawn(i.of)
  /\ ListedHasMeta

CurrentOrBroken == BrokenOff \/ Current

\* A request comes to its write with what it has read in the step before.
LEMMA EntersWrite ==
  ASSUME Typed, NEW r \in Request, Step(r), pc'[r] = "write"
  PROVE  /\ UNCHANGED docVars /\ pc[r] # "write"
         /\ op[r] \in {"createSession", "deleteSession"} => seen'[r] = sessions
         /\ op[r] \in {"pin", "unpin"} => seen'[r] = board
         /\ op[r] = "addCollaborator" => seen'[r] = collaborators
<1>a. TypeOK /\ Routed(r)
  BY DEF Typed
<1>1. RequireLocked(r) \/ ReadBlock(r)
  BY <1>a DEF TypeOK, Step, GetMeta, Require, PutMeta, Acquire, WriteBlock,
     Unindex, PlanPurge, Purge, PurgeRaises, Index, AppendTurn, Fail, End, Goto, Ended
<1>2. CASE RequireLocked(r)
  BY <1>a, <1>2 DEF Routed, TypeOK, RequireLocked, End, Goto, See
<1>3. CASE ReadBlock(r)
  BY <1>a, <1>3 DEF Routed, TypeOK, ReadBlock, End, Goto, See, ReadFirst
<1>4. QED
  BY <1>1, <1>2, <1>3

\* The list grows by a new session only.
LEMMA HowSessionsGrow ==
  ASSUME Typed, Current, NEW r \in Request, Step(r)
  PROVE  \/ sessions' \subseteq sessions
         \/ /\ op[r] = "createSession" /\ pc[r] = "write"
            /\ sessions' = sessions \cup {session[r]}
            /\ meta' = meta
<1>1. CASE Writes(r)
  <2>1. op[r] \in ReadFirst \cup {"addCollaborator", "putLayout"}
    BY <1>1 DEF Typed, Routed, Writes
  <2>2. CASE op[r] \in {"createSession", "deleteSession"}
    <3>1. SessionsPut(r) /\ seen[r] = sessions
      BY <1>1, <2>2 DEF Writes, BlockPut, Current, SeenCurrent
    <3>2. QED
      BY <1>1, <2>2, <3>1 DEF SessionsPut, NewSessions, Writes
  <2>3. CASE op[r] \notin {"createSession", "deleteSession"}
    BY <1>1, <2>1, <2>3 DEF Writes, BlockPut, BoardPut, LayoutPut, CasePut, MetaPut, ReadFirst
  <2>4. QED
    BY <2>2, <2>3
<1>2. CASE \E i \in todo[r] : Deletes(r, i)
  BY <1>2 DEF Deletes, Delete
<1>3. QED
  BY <1>1, <1>2, HowDocumentsChange

\* A record goes only by a planned deletion.
LEMMA HowMetaShrinks ==
  ASSUME Typed, NEW r \in Request, Step(r), NEW s \in meta \ meta'
  PROVE  \E i \in todo[r] : Deletes(r, i) /\ i.kind = "meta" /\ i.of = s
<1>a. TypeOK
  BY DEF Typed
<1>1. CASE UNCHANGED docVars
  BY <1>1 DEF docVars
<1>2. CASE Effect(r)
  <2>1. pc[r] = "write" => op[r] \in ReadFirst \cup {"addCollaborator", "putLayout"}
    BY DEF Typed, Routed
  <2>2. QED
    BY <1>2, <2>1 DEF Effect, MetaPut, IndexPut, HistoryPut, BlockPut, SessionsPut, BoardPut, LayoutPut,
       CasePut, ReadFirst
<1>3. CASE Purge(r)
  BY <1>a, <1>3 DEF Purge, Deletes, Delete, End, Goto, TypeOK
<1>4. CASE PurgeRaises(r)
  BY <1>a, <1>4 DEF PurgeRaises, Deletes, Delete, End, Goto, TypeOK, docVars
<1>5. QED
  BY <1>1, <1>2, <1>3, <1>4 DEF Step, GetMeta, Require, PutMeta, Acquire, RequireLocked, ReadBlock,
     WriteBlock, Unindex, PlanPurge, Index, AppendTurn, Fail, Effect

\* Deletions are planned for the session of the request, or the sessions on the list.
LEMMA HowPlansGrow ==
  ASSUME Typed, NEW r \in Request, Step(r), NEW i \in todo'[r] \ todo[r]
  PROVE  \/ i.of = NoSession \/ i.of \in sessions
         \/ op[r] = "deleteSession" /\ i.of = session[r]
<1>a. TypeOK
  BY DEF Typed
<1>1. CASE UNCHANGED todo
  BY <1>1
<1>2. CASE Purge(r) \/ PurgeRaises(r)
  BY <1>a, <1>2 DEF Purge, PurgeRaises, TypeOK
<1>3. CASE PlanPurge(r)
  BY <1>a, <1>3 DEF PlanPurge, TypeOK, CaseItems, SessionItems
<1>4. CASE WriteBlock(r)
  BY <1>a, <1>4 DEF WriteBlock, TypeOK, SessionItems
<1>5. QED
  BY <1>1, <1>2, <1>3, <1>4 DEF Step, GetMeta, Require, PutMeta, Acquire, RequireLocked, ReadBlock,
     Unindex, Index, AppendTurn, Fail

\* The session of a creation is on nobody's plan and on nobody's list before its write.
LEMMA StepFresh ==
  ASSUME Typed, Current, ~BrokenOff', NEW r \in Request, Step(r), NEW q \in Request
  PROVE  FreshId(q)'
<1> SUFFICES ASSUME Creating(q)'
             PROVE  /\ session[q] \notin sessions'
                    /\ \A p \in Request \ {q} : session[p] # session[q]
                    /\ \A p \in Request : \A i \in todo'[p] : i.of # session[q]
                    /\ pc'[q] \in {"lock", "read", "write"} => session[q] \in meta'
  BY StepTyped DEF Frame, argVars, FreshId
<1>a. Typed' /\ Frame(r) /\ UNCHANGED argVars
  BY StepTyped DEF Frame
<1>1. Creating(q) /\ (q = r => pc[q] # "write")
  <2>1. CASE q # r
    BY <1>a, <2>1 DEF Frame, argVars, Creating
  <2>2. CASE q = r
    BY <1>a, <2>2 DEF argVars, Creating, Frame, Typed, TypeOK, Routed, Step, GetMeta, Require, PutMeta, Acquire,
       RequireLocked, ReadBlock, WriteBlock, Unindex, PlanPurge, Purge, PurgeRaises, Index,
       AppendTurn, Fail, End, Goto, Ended
  <2>3. QED
    BY <2>1, <2>2
<1>2. /\ session[q] \notin sessions
      /\ \A p \in Request \ {q} : session[p] # session[q]
      /\ \A p \in Request : \A i \in todo[p] : i.of # session[q]
      /\ pc[q] \in {"lock", "read", "write"} => session[q] \in meta
  BY <1>1 DEF Current, FreshId
<1>3. session[q] \notin sessions'
  BY <1>1, <1>2, HowSessionsGrow
<1>4. session[q] # NoSession
  BY <1>1, NoValueAssumption DEF Typed, Routed, Creating, OnSessions
<1>5. ASSUME NEW p \in Request, NEW i \in todo'[p] PROVE i.of # session[q]
  <2>1. CASE i \in todo[p]
    BY <1>2, <2>1
  <2>2. CASE i \notin todo[p]
    <3>1. p = r
      BY <1>a, <1>5, <2>2 DEF Frame
    <3>2. i.of = NoSession \/ i.of \in sessions \/ (op[r] = "deleteSession" /\ i.of = session[r])
      BY <1>5, <2>2, <3>1, HowPlansGrow
    <3>3. QED
      BY <1>1, <1>2, <1>4, <3>2 DEF Creating
  <2>3. QED
    BY <2>1, <2>2
<1>6. ASSUME pc'[q] \in {"lock", "read", "write"} PROVE session[q] \in meta'
  <2>1. CASE session[q] \in meta
    <3>1. session[q] \notin meta \ meta'
      BY <1>2, HowMetaShrinks
    <3>2. QED
      BY <2>1, <3>1
  <2>2. CASE session[q] \notin meta
    <3>1. pc[q] \notin {"lock", "read", "write"} /\ q = r
      BY <1>a, <1>2, <1>6, <2>2 DEF Frame
    <3>2. PutMeta(r)
      BY <1>1, <1>6, <3>1 DEF Creating, Typed, TypeOK, Routed, Step, GetMeta, Require, Acquire,
         RequireLocked, ReadBlock, WriteBlock, Unindex, PlanPurge, Purge, PurgeRaises, Index,
         AppendTurn, Fail, End, Goto, Ended
    <3>3. QED
      BY <3>1, <3>2 DEF PutMeta, Effect, MetaPut
  <2>3. QED
    BY <2>1, <2>2
<1>7. QED
  BY <1>2, <1>3, <1>5, <1>6

\* What is listed is recorded, but for a deletion of the case that is under way.
LEMMA StepListed ==
  ASSUME Typed, Current, ~BrokenOff', NEW r \in Request, Step(r)
  PROVE  ListedHasMeta'
<1>a. Typed' /\ Frame(r) /\ ~BrokenOff /\ UNCHANGED argVars
  BY BrokenStays, StepTyped DEF Frame
<1> SUFFICES ASSUME NEW s \in sessions' \ meta' PROVE \E q \in Request : Planned(q)'
  BY DEF ListedHasMeta, Planned
<1>1. ASSUME NEW d \in Request, Planned(d), ~Planned(d)' PROVE sessions' = {}
  <2>1. d = r
    BY <1>a, <1>1 DEF Frame, argVars, Planned
  <2>2. pc'[r] # "broken" /\ pc'[r] # "purge"
    BY <1>a, <1>1, <2>1 DEF BrokenOff, Planned, argVars
  <2>3. PICK i \in todo[r] : todo[r] = {i} /\ Delete(i)
    BY <1>1, <2>1, <2>2 DEF Planned, Typed, TypeOK, Routed, Step, GetMeta, Require, PutMeta, Acquire,
       RequireLocked, ReadBlock, WriteBlock, Unindex, PlanPurge, Purge, PurgeRaises, Index,
       AppendTurn, Fail, End, Goto
  <2>4. QED
    BY <1>1, <2>1, <2>3 DEF Current, ListPlanned, Delete, ItemOf
<1>2. CASE \E d \in Request : Planned(d)
  BY <1>1, <1>2
<1>3. CASE ~\E d \in Request : Planned(d)
  <2>1. sessions \subseteq meta
    BY <1>a, <1>3 DEF Current, ListedHasMeta, Planned
  <2>2. s \in sessions
    <3>1. CASE sessions' \subseteq sessions
      BY <3>1
    <3>2. CASE op[r] = "createSession" /\ pc[r] = "write" /\ sessions' = sessions \cup {session[r]} /\ meta' = meta
      BY <3>2 DEF Current, FreshId, Creating
    <3>3. QED
      BY <3>1, <3>2, HowSessionsGrow
  <2>3. PICK i \in todo[r] : Deletes(r, i) /\ i.kind = "meta" /\ i.of = s
    BY <2>1, <2>2, HowMetaShrinks
  <2>4. CASE op[r] = "deleteCase"
    BY <1>a, <1>3, <2>3, <2>4 DEF Deletes, Planned, BrokenOff
  <2>5. CASE op[r] # "deleteCase"
    <3>1. /\ pc[r] \in {"purge", "broken"} /\ s = session[r]
          /\ op[r] = "deleteSession"
      BY <2>3, <2>5, DeletesKind DEF Typed, Routed
    <3>2. QED
      BY <2>2, <3>1 DEF Current, UnlistedFirst
  <2>6. QED
    BY <2>4, <2>5
<1>4. QED
  BY <1>2, <1>3

LEMMA StepCurrent ==
  ASSUME Typed, CurrentOrBroken, NEW r \in Request, Step(r)
  PROVE  CurrentOrBroken'
<1> SUFFICES ASSUME Current, ~BrokenOff' PROVE Current'
  BY BrokenStays DEF CurrentOrBroken
<1>a. Typed' /\ Frame(r) /\ ~BrokenOff /\ UNCHANGED argVars
  BY BrokenStays, StepTyped DEF Frame
<1>b. ASSUME NEW q \in Request \ {r}, InBlock(q)
      PROVE  /\ UNCHANGED <<collaborators, sessions, board, layout>>
             /\ pc'[q] = pc[q] /\ seen'[q] = seen[q] /\ todo'[q] = todo[q]
  BY <1>a, <1>b, BlockHeld DEF Frame
<1>1. ASSUME NEW q \in Request PROVE SeenCurrent(q)'
  <2> SUFFICES ASSUME pc'[q] = "write" PROVE SeenCurrent(q)'
    BY DEF SeenCurrent
  <2>1. CASE q = r
    BY <1>a, <2>1, EntersWrite DEF SeenCurrent, docVars, argVars
  <2>2. CASE q # r
    <3>1. pc[q] = "write" /\ InBlock(q)
      BY <1>a, <2>2 DEF Frame, InBlock, Inside
    <3>2. QED
      BY <1>a, <1>b, <2>2, <3>1 DEF Current, SeenCurrent, argVars
  <2>3. QED
    BY <2>1, <2>2
<1>2. ASSUME NEW q \in Request PROVE FreshId(q)'
  BY StepFresh
<1>3. ASSUME NEW q \in Request PROVE UnlistedFirst(q)'
  <2> SUFFICES ASSUME op[q] = "deleteSession", pc'[q] \in {"purge", "broken"}
               PROVE  session[q] \notin sessions'
    BY <1>a DEF UnlistedFirst, argVars
  <2>1. CASE pc[q] \in {"purge", "broken"}
    <3>1. session[q] \notin sessions
      BY <2>1 DEF Current, UnlistedFirst
    <3>2. op[r] = "createSession" /\ pc[r] = "write" => session[r] # session[q]
      BY DEF Current, FreshId, Creating
    <3>3. QED
      BY <3>1, <3>2, HowSessionsGrow
  <2>2. CASE pc[q] \notin {"purge", "broken"}
    <3>1. q = r
      BY <1>a, <2>2 DEF Frame
    <3>2. WriteBlock(r)
      BY <2>2, <3>1 DEF Typed, TypeOK, Routed, Step, GetMeta, Require, PutMeta, Acquire,
         RequireLocked, ReadBlock, Unindex, PlanPurge, Purge, PurgeRaises, Index,
         AppendTurn, Fail, End, Goto, Ended
    <3>3. SessionsPut(r)
      BY <3>1, <3>2 DEF WriteBlock, Effect, BlockPut
    <3>4. QED
      BY <3>1, <3>3 DEF SessionsPut, NewSessions
  <2>3. QED
    BY <2>1, <2>2
<1>4. ASSUME NEW q \in Request PROVE ListPlanned(q)'
  <2> SUFFICES ASSUME Planned(q)'
               PROVE  sessions' = {} \/ ItemOf("sessions") \in todo'[q]
    BY DEF ListPlanned
  <2>1. CASE q = r
    <3>1. CASE UNCHANGED docVars /\ todo'[r] = CaseItems \cup SessionItems(sessions)
      BY <2>1, <3>1 DEF CaseItems, ItemOf
    <3>2. CASE pc[r] = "purge"
      <4>1. PICK i \in todo[r] : Delete(i) /\ todo' = [todo EXCEPT ![r] = @ \ {i}]
        BY <2>1, <3>2 DEF Planned, Typed, TypeOK, Step, GetMeta, Require, PutMeta, Acquire,
           RequireLocked, ReadBlock, WriteBlock, Unindex, PlanPurge, Purge, PurgeRaises, Index,
           AppendTurn, Fail, End, Goto
      <4>2. todo'[r] = todo[r] \ {i}
        BY <4>1 DEF Typed, TypeOK
      <4>3. Planned(r)
        BY <1>a, <2>1, <3>2 DEF Planned, argVars
      <4>4. QED
        BY <2>1, <4>1, <4>2, <4>3 DEF Current, ListPlanned, Delete, ItemOf
    <3>3. QED
      BY <1>a, <2>1, <3>1, <3>2, EntersPlan DEF Planned, argVars
  <2>2. CASE q # r
    <3>1. Planned(q)
      BY <1>a, <2>2 DEF Frame, Planned, argVars
    <3>2. QED
      BY <1>b, <2>2, <3>1 DEF Current, ListPlanned, InBlock, Planned
  <2>3. QED
    BY <2>1, <2>2
<1>5. \A s : Drawn(s)' <=> Drawn(s)
  BY <1>a DEF Drawn, argVars
<1>6. \A s \in sessions' : Drawn(s)
  BY HowSessionsGrow DEF Current, Drawn
<1>9. ASSUME NEW q \in Request, op'[q] \in OnSessions PROVE Drawn(session'[q])
  BY <1>a, <1>9 DEF Current, argVars
<1>7. ASSUME NEW q \in Request, NEW i \in todo'[q] PROVE Drawn(i.of)
  <2>1. CASE i \in todo[q]
    BY <2>1 DEF Current
  <2>2. CASE i \notin todo[q]
    <3>1. q = r
      BY <1>a, <2>2 DEF Frame
    <3>2. QED
      BY <2>2, <3>1, HowPlansGrow DEF Current, Drawn, OnSessions
  <2>3. QED
    BY <2>1, <2>2
<1>8. QED
  BY <1>1, <1>2, <1>3, <1>4, <1>5, <1>6, <1>7, <1>9, StepListed DEF Current

LEMMA ArriveCurrent ==
  ASSUME Typed, CurrentOrBroken, NEW r \in Request, Arrive(r)
  PROVE  CurrentOrBroken'
<1> SUFFICES ASSUME Current, ~BrokenOff' PROVE Current'
  BY BrokenStays DEF CurrentOrBroken
<1>a. ~BrokenOff /\ UNCHANGED <<docVars, holder, seen, todo>>
  BY BrokenStays, ArriveFrame
<1>b. /\ pc[r] = "off" /\ pc'[r] \in {"lock", "require", "getMeta"}
      /\ \A q \in Request \ {r} :
           /\ pc'[q] = pc[q] /\ op'[q] = op[q] /\ officer'[q] = officer[q]
           /\ target'[q] = target[q] /\ session'[q] = session[q] /\ pin'[q] = pin[q]
  BY ArriveFrame
<1>d. \/ UNCHANGED session /\ op'[r] \notin OnSessions
      \/ /\ op'[r] = "createSession" /\ pc'[r] = "require"
         /\ \E s \in Session : session' = [session EXCEPT ![r] = s] /\ \A q \in Request : session[q] # s
      \/ /\ op'[r] \in OnSessions \ {"createSession"}
         /\ \E s \in sessions : session' = [session EXCEPT ![r] = s]
  <2>a. op \in [Request -> Ops \cup {"none"}] /\ pc[r] = "off"
    BY <1>b DEF Typed, TypeOK
  <2>b. DOMAIN pc = Request
    BY DEF Typed, TypeOK
  <2>1. PICK o \in Officer :
          \/ \E name \in {"deleteCase", "pin", "putLayout"} : OnCase(r, o, name)
          \/ \E p \in Request : Unpin(r, o, p)
          \/ \E u \in Officer : AddCollaborator(r, o, u)
          \/ \E s \in Session : CreateSession(r, o, s)
          \/ \E s \in Session, name \in {"deleteSession", "patchSession", "query"} :
               OnSession(r, o, s, name)
    BY DEF Arrive
  <2>2. CASE \/ \E name \in {"deleteCase", "pin", "putLayout"} : OnCase(r, o, name)
             \/ \E p \in Request : Unpin(r, o, p)
             \/ \E u \in Officer : AddCollaborator(r, o, u)
    BY <2>a, <2>2 DEF OnCase, Unpin, AddCollaborator, Begin, OnSessions
  <2>3. CASE \E s \in Session : CreateSession(r, o, s)
    BY <2>a, <2>b, <2>3 DEF CreateSession, Begin, Goto
  <2>4. CASE \E s \in Session, name \in {"deleteSession", "patchSession", "query"} :
               OnSession(r, o, s, name)
    BY <2>a, <2>4 DEF OnSession, Begin, OnSessions
  <2>5. QED
    BY <2>1, <2>2, <2>3, <2>4
<1>e. op[r] = "none" /\ session \in [Request -> Session \cup {NoSession}]
  BY <1>b DEF Typed, TypeOK, Routed
<1>1. ASSUME NEW q \in Request PROVE SeenCurrent(q)' /\ UnlistedFirst(q)' /\ ListPlanned(q)'
  BY <1>a, <1>b DEF Current, SeenCurrent, UnlistedFirst, ListPlanned, Planned, docVars
<1> DEFINE NowDrawn(s) ==
             s = NoSession \/ \E q \in Request : op'[q] = "createSession" /\ session'[q] = s
<1>2. ASSUME NEW s, Drawn(s) PROVE NowDrawn(s)
  BY <1>b, <1>e, <1>2 DEF Drawn
<1>3. ASSUME NEW q \in Request, op'[q] \in OnSessions PROVE NowDrawn(session'[q])
  <2>1. CASE q # r
    BY <1>b, <1>2, <1>3, <2>1 DEF Current
  <2>2. CASE q = r /\ op'[r] = "createSession"
    BY <2>2
  <2>3. CASE q = r /\ op'[r] # "createSession"
    <3>1. session'[r] \in sessions
      BY <1>d, <1>e, <1>3, <2>3
    <3>2. QED
      BY <1>2, <2>3, <3>1 DEF Current
  <2>4. QED
    BY <2>1, <2>2, <2>3
<1>4. ASSUME NEW q \in Request PROVE FreshId(q)'
  <2> SUFFICES ASSUME Creating(q)'
               PROVE  /\ session'[q] \notin sessions
                      /\ \A p \in Request \ {q} : session'[p] # session'[q]
                      /\ \A p \in Request : \A i \in todo[p] : i.of # session'[q]
                      /\ pc'[q] \in {"lock", "read", "write"} => session'[q] \in meta
    BY <1>a DEF FreshId, docVars
  <2>1. CASE q = r
    <3>1. /\ session'[r] \in Session /\ pc'[r] = "require"
          /\ \A p \in Request : session[p] # session'[r]
      BY <1>d, <1>e, <2>1 DEF Creating, OnSessions
    <3>2. ~Drawn(session'[r])
      BY <3>1, NoValueAssumption DEF Drawn
    <3>3. QED
      BY <1>b, <2>1, <3>1, <3>2 DEF Current
  <2>2. CASE q # r
    <3>1. Creating(q)
      BY <1>b, <2>2 DEF Creating
    <3>2. session'[r] # session[q]
      BY <1>d, <1>e, <2>2, <3>1 DEF Current, FreshId
    <3>3. QED
      BY <1>b, <2>2, <3>1, <3>2 DEF Current, FreshId
  <2>3. QED
    BY <2>1, <2>2
<1>5. ListedHasMeta'
  <2>1. ASSUME NEW q \in Request, Planned(q) PROVE Planned(q)'
    BY <1>b, <2>1 DEF Planned
  <2>2. QED
    BY <1>a, <2>1 DEF Current, ListedHasMeta, Planned, docVars
<1>6. QED
  <2>1. /\ \A s \in sessions' : NowDrawn(s)
        /\ \A q \in Request : op'[q] \in OnSessions => NowDrawn(session'[q])
        /\ \A q \in Request : \A i \in todo'[q] : NowDrawn(i.of)
    BY <1>a, <1>2, <1>3 DEF Current, docVars
  <2>2. QED
    BY <1>1, <1>4, <1>5, <2>1 DEF Current, Drawn

LEMMA CurrentInvariant == Spec => []CurrentOrBroken
<1>1. Init => CurrentOrBroken
  BY DEF Init, CurrentOrBroken, Current, SeenCurrent, FreshId, UnlistedFirst, ListPlanned, Creating,
     Planned, Drawn, ListedHasMeta, OnSessions
<1>2. Typed /\ CurrentOrBroken /\ [Next]_vars => CurrentOrBroken'
  <2> SUFFICES ASSUME Typed, CurrentOrBroken, [Next]_vars PROVE CurrentOrBroken'
    OBVIOUS
  <2>1. CASE UNCHANGED vars
    BY <2>1 DEF vars, docVars, argVars, CurrentOrBroken, Current, SeenCurrent, FreshId, UnlistedFirst,
       ListPlanned, Creating, Planned, Drawn, ListedHasMeta, BrokenOff
  <2>2. CASE Next
    BY <2>2, ArriveCurrent, StepCurrent DEF Next
  <2>3. QED
    BY <2>1, <2>2
<1>3. QED
  BY <1>1, <1>2, TypedInvariant, PTL DEF Spec

\* The record of a listed session is stored: create_case_session writes session_meta before it
\* lists the session, and delete_session takes it off the list before the gather.
THEOREM ListedHasMetaHolds == Spec => []ListedHasMeta
<1>1. CurrentOrBroken => ListedHasMeta
  BY DEF CurrentOrBroken, Current, ListedHasMeta
<1>2. QED
  BY <1>1, CurrentInvariant, PTL

-----------------------------------------------------------------------------
(* The updates                                                             *)

NoDeletion == \A q \in Request : op[q] # "deleteCase"

Kept ==
  NoDeletion =>
    /\ \A r \in Request : Returned(r, "createSession") =>
         \/ session[r] \in sessions
         \/ \E q \in Request : op[q] = "deleteSession" /\ session[q] = session[r]
    /\ \A r \in Request : Returned(r, "pin") =>
         r \in board \/ \E q \in Request : op[q] = "unpin" /\ pin[q] = r
    /\ \A r \in Request : op[r] = "addCollaborator" /\ pc[r] \in {"index", "ok"} =>
         target[r] \in collaborators
    /\ \A r \in Request : Returned(r, "addCollaborator") => target[r] \in indexed

\* Without a deletion of the case, a step takes off only what its handler removes.
LEMMA OnlyRemoved ==
  ASSUME Typed, Current, NoDeletion, NEW r \in Request, Step(r)
  PROVE  /\ \A s \in sessions \ sessions' : op[r] = "deleteSession" /\ session[r] = s
         /\ \A p \in board \ board' : op[r] = "unpin" /\ pin[r] = p
         /\ collaborators \subseteq collaborators'
<1>1. CASE UNCHANGED <<collaborators, sessions, board, layout>>
  BY <1>1
<1>2. CASE Writes(r)
  <2>1. op[r] \in ReadFirst \cup {"addCollaborator", "putLayout"}
    BY <1>2 DEF Typed, Routed, Writes
  <2>2. SeenCurrent(r) /\ pc[r] = "write" /\ BlockPut(r)
    BY <1>2 DEF Current, Writes
  <2>3. CASE op[r] \in {"createSession", "deleteSession"}
    BY <2>2, <2>3 DEF SeenCurrent, BlockPut, SessionsPut, NewSessions
  <2>4. CASE op[r] \in {"pin", "unpin"}
    BY <2>2, <2>4 DEF SeenCurrent, BlockPut, BoardPut
  <2>5. CASE op[r] = "addCollaborator"
    BY <2>2, <2>5 DEF SeenCurrent, BlockPut, CasePut
  <2>6. CASE op[r] \in {"putLayout", "patchSession"}
    BY <2>2, <2>6 DEF BlockPut, LayoutPut, MetaPut
  <2>7. QED
    BY <2>1, <2>3, <2>4, <2>5, <2>6 DEF ReadFirst
<1>3. CASE \E i \in todo[r] : Deletes(r, i)
  BY <1>3, DeletesKind DEF NoDeletion, Deletes, Delete
<1>4. QED
  BY <1>1, <1>2, <1>3, HowDocumentsChange

LEMMA OnlyIndexed ==
  ASSUME Typed, NoDeletion, NEW r \in Request, Step(r)
  PROVE  indexed \subseteq indexed'
<1>a. pc[r] # "unindex"
  BY DEF Typed, Routed, NoDeletion
<1>1. CASE Effect(r)
  <2>1. pc[r] = "write" => op[r] \in ReadFirst \cup {"addCollaborator", "putLayout"}
    BY DEF Typed, Routed
  <2>2. QED
    BY <1>a, <1>1, <2>1 DEF Effect, MetaPut, IndexPut, HistoryPut, BlockPut, SessionsPut, BoardPut,
       LayoutPut, CasePut, ReadFirst
<1>2. CASE UNCHANGED docVars \/ \E i : Delete(i)
  BY <1>2 DEF docVars, Delete
<1>3. QED
  BY <1>1, <1>2 DEF Step, GetMeta, Require, PutMeta, Acquire, RequireLocked, ReadBlock,
     WriteBlock, Unindex, PlanPurge, Purge, PurgeRaises, Index, AppendTurn, Fail, Effect

\* The handlers of the updates return after their write.
LEMMA HowUpdatesReturn ==
  ASSUME Typed, NEW r \in Request, Step(r),
         pc'[r] \in {"index", "ok"}, op[r] \in {"createSession", "pin", "addCollaborator"}
  PROVE  \/ WriteBlock(r) /\ pc'[r] = IF op[r] = "addCollaborator" THEN "index" ELSE "ok"
         \/ Index(r)
BY DEF Typed, TypeOK, Routed, Step, GetMeta, Require, PutMeta, Acquire, RequireLocked, ReadBlock,
   WriteBlock, Unindex, PlanPurge, Purge, PurgeRaises, Index, AppendTurn, Fail, End, Goto, Ended

LEMMA StepKept ==
  ASSUME Typed, CurrentOrBroken, Kept, NEW r \in Request, Step(r)
  PROVE  Kept'
<1> SUFFICES ASSUME NoDeletion' PROVE Kept'
  BY DEF Kept
<1>a. Typed' /\ Frame(r) /\ UNCHANGED argVars
  BY StepTyped DEF Frame
<1>b. NoDeletion /\ Current
  BY <1>a DEF NoDeletion, argVars, CurrentOrBroken, BrokenOff
<1>c. ASSUME NEW q \in Request, q # r PROVE pc'[q] = pc[q]
  BY <1>a, <1>c DEF Frame
<1>d. op[r] \in {"createSession", "pin", "addCollaborator"} /\ pc'[r] \in {"index", "ok"} =>
        \/ WriteBlock(r) /\ BlockPut(r) /\ SeenCurrent(r) /\ pc[r] = "write"
        \/ Index(r) /\ IndexPut(indexed \cup {target[r]})
  BY <1>b, HowUpdatesReturn DEF WriteBlock, Index, Effect, Current
<1>1. ASSUME NEW q \in Request, Returned(q, "createSession")'
      PROVE  \/ session[q] \in sessions'
             \/ \E p \in Request : op[p] = "deleteSession" /\ session[p] = session[q]
  <2>1. CASE Returned(q, "createSession")
    BY <1>b, <2>1, OnlyRemoved DEF Kept
  <2>2. CASE ~Returned(q, "createSession")
    <3>1. q = r /\ op[r] = "createSession" /\ pc'[r] = "ok"
      BY <1>a, <1>c, <1>1, <2>2 DEF Returned, argVars
    <3>2. ~Index(r)
      BY <3>1 DEF Index, Typed, Routed
    <3>3. QED
      BY <1>d, <3>1, <3>2 DEF BlockPut, SessionsPut, NewSessions
  <2>3. QED
    BY <2>1, <2>2
<1>2. ASSUME NEW q \in Request, Returned(q, "pin")'
      PROVE  q \in board' \/ \E p \in Request : op[p] = "unpin" /\ pin[p] = q
  <2>1. CASE Returned(q, "pin")
    BY <1>b, <2>1, OnlyRemoved DEF Kept
  <2>2. CASE ~Returned(q, "pin")
    <3>1. q = r /\ op[r] = "pin" /\ pc'[r] = "ok"
      BY <1>a, <1>c, <1>2, <2>2 DEF Returned, argVars
    <3>2. ~Index(r)
      BY <3>1 DEF Index, Typed, Routed
    <3>3. QED
      BY <1>d, <3>1, <3>2 DEF BlockPut, BoardPut
  <2>3. QED
    BY <2>1, <2>2
<1>3. ASSUME NEW q \in Request, op[q] = "addCollaborator", pc'[q] \in {"index", "ok"}
      PROVE  target[q] \in collaborators'
  <2>1. CASE pc[q] \in {"index", "ok"}
    BY <1>b, <1>3, <2>1, OnlyRemoved DEF Kept
  <2>2. CASE pc[q] \notin {"index", "ok"}
    <3>1. q = r /\ ~Index(r)
      BY <1>c, <1>3, <2>2 DEF Index
    <3>2. QED
      BY <1>d, <1>3, <3>1 DEF BlockPut, CasePut
  <2>3. QED
    BY <2>1, <2>2
<1>4. ASSUME NEW q \in Request, Returned(q, "addCollaborator")'
      PROVE  target[q] \in indexed'
  <2>1. CASE Returned(q, "addCollaborator")
    BY <1>b, <2>1, OnlyIndexed DEF Kept
  <2>2. CASE ~Returned(q, "addCollaborator")
    <3>1. q = r /\ op[r] = "addCollaborator" /\ pc'[r] = "ok"
      BY <1>a, <1>c, <1>4, <2>2 DEF Returned, argVars
    <3>2. Index(r) /\ IndexPut(indexed \cup {target[r]})
      BY <3>1, HowUpdatesReturn DEF Index, Effect
    <3>3. QED
      BY <3>1, <3>2 DEF IndexPut
  <2>3. QED
    BY <2>1, <2>2
<1>5. QED
  BY <1>a, <1>1, <1>2, <1>3, <1>4 DEF Kept, argVars

LEMMA ArriveKept ==
  ASSUME Typed, Kept, NEW r \in Request, Arrive(r)
  PROVE  Kept'
<1>a. /\ UNCHANGED docVars
      /\ pc[r] = "off" /\ pc'[r] \in {"lock", "require", "getMeta"}
      /\ \A q \in Request \ {r} :
           /\ pc'[q] = pc[q] /\ op'[q] = op[q]
           /\ target'[q] = target[q] /\ session'[q] = session[q] /\ pin'[q] = pin[q]
  BY ArriveFrame
<1>b. op[r] = "none"
  BY <1>a DEF Typed, Routed
<1>1. NoDeletion' => NoDeletion
  BY <1>a, <1>b DEF NoDeletion
<1>2. ASSUME NEW q \in Request, pc'[q] \in {"index", "ok"}
      PROVE  /\ q # r /\ op'[q] = op[q] /\ pc'[q] = pc[q]
             /\ target'[q] = target[q] /\ session'[q] = session[q]
  BY <1>a, <1>2
<1>3. \A q \in Request : op[q] # "none" =>
        op'[q] = op[q] /\ session'[q] = session[q] /\ pin'[q] = pin[q]
  BY <1>a, <1>b
<1>4. QED
  BY <1>a, <1>1, <1>2, <1>3 DEF Kept, Returned, docVars

\* No acknowledged update is lost to a concurrent one: create_case_session,
\* pin_to_case_board and add_collaborator write back what they read in the same
\* get_lock block, so what they read is still what is stored.
THEOREM UpdatesKeptHolds == Spec => []UpdatesKept
<1>1. Init => Kept
  BY DEF Init, Kept, Returned
<1>2. Typed /\ CurrentOrBroken /\ Kept /\ [Next]_vars => Kept'
  <2> SUFFICES ASSUME Typed, CurrentOrBroken, Kept, [Next]_vars PROVE Kept'
    OBVIOUS
  <2>1. CASE UNCHANGED vars
    BY <2>1 DEF vars, docVars, argVars, Kept, NoDeletion, Returned
  <2>2. CASE Next
    BY <2>2, ArriveKept, StepKept DEF Next
  <2>3. QED
    BY <2>1, <2>2
<1>3. Kept => UpdatesKept
  BY DEF Kept, NoDeletion, UpdatesKept, SessionKept, PinKept, CollaboratorKept, Returned
<1>4. QED
  BY <1>1, <1>2, <1>3, TypedInvariant, CurrentInvariant, PTL DEF Spec

=============================================================================
