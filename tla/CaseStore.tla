------------------------------ MODULE CaseStore ------------------------------
(***************************************************************************)
(* The documents of one case and its chat sessions, and the requests that  *)
(* change them (backend/api/routes/cases.py, sessions.py and, for the      *)
(* queries of a session, query.py and the pipeline's history append).      *)
(*                                                                         *)
(* Requests run concurrently in one process and exclude each other only    *)
(* inside get_case_lock(case_id), a mutex (KeyedMutex).  The update of a   *)
(* user_cases index is one action: it is a block of its own lock around    *)
(* one read and one write.  Every other storage call is an action, and may *)
(* raise, with or without having taken effect; the request then ends with  *)
(* an error, leaving its lock.  The "{}" or "[]" that nosql_delete leaves  *)
(* for a second when DELETE is refused counts as a missing item.           *)
(*                                                                         *)
(* A read sees the last write.  The service promises less: what was        *)
(* written moments ago can read back as absent (_nosql_get_stable), and a  *)
(* handler that meets this answers 404 or starts a list anew.              *)
(***************************************************************************)
EXTENDS Naturals, FiniteSets

CONSTANTS
  Request,     \* requests, one call each
  Officer, Creator,
  Session,     \* ids that create_case_session may draw
  NoRequest, NoOfficer, NoSession

ASSUME CreatorAssumption == Creator \in Officer
ASSUME NoValueAssumption ==
  /\ NoRequest \notin Request
  /\ NoOfficer \notin Officer
  /\ NoSession \notin Session

VARIABLES
  collaborators,  \* of "case:<id>"; empty when the item is missing
  sessions,       \* "case_sessions:<id>"
  meta,           \* the sessions that have a "session_meta:<s>"
  hist,           \* the sessions that have a "history:<s>"
  board,          \* "case_board:<id>", its pins named by their requests
  layout,         \* "case_board_layout:<id>", named by its last request
  indexed,        \* the officers whose "user_cases:<u>" holds the case
  holder,         \* the request inside the case lock
  op, officer, target, session, pin,  \* the requests' arguments
  pc, seen, todo                      \* and locals

docVars == <<collaborators, sessions, meta, hist, board, layout, indexed>>
argVars == <<op, officer, target, session, pin>>
vars == <<docVars, holder, argVars, pc, seen, todo>>

Ops == {"deleteCase", "addCollaborator", "createSession", "deleteSession",
        "patchSession", "pin", "unpin", "putLayout", "query"}

\* "broken": a deletion of a gather raised, the others go on in the background.
Ended == {"ok", "error", "broken"}
Locked == {"requireLocked", "read", "write", "unindex", "purge"}

SessionItems(S) == [kind : {"meta", "hist"}, of : S]
\* "hypotheses_by_case:<id>" is a document of Casework, which has its deletion.
CaseItems ==
  [kind : {"case", "sessions", "board", "layout", "hypotheses"}, of : {NoSession}]

\* Types; and the lock is never left behind by a request that went on.
TypeOK ==
  /\ collaborators \subseteq Officer
  /\ sessions \subseteq Session /\ meta \subseteq Session /\ hist \subseteq Session
  /\ board \subseteq Request
  /\ layout \in Request \cup {NoRequest}
  /\ indexed \subseteq Officer
  /\ holder \in Request \cup {NoRequest}
  /\ op \in [Request -> Ops \cup {"none"}]
  /\ officer \in [Request -> Officer \cup {NoOfficer}]
  /\ target \in [Request -> Officer \cup {NoOfficer}]
  /\ session \in [Request -> Session \cup {NoSession}]
  /\ pin \in [Request -> Request \cup {NoRequest}]
  /\ pc \in [Request -> {"off", "getMeta", "require", "putMeta", "lock", "index",
                         "append"} \cup Locked \cup Ended]
  /\ seen \in [Request -> SUBSET (Officer \cup Session \cup Request)]
  /\ todo \in [Request -> SUBSET (SessionItems(Session) \cup CaseItems)]
  /\ holder # NoRequest => pc[holder] \in Locked

\* create_case has returned to its creator.
Init ==
  /\ collaborators = {Creator}
  /\ sessions = {} /\ meta = {} /\ hist = {}
  /\ board = {} /\ layout = NoRequest
  /\ indexed = {Creator}
  /\ holder = NoRequest
  /\ op = [r \in Request |-> "none"]
  /\ officer = [r \in Request |-> NoOfficer]
  /\ target = [r \in Request |-> NoOfficer]
  /\ session = [r \in Request |-> NoSession]
  /\ pin = [r \in Request |-> NoRequest]
  /\ pc = [r \in Request |-> "off"]
  /\ seen = [r \in Request |-> {}]
  /\ todo = [r \in Request |-> {}]

Goto(r, l) == pc' = [pc EXCEPT ![r] = l]
See(r, S) == seen' = [seen EXCEPT ![r] = S]

\* Mutant: get_lock hands every caller a lock of its own.
LockIgnored == TRUE

LockFree == holder = NoRequest

\* Mutant: a release that an exception or a return skips.
LockLeaked(r) == holder' = holder

Unlock(r) == holder' = IF holder = r THEN NoRequest ELSE holder

End(r, l) == Goto(r, l) /\ Unlock(r)

-----------------------------------------------------------------------------
(* Arrival of a request                                                    *)

Begin(r, name, o, first) ==
  /\ pc[r] = "off"
  /\ op' = [op EXCEPT ![r] = name]
  /\ officer' = [officer EXCEPT ![r] = o]
  /\ Goto(r, first)
  /\ UNCHANGED <<docVars, holder, seen, todo>>

\* The handlers that need the case id only.
OnCase(r, o, name) ==
  /\ Begin(r, name, o, "lock")
  /\ UNCHANGED <<target, session, pin>>

\* The officer has seen the pin on the board.
Unpin(r, o, p) ==
  /\ p \in board
  /\ Begin(r, "unpin", o, "lock")
  /\ pin' = [pin EXCEPT ![r] = p]
  /\ UNCHANGED <<target, session>>

AddCollaborator(r, o, u) ==
  /\ Begin(r, "addCollaborator", o, "lock")
  /\ target' = [target EXCEPT ![r] = u]
  /\ UNCHANGED <<session, pin>>

\* secrets.token_hex(4): an id that no request has drawn before.
CreateSession(r, o, s) ==
  /\ \A q \in Request : session[q] # s
  /\ Begin(r, "createSession", o, "require")
  /\ session' = [session EXCEPT ![r] = s]
  /\ UNCHANGED <<target, pin>>

\* The officer has seen the session in a list of the case.
OnSession(r, o, s, name) ==
  /\ s \in sessions
  /\ Begin(r, name, o, "getMeta")
  /\ session' = [session EXCEPT ![r] = s]
  /\ UNCHANGED <<target, pin>>

-----------------------------------------------------------------------------
(* What the storage calls write                                            *)

MetaPut(r) ==
  /\ meta' = meta \cup {session[r]}
  /\ UNCHANGED <<collaborators, sessions, hist, board, layout, indexed>>

\* Mutant: delete_session does not take the session off the list.
NewSessionsUnfiltered(r) ==
  IF op[r] = "createSession" THEN seen[r] \cup {session[r]} ELSE seen[r]

NewSessions(r) ==
  IF op[r] = "createSession" THEN seen[r] \cup {session[r]}
  ELSE seen[r] \ {session[r]}

SessionsPut(r) ==
  /\ sessions' = NewSessions(r)
  /\ UNCHANGED <<collaborators, meta, hist, board, layout, indexed>>

BoardPut(r) ==
  /\ board' = IF op[r] = "pin" THEN seen[r] \cup {r} ELSE seen[r] \ {pin[r]}
  /\ UNCHANGED <<collaborators, sessions, meta, hist, layout, indexed>>

LayoutPut(r) ==
  /\ layout' = r
  /\ UNCHANGED <<collaborators, sessions, meta, hist, board, indexed>>

CasePut(r) ==
  /\ collaborators' = seen[r] \cup {target[r]}
  /\ UNCHANGED <<sessions, meta, hist, board, layout, indexed>>

IndexPut(I) ==
  /\ indexed' = I
  /\ UNCHANGED <<collaborators, sessions, meta, hist, board, layout>>

HistoryPut(r) ==
  /\ hist' = hist \cup {session[r]}
  /\ UNCHANGED <<collaborators, sessions, meta, board, layout, indexed>>

Delete(i) ==
  /\ meta' = IF i.kind = "meta" THEN meta \ {i.of} ELSE meta
  /\ hist' = IF i.kind = "hist" THEN hist \ {i.of} ELSE hist
  /\ sessions' = IF i.kind = "sessions" THEN {} ELSE sessions
  /\ board' = IF i.kind = "board" THEN {} ELSE board
  /\ layout' = IF i.kind = "layout" THEN NoRequest ELSE layout
  /\ collaborators' = IF i.kind = "case" THEN {} ELSE collaborators
  /\ UNCHANGED indexed

\* The write of the block under the case lock.
BlockPut(r) ==
  CASE op[r] \in {"createSession", "deleteSession"} -> SessionsPut(r)
    [] op[r] \in {"pin", "unpin"} -> BoardPut(r)
    [] op[r] = "putLayout" -> LayoutPut(r)
    [] op[r] = "patchSession" -> MetaPut(r)
    [] op[r] = "addCollaborator" -> CasePut(r)

\* The write of the storage call the request is at.
Effect(r) ==
  \/ pc[r] = "putMeta" /\ MetaPut(r)
  \/ pc[r] = "write" /\ BlockPut(r)
  \/ pc[r] = "index" /\ IndexPut(indexed \cup {target[r]})
  \/ pc[r] = "unindex" /\ \E u \in seen[r] : IndexPut(indexed \ {u})
  \/ pc[r] = "append" /\ HistoryPut(r)

-----------------------------------------------------------------------------
(* Before the lock                                                         *)

\* A deleted session is no error for a second delete.
GetMeta(r) ==
  /\ pc[r] = "getMeta"
  /\ Goto(r, CASE session[r] \in meta /\ op[r] = "query" -> "require"
               [] session[r] \in meta /\ op[r] # "query" -> "lock"
               [] session[r] \notin meta /\ op[r] = "deleteSession" -> "ok"
               [] OTHER -> "error")
  /\ UNCHANGED <<docVars, holder, argVars, seen, todo>>

\* Mutant: the check is left out under the lock.
AuthorisedEarlier(r) == TRUE

Authorised(r) == officer[r] \in collaborators

\* _require_collaborator before the lock, or without one.
Require(r) ==
  /\ pc[r] = "require"
  /\ Goto(r, CASE officer[r] \notin collaborators -> "error"
               [] op[r] = "query" -> "append"
               [] OTHER -> "putMeta")
  /\ UNCHANGED <<docVars, holder, argVars, seen, todo>>

PutMeta(r) ==
  /\ pc[r] = "putMeta"
  /\ Effect(r)
  /\ Goto(r, "lock")
  /\ UNCHANGED <<holder, argVars, seen, todo>>

-----------------------------------------------------------------------------
(* The blocks under the case lock                                          *)

\* create_case_session has checked its officer already, and does not again.
Acquire(r) ==
  /\ pc[r] = "lock"
  /\ LockFree
  /\ holder' = r
  /\ Goto(r, IF op[r] = "createSession" THEN "read" ELSE "requireLocked")
  /\ UNCHANGED <<docVars, argVars, seen, todo>>

RequireLocked(r) ==
  /\ pc[r] = "requireLocked"
  /\ IF ~Authorised(r) THEN End(r, "error") /\ UNCHANGED seen
     ELSE /\ See(r, IF op[r] \in {"addCollaborator", "deleteCase"}
                    THEN collaborators ELSE {})
          /\ Goto(r, CASE op[r] \in {"addCollaborator", "putLayout"} -> "write"
                       [] op[r] = "deleteCase" -> "unindex"
                       [] OTHER -> "read")
          /\ UNCHANGED holder
  /\ UNCHANGED <<docVars, argVars, todo>>

\* The read of a read-modify-write.  unpin misses its pin, and patch_session
\* the record it saw before the lock (json.loads of a missing item raises).
ReadBlock(r) ==
  /\ pc[r] = "read"
  /\ op[r] # "deleteCase"
  /\ IF \/ op[r] = "unpin" /\ pin[r] \notin board
        \/ op[r] = "patchSession" /\ session[r] \notin meta
     THEN End(r, "error") /\ UNCHANGED seen
     ELSE /\ See(r, CASE op[r] \in {"createSession", "deleteSession"} -> sessions
                      [] op[r] \in {"pin", "unpin"} -> board
                      [] OTHER -> {})
          /\ Goto(r, "write")
          /\ UNCHANGED holder
  /\ UNCHANGED <<docVars, argVars, todo>>

\* The block ends; delete_session and add_collaborator go on without a lock.
WriteBlock(r) ==
  /\ pc[r] = "write"
  /\ Effect(r)
  /\ End(r, CASE op[r] = "deleteSession" -> "purge"
              [] op[r] = "addCollaborator" -> "index"
              [] OTHER -> "ok")
  /\ todo' = [todo EXCEPT ![r] = IF op[r] = "deleteSession"
                                 THEN SessionItems({session[r]}) ELSE {}]
  /\ UNCHANGED <<argVars, seen>>

\* delete_case takes the case off the index of one collaborator after the
\* other, then reads the list of sessions and deletes every item at once.
Unindex(r) ==
  /\ pc[r] = "unindex"
  /\ \E u \in seen[r] :
       /\ IndexPut(indexed \ {u})
       /\ See(r, seen[r] \ {u})
       /\ Goto(r, IF seen[r] = {u} THEN "read" ELSE "unindex")
  /\ UNCHANGED <<holder, argVars, todo>>

PlanPurge(r) ==
  /\ pc[r] = "read"
  /\ op[r] = "deleteCase"
  /\ todo' = [todo EXCEPT ![r] = CaseItems \cup SessionItems(sessions)]
  /\ Goto(r, "purge")
  /\ UNCHANGED <<docVars, holder, argVars, seen>>

-----------------------------------------------------------------------------
(* The gathered deletions, and the rest                                    *)

Purge(r) ==
  /\ pc[r] \in {"purge", "broken"}
  /\ \E i \in todo[r] :
       /\ Delete(i)
       /\ todo' = [todo EXCEPT ![r] = @ \ {i}]
       /\ IF pc[r] = "purge" /\ todo[r] = {i} THEN End(r, "ok")
          ELSE UNCHANGED <<pc, holder>>
  /\ UNCHANGED <<argVars, seen>>

\* DELETE and the fallback both raise: gather passes the exception on at once
\* and leaves the other deletions running.
PurgeRaises(r) ==
  /\ pc[r] \in {"purge", "broken"}
  /\ \E i \in todo[r] :
       /\ UNCHANGED docVars \/ Delete(i)
       /\ todo' = [todo EXCEPT ![r] = @ \ {i}]
  /\ End(r, "broken")
  /\ UNCHANGED <<argVars, seen>>

\* _add_case_to_user_index, after the case lock is left.
Index(r) ==
  /\ pc[r] = "index"
  /\ Effect(r)
  /\ Goto(r, "ok")
  /\ UNCHANGED <<holder, argVars, seen, todo>>

\* The turn of a query, when its pipeline has run (QueryJob).
AppendTurn(r) ==
  /\ pc[r] = "append"
  /\ Effect(r)
  /\ Goto(r, "ok")
  /\ UNCHANGED <<holder, argVars, seen, todo>>

\* A storage call raises.
Fail(r) ==
  /\ pc[r] \notin {"off", "lock", "purge"} \cup Ended
  /\ UNCHANGED docVars \/ Effect(r)
  /\ End(r, "error")
  /\ UNCHANGED <<argVars, seen, todo>>

-----------------------------------------------------------------------------

Arrive(r) ==
  \E o \in Officer :
    \/ \E name \in {"deleteCase", "pin", "putLayout"} : OnCase(r, o, name)
    \/ \E p \in Request : Unpin(r, o, p)
    \/ \E u \in Officer : AddCollaborator(r, o, u)
    \/ \E s \in Session :
         \/ CreateSession(r, o, s)
         \/ \E name \in {"deleteSession", "patchSession", "query"} :
              OnSession(r, o, s, name)

Step(r) ==
  \/ GetMeta(r) \/ Require(r) \/ PutMeta(r)
  \/ Acquire(r) \/ RequireLocked(r) \/ ReadBlock(r) \/ WriteBlock(r)
  \/ Unindex(r) \/ PlanPurge(r) \/ Purge(r) \/ PurgeRaises(r)
  \/ Index(r) \/ AppendTurn(r) \/ Fail(r)

Next == \E r \in Request : Arrive(r) \/ Step(r)

Spec == Init /\ [][Next]_vars

-----------------------------------------------------------------------------
(* Properties                                                              *)

Returned(r, name) == op[r] = name /\ pc[r] = "ok"

\* A deletion of the case that broke off: its other deletions may run while
\* the case lock is free.
BrokenOff == \E r \in Request : op[r] = "deleteCase" /\ pc[r] = "broken"

\* A case that is gone does not come back: no handler writes the case
\* document from a copy it read before the deletion.
CaseStaysDeleted ==
  [][collaborators = {} /\ ~BrokenOff => collaborators' = {}]_vars

\* A deleted case leaves no board behind, and nobody writes one later: the
\* collaborator check under the lock sees that the case is gone.
BoardGoesWithCase ==
  collaborators = {} =>
    \/ board = {} /\ layout = NoRequest
    \/ BrokenOff
    \/ \E r \in Request : op[r] = "deleteCase" /\ pc[r] = "purge"

\* A session whose creation returned stays in the list of its case until it,
\* or the case, is deleted: concurrent creations do not overwrite each other.
SessionKept ==
  \A r \in Request : Returned(r, "createSession") =>
    \/ session[r] \in sessions
    \/ \E q \in Request : op[q] = "deleteSession" /\ session[q] = session[r]
    \/ \E q \in Request : op[q] = "deleteCase"

\* A pin whose request returned stays on the board until it is unpinned or
\* the case is deleted.
PinKept ==
  \A r \in Request : Returned(r, "pin") =>
    \/ r \in board
    \/ \E q \in Request : op[q] = "unpin" /\ pin[q] = r
    \/ \E q \in Request : op[q] = "deleteCase"

\* An officer added to the case is a collaborator and finds the case in
\* his list, unless the case is deleted.
CollaboratorKept ==
  \A r \in Request : Returned(r, "addCollaborator") =>
    \/ target[r] \in collaborators \cap indexed
    \/ \E q \in Request : op[q] = "deleteCase"

\* No acknowledged update is lost to a concurrent one: each read-modify-write
\* of the case documents is inside its get_lock block (create_case_session,
\* pin_to_case_board, add_collaborator).
UpdatesKept == SessionKept /\ PinKept /\ CollaboratorKept

\* The record of a listed session is stored: it is written before the session is
\* listed and deleted after it is unlisted, whatever overlaps or fails, but for a
\* deletion of the case (create_case_session, delete_session).
ListedHasMeta ==
  \/ sessions \subseteq meta
  \/ BrokenOff
  \/ \E r \in Request : op[r] = "deleteCase" /\ pc[r] = "purge"

=============================================================================
