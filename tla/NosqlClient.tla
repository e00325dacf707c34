----------------------------- MODULE NosqlClient -----------------------------
(***************************************************************************)
(* The storage client of shared/catalyst_client.py: nosql_get, nosql_set   *)
(* and nosql_delete over the attempts of _nosql_request, which share one   *)
(* cached access token (_get_nosql_access_token) in a process.             *)
(*                                                                         *)
(* The service serves an attempt or answers 401 when its token is not      *)
(* valid any more; on the way back a response may be lost or replaced by   *)
(* an error, so that an attempt that failed may have taken effect.  An     *)
(* attempt that has ended takes no later effect.  A read may be served an  *)
(* item that has been written over: the store is eventually consistent     *)
(* (backend/api/routes/cases.py, _nosql_get_stable).  The local mock file  *)
(* is left out.                                                            *)
(***************************************************************************)
EXTENDS Naturals, FiniteSets

CONSTANTS
  Caller, Key, Value, Missing, Empty, NoCaller,
  Locked,           \* items that are only written inside one get_lock block
  MaxAttempts,      \* 6 in the code
  MaxGrants         \* a bound of the model: grants that succeed

ASSUME AttemptsAssumption == MaxAttempts \in Nat \ {0}
ASSUME GrantsAssumption == MaxGrants \in Nat
ASSUME LockedAssumption == Locked \subseteq Key
ASSUME CallerAssumption == NoCaller \notin Caller
ASSUME ItemAssumption == Missing \notin Value /\ Empty \notin Value /\ Missing # Empty

VARIABLES
  renewable,   \* the refresh credentials are configured
  issued,      \* tokens 1 .. issued have been issued; 0 stands for none
  expired,     \* tokens 1 .. expired are not accepted any more
  cached,      \* _nosql_token_cache; 0 when empty or past expires_at
  tokenLock,   \* the call inside the block of _get_nosql_token_lock
  items,       \* the table AppKeyValueStore
  stale,       \* stale[k]: older items that a read of k may still be served
  call, pc, attempt, got,
  token,       \* the token of the attempt that is on its way
  refused,     \* history: the last token that this call saw rejected
  took         \* history: an attempt of this call took effect

tokenVars == <<renewable, issued, expired, cached, tokenLock>>
vars == <<tokenVars, items, stale, call, pc, attempt, token, got, refused, took>>

Gets == [op : {"get"}, key : Key]
Sets == [op : {"set"}, key : Key, value : Value]
Deletes == [op : {"delete"}, key : Key]
\* The soft deletion is an upsert of "{}" or "[]" with a TTL of one second.
SoftDeletes == [op : {"softDelete"}, key : Key]
NoCall == [op |-> "none"]
Item == Value \cup {Missing, Empty}

Ended == {"ok", "error"}
Trying == {"headers", "wait", "grant", "sent", "served", "unauthorized"}
Running(c) == pc[c] \in Trying

TypeOK ==
  /\ renewable \in BOOLEAN
  /\ issued \in Nat
  /\ expired \in 0 .. issued
  /\ cached \in 0 .. issued
  /\ tokenLock \in Caller \cup {NoCaller}
  /\ items \in [Key -> Item]
  /\ stale \in [Key -> SUBSET Item]
  /\ call \in [Caller -> Gets \cup Sets \cup Deletes \cup SoftDeletes \cup {NoCall}]
  /\ pc \in [Caller -> {"off"} \cup Trying \cup Ended]
  /\ attempt \in [Caller -> 0 .. MaxAttempts]
  /\ token \in [Caller -> 0 .. issued]
  /\ got \in [Caller -> Item]
  /\ refused \in [Caller -> 0 .. issued]
  /\ took \in [Caller -> BOOLEAN]

\* Without refresh credentials there is one static token.
Init ==
  /\ renewable \in BOOLEAN
  /\ issued = IF renewable THEN 0 ELSE 1
  /\ expired = 0
  /\ cached = 0
  /\ tokenLock = NoCaller
  /\ items = [k \in Key |-> Missing]
  /\ stale = [k \in Key |-> {}]
  /\ call = [c \in Caller |-> NoCall]
  /\ pc = [c \in Caller |-> "off"]
  /\ attempt = [c \in Caller |-> 0]
  /\ token = [c \in Caller |-> 0]
  /\ got = [c \in Caller |-> Missing]
  /\ refused = [c \in Caller |-> 0]
  /\ took = [c \in Caller |-> FALSE]

Goto(c, l) == pc' = [pc EXCEPT ![c] = l]

\* The locals of a call that is over are gone.
End(c, l) ==
  /\ Goto(c, l)
  /\ attempt' = [attempt EXCEPT ![c] = 0]
  /\ refused' = [refused EXCEPT ![c] = 0]
  /\ took' = [took EXCEPT ![c] = FALSE]

-----------------------------------------------------------------------------
(* The calls                                                               *)

\* Writers of other items overlap: write_job_status and the notes of the last
\* check take no lock, and the locks are those of one process.
MayCall(c, k) ==
  k.op # "get" /\ k.key \in Locked =>
    \A d \in Caller \ {c} :
      Running(d) /\ call[d].op # "get" => call[d].key # k.key

Call(c) ==
  /\ pc[c] = "off"
  /\ \E k \in Gets \cup Sets \cup Deletes :
       /\ MayCall(c, k)
       /\ call' = [call EXCEPT ![c] = k]
  /\ attempt' = [attempt EXCEPT ![c] = 1]
  /\ Goto(c, "headers")
  /\ UNCHANGED <<tokenVars, items, stale, token, got, refused, took>>

\* nosql_delete catches every exception and falls back to the soft deletion.
Raise(c) ==
  IF call[c].op = "delete"
  THEN /\ call' = [call EXCEPT ![c] = [op |-> "softDelete", key |-> @.key]]
       /\ attempt' = [attempt EXCEPT ![c] = 1]
       /\ Goto(c, "headers")
       /\ UNCHANGED <<refused, took>>
  ELSE End(c, "error") /\ UNCHANGED call

-----------------------------------------------------------------------------
(* _get_nosql_access_token                                                 *)

SendWith(c, t) ==
  /\ token' = [token EXCEPT ![c] = t]
  /\ Goto(c, "sent")

UseCached(c) ==
  /\ pc[c] = "headers"
  /\ cached # 0
  /\ SendWith(c, cached)
  /\ UNCHANGED <<tokenVars, items, stale, call, attempt, got, refused, took>>

AwaitLock(c) ==
  /\ pc[c] = "headers"
  /\ cached = 0
  /\ Goto(c, "wait")
  /\ UNCHANGED <<tokenVars, items, stale, call, attempt, token, got, refused, took>>

LockFree == tokenLock = NoCaller

\* Mutant: a grant that does not leave the block.
LockLeaked == tokenLock

Unlocked == NoCaller

\* Mutant: the cache is not looked at again inside the block.
NeverCached == 0

CachedInBlock == cached

\* The token that the block finds without a grant: the one another call
\* cached in the meantime, or the static one.
Reuse(c) ==
  /\ pc[c] = "wait"
  /\ LockFree
  /\ \/ CachedInBlock # 0 /\ SendWith(c, CachedInBlock)
     \/ CachedInBlock = 0 /\ ~renewable /\ SendWith(c, 1)
  /\ UNCHANGED <<tokenVars, items, stale, call, attempt, got, refused, took>>

StartGrant(c) ==
  /\ pc[c] = "wait"
  /\ LockFree
  /\ CachedInBlock = 0
  /\ renewable
  /\ tokenLock' = c
  /\ Goto(c, "grant")
  /\ UNCHANGED <<renewable, issued, expired, cached,
                 items, stale, call, attempt, token, got, refused, took>>

Granted(c) ==
  /\ pc[c] = "grant"
  /\ issued < MaxGrants
  /\ issued' = issued + 1
  /\ cached' = issued + 1
  /\ tokenLock' = Unlocked
  /\ SendWith(c, issued + 1)
  /\ UNCHANGED <<renewable, expired, items, stale, call, attempt, got, refused, took>>

\* An error of the grant is raised past the loop of _nosql_request.
GrantFails(c) ==
  /\ pc[c] = "grant"
  /\ tokenLock' = Unlocked
  /\ Raise(c)
  /\ UNCHANGED <<renewable, issued, expired, cached, items, stale, token, got>>

\* expires_at is reached, a minute before the service gives the token up.
Lapse ==
  /\ cached # 0
  /\ cached' = 0
  /\ UNCHANGED <<renewable, issued, expired, tokenLock,
                 items, stale, call, pc, attempt, token, got, refused, took>>

\* The service gives tokens up, in the order in which it issued them, at the
\* end of their hour or before.
Revoke ==
  /\ expired < issued
  /\ \E t \in expired + 1 .. issued : expired' = t
  /\ UNCHANGED <<renewable, issued, cached, tokenLock,
                 items, stale, call, pc, attempt, token, got, refused, took>>

-----------------------------------------------------------------------------
(* One attempt of _nosql_request                                           *)

\* The item that the attempt of a writer leaves.
Written(c) ==
  CASE call[c].op = "set" -> call[c].value
    [] call[c].op = "delete" -> Missing
    [] call[c].op = "softDelete" -> Empty

Put(k, i) ==
  /\ items' = [items EXCEPT ![k] = i]
  /\ stale' = [stale EXCEPT ![k] = (@ \cup {items[k]}) \ {i}]

Fetch(c) ==
  /\ call[c].op = "get"
  /\ \E i \in {items[call[c].key]} \cup stale[call[c].key] :
       got' = [got EXCEPT ![c] = i]
  /\ UNCHANGED <<items, stale>>

Store(c) ==
  /\ call[c].op # "get"
  /\ Put(call[c].key, Written(c))
  /\ UNCHANGED got

Serve(c) ==
  /\ pc[c] = "sent"
  /\ token[c] > expired
  /\ Fetch(c) \/ Store(c)
  /\ took' = [took EXCEPT ![c] = TRUE]
  /\ token' = [token EXCEPT ![c] = 0]
  /\ Goto(c, "served")
  /\ UNCHANGED <<tokenVars, call, attempt, refused>>

Reject(c) ==
  /\ pc[c] = "sent"
  /\ token[c] <= expired
  /\ refused' = [refused EXCEPT ![c] = token[c]]
  /\ token' = [token EXCEPT ![c] = 0]
  /\ Goto(c, "unauthorized")
  /\ UNCHANGED <<tokenVars, items, stale, call, attempt, got, took>>

Return(c) ==
  /\ pc[c] = "served"
  /\ End(c, "ok")
  /\ UNCHANGED <<tokenVars, items, stale, call, token, got>>

\* Mutant: the last error is forgotten and the loop ends like a success.
ErrorForgotten(c) ==
  IF attempt[c] < MaxAttempts
  THEN /\ attempt' = [attempt EXCEPT ![c] = @ + 1]
       /\ Goto(c, "headers")
       /\ UNCHANGED <<call, refused, took>>
  ELSE End(c, "ok") /\ UNCHANGED call

\* Mutant: the bound is tested after one attempt too many.
OneTooMany(c) ==
  IF attempt[c] <= MaxAttempts
  THEN /\ attempt' = [attempt EXCEPT ![c] = @ + 1]
       /\ Goto(c, "headers")
       /\ UNCHANGED <<call, refused, took>>
  ELSE Raise(c)

\* `continue` until the last attempt, then the error is raised.
NextAttempt(c) ==
  IF attempt[c] < MaxAttempts
  THEN /\ attempt' = [attempt EXCEPT ![c] = @ + 1]
       /\ Goto(c, "headers")
       /\ UNCHANGED <<call, refused, took>>
  ELSE Raise(c)

\* 429, a 5xx or a transport error: the service may have served the attempt.
TryAgain(c) ==
  /\ pc[c] \in {"sent", "served"}
  /\ token' = [token EXCEPT ![c] = 0]
  /\ NextAttempt(c)
  /\ UNCHANGED <<tokenVars, items, stale, got>>

\* Mutant: the 401 handler leaves the cache alone.
CacheKept == cached

\* The handler drops whatever the cache holds by now.
CacheAfter401 == 0

Unauthorized(c) ==
  /\ pc[c] = "unauthorized"
  /\ cached' = CacheAfter401
  /\ NextAttempt(c)
  /\ UNCHANGED <<renewable, issued, expired, tokenLock, items, stale, token, got>>

\* Any other status is raised at once.
Refuse(c) ==
  /\ pc[c] = "sent"
  /\ token' = [token EXCEPT ![c] = 0]
  /\ Raise(c)
  /\ UNCHANGED <<tokenVars, items, stale, got>>

\* The TTL of a soft deletion.
Expire(k) ==
  /\ items[k] = Empty
  /\ Put(k, Missing)
  /\ UNCHANGED <<tokenVars, call, pc, attempt, token, got, refused, took>>

\* The replicas of the service agree on the newest item.
CatchUp(k) ==
  /\ stale[k] # {}
  /\ stale' = [stale EXCEPT ![k] = {}]
  /\ UNCHANGED <<tokenVars, items, call, pc, attempt, token, got, refused, took>>

-----------------------------------------------------------------------------
TokenStep(c) ==
  UseCached(c) \/ AwaitLock(c) \/ Reuse(c) \/ StartGrant(c) \/ Granted(c) \/ GrantFails(c)

AttemptStep(c) ==
  \/ Serve(c) \/ Reject(c) \/ Return(c)
  \/ TryAgain(c) \/ Unauthorized(c) \/ Refuse(c)

Next ==
  \/ \E c \in Caller : Call(c) \/ TokenStep(c) \/ AttemptStep(c)
  \/ Lapse
  \/ Revoke
  \/ \E k \in Key : Expire(k) \/ CatchUp(k)

\* A coroutine goes on when it can; httpx ends every request after 15 s.
Spec ==
  /\ Init
  /\ [][Next]_vars
  /\ \A c \in Caller : WF_vars(TokenStep(c) \/ AttemptStep(c))

-----------------------------------------------------------------------------
\* At most one refresh grant is under way in a process, and only while no
\* token is cached: accounts.zoho.in rejects concurrent grants
\* (_get_nosql_access_token, the lock and the second look at the cache).
OneNeededGrant ==
  \A c \in Caller : pc[c] = "grant" =>
    /\ cached = 0
    /\ \A d \in Caller : pc[d] = "grant" => d = c

\* With refresh credentials, a call never sends a token that it saw rejected:
\* whatever other calls cache and drop in between, the retry after a 401 gets a
\* token issued later (the 401 handler of _nosql_request).
RejectedNotReused ==
  renewable => \A c \in Caller : pc[c] = "sent" => token[c] # refused[c]

\* Every storage call returns or raises (the bounded loop of _nosql_request, the
\* fallback of nosql_delete, the release of the token lock).
CallsEnd == \A c \in Caller : []<>~Running(c)

\* A soft deletion is the second half of a deletion.
AsAsked(k) == IF k.op = "softDelete" THEN [op |-> "delete", key |-> k.key] ELSE k

AbstractCall == [c \in Caller |-> AsAsked(call[c])]

AbstractPhase ==
  [c \in Caller |->
     IF ~Running(c) THEN pc[c] ELSE IF took[c] THEN "done" ELSE "open"]

Abstract == INSTANCE ItemStore WITH call <- AbstractCall, phase <- AbstractPhase

\* The client implements ItemStore: however often an attempt is repeated, a call
\* has its effect between its start and its end; a write of a Locked item has it
\* once, and an exception leaves open whether there was one (nosql_get, nosql_set,
\* nosql_delete).
ImplementsItemStore == Abstract!Spec
=============================================================================
