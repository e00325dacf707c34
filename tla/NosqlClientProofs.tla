-------------------------- MODULE NosqlClientProofs --------------------------
(***************************************************************************)
(* Theorems about NosqlClient for any number of calls, items, values and   *)
(* attempts.  Typed says what the other proofs need of the types; Tokens   *)
(* is inductive on top of it and gives the two properties of the token     *)
(* cache; Effects is inductive on top of it and gives the refinement.      *)
(***************************************************************************)
EXTENDS NosqlClient, TLAPS

AnyCall == Gets \cup Sets \cup Deletes \cup SoftDeletes

\* A call that runs asks for something, and there is a static token where none
\* can be granted.
Typed ==
  /\ TypeOK
  /\ \A c \in Caller : Running(c) => call[c] \in AnyCall
  /\ renewable \/ issued # 0

-----------------------------------------------------------------------------
(* Types                                                                   *)

\* Every call names a key of the table; a set brings a value.
LEMMA CallShape ==
  ASSUME NEW k \in AnyCall
  PROVE  /\ k.op \in {"get", "set", "delete", "softDelete"}
         /\ k.key \in Key
         /\ k.op = "set" => k.value \in Value
         /\ k.op = "get" => k \in Gets
         /\ k.op = "set" => k \in Sets
         /\ k.op = "delete" => k \in Deletes
         /\ k.op = "softDelete" => k \in SoftDeletes
<1>1. CASE k \in Gets
  BY <1>1 DEF Gets
<1>2. CASE k \in Sets
  BY <1>2 DEF Sets
<1>3. CASE k \in Deletes
  BY <1>3 DEF Deletes
<1>4. CASE k \in SoftDeletes
  BY <1>4 DEF SoftDeletes
<1>5. QED
  BY <1>1, <1>2, <1>3, <1>4 DEF AnyCall

LEMMA TypedInit == Init => Typed
<1>1. SUFFICES ASSUME Init PROVE Typed
  OBVIOUS
<1>2. TypeOK
  BY <1>1, AttemptsAssumption DEF Init, TypeOK, Item, NoCall
<1>3. QED
  BY <1>1, <1>2 DEF Init, Typed, Running, Trying

\* What Raise does to the call of c and to its locals is type-correct.
LEMMA TypedRaise ==
  ASSUME Typed, NEW c \in Caller, Running(c), Raise(c),
         UNCHANGED <<items, stale, got>>, UNCHANGED <<renewable, issued, expired>>,
         cached' \in 0 .. issued, tokenLock' \in Caller \cup {NoCaller},
         token' \in [Caller -> 0 .. issued]
  PROVE  Typed'
<1>1. call[c] \in AnyCall /\ call[c].key \in Key
  BY CallShape DEF Typed
<1>2. CASE call[c].op = "delete"
  <2>1. /\ call' = [call EXCEPT ![c] = [op |-> "softDelete", key |-> call[c].key]]
        /\ attempt' = [attempt EXCEPT ![c] = 1]
        /\ pc' = [pc EXCEPT ![c] = "headers"]
        /\ UNCHANGED <<refused, took>>
    BY <1>2 DEF Raise, Goto, Typed, TypeOK
  <2>2. [op |-> "softDelete", key |-> call[c].key] \in SoftDeletes
    BY <1>1 DEF SoftDeletes
  <2>3. call' \in [Caller -> AnyCall \cup {NoCall}]
    BY <2>1, <2>2 DEF Typed, TypeOK, AnyCall
  <2>4. TypeOK'
    BY <2>1, <2>3, AttemptsAssumption DEF Typed, TypeOK, AnyCall, Trying
  <2>5. \A d \in Caller : Running(d)' => call'[d] \in AnyCall
    BY <2>1, <2>2 DEF Typed, TypeOK, AnyCall, Running, Trying
  <2>6. QED
    BY <2>4, <2>5 DEF Typed
<1>3. CASE call[c].op # "delete"
  <2>1. End(c, "error") /\ UNCHANGED call
    BY <1>3 DEF Raise
  <2>2. TypeOK'
    BY <2>1, AttemptsAssumption DEF End, Goto, Typed, TypeOK, Ended
  <2>3. \A d \in Caller : Running(d)' => Running(d)
    BY <2>1 DEF End, Goto, Typed, TypeOK, Running, Trying
  <2>4. QED
    BY <2>1, <2>2, <2>3 DEF Typed
<1>4. QED
  BY <1>2, <1>3

LEMMA TypedNextAttempt ==
  ASSUME Typed, NEW c \in Caller, Running(c), NextAttempt(c),
         UNCHANGED <<items, stale, got>>, UNCHANGED <<renewable, issued, expired>>,
         cached' \in 0 .. issued, tokenLock' \in Caller \cup {NoCaller},
         token' \in [Caller -> 0 .. issued]
  PROVE  Typed'
<1>1. CASE attempt[c] < MaxAttempts
  <2>1. /\ attempt' = [attempt EXCEPT ![c] = attempt[c] + 1]
        /\ pc' = [pc EXCEPT ![c] = "headers"]
        /\ UNCHANGED <<call, refused, took>>
    BY <1>1 DEF NextAttempt, Goto, Typed, TypeOK
  <2>2. TypeOK'
    BY <1>1, <2>1, AttemptsAssumption DEF Typed, TypeOK, Trying
  <2>3. \A d \in Caller : Running(d)' => Running(d)
    BY <2>1 DEF Typed, TypeOK, Running, Trying
  <2>4. QED
    BY <2>1, <2>2, <2>3 DEF Typed
<1>2. CASE ~(attempt[c] < MaxAttempts)
  BY <1>2, TypedRaise DEF NextAttempt
<1>3. QED
  BY <1>1, <1>2

\* A served write leaves a table of items.
LEMMA WrittenType ==
  ASSUME Typed, NEW c \in Caller, Running(c), call[c].op # "get"
  PROVE  Written(c) \in Item /\ call[c].key \in Key
<1>1. /\ call[c].op \in {"get", "set", "delete", "softDelete"}
      /\ call[c].key \in Key
      /\ call[c].op = "set" => call[c].value \in Value
  BY CallShape DEF Typed
<1>2. QED
  BY <1>1 DEF Written, Item

LEMMA PutType ==
  ASSUME TypeOK, NEW k \in Key, NEW i \in Item, Put(k, i)
  PROVE  items' \in [Key -> Item] /\ stale' \in [Key -> SUBSET Item]
BY DEF TypeOK, Put

LEMMA TypedStep == Typed /\ [Next]_vars => Typed'
<1>1. SUFFICES ASSUME Typed, [Next]_vars
               PROVE  Typed'
  OBVIOUS
<1>a. /\ TypeOK
      /\ \A c \in Caller : Running(c) => call[c] \in AnyCall
      /\ renewable \/ issued # 0
  BY <1>1 DEF Typed
<1>2. ASSUME NEW c \in Caller, Call(c) PROVE Typed'
  <2>1. PICK k \in Gets \cup Sets \cup Deletes : call' = [call EXCEPT ![c] = k]
    BY <1>2 DEF Call
  <2>2. k \in AnyCall
    BY DEF AnyCall
  <2>3. TypeOK'
    BY <1>a, <1>2, <2>1, <2>2, AttemptsAssumption
    DEF Call, Goto, TypeOK, AnyCall, tokenVars, Trying
  <2>4. \A d \in Caller : Running(d)' => call'[d] \in AnyCall
    BY <1>a, <1>2, <2>1, <2>2 DEF Call, Goto, TypeOK, Running
  <2>5. QED
    BY <1>a, <1>2, <2>3, <2>4 DEF Typed, Call, tokenVars
<1>3. ASSUME NEW c \in Caller, UseCached(c) \/ AwaitLock(c) \/ Reuse(c) \/ StartGrant(c) \/ Granted(c)
      PROVE  Typed'
  <2>1. Running(c)
    BY <1>3 DEF UseCached, AwaitLock, Reuse, StartGrant, Granted, Running, Trying
  <2>2. \A d \in Caller : Running(d)' => Running(d)
    BY <1>a, <1>3, <2>1
    DEF UseCached, AwaitLock, Reuse, StartGrant, Granted, SendWith, Goto, TypeOK, Running
  <2>3. UNCHANGED call
    BY <1>3 DEF UseCached, AwaitLock, Reuse, StartGrant, Granted
  <2>4. TypeOK'
    <3>1. CASE UseCached(c) \/ AwaitLock(c)
      BY <1>a, <3>1 DEF UseCached, AwaitLock, SendWith, Goto, TypeOK, tokenVars, Trying
    <3>2. CASE Reuse(c)
      <4>1. /\ \E t \in 0 .. issued : token' = [token EXCEPT ![c] = t]
            /\ pc' = [pc EXCEPT ![c] = "sent"]
            /\ UNCHANGED <<tokenVars, items, stale, call, attempt, got, refused, took>>
        <5>1. CASE CachedInBlock # 0 /\ SendWith(c, CachedInBlock)
          BY <1>a, <3>2, <5>1 DEF Reuse, SendWith, Goto, CachedInBlock, TypeOK
        <5>2. CASE ~renewable /\ SendWith(c, 1)
          <6>1. 1 \in 0 .. issued
            BY <1>a, <5>2 DEF TypeOK
          <6>2. QED
            BY <3>2, <5>2, <6>1 DEF Reuse, SendWith, Goto
        <5>3. QED
          BY <3>2, <5>1, <5>2 DEF Reuse
      <4>2. QED
        BY <1>a, <4>1 DEF TypeOK, tokenVars, Trying
    <3>3. CASE StartGrant(c)
      BY <1>a, <3>3 DEF StartGrant, Goto, TypeOK, Trying
    <3>4. CASE Granted(c)
      BY <1>a, <3>4 DEF Granted, SendWith, Unlocked, Goto, TypeOK, Trying
    <3>5. QED
      BY <1>3, <3>1, <3>2, <3>3, <3>4
  <2>5. renewable' \/ issued' # 0
    BY <1>a, <1>3 DEF UseCached, AwaitLock, Reuse, StartGrant, Granted, tokenVars, TypeOK
  <2>6. QED
    BY <1>a, <2>2, <2>3, <2>4, <2>5 DEF Typed
<1>4. ASSUME NEW c \in Caller, GrantFails(c) PROVE Typed'
  <2>1. /\ Running(c)
        /\ Raise(c)
        /\ UNCHANGED <<renewable, issued, expired, cached, items, stale, token, got>>
        /\ tokenLock' = NoCaller
    BY <1>4 DEF GrantFails, Unlocked, Running, Trying
  <2>2. QED
    BY <1>1, <1>a, <2>1, TypedRaise DEF TypeOK
<1>5. ASSUME NEW c \in Caller, Serve(c) PROVE Typed'
  <2>1. Running(c)
    BY <1>5 DEF Serve, Running, Trying
  <2>2. items' \in [Key -> Item] /\ stale' \in [Key -> SUBSET Item]
    <3>1. CASE Fetch(c)
      BY <1>a, <3>1 DEF Fetch, TypeOK
    <3>2. CASE Store(c)
      BY <1>1, <1>a, <2>1, <3>2, WrittenType, PutType DEF Store
    <3>3. QED
      BY <1>5, <3>1, <3>2 DEF Serve
  <2>4. got' \in [Caller -> Item]
    <3>1. CASE Fetch(c)
      <4>1. call[c].key \in Key
        BY <1>a, <2>1, CallShape
      <4>2. {items[call[c].key]} \cup stale[call[c].key] \subseteq Item
        BY <1>a, <4>1 DEF TypeOK
      <4>3. QED
        BY <1>a, <3>1, <4>2 DEF Fetch, TypeOK
    <3>2. CASE Store(c)
      BY <1>a, <3>2 DEF Store, TypeOK
    <3>3. QED
      BY <1>5, <3>1, <3>2 DEF Serve
  <2>5. TypeOK'
    <3>1. /\ pc' = [pc EXCEPT ![c] = "served"]
          /\ took' = [took EXCEPT ![c] = TRUE]
          /\ token' = [token EXCEPT ![c] = 0]
          /\ UNCHANGED <<tokenVars, call, attempt, refused>>
      BY <1>5 DEF Serve, Goto
    <3>2. QED
      BY <1>a, <2>2, <2>4, <3>1 DEF TypeOK, tokenVars, Trying
  <2>6. \A d \in Caller : Running(d)' => Running(d)
    BY <1>a, <1>5, <2>1 DEF Serve, Goto, TypeOK, Running
  <2>7. QED
    BY <1>a, <1>5, <2>5, <2>6 DEF Typed, Serve, tokenVars
<1>6. ASSUME NEW c \in Caller, Reject(c) \/ Return(c) PROVE Typed'
  <2>1. Running(c)
    BY <1>6 DEF Reject, Return, Running, Trying
  <2>2. TypeOK'
    <3>1. CASE Reject(c)
      BY <1>a, <3>1 DEF Reject, Goto, TypeOK, tokenVars, Trying
    <3>2. CASE Return(c)
      BY <1>a, <3>2, AttemptsAssumption DEF Return, End, Goto, TypeOK, tokenVars, Ended
    <3>3. QED
      BY <1>6, <3>1, <3>2
  <2>3. \A d \in Caller : Running(d)' => Running(d)
    BY <1>a, <1>6, <2>1 DEF Reject, Return, End, Goto, TypeOK, Running, Trying
  <2>4. QED
    BY <1>a, <1>6, <2>2, <2>3 DEF Typed, Reject, Return, tokenVars
<1>7. ASSUME NEW c \in Caller, TryAgain(c) PROVE Typed'
  <2>1. /\ Running(c)
        /\ NextAttempt(c)
        /\ UNCHANGED <<tokenVars, items, stale, got>>
        /\ token' = [token EXCEPT ![c] = 0]
    BY <1>7 DEF TryAgain, Running, Trying
  <2>2. token' \in [Caller -> 0 .. issued]
    BY <1>a, <2>1 DEF TypeOK
  <2>3. QED
    BY <1>1, <1>a, <2>1, <2>2, TypedNextAttempt DEF TypeOK, tokenVars
<1>8. ASSUME NEW c \in Caller, Unauthorized(c) PROVE Typed'
  <2>1. /\ Running(c)
        /\ NextAttempt(c)
        /\ UNCHANGED <<renewable, issued, expired, tokenLock, items, stale, token, got>>
        /\ cached' = 0
    BY <1>8 DEF Unauthorized, CacheAfter401, Running, Trying
  <2>2. QED
    BY <1>1, <1>a, <2>1, TypedNextAttempt DEF TypeOK
<1>9. ASSUME NEW c \in Caller, Refuse(c) PROVE Typed'
  <2>1. /\ Running(c)
        /\ Raise(c)
        /\ UNCHANGED <<tokenVars, items, stale, got>>
        /\ token' = [token EXCEPT ![c] = 0]
    BY <1>9 DEF Refuse, Running, Trying
  <2>2. token' \in [Caller -> 0 .. issued]
    BY <1>a, <2>1 DEF TypeOK
  <2>3. QED
    BY <1>1, <1>a, <2>1, <2>2, TypedRaise DEF TypeOK, tokenVars
<1>10. CASE Lapse \/ Revoke
  <2>1. TypeOK'
    BY <1>a, <1>10 DEF Lapse, Revoke, TypeOK
  <2>2. QED
    BY <1>a, <1>10, <2>1 DEF Lapse, Revoke, Typed, Running
<1>11. ASSUME NEW k \in Key, Expire(k) \/ CatchUp(k) PROVE Typed'
  <2>1. items' \in [Key -> Item] /\ stale' \in [Key -> SUBSET Item]
    <3>1. CASE Expire(k)
      <4>1. Missing \in Item /\ Put(k, Missing)
        BY <3>1 DEF Expire, Item
      <4>2. QED
        BY <1>a, <4>1, PutType
    <3>2. CASE CatchUp(k)
      BY <1>a, <3>2 DEF CatchUp, TypeOK
    <3>3. QED
      BY <1>11, <3>1, <3>2
  <2>2. UNCHANGED <<tokenVars, call, pc, attempt, token, got, refused, took>>
    BY <1>11 DEF Expire, CatchUp
  <2>3. TypeOK'
    BY <1>a, <2>1, <2>2 DEF TypeOK, tokenVars
  <2>4. QED
    BY <1>a, <2>2, <2>3 DEF Typed, Running, tokenVars
<1>12. CASE UNCHANGED vars
  BY <1>a, <1>12 DEF vars, tokenVars, Typed, TypeOK, Running
<1>13. QED
  BY <1>1, <1>2, <1>3, <1>4, <1>5, <1>6, <1>7, <1>8, <1>9, <1>10, <1>11, <1>12
  DEF Next, TokenStep, AttemptStep

LEMMA TypedInvariant == Spec => []Typed
BY TypedInit, TypedStep, PTL DEF Spec

\* The storage client is type-correct (nosql_get, nosql_set, nosql_delete).
THEOREM TypeCorrect == Spec => []TypeOK
<1>1. Typed => TypeOK
  BY DEF Typed
<1>2. QED
  BY <1>1, TypedInvariant, PTL

-----------------------------------------------------------------------------
(* The token cache                                                         *)

Going == {"headers", "wait", "grant", "sent", "served"}

\* A grant is under way inside the block and with an empty cache, and what is
\* cached is newer than what any call that may still use it saw rejected: the
\* 401 handler has emptied the cache before its call goes on.
Tokens ==
  /\ \A c \in Caller : pc[c] = "grant" =>
       tokenLock = c /\ renewable /\ cached = 0
  /\ \A c \in Caller : pc[c] = "off" => refused[c] = 0
  /\ renewable => \A c \in Caller :
       /\ pc[c] \in Going => cached = 0 \/ cached > refused[c]
       /\ pc[c] = "sent" => token[c] > refused[c]

LEMMA TokensInit == Init => Tokens
BY DEF Init, Tokens, Going

\* What ends an attempt, or a call, leaves the cache as it is or empties it.
LEMMA TokensAfterRaise ==
  ASSUME Typed, Tokens, NEW c \in Caller, Running(c), Raise(c),
         cached' = 0 \/ cached' = cached, UNCHANGED renewable,
         cached' = 0 \/ pc[c] \in Going,
         \A d \in Caller \ {c} : token'[d] = token[d],
         tokenLock' = tokenLock \/ \A d \in Caller \ {c} : pc[d] # "grant"
  PROVE  Tokens'
<1>a. TypeOK
  BY DEF Typed
<1>1. CASE call[c].op = "delete"
  <2>1. pc' = [pc EXCEPT ![c] = "headers"] /\ UNCHANGED refused
    BY <1>1 DEF Raise, Goto
  <2>2. QED
    BY <1>a, <2>1 DEF Tokens, TypeOK, Going
<1>2. CASE call[c].op # "delete"
  <2>1. pc' = [pc EXCEPT ![c] = "error"] /\ refused' = [refused EXCEPT ![c] = 0]
    BY <1>2 DEF Raise, End, Goto
  <2>2. QED
    BY <1>a, <2>1 DEF Tokens, TypeOK, Going
<1>3. QED
  BY <1>1, <1>2

LEMMA TokensAfterAttempt ==
  ASSUME Typed, Tokens, NEW c \in Caller, Running(c), NextAttempt(c),
         cached' = 0 \/ cached' = cached, UNCHANGED <<renewable, tokenLock>>,
         cached' = 0 \/ pc[c] \in Going,
         \A d \in Caller \ {c} : token'[d] = token[d]
  PROVE  Tokens'
<1>a. TypeOK
  BY DEF Typed
<1>1. CASE attempt[c] < MaxAttempts
  <2>1. pc' = [pc EXCEPT ![c] = "headers"] /\ UNCHANGED refused
    BY <1>1 DEF NextAttempt, Goto
  <2>2. QED
    BY <1>a, <2>1 DEF Tokens, TypeOK, Going
<1>2. CASE ~(attempt[c] < MaxAttempts)
  BY <1>2, TokensAfterRaise DEF NextAttempt
<1>3. QED
  BY <1>1, <1>2

LEMMA TokensStep == Typed /\ Tokens /\ [Next]_vars => Tokens'
<1>1. SUFFICES ASSUME Typed, Tokens, [Next]_vars
               PROVE  Tokens'
  OBVIOUS
<1>a. TypeOK
  BY <1>1 DEF Typed
<1>2. ASSUME NEW c \in Caller, Call(c) PROVE Tokens'
  BY <1>1, <1>a, <1>2 DEF Call, Goto, Tokens, TypeOK, tokenVars, Going
<1>3. ASSUME NEW c \in Caller, UseCached(c) \/ AwaitLock(c) PROVE Tokens'
  BY <1>1, <1>a, <1>3 DEF UseCached, AwaitLock, SendWith, Goto, Tokens, TypeOK, tokenVars, Going
<1>4. ASSUME NEW c \in Caller, Reuse(c) PROVE Tokens'
  BY <1>1, <1>a, <1>4 DEF Reuse, SendWith, CachedInBlock, Goto, Tokens, TypeOK, tokenVars, Going
<1>5. ASSUME NEW c \in Caller, StartGrant(c) PROVE Tokens'
  <2>1. \A d \in Caller : pc[d] # "grant"
    BY <1>1, <1>5, CallerAssumption DEF StartGrant, LockFree, Tokens
  <2>2. QED
    BY <1>1, <1>a, <1>5, <2>1 DEF StartGrant, CachedInBlock, Goto, Tokens, TypeOK, Going
<1>6. ASSUME NEW c \in Caller, Granted(c) PROVE Tokens'
  <2>1. \A d \in Caller : pc'[d] # "grant"
    BY <1>1, <1>a, <1>6 DEF Granted, SendWith, Goto, Tokens, TypeOK
  <2>2. \A d \in Caller : issued + 1 > refused[d]
    BY <1>a DEF TypeOK
  <2>3. QED
    BY <1>1, <1>a, <1>6, <2>1, <2>2 DEF Granted, SendWith, Goto, Tokens, TypeOK, Going
<1>7. ASSUME NEW c \in Caller, GrantFails(c) PROVE Tokens'
  <2>1. \A d \in Caller \ {c} : pc[d] # "grant"
    BY <1>1, <1>7 DEF GrantFails, Tokens
  <2>2. QED
    BY <1>1, <1>7, <2>1, TokensAfterRaise DEF GrantFails, Running, Trying, Going
<1>8. ASSUME NEW c \in Caller, Serve(c) PROVE Tokens'
  BY <1>1, <1>a, <1>8 DEF Serve, Goto, Tokens, TypeOK, tokenVars, Going
<1>9. ASSUME NEW c \in Caller, Reject(c) PROVE Tokens'
  BY <1>1, <1>a, <1>9 DEF Reject, Goto, Tokens, TypeOK, tokenVars, Going
<1>10. ASSUME NEW c \in Caller, Return(c) PROVE Tokens'
  BY <1>1, <1>a, <1>10 DEF Return, End, Goto, Tokens, TypeOK, tokenVars, Going
<1>11. ASSUME NEW c \in Caller, TryAgain(c) PROVE Tokens'
  <2>1. \A d \in Caller \ {c} : token'[d] = token[d]
    BY <1>a, <1>11 DEF TryAgain, TypeOK
  <2>2. QED
    BY <1>1, <1>11, <2>1, TokensAfterAttempt DEF TryAgain, Running, Trying, Going, tokenVars
<1>12. ASSUME NEW c \in Caller, Unauthorized(c) PROVE Tokens'
  BY <1>1, <1>12, TokensAfterAttempt DEF Unauthorized, CacheAfter401, Running, Trying
<1>13. ASSUME NEW c \in Caller, Refuse(c) PROVE Tokens'
  <2>1. \A d \in Caller \ {c} : token'[d] = token[d]
    BY <1>a, <1>13 DEF Refuse, TypeOK
  <2>2. QED
    BY <1>1, <1>13, <2>1, TokensAfterRaise DEF Refuse, Running, Trying, Going, tokenVars
<1>14. CASE Lapse \/ Revoke \/ \E k \in Key : Expire(k) \/ CatchUp(k)
  BY <1>1, <1>14 DEF Lapse, Revoke, Expire, CatchUp, Tokens, tokenVars
<1>15. CASE UNCHANGED vars
  BY <1>1, <1>15 DEF vars, tokenVars, Tokens
<1>16. QED
  BY <1>1, <1>2, <1>3, <1>4, <1>5, <1>6, <1>7, <1>8, <1>9, <1>10, <1>11, <1>12, <1>13,
     <1>14, <1>15
  DEF Next, TokenStep, AttemptStep

LEMMA TokensInvariant == Spec => [](Typed /\ Tokens)
<1>1. Init => Typed /\ Tokens
  BY TypedInit, TokensInit
<1>2. Typed /\ Tokens /\ [Next]_vars => (Typed /\ Tokens)'
  BY TypedStep, TokensStep
<1>3. QED
  BY <1>1, <1>2, PTL DEF Spec

\* One refresh grant at a time, and none while a token is cached
\* (_get_nosql_access_token).
THEOREM OneNeededGrantHolds == Spec => []OneNeededGrant
<1>1. Tokens => OneNeededGrant
  BY DEF Tokens, OneNeededGrant
<1>2. QED
  BY <1>1, TokensInvariant, PTL

\* No call sends a token again that it saw rejected (the 401 handler of
\* _nosql_request).
THEOREM RejectedNotReusedHolds == Spec => []RejectedNotReused
<1>1. Typed /\ Tokens => RejectedNotReused
  BY DEF Typed, TypeOK, Tokens, RejectedNotReused
<1>2. QED
  BY <1>1, TokensInvariant, PTL

-----------------------------------------------------------------------------
(* The refinement of ItemStore                                             *)

Writing(c) == Running(c) /\ call[c].op # "get"

OnLocked(c) == call[c].key \in Locked

\* Running writers of a Locked item are alone with it, so that what an attempt
\* did is still there when the attempt is repeated.
Effects ==
  /\ \A c \in Caller : took[c] => Running(c)
  /\ \A c \in Caller : pc[c] = "served" => took[c]
  /\ \A c, d \in Caller :
       c # d /\ Writing(c) /\ Writing(d) /\ OnLocked(c) => call[c].key # call[d].key
  /\ \A c \in Caller : took[c] /\ OnLocked(c) =>
       /\ call[c].op = "set" => items[call[c].key] = call[c].value
       /\ call[c].op = "delete" => items[call[c].key] = Missing
  /\ \A k \in Key : items[k] \notin stale[k]

LEMMA EffectsInit == Init => Effects
BY DEF Init, Effects, Writing, Running, Trying, OnLocked

\* A step that ends no call, starts none and leaves the table alone.
LEMMA EffectsOfPassing ==
  ASSUME Typed, Effects, NEW c \in Caller, Running(c), Running(c)', pc'[c] # "served",
         pc' = [pc EXCEPT ![c] = pc'[c]], UNCHANGED <<items, stale, call, took>>
  PROVE  Effects'
BY DEF Typed, TypeOK, Effects, Writing, Running, OnLocked

LEMMA EffectsAfterRaise ==
  ASSUME Typed, Effects, NEW c \in Caller, Running(c), Raise(c), UNCHANGED <<items, stale>>
  PROVE  Effects'
<1>a. TypeOK /\ call[c] \in AnyCall
  BY DEF Typed
<1>1. CASE call[c].op = "delete"
  <2>1. /\ call' = [call EXCEPT ![c] = [op |-> "softDelete", key |-> call[c].key]]
        /\ pc' = [pc EXCEPT ![c] = "headers"]
        /\ UNCHANGED took
    BY <1>a, <1>1 DEF Raise, Goto, TypeOK
  <2>2. /\ \A d \in Caller : Running(d)' <=> Running(d)
        /\ \A d \in Caller : pc'[d] = "served" => pc[d] = "served"
    BY <1>a, <2>1 DEF TypeOK, Running, Trying
  <2>3. /\ \A d \in Caller : call'[d].key = call[d].key
        /\ call'[c].op = "softDelete"
        /\ \A d \in Caller \ {c} : call'[d] = call[d]
        /\ \A d \in Caller : Writing(d)' <=> Writing(d)
    BY <1>a, <1>1, <2>1, <2>2 DEF TypeOK, Writing
  <2>4. QED
    BY <2>1, <2>2, <2>3 DEF Effects, OnLocked
<1>2. CASE call[c].op # "delete"
  <2>1. /\ pc' = [pc EXCEPT ![c] = "error"]
        /\ took' = [took EXCEPT ![c] = FALSE]
        /\ UNCHANGED call
    BY <1>2 DEF Raise, End, Goto
  <2>2. \A d \in Caller : Running(d)' <=> Running(d) /\ d # c
    BY <1>a, <2>1 DEF TypeOK, Running, Trying
  <2>3. /\ \A d \in Caller : took'[d] <=> took[d] /\ d # c
        /\ \A d \in Caller : pc'[d] = "served" => pc[d] = "served" /\ d # c
        /\ \A d \in Caller : Writing(d)' => Writing(d)
    BY <1>a, <2>1, <2>2 DEF TypeOK, Writing
  <2>4. QED
    BY <2>1, <2>2, <2>3 DEF Effects, OnLocked
<1>3. QED
  BY <1>1, <1>2

LEMMA EffectsAfterAttempt ==
  ASSUME Typed, Effects, NEW c \in Caller, Running(c), NextAttempt(c), UNCHANGED <<items, stale>>
  PROVE  Effects'
<1>1. CASE attempt[c] < MaxAttempts
  <2>1. pc' = [pc EXCEPT ![c] = "headers"] /\ UNCHANGED <<call, took>>
    BY <1>1 DEF NextAttempt, Goto
  <2>2. Running(c)' /\ pc'[c] = "headers"
    BY <2>1 DEF Typed, TypeOK, Running, Trying
  <2>3. QED
    BY <2>1, <2>2, EffectsOfPassing
<1>2. CASE ~(attempt[c] < MaxAttempts)
  BY <1>2, EffectsAfterRaise DEF NextAttempt
<1>3. QED
  BY <1>1, <1>2

\* What a served attempt does, by the call that it serves.
LEMMA ServeCases ==
  ASSUME Typed, NEW c \in Caller, Serve(c)
  PROVE  \/ Fetch(c) /\ call[c].op = "get"
         \/ /\ call[c].op \in {"set", "delete", "softDelete"}
            /\ call[c].key \in Key
            /\ Put(call[c].key, Written(c))
            /\ UNCHANGED got
<1>1. Running(c)
  BY DEF Serve, Running, Trying
<1>2. QED
  BY <1>1, CallShape DEF Typed, Serve, Fetch, Store

\* A written item is not among those that it replaces.
LEMMA PutFresh ==
  ASSUME TypeOK, \A k \in Key : items[k] \notin stale[k],
         NEW k \in Key, NEW i, Put(k, i)
  PROVE  /\ \A j \in Key : items'[j] \notin stale'[j]
         /\ items'[k] = i
         /\ \A j \in Key : j # k => items'[j] = items[j]
BY DEF TypeOK, Put

\* The repetition of a write that is still there changes nothing.
LEMMA PutAgain ==
  ASSUME TypeOK, NEW k \in Key, NEW i, items[k] = i, items[k] \notin stale[k], Put(k, i)
  PROVE  UNCHANGED <<items, stale>>
<1>1. items' = items
  BY DEF TypeOK, Put
<1>2. (stale[k] \cup {items[k]}) \ {i} = stale[k]
  OBVIOUS
<1>3. stale' = stale
  BY <1>2 DEF TypeOK, Put
<1>4. QED
  BY <1>1, <1>3

LEMMA EffectsServe ==
  ASSUME Typed, Effects, NEW c \in Caller, Serve(c)
  PROVE  Effects'
<1>1. /\ Running(c)
      /\ pc' = [pc EXCEPT ![c] = "served"]
      /\ took' = [took EXCEPT ![c] = TRUE]
      /\ UNCHANGED call
  BY DEF Serve, Goto, Running, Trying
<1>2. /\ TypeOK
      /\ \A d \in Caller : Running(d) => call[d].op \in {"get", "set", "delete", "softDelete"}
                                         /\ call[d].key \in Key
  BY CallShape DEF Typed
<1>3. \A d \in Caller : Running(d)' <=> Running(d)
  BY <1>1, <1>2 DEF TypeOK, Running, Trying
<1>4. /\ \A d \in Caller : took'[d] <=> took[d] \/ d = c
      /\ \A d \in Caller : pc'[d] = "served" => pc[d] = "served" \/ d = c
      /\ \A d \in Caller : Writing(d)' <=> Writing(d)
      /\ \A d \in Caller : OnLocked(d)' <=> OnLocked(d)
  BY <1>1, <1>2, <1>3 DEF TypeOK, Writing, OnLocked
<1>5. CASE Fetch(c) /\ call[c].op = "get"
  BY <1>1, <1>3, <1>4, <1>5 DEF Fetch, Effects
<1>6. CASE Put(call[c].key, Written(c)) /\ call[c].op # "get"
  <2>1. /\ \A j \in Key : items'[j] \notin stale'[j]
        /\ items'[call[c].key] = Written(c)
        /\ \A j \in Key : j # call[c].key => items'[j] = items[j]
    <3>1. call[c].key \in Key /\ \A k \in Key : items[k] \notin stale[k]
      BY <1>1, <1>2 DEF Effects
    <3>2. QED
      BY <1>2, <1>6, <3>1, PutFresh
  <2>2. \A d \in Caller \ {c} : took[d] /\ OnLocked(d) /\ call[d].op # "get" =>
          items'[call[d].key] = items[call[d].key]
    BY <1>1, <1>2, <1>6, <2>1 DEF Effects, Writing, OnLocked
  <2>3. /\ call[c].op = "set" => items'[call[c].key] = call[c].value
        /\ call[c].op = "delete" => items'[call[c].key] = Missing
    BY <2>1 DEF Written
  <2>4. \A d \in Caller : took'[d] /\ OnLocked(d)' =>
          /\ call'[d].op = "set" => items'[call'[d].key] = call'[d].value
          /\ call'[d].op = "delete" => items'[call'[d].key] = Missing
    BY <1>1, <1>4, <2>2, <2>3 DEF Effects
  <2>5. QED
    BY <1>1, <1>3, <1>4, <2>1, <2>4 DEF Effects
<1>7. QED
  BY <1>5, <1>6, ServeCases

LEMMA EffectsStep == Typed /\ Effects /\ [Next]_vars => Effects'
<1>1. SUFFICES ASSUME Typed, Effects, [Next]_vars
               PROVE  Effects'
  OBVIOUS
<1>a. TypeOK
  BY <1>1 DEF Typed
<1>2. ASSUME NEW c \in Caller, Call(c) PROVE Effects'
  <2>1. PICK k \in Gets \cup Sets \cup Deletes :
          MayCall(c, k) /\ call' = [call EXCEPT ![c] = k]
    BY <1>2 DEF Call
  <2>2. /\ pc' = [pc EXCEPT ![c] = "headers"]
        /\ ~Running(c)
        /\ UNCHANGED <<items, stale, took>>
    BY <1>2 DEF Call, Goto, Running, Trying
  <2>3. \A d \in Caller : Running(d)' <=> Running(d) \/ d = c
    BY <1>a, <2>2 DEF TypeOK, Running, Trying
  <2>4. /\ call'[c] = k
        /\ \A d \in Caller \ {c} : call'[d] = call[d]
        /\ \A d \in Caller : pc'[d] = "served" => pc[d] = "served"
    BY <1>a, <2>1, <2>2 DEF TypeOK
  <2>5. \A d \in Caller \ {c} : Writing(d)' /\ Writing(c)' /\ k.key \in Locked =>
          call[d].key # k.key
    BY <1>a, <2>1, <2>3, <2>4 DEF MayCall, Writing
  <2>6. QED
    BY <1>1, <2>2, <2>3, <2>4, <2>5 DEF Effects, Writing, OnLocked
<1>3. ASSUME NEW c \in Caller,
             UseCached(c) \/ AwaitLock(c) \/ Reuse(c) \/ StartGrant(c) \/ Granted(c)
      PROVE  Effects'
  <2>1. /\ Running(c)
        /\ pc' = [pc EXCEPT ![c] = pc'[c]]
        /\ pc'[c] \in {"wait", "grant", "sent"}
        /\ UNCHANGED <<items, stale, call, took>>
    BY <1>a, <1>3 DEF UseCached, AwaitLock, Reuse, StartGrant, Granted, SendWith, Goto,
                      TypeOK, Running, Trying
  <2>2. QED
    BY <1>1, <2>1, EffectsOfPassing DEF Running, Trying
<1>4. ASSUME NEW c \in Caller, GrantFails(c) \/ Refuse(c) PROVE Effects'
  BY <1>1, <1>4, EffectsAfterRaise DEF GrantFails, Refuse, Running, Trying
<1>5. ASSUME NEW c \in Caller, Serve(c) PROVE Effects'
  BY <1>1, <1>5, EffectsServe
<1>6. ASSUME NEW c \in Caller, Reject(c) PROVE Effects'
  <2>1. /\ Running(c)
        /\ pc' = [pc EXCEPT ![c] = "unauthorized"]
        /\ pc'[c] = "unauthorized"
        /\ UNCHANGED <<items, stale, call, took>>
    BY <1>a, <1>6 DEF Reject, Goto, TypeOK, Running, Trying
  <2>2. QED
    BY <1>1, <2>1, EffectsOfPassing DEF Running, Trying
<1>7. ASSUME NEW c \in Caller, Return(c) PROVE Effects'
  <2>1. /\ pc' = [pc EXCEPT ![c] = "ok"]
        /\ took' = [took EXCEPT ![c] = FALSE]
        /\ UNCHANGED <<items, stale, call>>
    BY <1>7 DEF Return, End, Goto
  <2>2. \A d \in Caller : Running(d)' => Running(d) /\ d # c
    BY <1>a, <2>1 DEF TypeOK, Running, Trying
  <2>3. \A d \in Caller : d # c => (Running(d)' <=> Running(d))
    BY <1>a, <2>1 DEF TypeOK, Running, Trying
  <2>4. /\ \A d \in Caller : took'[d] <=> took[d] /\ d # c
        /\ \A d \in Caller : pc'[d] = "served" => pc[d] = "served" /\ d # c
    BY <1>a, <2>1 DEF TypeOK
  <2>5. QED
    BY <1>1, <2>1, <2>2, <2>3, <2>4 DEF Effects, Writing, OnLocked
<1>8. ASSUME NEW c \in Caller, TryAgain(c) \/ Unauthorized(c) PROVE Effects'
  BY <1>1, <1>8, EffectsAfterAttempt DEF TryAgain, Unauthorized, Running, Trying
<1>9. CASE Lapse \/ Revoke
  BY <1>1, <1>9 DEF Lapse, Revoke, Effects, Writing, Running, OnLocked
<1>10. ASSUME NEW k \in Key, Expire(k) PROVE Effects'
  <2>1. /\ \A j \in Key : items[j] # Empty => items'[j] = items[j]
        /\ \A j \in Key : items'[j] \notin stale'[j]
    BY <1>1, <1>a, <1>10, PutFresh DEF Expire, Effects
  <2>2. \A c \in Caller : took[c] /\ call[c].op = "set" =>
          call[c].key \in Key /\ call[c].value # Empty
    BY <1>1, CallShape, ItemAssumption DEF Typed, Effects
  <2>3. \A c \in Caller : took[c] /\ call[c].op = "delete" => call[c].key \in Key
    BY <1>1, CallShape DEF Typed, Effects
  <2>4. UNCHANGED <<call, pc, took>>
    BY <1>10 DEF Expire
  <2>5. QED
    BY <1>1, <2>1, <2>2, <2>3, <2>4, ItemAssumption DEF Effects, Writing, Running, OnLocked
<1>13. ASSUME NEW k \in Key, CatchUp(k) PROVE Effects'
  BY <1>1, <1>a, <1>13 DEF CatchUp, TypeOK, Effects, Writing, Running, OnLocked
<1>11. CASE UNCHANGED vars
  BY <1>1, <1>11 DEF vars, Effects, Writing, Running, OnLocked
<1>12. QED
  BY <1>1, <1>2, <1>3, <1>4, <1>5, <1>6, <1>7, <1>8, <1>9, <1>10, <1>11, <1>13
  DEF Next, TokenStep, AttemptStep

LEMMA RefinesInit == Init => Abstract!Init
BY DEF Init, Abstract!Init, Abstract!NoCall, NoCall, AbstractCall, AbstractPhase, AsAsked,
       Running, Trying

\* A step that neither begins nor ends c and has no effect is a stutter.
LEMMA RefinesPassing ==
  ASSUME Typed, NEW c \in Caller, Running(c), Running(c)',
         pc' = [pc EXCEPT ![c] = pc'[c]], UNCHANGED <<items, stale, got, took>>,
         AbstractCall' = AbstractCall
  PROVE  UNCHANGED Abstract!vars
<1>1. \A d \in Caller : Running(d)' <=> Running(d)
  BY DEF Typed, TypeOK, Running
<1>2. \A d \in Caller : ~Running(d) => pc'[d] = pc[d]
  BY DEF Typed, TypeOK
<1>3. AbstractPhase' = AbstractPhase
  BY <1>1, <1>2 DEF AbstractPhase
<1>4. QED
  BY <1>3 DEF Abstract!vars

\* Raising ends a call, or turns a deletion into its soft form.
LEMMA RefinesRaise ==
  ASSUME Typed, NEW c \in Caller, Running(c), Raise(c), UNCHANGED <<items, stale, got>>
  PROVE  Abstract!Raise(c) \/ UNCHANGED Abstract!vars
<1>a. TypeOK
  BY DEF Typed
<1>1. CASE call[c].op = "delete"
  <2>1. /\ call' = [call EXCEPT ![c] = [op |-> "softDelete", key |-> call[c].key]]
        /\ pc' = [pc EXCEPT ![c] = "headers"]
        /\ UNCHANGED took
    BY <1>a, <1>1 DEF Raise, Goto, TypeOK
  <2>2. call[c] = [op |-> "delete", key |-> call[c].key]
    <3>1. call[c] \in Deletes
      BY <1>1, CallShape DEF Typed
    <3>2. QED
      BY <3>1 DEF Deletes
  <2>3. \A d \in Caller : AsAsked(call[d])' = AsAsked(call[d])
    BY <1>a, <2>1, <2>2 DEF TypeOK, AsAsked
  <2>4. AbstractCall' = AbstractCall
    BY <2>3 DEF AbstractCall
  <2>5. pc'[c] = "headers" /\ Running(c)'
    BY <1>a, <2>1 DEF TypeOK, Running, Trying
  <2>6. QED
    BY <2>1, <2>4, <2>5, RefinesPassing
<1>2. CASE call[c].op # "delete"
  <2>1. /\ pc' = [pc EXCEPT ![c] = "error"]
        /\ took' = [took EXCEPT ![c] = FALSE]
        /\ UNCHANGED call
    BY <1>2 DEF Raise, End, Goto
  <2>2. /\ \A d \in Caller : Running(d)' <=> Running(d) /\ d # c
        /\ \A d \in Caller : d # c => pc'[d] = pc[d] /\ took'[d] = took[d]
        /\ pc'[c] = "error"
    BY <1>a, <2>1 DEF TypeOK, Running, Trying
  <2>3. AbstractPhase' = [AbstractPhase EXCEPT ![c] = "error"]
    BY <2>2 DEF AbstractPhase
  <2>4. AbstractPhase[c] \in {"open", "done"}
    BY DEF AbstractPhase
  <2>5. AbstractCall' = AbstractCall
    BY <2>1 DEF AbstractCall
  <2>6. QED
    BY <2>3, <2>4, <2>5 DEF Abstract!Raise, Abstract!Running
<1>3. QED
  BY <1>1, <1>2

LEMMA RefinesNextAttempt ==
  ASSUME Typed, NEW c \in Caller, Running(c), NextAttempt(c), UNCHANGED <<items, stale, got>>
  PROVE  Abstract!Raise(c) \/ UNCHANGED Abstract!vars
<1>1. CASE attempt[c] < MaxAttempts
  <2>1. pc' = [pc EXCEPT ![c] = "headers"] /\ UNCHANGED <<call, took>>
    BY <1>1 DEF NextAttempt, Goto
  <2>2. pc'[c] = "headers" /\ Running(c)'
    BY <2>1 DEF Typed, TypeOK, Running, Trying
  <2>3. AbstractCall' = AbstractCall
    BY <2>1 DEF AbstractCall
  <2>4. QED
    BY <2>1, <2>2, <2>3, RefinesPassing
<1>2. CASE ~(attempt[c] < MaxAttempts)
  BY <1>2, RefinesRaise DEF NextAttempt
<1>3. QED
  BY <1>1, <1>2

\* The first attempt that is served is the effect of the call; a later one repeats
\* it, which nobody sees on a Locked item, softens a deletion, or reads again.
LEMMA RefinesServe ==
  ASSUME Typed, Effects, NEW c \in Caller, Serve(c)
  PROVE  Abstract!Next \/ UNCHANGED Abstract!vars
<1>a. TypeOK
  BY DEF Typed
<1>1. /\ Running(c)
      /\ pc' = [pc EXCEPT ![c] = "served"]
      /\ took' = [took EXCEPT ![c] = TRUE]
      /\ UNCHANGED call
  BY DEF Serve, Goto, Running, Trying
<1>3. AbstractCall' = AbstractCall
  BY <1>1 DEF AbstractCall
<1>4. AbstractPhase' = [AbstractPhase EXCEPT ![c] = "done"]
  <2>1. \A d \in Caller : Running(d)' <=> Running(d)
    BY <1>a, <1>1 DEF TypeOK, Running, Trying
  <2>2. /\ took'[c]
        /\ \A d \in Caller \ {c} : pc'[d] = pc[d] /\ took'[d] = took[d]
    BY <1>a, <1>1 DEF TypeOK
  <2>3. \A d \in Caller : ~Running(d) => d # c
    BY <1>1
  <2>4. QED
    BY <1>1, <2>1, <2>2, <2>3 DEF AbstractPhase
<1>5. AbstractPhase[c] = IF took[c] THEN "done" ELSE "open"
  BY <1>1 DEF AbstractPhase
<1>6. took[c] => AbstractPhase' = AbstractPhase
  BY <1>4, <1>5 DEF AbstractPhase
<1>7. AbstractCall[c] = AsAsked(call[c])
  BY DEF AbstractCall
<1>8. CASE Fetch(c) /\ call[c].op = "get"
  <2>1. AbstractCall[c] = call[c]
    BY <1>7, <1>8 DEF AsAsked
  <2>2. Abstract!Read(c)
    BY <1>3, <1>4, <1>5, <1>8, <2>1 DEF Fetch, Abstract!Read, Abstract!Running
  <2>3. QED
    BY <2>2 DEF Abstract!Next
<1>9. CASE /\ call[c].op \in {"set", "delete", "softDelete"}
           /\ call[c].key \in Key
           /\ Put(call[c].key, Written(c))
           /\ UNCHANGED got
  <2>1. Abstract!Put(call[c].key, Written(c))
    BY <1>9 DEF Put, Abstract!Put
  <2>2. /\ AbstractCall[c].key = call[c].key
        /\ call[c].op # "softDelete" => AbstractCall[c] = call[c]
        /\ call[c].op # "set" => AbstractCall[c].op = "delete"
    BY <1>7, <1>9 DEF AsAsked
  <2>3. CASE ~took[c] \/ ~OnLocked(c)
    <3>1. AbstractPhase[c] = "open" \/ (AbstractPhase[c] = "done" /\ AbstractCall[c].key \notin Locked)
      BY <1>5, <2>2, <2>3 DEF OnLocked
    <3>2. \/ AbstractCall[c].op = "set" /\ Abstract!Put(AbstractCall[c].key, AbstractCall[c].value)
          \/ /\ AbstractCall[c].op = "delete"
             /\ \E i \in {Missing, Empty} : Abstract!Put(AbstractCall[c].key, i)
      BY <1>9, <2>1, <2>2 DEF Written
    <3>3. Abstract!Write(c)
      BY <1>3, <1>4, <1>9, <3>1, <3>2 DEF Abstract!Write
    <3>4. QED
      BY <3>3 DEF Abstract!Next
  <2>4. CASE took[c] /\ OnLocked(c) /\ call[c].op # "softDelete"
    <3>1. items[call[c].key] = Written(c) /\ items[call[c].key] \notin stale[call[c].key]
      BY <1>9, <2>4 DEF Effects, Written
    <3>2. UNCHANGED <<items, stale>>
      BY <1>a, <1>9, <3>1, PutAgain
    <3>3. QED
      BY <1>3, <1>6, <1>9, <2>4, <3>2 DEF Abstract!vars
  <2>5. CASE took[c] /\ call[c].op = "softDelete"
    <3>1. Written(c) = Empty
      BY <2>5 DEF Written
    <3>2. Abstract!Soften(c)
      BY <1>3, <1>5, <1>6, <1>9, <2>1, <2>2, <2>5, <3>1 DEF Abstract!Soften
    <3>3. QED
      BY <3>2 DEF Abstract!Next
  <2>6. QED
    BY <2>3, <2>4, <2>5
<1>10. QED
  BY <1>8, <1>9, ServeCases

LEMMA RefinesCall ==
  ASSUME Typed, Effects, NEW c \in Caller, Call(c)
  PROVE  Abstract!Begin(c)
<1>a. TypeOK
  BY DEF Typed
<1>1. PICK k \in Gets \cup Sets \cup Deletes :
        MayCall(c, k) /\ call' = [call EXCEPT ![c] = k]
  BY DEF Call
<1>2. /\ pc[c] = "off"
      /\ pc' = [pc EXCEPT ![c] = "headers"]
      /\ UNCHANGED <<items, stale, got, took>>
  BY DEF Call, Goto
<1>3. k \in Abstract!Calls /\ k.op # "softDelete"
  BY DEF Abstract!Calls, Abstract!Gets, Abstract!Sets, Abstract!Deletes, Gets, Sets, Deletes
<1>4. AbstractCall' = [AbstractCall EXCEPT ![c] = k]
  <2>1. \A d \in Caller : call'[d] = IF d = c THEN k ELSE call[d]
    BY <1>a, <1>1 DEF TypeOK
  <2>2. \A d \in Caller : AsAsked(call'[d]) = IF d = c THEN k ELSE AsAsked(call[d])
    BY <1>3, <2>1 DEF AsAsked
  <2>3. QED
    BY <2>2 DEF AbstractCall
<1>5. ~Running(c) /\ ~took[c]
  BY <1>2 DEF Effects, Running, Trying
<1>6. AbstractPhase[c] = "off"
  BY <1>2, <1>5 DEF AbstractPhase
<1>7. AbstractPhase' = [AbstractPhase EXCEPT ![c] = "open"]
  <2>1. \A d \in Caller : Running(d)' <=> Running(d) \/ d = c
    BY <1>a, <1>2 DEF TypeOK, Running, Trying
  <2>2. \A d \in Caller \ {c} : pc'[d] = pc[d]
    BY <1>a, <1>2 DEF TypeOK
  <2>3. QED
    BY <1>2, <1>5, <2>1, <2>2 DEF AbstractPhase
<1>8. Abstract!MayCall(c, k)
  <2>1. \A d \in Caller : Abstract!Running(d) => Running(d)
    BY <1>a DEF Abstract!Running, AbstractPhase, TypeOK, Running, Ended
  <2>2. \A d \in Caller : /\ AbstractCall[d].op # "get" => call[d].op # "get"
                          /\ AbstractCall[d].key = call[d].key
    BY DEF AbstractCall, AsAsked
  <2>3. QED
    BY <1>1, <2>1, <2>2 DEF MayCall, Abstract!MayCall
<1>9. QED
  BY <1>2, <1>3, <1>4, <1>6, <1>7, <1>8 DEF Abstract!Begin

LEMMA RefinesStep ==
  Typed /\ Effects /\ [Next]_vars => [Abstract!Next]_(Abstract!vars)
<1>1. SUFFICES ASSUME Typed, Effects, [Next]_vars
               PROVE  Abstract!Next \/ UNCHANGED Abstract!vars
  OBVIOUS
<1>a. TypeOK
  BY <1>1 DEF Typed
<1>2. ASSUME NEW c \in Caller, Call(c) PROVE Abstract!Next
  BY <1>1, <1>2, RefinesCall DEF Abstract!Next
<1>3. ASSUME NEW c \in Caller,
             \/ UseCached(c) \/ AwaitLock(c) \/ Reuse(c) \/ StartGrant(c) \/ Granted(c)
             \/ Reject(c)
      PROVE  UNCHANGED Abstract!vars
  <2>1. /\ Running(c)
        /\ pc' = [pc EXCEPT ![c] = pc'[c]]
        /\ pc'[c] \in {"wait", "grant", "sent", "unauthorized"}
        /\ UNCHANGED <<items, stale, got, call, took>>
    BY <1>a, <1>3 DEF UseCached, AwaitLock, Reuse, StartGrant, Granted, Reject, SendWith, Goto,
                      TypeOK, Running, Trying
  <2>2. Running(c)' /\ AbstractCall' = AbstractCall
    BY <2>1 DEF Running, Trying, AbstractCall
  <2>3. QED
    BY <1>1, <2>1, <2>2, RefinesPassing
<1>4. ASSUME NEW c \in Caller, GrantFails(c) \/ Refuse(c)
      PROVE  Abstract!Next \/ UNCHANGED Abstract!vars
  BY <1>1, <1>4, RefinesRaise DEF GrantFails, Refuse, Running, Trying, Abstract!Next
<1>5. ASSUME NEW c \in Caller, TryAgain(c) \/ Unauthorized(c)
      PROVE  Abstract!Next \/ UNCHANGED Abstract!vars
  BY <1>1, <1>5, RefinesNextAttempt DEF TryAgain, Unauthorized, Running, Trying, Abstract!Next
<1>6. ASSUME NEW c \in Caller, Serve(c) PROVE Abstract!Next \/ UNCHANGED Abstract!vars
  BY <1>1, <1>6, RefinesServe
<1>7. ASSUME NEW c \in Caller, Return(c) PROVE Abstract!Next
  <2>1. /\ pc[c] = "served"
        /\ pc' = [pc EXCEPT ![c] = "ok"]
        /\ took' = [took EXCEPT ![c] = FALSE]
        /\ UNCHANGED <<items, stale, got, call>>
    BY <1>7 DEF Return, End, Goto
  <2>2. Running(c) /\ took[c]
    BY <1>1, <2>1 DEF Effects, Running, Trying
  <2>3. /\ \A d \in Caller : Running(d)' <=> Running(d) /\ d # c
        /\ \A d \in Caller \ {c} : pc'[d] = pc[d] /\ took'[d] = took[d]
        /\ pc'[c] = "ok"
    BY <1>a, <2>1 DEF TypeOK, Running, Trying
  <2>4. AbstractPhase' = [AbstractPhase EXCEPT ![c] = "ok"]
    BY <2>3 DEF AbstractPhase
  <2>5. AbstractPhase[c] = "done" /\ AbstractCall' = AbstractCall
    BY <2>1, <2>2 DEF AbstractPhase, AbstractCall
  <2>6. QED
    BY <2>1, <2>4, <2>5 DEF Abstract!Return, Abstract!Next
<1>8. CASE Lapse \/ Revoke
  BY <1>8 DEF Lapse, Revoke, Abstract!vars, AbstractCall, AbstractPhase, Running
<1>9. ASSUME NEW k \in Key, Expire(k) \/ CatchUp(k) PROVE Abstract!Next
  <2>1. AbstractCall' = AbstractCall /\ AbstractPhase' = AbstractPhase
    BY <1>9 DEF Expire, CatchUp, AbstractCall, AbstractPhase, Running
  <2>2. Abstract!Expire(k) \/ Abstract!CatchUp(k)
    BY <1>9, <2>1 DEF Expire, CatchUp, Put, Abstract!Put, Abstract!Expire, Abstract!CatchUp
  <2>3. QED
    BY <2>2 DEF Abstract!Next
<1>10. CASE UNCHANGED vars
  BY <1>10 DEF vars, Abstract!vars, AbstractCall, AbstractPhase, Running
<1>11. QED
  BY <1>1, <1>2, <1>3, <1>4, <1>5, <1>6, <1>7, <1>8, <1>9, <1>10
  DEF Next, TokenStep, AttemptStep

LEMMA EffectsInvariant == Spec => [](Typed /\ Effects)
<1>1. Init => Typed /\ Effects
  BY TypedInit, EffectsInit
<1>2. Typed /\ Effects /\ [Next]_vars => (Typed /\ Effects)'
  BY TypedStep, EffectsStep
<1>3. QED
  BY <1>1, <1>2, PTL DEF Spec

\* Whatever is repeated, lost, refused or refreshed on the way, a call of the
\* client has its effect before it ends, and a write of an item whose writers share
\* a lock has it once (nosql_get, nosql_set, nosql_delete).
THEOREM NosqlClientImplementsItemStore == Spec => ImplementsItemStore
BY RefinesInit, RefinesStep, EffectsInvariant, PTL
DEF Spec, ImplementsItemStore, Abstract!Spec
=============================================================================
