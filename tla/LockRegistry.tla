---------------------------- MODULE LockRegistry ----------------------------
(***************************************************************************)
(* The process-wide registry of named asyncio locks in                     *)
(* shared/catalyst_client.py: get_lock(key) looks a Lock object up in the  *)
(* OrderedDict _locks, creates it on a miss, and evicts the least recently *)
(* requested entry when the registry holds _LOCKS_MAX of them.             *)
(*                                                                         *)
(* Every call site is `async with get_lock(key):`.  There is no await      *)
(* between the lookup and the first step of Lock.acquire, so both are one  *)
(* action (Enter).  A suspended acquire resumes in a later step (Wake).    *)
(* A task here is one activation of such a block.  The only nested block   *)
(* is the user_cases block inside the case block of delete_case; inside it *)
(* no further lock is asked for, so that it, and the one around it, end.   *)
(***************************************************************************)
EXTENDS Naturals, Sequences, FiniteSets

CONSTANTS
  Task,        \* activations of the blocks, by coroutines of one process
  Key,         \* lock keys its handlers ask for
  LockObj,     \* heap identities of asyncio.Lock objects
  NoLock, NoKey, NoTask,
  LocksMax     \* _LOCKS_MAX

ASSUME NoLockAssumption == NoLock \notin LockObj
ASSUME NoKeyAssumption == NoKey \notin Key
ASSUME NoTaskAssumption == NoTask \notin Task
ASSUME KeyFiniteAssumption == IsFiniteSet(Key)
ASSUME LocksMaxAssumption == LocksMax \in Nat \ {0}

VARIABLES
  pos,         \* pos[k]: place of k in _locks, 1 the oldest; 0 if absent
  lockOf,      \* lockOf[k]: the Lock object stored under k
  locked,      \* the Lock objects whose _locked flag is set
  waiters,     \* waiters[o]: the _waiters deque of Lock object o
  pc,          \* "idle" outside, "waiting" in acquire, "critical" inside
  key,         \* the key each task passed to get_lock
  obj          \* the Lock object get_lock returned to it

registryVars == <<pos, lockOf>>
lockVars == <<locked, waiters>>
taskVars == <<pc, key, obj>>
vars == <<registryVars, lockVars, taskVars>>

Present == {k \in Key : pos[k] # 0}
Size == Cardinality(Present)

TypeOK ==
  /\ pos \in [Key -> Nat]
  /\ lockOf \in [Key -> LockObj \cup {NoLock}]
  /\ locked \in SUBSET LockObj
  /\ waiters \in [LockObj -> Seq(Task)]
  /\ pc \in [Task -> {"idle", "waiting", "critical"}]
  /\ key \in [Task -> Key \cup {NoKey}]
  /\ obj \in [Task -> LockObj \cup {NoLock}]

Init ==
  /\ pos = [k \in Key |-> 0]
  /\ lockOf = [k \in Key |-> NoLock]
  /\ locked = {}
  /\ waiters = [o \in LockObj |-> << >>]
  /\ pc = [t \in Task |-> "idle"]
  /\ key = [t \in Task |-> NoKey]
  /\ obj = [t \in Task |-> NoLock]

-----------------------------------------------------------------------------
(* get_lock                                                                *)

\* An identity the allocator can return: nothing refers to it any more.
Unreferenced == {o \in LockObj : /\ \A k \in Key : lockOf[k] # o
                                 /\ \A t \in Task : obj[t] # o}

MoveToEndShiftingAll(k) ==
  pos' = [x \in Key |-> IF x = k THEN Size ELSE pos[x] - 1]

\* A hit: _locks.move_to_end(key).
MoveToEnd(k) ==
  pos' = [x \in Key |-> IF x = k THEN Size
                        ELSE IF pos[x] > pos[k] THEN pos[x] - 1 ELSE pos[x]]

\* A miss with a full registry: popitem(last=False), then the new entry.
\* Whether the evicted lock is held or waited for is not looked at.
EvictOldestAndAdd(k, o) ==
  /\ pos' = [x \in Key |-> IF x = k THEN Size
                           ELSE IF pos[x] = 0 THEN 0 ELSE pos[x] - 1]
  /\ lockOf' = [x \in Key |-> IF x = k THEN o
                              ELSE IF pos[x] = 1 THEN NoLock ELSE lockOf[x]]

Add(k, o) ==
  /\ pos' = [pos EXCEPT ![k] = Size + 1]
  /\ lockOf' = [lockOf EXCEPT ![k] = o]

\* The registry before its stale-loop fix: every call replaced the entry.
GetLockRecreating(k, o) ==
  /\ o \in Unreferenced
  /\ IF pos[k] # 0 THEN MoveToEnd(k) ELSE pos' = [pos EXCEPT ![k] = Size + 1]
  /\ lockOf' = [lockOf EXCEPT ![k] = o]

GetLock(k, o) ==
  \/ /\ pos[k] # 0
     /\ o = lockOf[k]
     /\ MoveToEnd(k)
     /\ UNCHANGED lockOf
  \/ /\ pos[k] = 0
     /\ o \in Unreferenced
     /\ IF Size >= LocksMax THEN EvictOldestAndAdd(k, o) ELSE Add(k, o)

-----------------------------------------------------------------------------
(* asyncio.Lock (the Python library)                                       *)

AcquireNowBarging(t, o) ==
  /\ o \notin locked
  /\ locked' = locked \cup {o}
  /\ pc' = [pc EXCEPT ![t] = "critical"]
  /\ UNCHANGED waiters

\* acquire() succeeds at once only when the lock is free and no earlier
\* waiter is still in the deque, so nobody overtakes a waiter being woken.
AcquireNow(t, o) ==
  /\ o \notin locked
  /\ waiters[o] = << >>
  /\ locked' = locked \cup {o}
  /\ pc' = [pc EXCEPT ![t] = "critical"]
  /\ UNCHANGED waiters

AcquireWait(t, o) ==
  /\ o \in locked \/ waiters[o] # << >>
  /\ waiters' = [waiters EXCEPT ![o] = Append(@, t)]
  /\ pc' = [pc EXCEPT ![t] = "waiting"]
  /\ UNCHANGED locked

\* The first waiter's future is resolved by release(); when the event loop
\* runs it, it leaves the deque and takes the lock.
Wake(t) ==
  /\ pc[t] = "waiting"
  /\ obj[t] \notin locked
  /\ waiters[obj[t]] # << >>
  /\ Head(waiters[obj[t]]) = t
  /\ waiters' = [waiters EXCEPT ![obj[t]] = Tail(@)]
  /\ locked' = locked \cup {obj[t]}
  /\ pc' = [pc EXCEPT ![t] = "critical"]
  /\ UNCHANGED <<registryVars, key, obj>>

-----------------------------------------------------------------------------
(* async with get_lock(k): ...                                             *)

Enter(t, k) ==
  /\ pc[t] = "idle"
  /\ \E o \in LockObj :
       /\ GetLock(k, o)
       /\ AcquireNow(t, o) \/ AcquireWait(t, o)
       /\ obj' = [obj EXCEPT ![t] = o]
  /\ key' = [key EXCEPT ![t] = k]

\* The block ends, normally or by an exception: __aexit__ releases the lock.
Leave(t) ==
  /\ pc[t] = "critical"
  /\ locked' = locked \ {obj[t]}
  /\ pc' = [pc EXCEPT ![t] = "idle"]
  /\ key' = [key EXCEPT ![t] = NoKey]
  /\ obj' = [obj EXCEPT ![t] = NoLock]
  /\ UNCHANGED <<registryVars, waiters>>

Next ==
  \E t \in Task :
    \/ \E k \in Key : Enter(t, k)
    \/ Wake(t)
    \/ Leave(t)

(***************************************************************************)
(* The event loop runs every ready task, and each block ends: the storage  *)
(* calls inside one have a 15 s timeout and at most 6 attempts.  Nothing   *)
(* obliges a task to ask for a lock.                                       *)
(***************************************************************************)
Fairness == \A t \in Task : WF_vars(Wake(t)) /\ WF_vars(Leave(t))

Spec == Init /\ [][Next]_vars /\ Fairness

-----------------------------------------------------------------------------
(* Properties                                                              *)

\* At most one task is inside the blocks of one key.  The comment on
\* get_lock claims "Simple LRU caching ... is both correct and sufficient
\* within a single running process": true while every key fits in the
\* registry, false once get_lock evicts the lock of a running block.
MutualExclusion ==
  \A t, u \in Task :
    pc[t] = "critical" /\ pc[u] = "critical" /\ key[t] = key[u] => t = u

\* One Lock object is never held by two tasks, evicted or not.
ObjectExclusion ==
  \A t, u \in Task :
    pc[t] = "critical" /\ pc[u] = "critical" /\ obj[t] = obj[u] => t = u

\* A task suspended in acquire gets the lock: a release always wakes the
\* head of the deque, and later arrivals queue behind it.
WaiterEnters == \A t \in Task : pc[t] = "waiting" ~> pc[t] = "critical"

\* Every key this process ever asks for fits in the registry.
KeysFit == Cardinality(Key) <= LocksMax

\* The promise made to the callers, with each key's block mapped to the
\* Lock object the registry holds for it.
Holders(k) == {t \in Task : pc[t] = "critical" /\ key[t] = k}
TheHolder(S) == IF S = {} THEN NoTask ELSE CHOOSE t \in S : TRUE
Owner == [k \in Key |-> TheHolder(Holders(k))]
Queue == [k \in Key |-> IF lockOf[k] = NoLock THEN << >> ELSE waiters[lockOf[k]]]
Abstract == INSTANCE KeyedMutex WITH owner <- Owner, queue <- Queue

\* With a registry large enough for its keys, get_lock implements KeyedMutex:
\* exclusion per key, FIFO entrance, independence of different keys.
ImplementsKeyedMutex == Abstract!Spec

=============================================================================
