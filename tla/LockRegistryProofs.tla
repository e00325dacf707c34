------------------------- MODULE LockRegistryProofs -------------------------
(***************************************************************************)
(* Proofs about LockRegistry.  What holds for every registry size: type    *)
(* correctness, and no Lock object held twice.  What needs the registry to *)
(* be large enough for its keys (KeysFit): mutual exclusion per key, and   *)
(* the implementation of KeyedMutex.                                       *)
(***************************************************************************)
EXTENDS LockRegistry, FiniteSetTheorems, TLAPS

USE NoLockAssumption, NoKeyAssumption, NoTaskAssumption

\* An entry is present exactly when it has a Lock object.
EntriesPaired == \A k \in Key : pos[k] = 0 <=> lockOf[k] = NoLock

\* No Lock object is stored under two keys.
EntriesDistinct ==
  \A k, m \in Key : lockOf[k] = lockOf[m] /\ lockOf[k] # NoLock => k = m

\* A task refers to a key and a Lock object exactly while it is not idle.
TasksRefer ==
  \A t \in Task : /\ pc[t] = "idle" <=> obj[t] = NoLock
                  /\ pc[t] # "idle" => key[t] \in Key

\* The _locked flag of a Lock object is set exactly while a task holds it.
FlagMeansHeld ==
  /\ \A t \in Task : pc[t] = "critical" => obj[t] \in locked
  /\ \A o \in locked : \E t \in Task : pc[t] = "critical" /\ obj[t] = o

\* Every task in the deque of a Lock object is suspended in its acquire.
DequeWaits ==
  \A o \in LockObj : \A i \in 1 .. Len(waiters[o]) :
    pc[waiters[o][i]] = "waiting" /\ obj[waiters[o][i]] = o

\* No task is twice in a deque.
DequeDistinct ==
  \A o \in LockObj : \A i, j \in 1 .. Len(waiters[o]) :
    waiters[o][i] = waiters[o][j] => i = j

\* The inductive invariant behind ObjectExclusion.
LockInv ==
  /\ TypeOK
  /\ EntriesPaired
  /\ EntriesDistinct
  /\ TasksRefer
  /\ FlagMeansHeld
  /\ DequeWaits
  /\ DequeDistinct
  /\ ObjectExclusion

\* What eviction destroys: a task's Lock object is the one a newcomer gets.
NotEvicted == \A t \in Task : pc[t] # "idle" => lockOf[key[t]] = obj[t]

-----------------------------------------------------------------------------

\* The number of entries is a natural number, positive once there is one.
LEMMA SizeNat ==
  /\ IsFiniteSet(Present)
  /\ Size \in Nat
  /\ \A k \in Key : pos[k] # 0 => Size # 0
<1>1. IsFiniteSet(Present)
  BY KeyFiniteAssumption, FS_Subset DEF Present
<1>2. Size \in Nat
  BY <1>1, FS_CardinalityType DEF Size
<1>3. ASSUME NEW k \in Key, pos[k] # 0 PROVE Size # 0
  BY <1>1, <1>3, FS_EmptySet DEF Present, Size
<1>4. QED
  BY <1>1, <1>2, <1>3

\* A registry that KeysFit is full only when it holds every key, so a miss
\* never evicts.
LEMMA MissIsNotFull ==
  ASSUME KeysFit, NEW k \in Key, pos[k] = 0
  PROVE  Size < LocksMax
<1>1. Present \subseteq Key /\ Present # Key
  BY DEF Present
<1>2. Cardinality(Present) < Cardinality(Key) /\ Cardinality(Key) \in Nat
  BY <1>1, KeyFiniteAssumption, FS_Subset, FS_CardinalityType
<1>3. QED
  BY <1>2, SizeNat, LocksMaxAssumption DEF KeysFit, Size

\* get_lock keeps the registry well typed and well formed, hands out a Lock
\* object that is now stored under the key, and never one that another key
\* or task still refers to, unless it found it under this very key.
LEMMA GetLockFacts ==
  ASSUME LockInv, NEW k \in Key, NEW o \in LockObj, GetLock(k, o)
  PROVE  /\ pos' \in [Key -> Nat]
         /\ lockOf' \in [Key -> LockObj \cup {NoLock}]
         /\ EntriesPaired'
         /\ EntriesDistinct'
         /\ lockOf'[k] = o
         /\ \A m \in Key \ {k} : lockOf'[m] \in {lockOf[m], NoLock}
         /\ lockOf[k] = o \/ o \in Unreferenced
<1> USE SizeNat, LocksMaxAssumption DEF LockInv, TypeOK, EntriesPaired, EntriesDistinct
<1>1. CASE pos[k] # 0 /\ o = lockOf[k] /\ MoveToEnd(k) /\ UNCHANGED lockOf
  BY <1>1 DEF MoveToEnd
<1>2. CASE pos[k] = 0 /\ o \in Unreferenced /\ Size >= LocksMax /\ EvictOldestAndAdd(k, o)
  <2>1. \A m \in Key : lockOf[m] # o
    BY <1>2 DEF Unreferenced
  <2>2. pos' \in [Key -> Nat] /\ lockOf' \in [Key -> LockObj \cup {NoLock}]
    BY <1>2 DEF EvictOldestAndAdd
  <2>3. EntriesPaired'
    BY <1>2 DEF EvictOldestAndAdd
  <2>4. EntriesDistinct'
    BY <1>2, <2>1 DEF EvictOldestAndAdd
  <2>5. QED
    BY <1>2, <2>2, <2>3, <2>4 DEF EvictOldestAndAdd
<1>3. CASE pos[k] = 0 /\ o \in Unreferenced /\ Size < LocksMax /\ Add(k, o)
  BY <1>3 DEF Add, Unreferenced
<1>4. QED
  BY <1>1, <1>2, <1>3 DEF GetLock

\* A Lock object nothing refers to is free and has an empty deque.
LEMMA UnreferencedIsFree ==
  ASSUME LockInv, NEW o \in Unreferenced
  PROVE  o \notin locked /\ waiters[o] = << >>
<1> USE DEF LockInv, TypeOK, Unreferenced
<1>1. o \notin locked
  BY DEF FlagMeansHeld
<1>2. Len(waiters[o]) = 0
  <2>1. SUFFICES ASSUME Len(waiters[o]) # 0 PROVE FALSE
    OBVIOUS
  <2>2. 1 \in 1 .. Len(waiters[o]) /\ waiters[o][1] \in Task
    BY <2>1
  <2>3. QED
    BY <2>2 DEF DequeWaits
<1>3. QED
  BY <1>1, <1>2

-----------------------------------------------------------------------------

LEMMA InitLockInv == Init => LockInv
BY DEF Init, LockInv, TypeOK, EntriesPaired, EntriesDistinct, TasksRefer,
       FlagMeansHeld, DequeWaits, DequeDistinct, ObjectExclusion

LEMMA EnterLockInv ==
  ASSUME LockInv, NEW t \in Task, NEW k \in Key, Enter(t, k)
  PROVE  LockInv'
<1>1. PICK o \in LockObj : /\ GetLock(k, o)
                           /\ AcquireNow(t, o) \/ AcquireWait(t, o)
                           /\ obj' = [obj EXCEPT ![t] = o]
  BY DEF Enter
<1>2. pc[t] = "idle" /\ key' = [key EXCEPT ![t] = k]
  BY DEF Enter
<1>3. /\ pos' \in [Key -> Nat]
      /\ lockOf' \in [Key -> LockObj \cup {NoLock}]
      /\ EntriesPaired' /\ EntriesDistinct'
  BY <1>1, GetLockFacts
<1> USE DEF LockInv, TypeOK
<1>4. CASE AcquireNow(t, o)
  <2>1. TypeOK'
    BY <1>1, <1>2, <1>3, <1>4 DEF AcquireNow
  <2>2. TasksRefer'
    BY <1>1, <1>2, <1>4 DEF AcquireNow, TasksRefer
  <2>3. FlagMeansHeld'
    BY <1>1, <1>2, <1>4 DEF AcquireNow, FlagMeansHeld
  <2>4. DequeWaits'
    BY <1>1, <1>2, <1>4 DEF AcquireNow, DequeWaits
  <2>5. ObjectExclusion'
    BY <1>1, <1>2, <1>4 DEF AcquireNow, ObjectExclusion, FlagMeansHeld
  <2>6. DequeDistinct'
    BY <1>4 DEF AcquireNow, DequeDistinct
  <2>7. QED
    BY <1>3, <2>1, <2>2, <2>3, <2>4, <2>5, <2>6
<1>5. CASE AcquireWait(t, o)
  <2>1. TypeOK'
    BY <1>1, <1>2, <1>3, <1>5 DEF AcquireWait
  <2>2. TasksRefer'
    BY <1>1, <1>2, <1>5 DEF AcquireWait, TasksRefer
  <2>3. FlagMeansHeld'
    BY <1>1, <1>2, <1>5 DEF AcquireWait, FlagMeansHeld
  <2>4. DequeWaits'
    <3> SUFFICES ASSUME NEW p \in LockObj, NEW i \in 1 .. Len(waiters'[p])
                 PROVE  pc'[waiters'[p][i]] = "waiting" /\ obj'[waiters'[p][i]] = p
      BY DEF DequeWaits
    <3>1. CASE p = o /\ i = Len(waiters[o]) + 1
      BY <1>1, <1>2, <1>5, <3>1 DEF AcquireWait
    <3>2. CASE ~(p = o /\ i = Len(waiters[o]) + 1)
      <4>1. i \in 1 .. Len(waiters[p]) /\ waiters'[p][i] = waiters[p][i]
        BY <1>5, <3>2 DEF AcquireWait
      <4>2. pc[waiters[p][i]] = "waiting" /\ obj[waiters[p][i]] = p /\ waiters[p][i] \in Task
        BY <4>1 DEF DequeWaits
      <4>3. QED
        BY <1>1, <1>2, <1>5, <4>1, <4>2 DEF AcquireWait
    <3>3. QED
      BY <3>1, <3>2
  <2>5. ObjectExclusion'
    BY <1>1, <1>2, <1>5 DEF AcquireWait, ObjectExclusion
  <2>6. DequeDistinct'
    <3>1. \A i \in 1 .. Len(waiters[o]) : waiters[o][i] \in Task /\ waiters[o][i] # t
      BY <1>2 DEF DequeWaits
    <3>2. QED
      BY <1>5, <3>1 DEF AcquireWait, DequeDistinct
  <2>7. QED
    BY <1>3, <2>1, <2>2, <2>3, <2>4, <2>5, <2>6
<1>6. QED
  BY <1>1, <1>4, <1>5

LEMMA WakeLockInv ==
  ASSUME LockInv, NEW t \in Task, Wake(t)
  PROVE  LockInv'
<1> DEFINE o == obj[t]
<1> USE DEF LockInv, TypeOK
<1>1. o \in LockObj
  BY DEF Wake, TasksRefer
<1>2. TypeOK'
  BY <1>1 DEF Wake, registryVars
<1>3. EntriesPaired' /\ EntriesDistinct' /\ TasksRefer'
  BY DEF Wake, registryVars, EntriesPaired, EntriesDistinct, TasksRefer
<1>4. FlagMeansHeld'
  BY <1>1 DEF Wake, FlagMeansHeld
<1>5. ObjectExclusion'
  BY <1>1 DEF Wake, FlagMeansHeld, ObjectExclusion
<1>6. waiters[o] # << >> /\ Len(Tail(waiters[o])) = Len(waiters[o]) - 1
      /\ \A i \in 1 .. Len(Tail(waiters[o])) :
           i + 1 \in 1 .. Len(waiters[o]) /\ Tail(waiters[o])[i] = waiters[o][i + 1]
  BY <1>1 DEF Wake
<1>7. DequeDistinct'
  <2> SUFFICES ASSUME NEW p \in LockObj,
                      NEW i \in 1 .. Len(waiters'[p]), NEW j \in 1 .. Len(waiters'[p]),
                      waiters'[p][i] = waiters'[p][j]
               PROVE  i = j
    BY DEF DequeDistinct
  <2>1. CASE p = o
    <3>1. waiters'[p] = Tail(waiters[o])
      BY <1>1, <2>1 DEF Wake
    <3>2. waiters[o][i + 1] = waiters[o][j + 1]
      BY <1>6, <3>1
    <3>3. i + 1 = j + 1
      BY <1>1, <1>6, <3>1, <3>2 DEF DequeDistinct
    <3>4. QED
      BY <3>1, <3>3, <1>6
  <2>2. CASE p # o
    BY <1>1, <2>2 DEF Wake, DequeDistinct
  <2>3. QED
    BY <2>1, <2>2
<1>8. DequeWaits'
  <2> SUFFICES ASSUME NEW p \in LockObj, NEW i \in 1 .. Len(waiters'[p])
               PROVE  pc'[waiters'[p][i]] = "waiting" /\ obj'[waiters'[p][i]] = p
    BY DEF DequeWaits
  <2>1. CASE p = o
    <3>1. waiters'[p] = Tail(waiters[o])
      BY <1>1, <2>1 DEF Wake
    <3>2. i + 1 \in 1 .. Len(waiters[o]) /\ waiters'[p][i] = waiters[o][i + 1]
      BY <1>6, <3>1
    <3>3. 1 \in 1 .. Len(waiters[o]) /\ waiters[o][1] = t /\ i + 1 # 1
      BY <1>1, <1>6, <3>2 DEF Wake
    <3>4. waiters[o][i + 1] # t
      BY <1>1, <3>2, <3>3 DEF DequeDistinct
    <3>5. pc[waiters[o][i + 1]] = "waiting" /\ obj[waiters[o][i + 1]] = o
          /\ waiters[o][i + 1] \in Task
      BY <1>1, <3>2 DEF DequeWaits
    <3>6. QED
      BY <2>1, <3>2, <3>4, <3>5 DEF Wake
  <2>2. CASE p # o
    <3>1. i \in 1 .. Len(waiters[p]) /\ waiters'[p][i] = waiters[p][i]
      BY <1>1, <2>2 DEF Wake
    <3>2. pc[waiters[p][i]] = "waiting" /\ obj[waiters[p][i]] = p /\ waiters[p][i] \in Task
      BY <3>1 DEF DequeWaits
    <3>3. QED
      BY <2>2, <3>1, <3>2 DEF Wake
  <2>3. QED
    BY <2>1, <2>2
<1>9. QED
  BY <1>2, <1>3, <1>4, <1>5, <1>7, <1>8

LEMMA LeaveLockInv ==
  ASSUME LockInv, NEW t \in Task, Leave(t)
  PROVE  LockInv'
<1> USE DEF LockInv, TypeOK
<1>1. TypeOK'
  BY DEF Leave, registryVars
<1>2. EntriesPaired' /\ EntriesDistinct' /\ TasksRefer' /\ DequeDistinct'
  BY DEF Leave, registryVars, EntriesPaired, EntriesDistinct, TasksRefer, DequeDistinct
<1>3. FlagMeansHeld'
  BY DEF Leave, FlagMeansHeld, TasksRefer, ObjectExclusion
<1>4. ObjectExclusion'
  BY DEF Leave, ObjectExclusion
<1>5. DequeWaits'
  BY DEF Leave, DequeWaits
<1>6. QED
  BY <1>1, <1>2, <1>3, <1>4, <1>5

LEMMA NextLockInv == LockInv /\ [Next]_vars => LockInv'
<1> SUFFICES ASSUME LockInv, [Next]_vars PROVE LockInv'
  OBVIOUS
<1>1. ASSUME NEW t \in Task, NEW k \in Key, Enter(t, k) PROVE LockInv'
  BY <1>1, EnterLockInv
<1>2. ASSUME NEW t \in Task, Wake(t) PROVE LockInv'
  BY <1>2, WakeLockInv
<1>3. ASSUME NEW t \in Task, Leave(t) PROVE LockInv'
  BY <1>3, LeaveLockInv
<1>4. CASE UNCHANGED vars
  BY <1>4 DEF LockInv, vars, registryVars, lockVars, taskVars, TypeOK, EntriesPaired,
              EntriesDistinct, TasksRefer, FlagMeansHeld, DequeWaits, DequeDistinct,
              ObjectExclusion
<1>5. QED
  BY <1>1, <1>2, <1>3, <1>4 DEF Next

\* Every state get_lock and the asyncio locks can reach satisfies LockInv.
THEOREM LockInvariant == Spec => []LockInv
BY InitLockInv, NextLockInv, PTL DEF Spec

\* Type correctness of the registry, its locks and its tasks.
THEOREM TypeCorrect == Spec => []TypeOK
<1>1. LockInv => TypeOK
  BY DEF LockInv
<1>2. QED
  BY <1>1, LockInvariant, PTL

\* Whatever get_lock evicts, no Lock object is ever held by two tasks.
THEOREM ObjectExclusionHolds == Spec => []ObjectExclusion
<1>1. LockInv => ObjectExclusion
  BY DEF LockInv
<1>2. QED
  BY <1>1, LockInvariant, PTL

-----------------------------------------------------------------------------
(* A registry that is large enough *)

\* With KeysFit no step separates a task's Lock object from its key.
LEMMA NextNotEvicted ==
  ASSUME KeysFit, LockInv, NotEvicted, [Next]_vars
  PROVE  NotEvicted'
<1> USE DEF LockInv, TypeOK
<1>1. ASSUME NEW t \in Task, NEW k \in Key, Enter(t, k) PROVE NotEvicted'
  <2>1. PICK o \in LockObj : /\ GetLock(k, o)
                             /\ AcquireNow(t, o) \/ AcquireWait(t, o)
                             /\ obj' = [obj EXCEPT ![t] = o]
    BY <1>1 DEF Enter
  <2>2. /\ \A u \in Task \ {t} : pc'[u] = pc[u] /\ key'[u] = key[u] /\ obj'[u] = obj[u]
        /\ key'[t] = k /\ obj'[t] = o
    BY <1>1, <2>1 DEF Enter, AcquireNow, AcquireWait
  <2>3. lockOf'[k] = o
    BY <2>1, GetLockFacts
  <2>4. ASSUME NEW u \in Task \ {t}, pc[u] # "idle" PROVE lockOf'[key[u]] = obj[u]
    <3>1. key[u] \in Key /\ lockOf[key[u]] = obj[u] /\ obj[u] # NoLock
      BY <2>4 DEF NotEvicted, TasksRefer
    <3>2. CASE pos[k] # 0
      BY <2>1, <3>1, <3>2 DEF GetLock
    <3>3. CASE pos[k] = 0
      <4>1. lockOf' = [lockOf EXCEPT ![k] = o]
        BY <2>1, <3>3, MissIsNotFull, SizeNat, LocksMaxAssumption DEF GetLock, Add
      <4>2. key[u] # k
        BY <3>1, <3>3 DEF EntriesPaired
      <4>3. QED
        BY <3>1, <4>1, <4>2
    <3>4. QED
      BY <3>2, <3>3
  <2>5. QED
    BY <2>2, <2>3, <2>4 DEF NotEvicted
<1>2. ASSUME NEW t \in Task, Wake(t) PROVE NotEvicted'
  BY <1>2 DEF Wake, registryVars, NotEvicted
<1>3. ASSUME NEW t \in Task, Leave(t) PROVE NotEvicted'
  BY <1>3 DEF Leave, registryVars, NotEvicted
<1>4. CASE UNCHANGED vars
  BY <1>4 DEF NotEvicted, vars, registryVars, taskVars
<1>5. QED
  BY <1>1, <1>2, <1>3, <1>4 DEF Next

LEMMA InitNotEvicted == Init => NotEvicted
BY DEF Init, NotEvicted

LEMMA NotEvictedHolds ==
  ASSUME KeysFit
  PROVE  Spec => [](LockInv /\ NotEvicted)
<1>1. LockInv /\ NotEvicted /\ [Next]_vars => LockInv' /\ NotEvicted'
  BY NextLockInv, NextNotEvicted
<1>2. QED
  BY <1>1, InitLockInv, InitNotEvicted, PTL DEF Spec

\* While every key fits in the registry, the blocks of one key exclude each
\* other: two tasks inside would share the Lock object stored under the key.
THEOREM MutualExclusionHolds ==
  ASSUME KeysFit
  PROVE  Spec => []MutualExclusion
<1>1. LockInv /\ NotEvicted => MutualExclusion
  BY DEF LockInv, NotEvicted, ObjectExclusion, MutualExclusion
<1>2. QED
  BY <1>1, NotEvictedHolds, PTL

-----------------------------------------------------------------------------
(* LockRegistry implements KeyedMutex *)

LEMMA OneHolder ==
  ASSUME LockInv, NotEvicted, NEW t \in Task, pc[t] = "critical"
  PROVE  Holders(key[t]) = {t}
<1>1. ASSUME NEW u \in Task, pc[u] = "critical", key[u] = key[t] PROVE u = t
  <2>1. obj[u] = obj[t]
    BY <1>1 DEF NotEvicted
  <2>2. QED
    BY <1>1, <2>1 DEF LockInv, ObjectExclusion
<1>2. QED
  BY <1>1 DEF Holders

\* As a task inside is the only one, Owner is that task.
LEMMA OwnerOfOneHolder ==
  ASSUME NEW k \in Key, NEW t, Holders(k) = {t}
  PROVE  Owner[k] = t
BY DEF Owner, TheHolder

LEMMA NoHolderNoOwner ==
  ASSUME NEW k \in Key, Holders(k) = {}
  PROVE  Owner[k] = NoTask
BY DEF Owner, TheHolder

\* The Lock object a key maps to is free: nobody is inside the key's block.
LEMMA FreeLockNoHolder ==
  ASSUME LockInv, NotEvicted, NEW k \in Key, lockOf[k] \notin locked
  PROVE  Holders(k) = {}
BY DEF Holders, LockInv, NotEvicted, FlagMeansHeld

LEMMA InitAbstract == Init => Abstract!Init
<1> SUFFICES ASSUME Init PROVE Abstract!Init
  OBVIOUS
<1>1. \A k \in Key : Owner[k] = NoTask
  BY NoHolderNoOwner DEF Init, Holders
<1>2. \A k \in Key : Queue[k] = << >>
  BY DEF Init, Queue
<1>3. QED
  BY <1>1, <1>2 DEF Abstract!Init, Owner, Queue

\* Entering a block: EnterFree or EnterQueue, as the Lock object is free or not.
LEMMA EnterAbstract ==
  ASSUME KeysFit, LockInv, NotEvicted, NEW t \in Task, NEW k \in Key, Enter(t, k),
         LockInv', NotEvicted'
  PROVE  Abstract!EnterFree(t, k) \/ Abstract!EnterQueue(t, k)
<1> USE DEF LockInv, TypeOK
<1>1. PICK o \in LockObj : /\ GetLock(k, o)
                           /\ AcquireNow(t, o) \/ AcquireWait(t, o)
                           /\ obj' = [obj EXCEPT ![t] = o]
  BY DEF Enter
<1>2. pc[t] = "idle" /\ key' = [key EXCEPT ![t] = k]
  BY DEF Enter
<1>3. lockOf' = [lockOf EXCEPT ![k] = o]
      /\ (lockOf[k] = o \/ (lockOf[k] = NoLock /\ o \in Unreferenced))
  <2>1. CASE pos[k] # 0
    BY <1>1, <2>1 DEF GetLock
  <2>2. CASE pos[k] = 0
    BY <1>1, <2>2, MissIsNotFull, SizeNat, LocksMaxAssumption DEF GetLock, Add, EntriesPaired
  <2>3. QED
    BY <2>1, <2>2
<1>4. lockOf[k] # o => o \notin locked /\ waiters[o] = << >>
  BY <1>3, UnreferencedIsFree
<1>5. Queue[k] = waiters[o] /\ Queue'[k] = waiters'[o]
  BY <1>3, <1>4 DEF Queue
<1>6. ASSUME NEW m \in Key \ {k}, waiters' = waiters \/ \E x : waiters' = [waiters EXCEPT ![o] = x]
      PROVE  Queue'[m] = Queue[m]
  <2>1. lockOf'[m] = lockOf[m] /\ lockOf[m] # o
    BY <1>1, <1>3 DEF EntriesDistinct, Unreferenced
  <2>2. QED
    BY <1>6, <2>1 DEF Queue
<1>7. CASE AcquireNow(t, o)
  <2>1. lockOf[k] \notin locked
    BY <1>3, <1>7 DEF AcquireNow
  <2>2. Owner[k] = NoTask /\ Queue[k] = << >>
    BY <1>5, <1>7, <2>1, FreeLockNoHolder, NoHolderNoOwner DEF AcquireNow
  <2>3. Owner' = [Owner EXCEPT ![k] = t]
    <3>1. Holders(k)' = {t} /\ TheHolder({t}) = t
      <4>1. Holders(k) = {}
        BY <2>1, FreeLockNoHolder
      <4>2. QED
        BY <1>2, <1>7, <4>1 DEF AcquireNow, Holders, TheHolder
    <3>2. \A m \in Key \ {k} : Holders(m)' = Holders(m)
      BY <1>2, <1>7 DEF AcquireNow, Holders
    <3>3. QED
      BY <3>1, <3>2 DEF Owner
  <2>4. Queue' = Queue
    <3>1. waiters' = waiters
      BY <1>7 DEF AcquireNow
    <3>2. \A m \in Key : Queue'[m] = Queue[m]
      BY <1>5, <1>6, <3>1
    <3>3. QED
      BY <3>2 DEF Queue
  <2>5. QED
    BY <2>2, <2>3, <2>4 DEF Abstract!EnterFree
<1>8. CASE AcquireWait(t, o)
  <2>1. lockOf[k] = o
    BY <1>4, <1>8 DEF AcquireWait
  <2>2. Owner[k] # NoTask \/ Queue[k] # << >>
    <3>1. CASE o \in locked
      <4>1. PICK u \in Task : pc[u] = "critical" /\ obj[u] = o
        BY <3>1 DEF FlagMeansHeld
      <4>2. key[u] = k
        <5>1. key[u] \in Key /\ lockOf[key[u]] = o
          BY <4>1 DEF NotEvicted, TasksRefer
        <5>2. QED
          BY <2>1, <5>1 DEF EntriesDistinct
      <4>3. Owner[k] = u
        BY <4>1, <4>2, OneHolder, OwnerOfOneHolder
      <4>4. QED
        BY <4>3
    <3>2. CASE waiters[o] # << >>
      BY <1>5, <3>2
    <3>3. QED
      BY <1>8, <3>1, <3>2 DEF AcquireWait
  <2>3. Queue' = [Queue EXCEPT ![k] = Append(@, t)]
    <3>1. waiters' = [waiters EXCEPT ![o] = Append(@, t)]
      BY <1>8 DEF AcquireWait
    <3>2. Queue'[k] = Append(Queue[k], t)
      BY <1>5, <3>1
    <3>3. \A m \in Key \ {k} : Queue'[m] = Queue[m]
      BY <1>6, <3>1
    <3>4. QED
      BY <3>2, <3>3 DEF Queue
  <2>4. Owner' = Owner
    <3>1. \A m \in Key : Holders(m)' = Holders(m)
      BY <1>2, <1>8 DEF AcquireWait, Holders
    <3>2. QED
      BY <3>1 DEF Owner
  <2>5. QED
    BY <2>2, <2>3, <2>4 DEF Abstract!EnterQueue
<1>9. QED
  BY <1>1, <1>7, <1>8

\* A woken waiter takes the lock: the head of its key's queue is granted.
LEMMA WakeAbstract ==
  ASSUME LockInv, NotEvicted, NEW t \in Task, Wake(t)
  PROVE  Abstract!Grant(key[t])
<1> USE DEF LockInv, TypeOK
<1>0. PICK k \in Key : key[t] = k
  BY DEF Wake, TasksRefer
<1>1. k = key[t] /\ lockOf[k] = obj[t] /\ obj[t] \in LockObj
  BY <1>0 DEF Wake, TasksRefer, NotEvicted
<1>2. Owner[k] = NoTask /\ Holders(k) = {}
  BY <1>1, FreeLockNoHolder, NoHolderNoOwner DEF Wake
<1>3. Queue[k] # << >> /\ Head(Queue[k]) = t
  BY <1>1 DEF Wake, Queue
<1>4. Owner' = [Owner EXCEPT ![k] = t]
  <2>1. Holders(k)' = {t} /\ TheHolder({t}) = t
    BY <1>1, <1>2 DEF Wake, Holders, TheHolder
  <2>2. \A m \in Key \ {k} : Holders(m)' = Holders(m)
    BY <1>1 DEF Wake, Holders
  <2>3. QED
    BY <1>1, <2>1, <2>2 DEF Owner
<1>5. Queue' = [Queue EXCEPT ![k] = Tail(@)]
  <2>1. Queue'[k] = Tail(Queue[k])
    BY <1>1 DEF Wake, Queue, registryVars
  <2>2. ASSUME NEW m \in Key \ {k} PROVE Queue'[m] = Queue[m]
    <3>1. lockOf[m] # obj[t]
      BY <1>1 DEF EntriesDistinct
    <3>2. QED
      BY <3>1 DEF Wake, Queue, registryVars
  <2>3. QED
    BY <2>1, <2>2 DEF Queue
<1>6. QED
  BY <1>1, <1>2, <1>3, <1>4, <1>5 DEF Abstract!Grant

\* The end of a block frees its key.
LEMMA LeaveAbstract ==
  ASSUME LockInv, NotEvicted, NEW t \in Task, Leave(t)
  PROVE  key[t] \in Key /\ Abstract!Leave(key[t])
<1> USE DEF LockInv, TypeOK
<1>0. PICK k \in Key : key[t] = k
  BY DEF Leave, TasksRefer
<1>1. k = key[t] /\ Holders(k) = {t}
  BY <1>0, OneHolder DEF Leave
<1>2. Owner[k] = t
  BY <1>1, OwnerOfOneHolder
<1>3. Owner' = [Owner EXCEPT ![k] = NoTask]
  <2>1. Holders(k)' = {} /\ TheHolder({}) = NoTask
    <3>1. \A u \in Task : ~(pc'[u] = "critical" /\ key'[u] = k)
      <4>1. pc'[t] = "idle"
        BY DEF Leave
      <4>2. ASSUME NEW u \in Task \ {t} PROVE ~(pc[u] = "critical" /\ key[u] = k)
        BY <1>1 DEF Holders
      <4>3. QED
        BY <4>1, <4>2 DEF Leave
    <3>2. QED
      BY <3>1 DEF Holders, TheHolder
  <2>2. \A m \in Key \ {k} : Holders(m)' = Holders(m)
    BY <1>1 DEF Leave, Holders
  <2>3. QED
    BY <1>1, <2>1, <2>2 DEF Owner
<1>4. Queue' = Queue
  BY DEF Leave, Queue, registryVars
<1>5. QED
  BY <1>1, <1>2, <1>3, <1>4 DEF Abstract!Leave

LEMMA NextAbstract ==
  ASSUME KeysFit, LockInv, NotEvicted, [Next]_vars
  PROVE  [Abstract!Next]_(Abstract!vars)
<1>1. LockInv' /\ NotEvicted'
  BY NextLockInv, NextNotEvicted
<1>2. ASSUME NEW t \in Task, NEW k \in Key, Enter(t, k) PROVE Abstract!Next
  BY <1>1, <1>2, EnterAbstract DEF Abstract!Next
<1>3. ASSUME NEW t \in Task, Wake(t) PROVE Abstract!Next
  <2>1. key[t] \in Key
    BY <1>3 DEF Wake, LockInv, TasksRefer, TypeOK
  <2>2. QED
    BY <1>3, <2>1, WakeAbstract DEF Abstract!Next
<1>4. ASSUME NEW t \in Task, Leave(t) PROVE Abstract!Next
  BY <1>4, LeaveAbstract DEF Abstract!Next
<1>5. CASE UNCHANGED vars
  BY <1>5 DEF vars, registryVars, lockVars, taskVars, Abstract!vars, Owner, Queue, Holders
<1>6. QED
  BY <1>2, <1>3, <1>4, <1>5 DEF Next

\* With a registry large enough for its keys, `async with get_lock(key)`
\* keeps the promise of KeyedMutex: exclusion, FIFO entrance, independence.
THEOREM LockRegistryImplementsKeyedMutex ==
  ASSUME KeysFit
  PROVE  Spec => ImplementsKeyedMutex
<1>1. Init => Abstract!Init
  BY InitAbstract
<1>2. LockInv /\ NotEvicted /\ [Next]_vars => [Abstract!Next]_(Abstract!vars)
  BY NextAbstract
<1>3. QED
  BY <1>1, <1>2, NotEvictedHolds, PTL DEF Spec, ImplementsKeyedMutex, Abstract!Spec

=============================================================================
