----------------------------- MODULE KeyedMutex -----------------------------
(***************************************************************************)
(* What every caller of get_lock(key) in shared/ and backend/ relies on: a *)
(* block `async with get_lock(key)` excludes every other block with the    *)
(* same key in the same process, blocks with different keys do not affect  *)
(* each other, and blocks with one key are entered in the order they asked.*)
(* The registry of asyncio locks that provides this is LockRegistry.       *)
(***************************************************************************)
EXTENDS Sequences

CONSTANTS
  Task,       \* coroutines of one process
  Key,        \* lock keys: "session:<id>", "case:<id>", "audit:seq", ...
  NoTask

VARIABLES
  owner,      \* owner[k]: the task inside the block of k, or NoTask
  queue       \* queue[k]: the tasks suspended at the entrance of k's block

vars == <<owner, queue>>

Init ==
  /\ owner = [k \in Key |-> NoTask]
  /\ queue = [k \in Key |-> << >>]

\* A free block with nobody waiting is entered without suspending.
EnterFree(t, k) ==
  /\ owner[k] = NoTask
  /\ queue[k] = << >>
  /\ owner' = [owner EXCEPT ![k] = t]
  /\ UNCHANGED queue

EnterQueue(t, k) ==
  /\ owner[k] # NoTask \/ queue[k] # << >>
  /\ queue' = [queue EXCEPT ![k] = Append(@, t)]
  /\ UNCHANGED owner

Grant(k) ==
  /\ owner[k] = NoTask
  /\ queue[k] # << >>
  /\ owner' = [owner EXCEPT ![k] = Head(queue[k])]
  /\ queue' = [queue EXCEPT ![k] = Tail(@)]

Leave(k) ==
  /\ owner[k] # NoTask
  /\ owner' = [owner EXCEPT ![k] = NoTask]
  /\ UNCHANGED queue

Next ==
  \E k \in Key :
    \/ \E t \in Task : EnterFree(t, k) \/ EnterQueue(t, k)
    \/ Grant(k)
    \/ Leave(k)

Spec == Init /\ [][Next]_vars

=============================================================================
