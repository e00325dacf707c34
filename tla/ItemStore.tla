------------------------------ MODULE ItemStore ------------------------------
(***************************************************************************)
(* What the callers of nosql_get, nosql_set and nosql_delete may rely on.  *)
(* A call takes effect between its start and its end, if at all when it    *)
(* raises: the write of an item whose writers share a lock at one moment,  *)
(* that of another item at several, with other calls in between.  A read   *)
(* may be served an item that has been written over.  A deletion may leave *)
(* an empty document that disappears by itself.  NosqlClient implements    *)
(* this; the modules of the handlers assume more of a read (README).       *)
(***************************************************************************)
CONSTANTS
  Caller,           \* a call each
  Key, Value,
  Missing, Empty,   \* no item; the "{}" or "[]" of a deletion
  Locked            \* items whose writers run one after the other

VARIABLES
  items,    \* the table
  stale,    \* stale[k]: older items that a read of k may still be served
  call,     \* call[c]: what c asks for
  phase,    \* phase[c] \in {"off", "open", "done", "ok", "error"}
  got       \* got[c]: what a reader was last served

vars == <<items, stale, call, phase, got>>

Item == Value \cup {Missing, Empty}
Gets == [op : {"get"}, key : Key]
Sets == [op : {"set"}, key : Key, value : Value]
Deletes == [op : {"delete"}, key : Key]
Calls == Gets \cup Sets \cup Deletes
NoCall == [op |-> "none"]

Running(c) == phase[c] \in {"open", "done"}

MayCall(c, k) ==
  k.op # "get" /\ k.key \in Locked =>
    \A d \in Caller \ {c} :
      Running(d) /\ call[d].op # "get" => call[d].key # k.key

Init ==
  /\ items = [k \in Key |-> Missing]
  /\ stale = [k \in Key |-> {}]
  /\ call = [c \in Caller |-> NoCall]
  /\ phase = [c \in Caller |-> "off"]
  /\ got = [c \in Caller |-> Missing]

Begin(c) ==
  /\ phase[c] = "off"
  /\ \E k \in Calls :
       /\ MayCall(c, k)
       /\ call' = [call EXCEPT ![c] = k]
  /\ phase' = [phase EXCEPT ![c] = "open"]
  /\ UNCHANGED <<items, stale, got>>

Put(k, i) ==
  /\ items' = [items EXCEPT ![k] = i]
  /\ stale' = [stale EXCEPT ![k] = (@ \cup {items[k]}) \ {i}]

Write(c) ==
  /\ phase[c] = "open" \/ (phase[c] = "done" /\ call[c].key \notin Locked)
  /\ \/ call[c].op = "set" /\ Put(call[c].key, call[c].value)
     \/ call[c].op = "delete" /\ \E i \in {Missing, Empty} : Put(call[c].key, i)
  /\ phase' = [phase EXCEPT ![c] = "done"]
  /\ UNCHANGED <<call, got>>

\* A deletion that came through may still be followed by the fallback.
Soften(c) ==
  /\ phase[c] = "done"
  /\ call[c].op = "delete"
  /\ Put(call[c].key, Empty)
  /\ UNCHANGED <<call, phase, got>>

\* A read may be repeated until the call ends.
Read(c) ==
  /\ Running(c)
  /\ call[c].op = "get"
  /\ \E i \in {items[call[c].key]} \cup stale[call[c].key] :
       got' = [got EXCEPT ![c] = i]
  /\ phase' = [phase EXCEPT ![c] = "done"]
  /\ UNCHANGED <<items, stale, call>>

Return(c) ==
  /\ phase[c] = "done"
  /\ phase' = [phase EXCEPT ![c] = "ok"]
  /\ UNCHANGED <<items, stale, call, got>>

Raise(c) ==
  /\ Running(c)
  /\ phase' = [phase EXCEPT ![c] = "error"]
  /\ UNCHANGED <<items, stale, call, got>>

Expire(k) ==
  /\ items[k] = Empty
  /\ Put(k, Missing)
  /\ UNCHANGED <<call, phase, got>>

CatchUp(k) ==
  /\ stale[k] # {}
  /\ stale' = [stale EXCEPT ![k] = {}]
  /\ UNCHANGED <<items, call, phase, got>>

Next ==
  \/ \E c \in Caller :
       Begin(c) \/ Write(c) \/ Soften(c) \/ Read(c) \/ Return(c) \/ Raise(c)
  \/ \E k \in Key : Expire(k) \/ CatchUp(k)

Spec == Init /\ [][Next]_vars

=============================================================================
