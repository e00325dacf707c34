----------------------------- MODULE AuditChain -----------------------------
(***************************************************************************)
(* The hash-chained audit log of shared/audit_engine.py, kept in the NoSQL *)
(* items "audit:seq" and "audit:entry:<seq>".                              *)
(*                                                                         *)
(* write_hash_chained_entry runs under get_lock("audit:seq") of its own    *)
(* process (LockRegistry); every nosql_get and nosql_set is an await, so   *)
(* each is an action.  AppSail (backend/api/routes/query.py) and the       *)
(* Function (langgraph_router.py) both write entries; ProcOf says in which *)
(* process each call runs.  verify_audit_chain takes no lock.              *)
(*                                                                         *)
(* A storage call that raises may or may not have taken effect.  One that  *)
(* ended no longer takes effect later.                                     *)
(***************************************************************************)
EXTENDS Naturals, Sequences

CONSTANTS
  Event,        \* calls of write_hash_chained_entry, one entry each
  Process,      \* the Python processes that share the NoSQL table
  ProcOf,       \* the process each call runs in
  NoEvent,
  MaxSeq        \* bound on the sequence numbers of a run

ASSUME ProcOfAssumption == ProcOf \in [Event -> Process]
ASSUME NoEventAssumption == NoEvent \notin Event
ASSUME MaxSeqAssumption == MaxSeq \in Nat

VARIABLES
  seqDoc,       \* value of "audit:seq", 0 when the item is missing
  entries,      \* entries[n]: the item "audit:entry:<n>", or NoEntry
  holder,       \* holder[p]: the call inside get_lock("audit:seq") of p
  pc, mySeq, myPrev,            \* the locals of each call
  vpc, vNext, vEnd, vPrev       \* the locals of one verify_audit_chain call

storeVars == <<seqDoc, entries>>
writerVars == <<holder, pc, mySeq, myPrev>>
verifyVars == <<vpc, vNext, vEnd, vPrev>>
vars == <<storeVars, writerVars, verifyVars>>

Seqs == 1 .. MaxSeq

(***************************************************************************)
(* _entry_hash covers an entry and, through prev_hash, every entry before  *)
(* it.  SHA-256 is taken to be injective, so a hash is represented by the  *)
(* sequence of everything it covers.                                       *)
(***************************************************************************)
Hash == Seq(Seqs \X Event)
Genesis == << >>
EntryHash(seq, e, prev) == Append(prev, <<seq, e>>)

Entry == [event : Event \cup {NoEvent}, prev : Hash, hash : Hash]
NoEntry == [event |-> NoEvent, prev |-> Genesis, hash |-> Genesis]

\* An entry that is stored, but whose hash leaves out its predecessor.
NewEntryUnchained(seq, e, prev) ==
  [event |-> e, prev |-> prev, hash |-> EntryHash(seq, e, Genesis)]

\* A digest taken for the wrong number of the sequence.
NewEntryNextSeq(seq, e, prev) ==
  [event |-> e, prev |-> prev, hash |-> EntryHash(seq + 2, e, prev)]

NewEntry(seq, e, prev) ==
  [event |-> e, prev |-> prev, hash |-> EntryHash(seq, e, prev)]

\* The hash the next entry after seq chains to: a missing item counts as the
\* genesis hash.
PrevHash(seq) == IF seq = 0 THEN Genesis ELSE entries[seq].hash

Working == {"readSeq", "readPrev", "putEntry", "putSeq"}
Ended == {"returned", "failed", "lost"}

TypeOK ==
  /\ seqDoc \in 0 .. MaxSeq
  /\ entries \in [Seqs -> Entry]
  /\ holder \in [Process -> Event \cup {NoEvent}]
  /\ pc \in [Event -> {"idle", "waiting"} \cup Working \cup Ended]
  /\ mySeq \in [Event -> 0 .. MaxSeq]
  /\ myPrev \in [Event -> Hash]
  /\ vpc \in {"idle", "prior", "walk", "accepted", "broken"}
  /\ vNext \in 0 .. MaxSeq + 1
  /\ vEnd \in 0 .. MaxSeq
  /\ vPrev \in Hash

Init ==
  /\ seqDoc = 0
  /\ entries = [n \in Seqs |-> NoEntry]
  /\ holder = [p \in Process |-> NoEvent]
  /\ pc = [e \in Event |-> "idle"]
  /\ mySeq = [e \in Event |-> 0]
  /\ myPrev = [e \in Event |-> Genesis]
  /\ vpc = "idle" /\ vNext = 0 /\ vEnd = 0 /\ vPrev = Genesis

-----------------------------------------------------------------------------
(* write_hash_chained_entry                                                *)

Goto(e, l) == pc' = [pc EXCEPT ![e] = l]

UnlockForgotten(e) == UNCHANGED holder /\ pc[e] \in Working

\* The end of the async-with block.
Unlock(e) == holder' = [holder EXCEPT ![ProcOf[e]] = NoEvent]

Call(e) ==
  /\ pc[e] = "idle"
  /\ Goto(e, "waiting")
  /\ UNCHANGED <<storeVars, holder, mySeq, myPrev, verifyVars>>

NoLockTaken(e) == pc[e] = "waiting"

LockFree(e) == holder[ProcOf[e]] = NoEvent

Lock(e) ==
  /\ pc[e] = "waiting"
  /\ LockFree(e)
  /\ holder' = [holder EXCEPT ![ProcOf[e]] = e]
  /\ Goto(e, "readSeq")
  /\ UNCHANGED <<storeVars, mySeq, myPrev, verifyVars>>

ReadSeq(e) ==
  /\ pc[e] = "readSeq"
  /\ seqDoc < MaxSeq
  /\ mySeq' = [mySeq EXCEPT ![e] = seqDoc + 1]
  /\ myPrev' = [myPrev EXCEPT ![e] = Genesis]
  /\ Goto(e, IF seqDoc = 0 THEN "putEntry" ELSE "readPrev")
  /\ UNCHANGED <<storeVars, holder, verifyVars>>

ReadPrev(e) ==
  /\ pc[e] = "readPrev"
  /\ myPrev' = [myPrev EXCEPT ![e] = PrevHash(mySeq[e] - 1)]
  /\ Goto(e, "putEntry")
  /\ UNCHANGED <<storeVars, holder, mySeq, verifyVars>>

StoreNothing(e) == pc[e] = "putEntry" /\ UNCHANGED entries

StoreEntry(e) ==
  entries' = [entries EXCEPT ![mySeq[e]] = NewEntry(mySeq[e], e, myPrev[e])]

PutEntry(e) ==
  /\ pc[e] = "putEntry"
  /\ StoreEntry(e)
  /\ Goto(e, "putSeq")
  /\ UNCHANGED <<seqDoc, holder, mySeq, myPrev, verifyVars>>

PutSeq(e) ==
  /\ pc[e] = "putSeq"
  /\ seqDoc' = mySeq[e]
  /\ Unlock(e)
  /\ Goto(e, "returned")
  /\ UNCHANGED <<entries, mySeq, myPrev, verifyVars>>

\* A storage call raises; the exception leaves the block, is swallowed, and
\* the caller gets None.  The write it was making may have been applied.
StorageFails(e) ==
  /\ pc[e] \in Working
  /\ \/ UNCHANGED storeVars
     \/ pc[e] = "putEntry" /\ StoreEntry(e) /\ UNCHANGED seqDoc
     \/ pc[e] = "putSeq" /\ seqDoc' = mySeq[e] /\ UNCHANGED entries
  /\ Unlock(e)
  /\ Goto(e, "failed")
  /\ UNCHANGED <<mySeq, myPrev, verifyVars>>

\* A process dies with the call inside its block and the calls that wait
\* there, and comes back with a fresh registry.
Crash(p) ==
  /\ holder[p] # NoEvent
  /\ holder' = [holder EXCEPT ![p] = NoEvent]
  /\ pc' = [e \in Event |->
              IF ProcOf[e] = p /\ pc[e] \in Working \cup {"waiting"}
              THEN "lost" ELSE pc[e]]
  /\ UNCHANGED <<storeVars, mySeq, myPrev, verifyVars>>

-----------------------------------------------------------------------------
(* verify_audit_chain(start_seq)                                           *)

\* It reads the tail first, then the entry before start_seq, if there is one.
VerifyStart(start) ==
  /\ vpc = "idle"
  /\ vEnd' = seqDoc
  /\ vNext' = start
  /\ vPrev' = Genesis
  /\ vpc' = IF start > 1 THEN "prior" ELSE "walk"
  /\ UNCHANGED <<storeVars, writerVars>>

VerifyFromGenesis ==
  /\ vpc = "prior"
  /\ vpc' = "walk"
  /\ UNCHANGED <<storeVars, writerVars, vNext, vEnd, vPrev>>

VerifyPrior ==
  /\ vpc = "prior"
  /\ vPrev' = PrevHash(vNext - 1)
  /\ vpc' = "walk"
  /\ UNCHANGED <<storeVars, writerVars, vNext, vEnd>>

\* The stored entry is present and its hashes are those recomputed here.
ChainsTo(n, prev) ==
  /\ entries[n] # NoEntry
  /\ entries[n].prev = prev
  /\ entries[n].hash = EntryHash(n, entries[n].event, prev)

VerifyStep ==
  /\ vpc = "walk"
  /\ vNext <= vEnd
  /\ IF ChainsTo(vNext, vPrev)
     THEN /\ vNext' = vNext + 1
          /\ vPrev' = entries[vNext].hash
          /\ UNCHANGED vpc
     ELSE /\ vpc' = "broken"
          /\ UNCHANGED <<vNext, vPrev>>
  /\ UNCHANGED <<storeVars, writerVars, vEnd>>

VerifyEnd ==
  /\ vpc = "walk"
  /\ vNext > vEnd
  /\ vpc' = "accepted"
  /\ UNCHANGED <<storeVars, writerVars, vNext, vEnd, vPrev>>

-----------------------------------------------------------------------------

Writer(e) == Lock(e) \/ ReadSeq(e) \/ ReadPrev(e) \/ PutEntry(e) \/ PutSeq(e)

Next ==
  \/ \E e \in Event : Call(e) \/ Writer(e) \/ StorageFails(e)
  \/ \E p \in Process : Crash(p)
  \/ \E start \in Seqs : VerifyStart(start)
  \/ VerifyPrior
  \/ VerifyStep
  \/ VerifyEnd

\* The event loop runs every call that can proceed; calls are not obliged to
\* be made, and nothing obliges storage to fail or a process to die.
Fairness == \A e \in Event : WF_vars(Writer(e))

Spec == Init /\ [][Next]_vars /\ Fairness

-----------------------------------------------------------------------------
(* Properties                                                              *)

\* At most one writer process: what the per-process lock assumes.
SingleWriterProcess == \A e, f \in Event : ProcOf[e] = ProcOf[f]

\* Every recorded entry chains to the one before it, all the way back to the
\* genesis hash, whatever storage failures and crashes left behind.
ChainIntact == \A n \in 1 .. seqDoc : ChainsTo(n, PrevHash(n - 1))

\* A call that returned its entry to the caller finds it in the log for ever:
\* no later call reuses the sequence number.
AcknowledgedKept ==
  \A e \in Event : pc[e] = "returned" =>
    /\ mySeq[e] <= seqDoc
    /\ entries[mySeq[e]].event = e

\* verify_audit_chain, which takes no lock, never reports a break that is
\* only a write in progress, a failed write or a crash.
NoFalseAlarm == vpc # "broken"

\* "a monotonic audit:seq counter": it never goes back and skips no number.
CounterMonotonic == [][seqDoc' \in {seqDoc, seqDoc + 1}]_vars

\* A recorded entry is never rewritten.
RecordedImmutable == [][\A n \in 1 .. seqDoc : entries'[n] = entries[n]]_vars

\* Every call ends, even one queued behind a call whose storage fails.
CallsEnd == \A e \in Event : pc[e] = "waiting" ~> pc[e] \in Ended

\* The recorded part of the chain, as a log of events.
LogView == [n \in 1 .. seqDoc |-> entries[n].event]
Abstract == INSTANCE AuditLog WITH log <- LogView

\* The chain implements the append-only log.
ImplementsAuditLog == Abstract!Spec

=============================================================================
