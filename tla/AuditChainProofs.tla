-------------------------- MODULE AuditChainProofs --------------------------
(***************************************************************************)
(* Proofs about AuditChain.  Types are correct for any assignment of calls *)
(* to processes; everything else needs SingleWriterProcess, because        *)
(* get_lock("audit:seq") excludes only calls of the same process.          *)
(***************************************************************************)
EXTENDS AuditChain, SequenceTheorems, TLAPS

USE ProcOfAssumption, NoEventAssumption, MaxSeqAssumption

\* The sequence number a call has computed is one the store can hold, and an
\* entry has a predecessor to read exactly when it is not the first.
LocalsTyped ==
  /\ \A e \in Event : /\ pc[e] \in {"putEntry", "putSeq"} => mySeq[e] \in Seqs
                      /\ pc[e] = "readPrev" => mySeq[e] \in Seqs /\ mySeq[e] > 1
  /\ vpc = "prior" => vNext \in Seqs /\ vNext > 1
  /\ vpc = "walk" => vNext >= 1

TypeInv == TypeOK /\ LocalsTyped

\* An entry built from typed parts is typed; so is what the next chains to.
LEMMA HashTyped ==
  /\ NoEntry \in Entry
  /\ Genesis \in Hash
  /\ \A n \in Seqs, e \in Event, h \in Hash : NewEntry(n, e, h) \in Entry
BY DEF NoEntry, Genesis, Hash, Entry, NewEntry, EntryHash

LEMMA PrevHashTyped ==
  ASSUME entries \in [Seqs -> Entry], NEW n \in 0 .. MaxSeq
  PROVE  PrevHash(n) \in Hash
BY HashTyped DEF PrevHash, Entry, Seqs

LEMMA InitTypeInv == Init => TypeInv
BY HashTyped DEF Init, TypeInv, TypeOK, LocalsTyped, Working, Ended

LEMMA NextTypeInv == TypeInv /\ [Next]_vars => TypeInv'
<1> SUFFICES ASSUME TypeInv, [Next]_vars PROVE TypeInv'
  OBVIOUS
<1> USE DEF TypeInv, TypeOK, LocalsTyped, Working, Ended, Goto, storeVars, writerVars,
            verifyVars
<1>1. ASSUME NEW e \in Event, Call(e) PROVE TypeInv'
  BY <1>1 DEF Call
<1>2. ASSUME NEW e \in Event, Lock(e) PROVE TypeInv'
  BY <1>2 DEF Lock
<1>3. ASSUME NEW e \in Event, ReadSeq(e) PROVE TypeInv'
  BY <1>3, HashTyped DEF ReadSeq, Seqs
<1>4. ASSUME NEW e \in Event, ReadPrev(e) PROVE TypeInv'
  <2>1. PrevHash(mySeq[e] - 1) \in Hash
    BY <1>4, PrevHashTyped DEF ReadPrev, Seqs
  <2>2. QED
    BY <1>4, <2>1 DEF ReadPrev
<1>5. ASSUME NEW e \in Event, PutEntry(e) PROVE TypeInv'
  BY <1>5, HashTyped DEF PutEntry, StoreEntry
<1>6. ASSUME NEW e \in Event, PutSeq(e) PROVE TypeInv'
  BY <1>6 DEF PutSeq, Unlock, Seqs
<1>7. ASSUME NEW e \in Event, StorageFails(e) PROVE TypeInv'
  <2>1. /\ seqDoc' \in 0 .. MaxSeq
        /\ entries' \in [Seqs -> Entry]
    BY <1>7, HashTyped DEF StorageFails, StoreEntry, Seqs
  <2>2. QED
    BY <1>7, <2>1 DEF StorageFails, Unlock
<1>8. ASSUME NEW p \in Process, Crash(p) PROVE TypeInv'
  BY <1>8 DEF Crash
<1>9. ASSUME NEW start \in Seqs, VerifyStart(start) PROVE TypeInv'
  BY <1>9, HashTyped DEF VerifyStart, Seqs
<1>10. CASE VerifyPrior
  <2>1. PrevHash(vNext - 1) \in Hash
    BY <1>10, PrevHashTyped DEF VerifyPrior, Seqs
  <2>2. QED
    BY <1>10, <2>1 DEF VerifyPrior, Seqs
<1>11. CASE VerifyStep
  <2>1. vNext \in Seqs /\ entries[vNext].hash \in Hash
    BY <1>11 DEF VerifyStep, Seqs, Entry
  <2>2. QED
    BY <1>11, <2>1 DEF VerifyStep, Seqs
<1>12. CASE VerifyEnd
  BY <1>12 DEF VerifyEnd
<1>13. CASE UNCHANGED vars
  BY <1>13 DEF vars
<1>14. QED
  BY <1>1, <1>2, <1>3, <1>4, <1>5, <1>6, <1>7, <1>8, <1>9, <1>10, <1>11, <1>12, <1>13
     DEF Next, Writer

\* Type correctness, however calls are spread over processes.
THEOREM TypeCorrect == Spec => []TypeOK
<1>1. TypeInv => TypeOK
  BY DEF TypeInv
<1>2. QED
  BY <1>1, InitTypeInv, NextTypeInv, PTL DEF Spec

-----------------------------------------------------------------------------
(* One writer process *)

\* The calls inside the block are those the lock's holder names.
HolderInside ==
  \A e \in Event : pc[e] \in Working <=> holder[ProcOf[e]] = e

\* What a call has read still holds: nobody else moves the counter or the
\* entry the new one chains to.
ReadsCurrent ==
  \A e \in Event :
    /\ pc[e] \in {"readPrev", "putEntry", "putSeq"} => mySeq[e] = seqDoc + 1
    /\ pc[e] = "putEntry" => myPrev[e] = PrevHash(seqDoc)
    /\ pc[e] = "putSeq" => /\ entries[mySeq[e]] = NewEntry(mySeq[e], e, PrevHash(seqDoc))
                           /\ mySeq[e] \in Seqs

\* The event of a recorded entry belongs to a call that has ended, so no
\* event is recorded twice.
RecordedEnded ==
  \A n \in 1 .. seqDoc : /\ entries[n].event \in Event
                         /\ pc[entries[n].event] \in Ended
                         /\ mySeq[entries[n].event] = n

\* The verifier carries the hash its next entry chains to.
VerifierFollows ==
  /\ vpc # "broken"
  /\ vpc \in {"prior", "walk"} => vEnd <= seqDoc
  /\ vpc = "walk" /\ vNext <= vEnd => vPrev = PrevHash(vNext - 1)

AuditInv ==
  /\ TypeInv
  /\ HolderInside
  /\ ReadsCurrent
  /\ ChainIntact
  /\ AcknowledgedKept
  /\ RecordedEnded
  /\ VerifierFollows

\* With one process there is at most one call inside the block.
LEMMA OneInside ==
  ASSUME SingleWriterProcess, HolderInside, NEW e \in Event, NEW f \in Event,
         pc[e] \in Working, pc[f] \in Working
  PROVE  e = f
BY DEF SingleWriterProcess, HolderInside

\* An entry just built is not the missing one, and chains to its predecessor.
LEMMA NewEntryChains ==
  ASSUME NEW n, NEW e \in Event, NEW h
  PROVE  /\ NewEntry(n, e, h) # NoEntry
         /\ NewEntry(n, e, h).event = e
         /\ NewEntry(n, e, h).prev = h
         /\ NewEntry(n, e, h).hash = EntryHash(n, e, h)
BY DEF NewEntry, NoEntry

\* Storing an entry beyond the tail leaves the recorded chain as it is.
LEMMA StoreBeyondTail ==
  ASSUME TypeOK, NEW e \in Event, mySeq[e] = seqDoc + 1, mySeq[e] \in Seqs, StoreEntry(e)
  PROVE  /\ \A n \in 1 .. seqDoc : entries'[n] = entries[n]
         /\ \A n \in 0 .. seqDoc : PrevHash(n)' = PrevHash(n)
         /\ entries'[mySeq[e]] = NewEntry(mySeq[e], e, myPrev[e])
BY DEF TypeOK, StoreEntry, PrevHash, Seqs

\* ChainIntact depends on nothing but the recorded entries.
LEMMA ChainKept ==
  ASSUME TypeOK, ChainIntact, seqDoc' = seqDoc,
         \A n \in 1 .. seqDoc : entries'[n] = entries[n]
  PROVE  ChainIntact'
BY DEF TypeOK, ChainIntact, ChainsTo, PrevHash

\* The counter moves over the entry just stored: the chain is one longer.
LEMMA ChainGrows ==
  ASSUME AuditInv, NEW e \in Event, pc[e] = "putSeq", seqDoc' = mySeq[e], entries' = entries
  PROVE  ChainIntact'
<1>1. /\ mySeq[e] = seqDoc + 1 /\ mySeq[e] \in Seqs
      /\ entries[mySeq[e]] = NewEntry(mySeq[e], e, PrevHash(seqDoc))
  BY DEF AuditInv, ReadsCurrent
<1>2. \A n \in 0 .. MaxSeq : PrevHash(n)' = PrevHash(n)
  BY DEF PrevHash
<1>3. ASSUME NEW n \in 1 .. seqDoc' PROVE ChainsTo(n, PrevHash(n - 1))'
  <2>1. CASE n \in 1 .. seqDoc
    BY <2>1, <1>2 DEF AuditInv, TypeInv, TypeOK, ChainIntact, ChainsTo
  <2>2. CASE n = mySeq[e]
    <3>1. n - 1 = seqDoc /\ PrevHash(n - 1)' = PrevHash(seqDoc)
      BY <1>1, <1>2, <2>2 DEF AuditInv, TypeInv, TypeOK
    <3>2. QED
      BY <1>1, <2>2, <3>1, NewEntryChains DEF ChainsTo
  <2>3. QED
    BY <1>1, <2>1, <2>2 DEF AuditInv, TypeInv, TypeOK
<1>4. QED
  BY <1>3 DEF ChainIntact

-----------------------------------------------------------------------------

LEMMA InitAuditInv == Init => AuditInv
<1> SUFFICES ASSUME Init PROVE AuditInv
  OBVIOUS
<1>1. TypeInv
  BY InitTypeInv
<1>2. HolderInside /\ ReadsCurrent /\ AcknowledgedKept /\ VerifierFollows
  BY DEF Init, HolderInside, ReadsCurrent, AcknowledgedKept, VerifierFollows, Working
<1>3. ChainIntact /\ RecordedEnded
  BY DEF Init, ChainIntact, RecordedEnded
<1>4. QED
  BY <1>1, <1>2, <1>3 DEF AuditInv

\* A step that leaves the store alone keeps everything said about it.
LEMMA StoreKept ==
  ASSUME AuditInv, UNCHANGED storeVars
  PROVE  ChainIntact' /\ \A n \in 0 .. MaxSeq : PrevHash(n)' = PrevHash(n)
<1>1. seqDoc' = seqDoc /\ entries' = entries
  BY DEF storeVars
<1>2. QED
  BY <1>1, ChainKept DEF PrevHash, AuditInv, TypeInv

LEMMA CallInv ==
  ASSUME AuditInv, TypeInv', NEW e \in Event, Call(e)
  PROVE  AuditInv'
<1>1. UNCHANGED storeVars /\ seqDoc' = seqDoc /\ entries' = entries
      /\ UNCHANGED verifyVars
  BY DEF Call, storeVars
<1>2. ChainIntact' /\ \A n \in 0 .. MaxSeq : PrevHash(n)' = PrevHash(n)
  BY <1>1, StoreKept
<1> USE DEF AuditInv, TypeInv, TypeOK, Call, Goto
<1>3. HolderInside'
  BY DEF HolderInside, Working
<1>4. ReadsCurrent'
  BY <1>1, <1>2 DEF ReadsCurrent
<1>5. AcknowledgedKept' /\ RecordedEnded'
  BY <1>1 DEF AcknowledgedKept, RecordedEnded, Ended
<1>6. VerifierFollows'
  BY <1>1, <1>2 DEF VerifierFollows, verifyVars, LocalsTyped
<1>7. QED
  BY <1>2, <1>3, <1>4, <1>5, <1>6

LEMMA LockStepInv ==
  ASSUME AuditInv, TypeInv', NEW e \in Event, Lock(e)
  PROVE  AuditInv'
<1>1. UNCHANGED storeVars /\ seqDoc' = seqDoc /\ entries' = entries
      /\ UNCHANGED verifyVars
  BY DEF Lock, storeVars
<1>2. ChainIntact' /\ \A n \in 0 .. MaxSeq : PrevHash(n)' = PrevHash(n)
  BY <1>1, StoreKept
<1> USE DEF AuditInv, TypeInv, TypeOK, Lock, Goto
<1>3. HolderInside'
  BY DEF HolderInside, Working, LockFree
<1>4. ReadsCurrent'
  BY <1>1, <1>2 DEF ReadsCurrent
<1>5. AcknowledgedKept' /\ RecordedEnded'
  BY <1>1 DEF AcknowledgedKept, RecordedEnded, Ended
<1>6. VerifierFollows'
  BY <1>1, <1>2 DEF VerifierFollows, verifyVars, LocalsTyped
<1>7. QED
  BY <1>2, <1>3, <1>4, <1>5, <1>6

LEMMA ReadSeqInv ==
  ASSUME AuditInv, TypeInv', NEW e \in Event, ReadSeq(e)
  PROVE  AuditInv'
<1>1. UNCHANGED storeVars /\ seqDoc' = seqDoc /\ entries' = entries
      /\ UNCHANGED verifyVars
  BY DEF ReadSeq, storeVars
<1>2. ChainIntact' /\ \A n \in 0 .. MaxSeq : PrevHash(n)' = PrevHash(n)
  BY <1>1, StoreKept
<1> USE DEF AuditInv, TypeInv, TypeOK, ReadSeq, Goto
<1>3. HolderInside'
  BY DEF HolderInside, Working
<1>4. ReadsCurrent'
  BY <1>1, <1>2 DEF ReadsCurrent, PrevHash
<1>5. AcknowledgedKept' /\ RecordedEnded'
  BY <1>1 DEF AcknowledgedKept, RecordedEnded, Ended
<1>6. VerifierFollows'
  BY <1>1, <1>2 DEF VerifierFollows, verifyVars, LocalsTyped
<1>7. QED
  BY <1>2, <1>3, <1>4, <1>5, <1>6

LEMMA ReadPrevInv ==
  ASSUME AuditInv, TypeInv', NEW e \in Event, ReadPrev(e)
  PROVE  AuditInv'
<1>1. UNCHANGED storeVars /\ seqDoc' = seqDoc /\ entries' = entries
      /\ UNCHANGED verifyVars
  BY DEF ReadPrev, storeVars
<1>2. ChainIntact' /\ \A n \in 0 .. MaxSeq : PrevHash(n)' = PrevHash(n)
  BY <1>1, StoreKept
<1> USE DEF AuditInv, TypeInv, TypeOK, ReadPrev, Goto
<1>3. HolderInside'
  BY DEF HolderInside, Working
<1>4. ReadsCurrent'
  <2>1. mySeq[e] - 1 = seqDoc
    BY DEF ReadsCurrent
  <2>2. QED
    BY <1>1, <1>2, <2>1 DEF ReadsCurrent
<1>5. AcknowledgedKept' /\ RecordedEnded'
  BY <1>1 DEF AcknowledgedKept, RecordedEnded, Ended
<1>6. VerifierFollows'
  BY <1>1, <1>2 DEF VerifierFollows, verifyVars, LocalsTyped
<1>7. QED
  BY <1>2, <1>3, <1>4, <1>5, <1>6

\* An entry stored beyond the tail, by a write that returned or that raised.
LEMMA StoreEntryInv ==
  ASSUME SingleWriterProcess, AuditInv, NEW e \in Event, pc[e] = "putEntry", StoreEntry(e),
         seqDoc' = seqDoc
  PROVE  /\ \A n \in 1 .. seqDoc : entries'[n] = entries[n]
         /\ \A n \in 0 .. seqDoc : PrevHash(n)' = PrevHash(n)
         /\ ChainIntact'
         /\ mySeq[e] = seqDoc + 1 /\ mySeq[e] \in Seqs
         /\ entries'[mySeq[e]] = NewEntry(mySeq[e], e, PrevHash(seqDoc))
         /\ \A f \in Event \ {e} : pc[f] \notin Working
<1>1. mySeq[e] = seqDoc + 1 /\ mySeq[e] \in Seqs /\ myPrev[e] = PrevHash(seqDoc)
  BY DEF AuditInv, ReadsCurrent, TypeInv, LocalsTyped
<1>2. /\ \A n \in 1 .. seqDoc : entries'[n] = entries[n]
      /\ \A n \in 0 .. seqDoc : PrevHash(n)' = PrevHash(n)
      /\ entries'[mySeq[e]] = NewEntry(mySeq[e], e, myPrev[e])
  BY <1>1, StoreBeyondTail DEF AuditInv, TypeInv
<1>3. ChainIntact'
  BY <1>2, ChainKept DEF AuditInv, TypeInv
<1>4. \A f \in Event \ {e} : pc[f] \notin Working
  BY OneInside DEF AuditInv, Working
<1>5. QED
  BY <1>1, <1>2, <1>3, <1>4

LEMMA PutEntryInv ==
  ASSUME SingleWriterProcess, AuditInv, TypeInv', NEW e \in Event, PutEntry(e)
  PROVE  AuditInv'
<1>1. seqDoc' = seqDoc /\ UNCHANGED verifyVars /\ pc[e] = "putEntry" /\ StoreEntry(e)
  BY DEF PutEntry
<1>2. /\ \A n \in 1 .. seqDoc : entries'[n] = entries[n]
      /\ \A n \in 0 .. seqDoc : PrevHash(n)' = PrevHash(n)
      /\ ChainIntact'
      /\ mySeq[e] = seqDoc + 1 /\ mySeq[e] \in Seqs
      /\ entries'[mySeq[e]] = NewEntry(mySeq[e], e, PrevHash(seqDoc))
      /\ \A f \in Event \ {e} : pc[f] \notin Working
  BY <1>1, StoreEntryInv
<1> USE DEF AuditInv, TypeInv, TypeOK, PutEntry, Goto
<1>3. HolderInside'
  BY DEF HolderInside, Working
<1>4. ReadsCurrent'
  BY <1>1, <1>2 DEF ReadsCurrent, Working
<1>5. AcknowledgedKept'
  <2> SUFFICES ASSUME NEW f \in Event, pc'[f] = "returned"
               PROVE  mySeq'[f] <= seqDoc' /\ entries'[mySeq'[f]].event = f
    BY DEF AcknowledgedKept
  <2>1. pc[f] = "returned" /\ mySeq'[f] = mySeq[f]
    OBVIOUS
  <2>2. mySeq[f] <= seqDoc /\ entries[mySeq[f]].event = f
    BY <2>1 DEF AcknowledgedKept
  <2>3. mySeq[f] # mySeq[e] /\ mySeq[f] \in Nat
    BY <1>2, <2>2
  <2>4. entries'[mySeq[f]] = entries[mySeq[f]]
    BY <1>1, <2>3 DEF StoreEntry
  <2>5. QED
    BY <1>1, <2>1, <2>2, <2>4
<1>6. RecordedEnded'
  BY <1>1, <1>2 DEF RecordedEnded, Ended
<1>7. VerifierFollows'
  BY <1>1, <1>2 DEF VerifierFollows, verifyVars, LocalsTyped
<1>8. QED
  BY <1>2, <1>3, <1>4, <1>5, <1>6, <1>7

\* The counter moved over the new entry by a write that returned or raised.
LEMMA PutSeqStoreInv ==
  ASSUME SingleWriterProcess, AuditInv, TypeInv', NEW e \in Event, pc[e] = "putSeq",
         seqDoc' = mySeq[e], entries' = entries, Unlock(e),
         NEW l \in {"returned", "failed"}, Goto(e, l),
         UNCHANGED <<mySeq, myPrev, verifyVars>>
  PROVE  AuditInv'
<1>1. /\ mySeq[e] = seqDoc + 1 /\ mySeq[e] \in Seqs
      /\ entries[mySeq[e]].event = e
  BY NewEntryChains DEF AuditInv, ReadsCurrent
<1>2. ChainIntact' /\ \A n \in 0 .. MaxSeq : PrevHash(n)' = PrevHash(n)
  BY ChainGrows DEF PrevHash
<1>3. \A f \in Event \ {e} : pc[f] \notin Working
  BY OneInside DEF AuditInv, Working
<1> USE DEF AuditInv, TypeInv, TypeOK, Goto, Unlock
<1>4. HolderInside'
  BY <1>3 DEF HolderInside, Working, SingleWriterProcess
<1>5. ReadsCurrent'
  BY <1>3 DEF ReadsCurrent, Working
<1>6. AcknowledgedKept'
  BY <1>1 DEF AcknowledgedKept
<1>7. RecordedEnded'
  BY <1>1 DEF RecordedEnded, Ended
<1>8. VerifierFollows'
  BY <1>1, <1>2 DEF VerifierFollows, verifyVars, LocalsTyped
<1>9. QED
  BY <1>2, <1>4, <1>5, <1>6, <1>7, <1>8

LEMMA StorageFailsInv ==
  ASSUME SingleWriterProcess, AuditInv, TypeInv', NEW e \in Event, StorageFails(e)
  PROVE  AuditInv'
<1>1. /\ pc[e] \in Working /\ Unlock(e) /\ Goto(e, "failed")
      /\ UNCHANGED <<mySeq, myPrev, verifyVars>>
  BY DEF StorageFails
<1>2. \A f \in Event \ {e} : pc[f] \notin Working
  BY <1>1, OneInside DEF AuditInv
<1>3. CASE pc[e] = "putSeq" /\ seqDoc' = mySeq[e] /\ UNCHANGED entries
  BY <1>1, <1>3, PutSeqStoreInv
<1>4. ASSUME /\ ChainIntact'
             /\ \A n \in 1 .. seqDoc : entries'[n] = entries[n]
             /\ \A n \in 0 .. seqDoc : PrevHash(n)' = PrevHash(n)
             /\ \A f \in Event : pc[f] = "returned" => entries'[mySeq[f]] = entries[mySeq[f]]
             /\ seqDoc' = seqDoc
      PROVE  AuditInv'
  <2> USE DEF AuditInv, TypeInv, TypeOK, Goto, Unlock
  <2>1. HolderInside'
    BY <1>1, <1>2 DEF HolderInside, Working, SingleWriterProcess
  <2>2. ReadsCurrent'
    BY <1>1, <1>2 DEF ReadsCurrent, Working
  <2>3. AcknowledgedKept'
    BY <1>1, <1>4 DEF AcknowledgedKept
  <2>4. RecordedEnded'
    BY <1>1, <1>4 DEF RecordedEnded, Ended, Working
  <2>5. VerifierFollows'
    BY <1>1, <1>4 DEF VerifierFollows, verifyVars, LocalsTyped
  <2>6. QED
    BY <1>4, <2>1, <2>2, <2>3, <2>4, <2>5
<1>5. CASE pc[e] = "putEntry" /\ StoreEntry(e) /\ UNCHANGED seqDoc
  <2>1. /\ \A n \in 1 .. seqDoc : entries'[n] = entries[n]
        /\ \A n \in 0 .. seqDoc : PrevHash(n)' = PrevHash(n)
        /\ ChainIntact' /\ mySeq[e] = seqDoc + 1
    BY <1>5, StoreEntryInv
  <2>2. ASSUME NEW f \in Event, pc[f] = "returned"
        PROVE  entries'[mySeq[f]] = entries[mySeq[f]]
    <3>1. mySeq[f] <= seqDoc /\ mySeq[f] \in Nat /\ seqDoc \in Nat
      BY <2>2 DEF AuditInv, AcknowledgedKept, TypeInv, TypeOK
    <3>2. QED
      BY <1>5, <2>1, <3>1 DEF StoreEntry, AuditInv, TypeInv, TypeOK
  <2>3. QED
    BY <1>4, <1>5, <2>1, <2>2
<1>6. CASE UNCHANGED storeVars
  <2>1. seqDoc' = seqDoc /\ entries' = entries
    BY <1>6 DEF storeVars
  <2>2. ChainIntact' /\ \A n \in 0 .. MaxSeq : PrevHash(n)' = PrevHash(n)
    BY <1>6, StoreKept
  <2>3. \A n \in 0 .. seqDoc : n \in 0 .. MaxSeq
    BY DEF AuditInv, TypeInv, TypeOK
  <2>4. QED
    BY <1>4, <2>1, <2>2, <2>3
<1>7. QED
  BY <1>3, <1>5, <1>6 DEF StorageFails

LEMMA CrashInv ==
  ASSUME SingleWriterProcess, AuditInv, TypeInv', NEW p \in Process, Crash(p)
  PROVE  AuditInv'
<1>1. UNCHANGED storeVars /\ seqDoc' = seqDoc /\ entries' = entries
      /\ UNCHANGED verifyVars
  BY DEF Crash, storeVars
<1>2. ChainIntact' /\ \A n \in 0 .. MaxSeq : PrevHash(n)' = PrevHash(n)
  BY <1>1, StoreKept
<1> USE DEF AuditInv, TypeInv, TypeOK, Crash
<1>3. HolderInside'
  BY DEF HolderInside, Working
<1>4. ReadsCurrent'
  BY <1>1, <1>2 DEF ReadsCurrent, Working
<1>5. AcknowledgedKept' /\ RecordedEnded'
  BY <1>1 DEF AcknowledgedKept, RecordedEnded, Ended, Working
<1>6. VerifierFollows'
  BY <1>1, <1>2 DEF VerifierFollows, verifyVars, LocalsTyped
<1>7. QED
  BY <1>2, <1>3, <1>4, <1>5, <1>6

\* A step of the verifier changes nothing a writer sees.
LEMMA VerifyInv ==
  ASSUME AuditInv, TypeInv',
         (\E start \in Seqs : VerifyStart(start)) \/ VerifyPrior \/ VerifyStep \/ VerifyEnd
  PROVE  AuditInv'
<1>1. UNCHANGED storeVars /\ seqDoc' = seqDoc /\ entries' = entries
      /\ UNCHANGED writerVars
  BY DEF VerifyStart, VerifyPrior, VerifyStep, VerifyEnd, storeVars
<1>2. ChainIntact' /\ \A n \in 0 .. MaxSeq : PrevHash(n)' = PrevHash(n)
  BY <1>1, StoreKept
<1> USE DEF AuditInv, TypeInv, TypeOK
<1>3. HolderInside' /\ AcknowledgedKept' /\ RecordedEnded'
  BY <1>1 DEF HolderInside, AcknowledgedKept, RecordedEnded, writerVars
<1>4. ReadsCurrent'
  BY <1>1, <1>2 DEF ReadsCurrent, writerVars
<1>5. VerifierFollows'
  <2>1. ASSUME NEW start \in Seqs, VerifyStart(start) PROVE VerifierFollows'
    BY <1>1, <1>2, <2>1 DEF VerifyStart, VerifierFollows, PrevHash, Seqs
  <2>2. CASE VerifyPrior
    BY <1>1, <1>2, <2>2 DEF VerifyPrior, VerifierFollows, LocalsTyped, Seqs
  <2>3. CASE VerifyStep
    <3>1. vNext \in 1 .. seqDoc /\ vPrev = PrevHash(vNext - 1)
      <4>1. vpc = "walk" /\ vNext >= 1 /\ vNext <= vEnd /\ vNext \in Nat /\ vEnd \in Nat
        BY <2>3 DEF VerifyStep, LocalsTyped
      <4>2. vEnd <= seqDoc /\ seqDoc \in Nat /\ vPrev = PrevHash(vNext - 1)
        BY <4>1 DEF VerifierFollows
      <4>3. QED
        BY <4>1, <4>2
    <3>2. ChainsTo(vNext, vPrev)
      BY <3>1 DEF ChainIntact
    <3>3. vpc' = "walk" /\ vEnd' = vEnd /\ vNext' = vNext + 1
          /\ vPrev' = entries[vNext].hash
      BY <2>3, <3>2 DEF VerifyStep
    <3>4. PrevHash(vNext - 1)' = entries[vNext].hash
      <4>1. vNext' - 1 = vNext /\ vNext # 0
        BY <3>1, <3>3
      <4>2. QED
        BY <1>1, <4>1 DEF PrevHash
    <3>5. vPrev' = PrevHash(vNext - 1)'
      BY <3>3, <3>4
    <3>6. vEnd' <= seqDoc'
      BY <1>1, <2>3, <3>3 DEF VerifyStep, VerifierFollows
    <3>7. QED
      BY <3>3, <3>5, <3>6 DEF VerifierFollows
  <2>4. CASE VerifyEnd
    BY <1>1, <1>2, <2>4 DEF VerifyEnd, VerifierFollows
  <2>5. QED
    BY <2>1, <2>2, <2>3, <2>4
<1>6. QED
  BY <1>2, <1>3, <1>4, <1>5

LEMMA NextAuditInv ==
  ASSUME SingleWriterProcess, AuditInv, [Next]_vars
  PROVE  AuditInv'
<1>1. TypeInv'
  BY NextTypeInv DEF AuditInv
<1>2. ASSUME NEW e \in Event, Call(e) \/ Lock(e) \/ ReadSeq(e) \/ ReadPrev(e) PROVE AuditInv'
  BY <1>1, <1>2, CallInv, LockStepInv, ReadSeqInv, ReadPrevInv
<1>3. ASSUME NEW e \in Event, PutEntry(e) PROVE AuditInv'
  BY <1>1, <1>3, PutEntryInv
<1>4. ASSUME NEW e \in Event, PutSeq(e) PROVE AuditInv'
  <2>1. /\ pc[e] = "putSeq" /\ seqDoc' = mySeq[e] /\ entries' = entries
        /\ Unlock(e) /\ Goto(e, "returned") /\ UNCHANGED <<mySeq, myPrev, verifyVars>>
    BY <1>4 DEF PutSeq
  <2>2. QED
    BY <1>1, <2>1, PutSeqStoreInv
<1>5. ASSUME NEW e \in Event, StorageFails(e) PROVE AuditInv'
  BY <1>1, <1>5, StorageFailsInv
<1>6. ASSUME NEW p \in Process, Crash(p) PROVE AuditInv'
  BY <1>1, <1>6, CrashInv
<1>7. CASE (\E start \in Seqs : VerifyStart(start)) \/ VerifyPrior \/ VerifyStep \/ VerifyEnd
  BY <1>1, <1>7, VerifyInv
<1>8. CASE UNCHANGED vars
  <2>1. UNCHANGED storeVars /\ UNCHANGED writerVars /\ UNCHANGED verifyVars
    BY <1>8 DEF vars
  <2>2. ChainIntact' /\ \A n \in 0 .. MaxSeq : PrevHash(n)' = PrevHash(n)
    BY <2>1, StoreKept
  <2>3. HolderInside' /\ AcknowledgedKept' /\ RecordedEnded'
    BY <2>1 DEF AuditInv, HolderInside, AcknowledgedKept, RecordedEnded, writerVars, storeVars
  <2>4. ReadsCurrent' /\ VerifierFollows'
    BY <2>1, <2>2 DEF AuditInv, ReadsCurrent, VerifierFollows, writerVars, storeVars, verifyVars,
                      TypeInv, TypeOK, LocalsTyped
  <2>5. QED
    BY <1>1, <2>2, <2>3, <2>4 DEF AuditInv
<1>9. QED
  BY <1>2, <1>3, <1>4, <1>5, <1>6, <1>7, <1>8 DEF Next, Writer

LEMMA AuditInvariant ==
  ASSUME SingleWriterProcess
  PROVE  Spec => []AuditInv
<1>1. AuditInv /\ [Next]_vars => AuditInv'
  BY NextAuditInv
<1>2. QED
  BY <1>1, InitAuditInv, PTL DEF Spec

\* With one writer process the recorded chain is intact whatever storage
\* failures and crashes leave behind.
THEOREM ChainIntactHolds ==
  ASSUME SingleWriterProcess
  PROVE  Spec => []ChainIntact
<1>1. AuditInv => ChainIntact
  BY DEF AuditInv
<1>2. QED
  BY <1>1, AuditInvariant, PTL

\* An entry returned to its caller stays in the log.
THEOREM AcknowledgedKeptHolds ==
  ASSUME SingleWriterProcess
  PROVE  Spec => []AcknowledgedKept
<1>1. AuditInv => AcknowledgedKept
  BY DEF AuditInv
<1>2. QED
  BY <1>1, AuditInvariant, PTL

\* The lock-free verifier reports a break only when there is one.
THEOREM NoFalseAlarmHolds ==
  ASSUME SingleWriterProcess
  PROVE  Spec => []NoFalseAlarm
<1>1. AuditInv => NoFalseAlarm
  BY DEF AuditInv, VerifierFollows, NoFalseAlarm
<1>2. QED
  BY <1>1, AuditInvariant, PTL

-----------------------------------------------------------------------------
(* The store under a step, and the append-only log *)

\* A step leaves the counter and the recorded entries alone, or moves the
\* counter over the one entry a call has just stored.
LEMMA StoreStep ==
  ASSUME SingleWriterProcess, AuditInv, [Next]_vars
  PROVE  \/ /\ seqDoc' = seqDoc
            /\ \A n \in 1 .. seqDoc : entries'[n] = entries[n]
         \/ /\ seqDoc' = seqDoc + 1
            /\ entries' = entries
            /\ \E e \in Event : /\ pc[e] = "putSeq"
                                /\ entries[seqDoc + 1].event = e
<1>1. ASSUME NEW e \in Event, pc[e] = "putSeq", seqDoc' = mySeq[e], entries' = entries
      PROVE  /\ seqDoc' = seqDoc + 1
             /\ entries[seqDoc + 1].event = e
  BY <1>1, NewEntryChains DEF AuditInv, ReadsCurrent
<1>2. ASSUME NEW e \in Event, pc[e] = "putEntry", StoreEntry(e), seqDoc' = seqDoc
      PROVE  \A n \in 1 .. seqDoc : entries'[n] = entries[n]
  BY <1>2, StoreEntryInv
<1>3. ASSUME NEW e \in Event, PutEntry(e) \/ PutSeq(e) \/ StorageFails(e)
      PROVE  \/ UNCHANGED storeVars
             \/ pc[e] = "putEntry" /\ StoreEntry(e) /\ seqDoc' = seqDoc
             \/ pc[e] = "putSeq" /\ seqDoc' = mySeq[e] /\ entries' = entries
  BY <1>3 DEF PutEntry, PutSeq, StorageFails
<1>4. \/ UNCHANGED storeVars
      \/ \E e \in Event : PutEntry(e) \/ PutSeq(e) \/ StorageFails(e)
  BY DEF Next, Writer, Call, Lock, ReadSeq, ReadPrev, Crash, VerifyStart, VerifyPrior,
         VerifyStep, VerifyEnd, vars, storeVars
<1>5. QED
  BY <1>1, <1>2, <1>3, <1>4 DEF storeVars

\* The counter is monotonic and skips no number.
THEOREM CounterMonotonicHolds ==
  ASSUME SingleWriterProcess
  PROVE  Spec => CounterMonotonic
<1>1. AuditInv /\ [Next]_vars => [seqDoc' \in {seqDoc, seqDoc + 1}]_vars
  BY StoreStep
<1>2. QED
  BY <1>1, AuditInvariant, PTL DEF Spec, CounterMonotonic

\* No step rewrites a recorded entry.
THEOREM RecordedImmutableHolds ==
  ASSUME SingleWriterProcess
  PROVE  Spec => RecordedImmutable
<1>1. AuditInv /\ [Next]_vars => [\A n \in 1 .. seqDoc : entries'[n] = entries[n]]_vars
  BY StoreStep
<1>2. QED
  BY <1>1, AuditInvariant, PTL DEF Spec, RecordedImmutable

LEMMA StepAbstract ==
  ASSUME SingleWriterProcess, AuditInv, [Next]_vars
  PROVE  [Abstract!Next]_LogView
<1>1. seqDoc \in Nat
  BY DEF AuditInv, TypeInv, TypeOK
<1>2. CASE seqDoc' = seqDoc /\ \A n \in 1 .. seqDoc : entries'[n] = entries[n]
  BY <1>2 DEF LogView
<1>3. ASSUME NEW e \in Event, pc[e] = "putSeq", entries[seqDoc + 1].event = e,
             seqDoc' = seqDoc + 1, entries' = entries
      PROVE  Abstract!Record(e)
  <2>1. LogView \in Seq(Event) /\ Len(LogView) = seqDoc
    BY <1>1 DEF LogView, AuditInv, RecordedEnded
  <2>2. \A n \in 1 .. seqDoc : LogView[n] # e
    BY <1>3 DEF LogView, AuditInv, RecordedEnded, Ended
  <2>3. LogView' = Append(LogView, e)
    <3>1. LogView' = [n \in 1 .. seqDoc + 1 |-> entries[n].event]
      BY <1>3 DEF LogView
    <3>2. \A n \in 1 .. seqDoc + 1 : entries[n].event = IF n <= seqDoc THEN LogView[n] ELSE e
      BY <1>1, <1>3 DEF LogView
    <3>3. \A n \in 1 .. seqDoc + 1 : entries[n].event \in Event
      BY <1>1, <1>3 DEF AuditInv, RecordedEnded
    <3>4. LogView' \in Seq(Event) /\ Len(LogView') = seqDoc + 1
      BY <1>1, <3>1, <3>3
    <3>5. /\ Append(LogView, e) \in Seq(Event)
          /\ Len(Append(LogView, e)) = seqDoc + 1
          /\ \A n \in 1 .. seqDoc : Append(LogView, e)[n] = LogView[n]
          /\ Append(LogView, e)[seqDoc + 1] = e
      BY <2>1, AppendProperties
    <3>6. \A n \in 1 .. Len(LogView') : LogView'[n] = Append(LogView, e)[n]
      BY <1>1, <3>1, <3>2, <3>4, <3>5
    <3>7. QED
      BY <3>4, <3>5, <3>6, SeqEqual
  <2>4. QED
    BY <2>1, <2>2, <2>3 DEF Abstract!Record
<1>4. QED
  BY <1>2, <1>3, StoreStep DEF Abstract!Next

\* With one writer process the chain implements the append-only log.
THEOREM AuditChainImplementsAuditLog ==
  ASSUME SingleWriterProcess
  PROVE  Spec => ImplementsAuditLog
<1>1. Init => Abstract!Init
  BY DEF Init, Abstract!Init, LogView
<1>2. AuditInv /\ [Next]_vars => [Abstract!Next]_LogView
  BY StepAbstract
<1>3. QED
  BY <1>1, <1>2, AuditInvariant, PTL DEF Spec, ImplementsAuditLog, Abstract!Spec

=============================================================================
