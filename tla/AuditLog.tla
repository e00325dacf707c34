------------------------------ MODULE AuditLog ------------------------------
(***************************************************************************)
(* What the audit trail promises (the header of shared/audit_engine.py): a *)
(* log that only grows, one entry at a time, each event at most once, and  *)
(* in which no recorded entry ever changes.                                *)
(***************************************************************************)
EXTENDS Sequences, Naturals

CONSTANT Event

VARIABLE log

Init == log = << >>

Record(e) ==
  /\ \A n \in 1 .. Len(log) : log[n] # e
  /\ log' = Append(log, e)

Next == \E e \in Event : Record(e)

Spec == Init /\ [][Next]_log

=============================================================================
