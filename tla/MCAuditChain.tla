---------------------------- MODULE MCAuditChain ----------------------------
(***************************************************************************)
(* Instances of AuditChain for TLC: three calls reach an entry with a      *)
(* predecessor and a successor; MaxSeq is never reached by them.           *)
(***************************************************************************)
EXTENDS AuditChain
CONSTANTS e1, e2, e3, appsail, function

Events == {e1, e2, e3}
Processes == {appsail, function}
OneProcess == [e \in Events |-> appsail]
TwoProcesses == [e \in Events |-> IF e = e3 THEN function ELSE appsail]
=============================================================================
