---------------------------- MODULE MCAuditTrail ----------------------------
(***************************************************************************)
(* Two evaluations and two flushes, a restart, and a checkpoint after four *)
(* events.                                                                 *)
(***************************************************************************)
EXTENDS AuditTrail

CONSTANTS f1, f2

\* The two promise chains share nothing, so each is checked on its own.
AuditOrState ==
  [sink : {"InMemoryAuditSink", "FileAuditSink", "caller"}, store : {FALSE}]
    \cup {[sink |-> "none", store |-> TRUE]}

=============================================================================
