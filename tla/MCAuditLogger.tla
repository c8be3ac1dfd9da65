--------------------------- MODULE MCAuditLogger ---------------------------
(* A small instance of AuditLogger.                                        *)
EXTENDS AuditLogger
=============================================================================
