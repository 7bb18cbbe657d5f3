---------------------------- MODULE MCAuditLedger ---------------------------
(* Both ledgers with the same writers, and any overlap of their calls.     *)
EXTENDS AuditLedger

CONSTANTS w1, w2, w3
=============================================================================
