---------------------------- MODULE MCLogWriter ----------------------------
(* LogWriter on small instances.                                           *)
EXTENDS LogWriter

CONSTANTS l1, l2
ASSUME TwoLogs == l1 # l2 /\ Log = {l1, l2}
=============================================================================
