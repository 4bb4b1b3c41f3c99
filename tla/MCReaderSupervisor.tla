------------------------ MODULE MCReaderSupervisor ------------------------
(* ReaderSupervisor on a small instance: groups share nothing, so one key   *)
(* shows everything that can happen to a reader.                            *)
EXTENDS ReaderSupervisor

CONSTANT k1
ASSUME KeyAssumption == k1 \in Key
=============================================================================
