---------------------------- MODULE MCRelayLease ----------------------------
(* Values for the run of RelayLease. *)
EXTENDS RelayLease

MCSenders == 1 .. 2
MCRelays == 1 .. 2
=============================================================================
