------------------------ MODULE MCManualMaintenance ------------------------
(* Runs of ManualMaintenance. *)
EXTENDS ManualMaintenance

=============================================================================
