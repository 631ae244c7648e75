------------------------ MODULE MCFallbackController ------------------------
(* Values for the run of FallbackController. *)
EXTENDS FallbackController

MCShortGaps == {1, 2}
=============================================================================
