---------------------------- MODULE MC_TestSession ----------------------------
(* TestSession with one metric beyond those of the library. *)
EXTENDS TestSession

MCOtherMetrics == {"of_a_test"}

=============================================================================
