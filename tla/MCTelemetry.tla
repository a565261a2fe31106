---------------------------- MODULE MCTelemetry ----------------------------
(* Instances of Telemetry for TLC. *)
EXTENDS Telemetry, TLC

\* Of two runs of the backend, the first prints a line that is only totalled.
TwoRuns == << <<"state", "evicted">>, <<"evicted">> >>

=============================================================================
