---------------------------- MODULE MCTelemetry -----------------------------
(* A word of eight motions, two bytes, and one neighbour more than fits.   *)
EXTENDS Telemetry

MCTemperature == {<<-1, 100>>, <<21, 0>>}
=============================================================================
