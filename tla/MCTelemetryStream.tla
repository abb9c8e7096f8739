------------------------- MODULE MCTelemetryStream --------------------------
(* Two connections, of which one may take the place of the other.          *)
EXTENDS TelemetryStream
=============================================================================
