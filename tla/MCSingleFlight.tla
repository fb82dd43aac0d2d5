--------------------------- MODULE MCSingleFlight ---------------------------
(* Small instances of the single-flight protocol for TLC.                  *)
EXTENDS SingleFlight
=============================================================================
