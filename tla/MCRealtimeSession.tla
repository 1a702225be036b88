-------------------------- MODULE MCRealtimeSession --------------------------
(* The instances of RealtimeSession that TLC checks: two turns, so that one    *)
(* may be lost or taken for the other, and two tools in flight.              *)
EXTENDS RealtimeSession
=============================================================================
