-------------------------- MODULE MCAutonomousFlow --------------------------
(* The instances of AutonomousFlow that TLC checks.  They check liveness, so *)
(* none of them uses the symmetry of the identifiers.                        *)
EXTENDS AutonomousFlow
=============================================================================
