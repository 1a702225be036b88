-------------------------- MODULE MCDealLifecycle --------------------------
(* Small instances of DealLifecycle for TLC.  The identifiers are           *)
(* interchangeable and no property that uses the symmetry is a liveness     *)
(* property.                                                                *)
EXTENDS DealLifecycle, TLC

Identifiers ==
  Permutations(Carriers) \cup Permutations(Campaigns) \cup Permutations(Commitments)
    \cup Permutations(Escalations) \cup Permutations(Calls)
=============================================================================
