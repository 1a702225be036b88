---------------------------- MODULE DealContract ----------------------------
(***************************************************************************)
(* What the operation promises to whoever only looks at the deal: the load *)
(* is entrusted to one carrier, on terms the operator's mandate allows at  *)
(* that moment, at most once; a deal that has been made keeps its carrier, *)
(* its terms and its mandate through every later change of mandate and     *)
(* every escalation, until the load is delivered or the operation          *)
(* cancelled.                                                              *)
(***************************************************************************)
EXTENDS Naturals

CONSTANTS Carriers, Offers, MandateTerms

VARIABLES
  stage,      \* how far the load has got
  deals,      \* the deal in force: at most one
  authority   \* the offers the operator allows now

dealVars == <<stage, deals, authority>>

Deals  == [carrier : Carriers, offer : Offers]

ContractInit ==
  /\ stage = "OPEN"
  /\ deals = {}
  /\ authority \in MandateTerms

Book ==
  /\ stage = "OPEN"
  /\ \E d \in Deals : d.offer \in authority /\ deals' = {d}
  /\ stage' = "BOOKED"
  /\ UNCHANGED authority

Depart ==
  /\ stage = "BOOKED"
  /\ stage' = "IN_TRANSIT"
  /\ UNCHANGED <<deals, authority>>

Deliver ==
  /\ stage = "IN_TRANSIT"
  /\ stage' = "COMPLETED"
  /\ UNCHANGED <<deals, authority>>

Cancel ==
  /\ stage \in {"OPEN", "BOOKED", "IN_TRANSIT"}
  /\ stage' = "CANCELLED"
  /\ deals' = {}
  /\ UNCHANGED authority

Reauthorise ==
  /\ stage \in {"OPEN", "BOOKED", "IN_TRANSIT"}
  /\ authority' \in MandateTerms
  /\ UNCHANGED <<stage, deals>>

ContractNext == Book \/ Depart \/ Deliver \/ Cancel \/ Reauthorise

ContractSpec == ContractInit /\ [][ContractNext]_dealVars
=============================================================================
