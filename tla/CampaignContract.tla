-------------------------- MODULE CampaignContract --------------------------
(***************************************************************************)
(* What the calls module promises a campaign, whichever row, job, request  *)
(* or report a call is at: every carrier of it is called and called once,  *)
(* no more than MaxParallel are called at a time, and nobody waits while   *)
(* one more could be called.                                               *)
(***************************************************************************)
EXTENDS Naturals, FiniteSets

CONSTANTS Carriers, MaxParallel

VARIABLES
  waiting,  \* carriers that are still to be called
  calling,  \* carriers whose call is being made or goes on
  over      \* carriers whose call has ended

contractVars == <<waiting, calling, over>>

ContractInit ==
  /\ waiting = Carriers
  /\ calling = {}
  /\ over = {}

\* At most one call ends, and its place and those that are free are taken.
ContractNext ==
  \E done \in SUBSET calling, new \in SUBSET waiting :
    /\ Cardinality(done) <= 1
    /\ waiting' = waiting \ new
    /\ calling' = (calling \ done) \cup new
    /\ over' = over \cup done
    /\ Cardinality(calling') <= MaxParallel
    /\ waiting' # {} => Cardinality(calling') = MaxParallel

ContractSafety == ContractInit /\ [][ContractNext]_contractVars

\* Once the campaign has begun to call, it comes to the end of its carriers.
EverybodyCalled == calling # {} ~> over = Carriers

ContractSpec == ContractSafety /\ EverybodyCalled
=============================================================================
