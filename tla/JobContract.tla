---------------------------- MODULE JobContract ----------------------------
(***************************************************************************)
(* What InMemoryJobQueue promises to the services that enqueue on it: every *)
(* job it accepts comes to one end, and at most Limit are at work at once.  *)
(***************************************************************************)
EXTENDS Naturals, FiniteSets

CONSTANTS Jobs, Limit

VARIABLES accepted, working, ended

contractVars == <<accepted, working, ended>>

ContractInit == accepted = {} /\ working = {} /\ ended = {}

Accept ==
  /\ \E j \in Jobs \ accepted : accepted' = accepted \cup {j}
  /\ UNCHANGED <<working, ended>>

\* Jobs leave the work, for good or to wait for another attempt, and jobs that
\* are not ended take up the places.
Work ==
  /\ working' \in SUBSET (accepted \ ended')
  /\ Cardinality(working') <= Limit
  /\ \/ ended' = ended
     \/ \E j \in working : ended' = ended \cup {j}
  /\ UNCHANGED accepted

ContractNext == Accept \/ Work

EveryJobEnds == \A j \in Jobs : j \in accepted ~> j \in ended

ContractSafety == ContractInit /\ [][ContractNext]_contractVars

ContractSpec == ContractSafety /\ EveryJobEnds
=============================================================================
