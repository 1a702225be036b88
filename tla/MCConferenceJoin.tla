-------------------------- MODULE MCConferenceJoin --------------------------
(* The instances of ConferenceJoin that TLC checks: the queue's three        *)
(* attempts, so that a human who is late meets the attempts that follow.     *)
EXTENDS ConferenceJoin
=============================================================================
