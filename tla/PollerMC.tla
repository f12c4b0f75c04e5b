------------------------------ MODULE PollerMC ------------------------------
(* Poller on small instances. *)
EXTENDS Poller, TLC

CONSTANTS s1, s2, s3

(* s1 and s2 are siblings of one instant, s3 comes two seconds later: with   *)
(* two units to the second, the cursor left by s3 excludes the other two.    *)
MCSubmissionTime == s1 :> 3 @@ s2 :> 3 @@ s3 :> 7
=============================================================================
