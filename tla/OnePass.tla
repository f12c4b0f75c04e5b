------------------------------- MODULE OnePass -------------------------------
(***************************************************************************)
(* What one pass of a sync job promises, as if it were a plain loop: the   *)
(* listing is written in order, in batches that are full except for the    *)
(* last, until it is written, a step fails, or the job is cancelled.       *)
(*                                                                         *)
(* Pipeline implements this specification; see Pipeline!Loop.  There, a    *)
(* goroutine fetches ahead of the one that writes, over a channel.         *)
(***************************************************************************)
EXTENDS Integers, Sequences

CONSTANTS BatchSize, MaxListing

VARIABLES
  listing,    \* how many submissions there are; a submission is its place
  written,    \* those written, in order
  outcome,    \* "running", "ok" or "failed"
  cancelled   \* the job is stopped or the process shut down

vars == <<listing, written, outcome, cancelled>>

Rest == listing - Len(written)

NextBatch ==
  [i \in 1..(IF Rest < BatchSize THEN Rest ELSE BatchSize) |-> Len(written) + i]

Init ==
  /\ listing \in 0..MaxListing
  /\ written = << >> /\ outcome = "running" /\ cancelled = FALSE

Write ==
  /\ outcome = "running" /\ ~cancelled /\ Rest > 0
  /\ written' = written \o NextBatch
  /\ UNCHANGED <<listing, outcome, cancelled>>

(* No error is reported when everything is written, or nobody asks any more. *)
Succeed ==
  /\ outcome = "running" /\ (Rest = 0 \/ cancelled)
  /\ outcome' = "ok"
  /\ UNCHANGED <<listing, written, cancelled>>

(* After an error nothing more is written. *)
Fail ==
  /\ outcome = "running"
  /\ outcome' = "failed"
  /\ UNCHANGED <<listing, written, cancelled>>

Cancel ==
  /\ ~cancelled
  /\ cancelled' = TRUE
  /\ UNCHANGED <<listing, written, outcome>>

Next == Write \/ Succeed \/ Fail \/ Cancel

Spec == Init /\ [][Next]_vars
=============================================================================
