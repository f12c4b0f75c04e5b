------------------------------ MODULE Delivery ------------------------------
(***************************************************************************)
(* What a sync job promises to the people who set it up, with nothing said *)
(* about how: every submission posted to the form gets a record in the     *)
(* Airtable table, and the job only regards as settled (never to be looked *)
(* at again) a submission that did get one.                                *)
(*                                                                         *)
(* Poller implements this specification; see Poller!Promise.               *)
(***************************************************************************)
EXTENDS FiniteSets

CONSTANT Submissions    \* the submissions that may ever be posted to the form

VARIABLES
  posted,      \* submissions the form has received
  delivered,   \* submissions for which a record has existed in the table
  settled      \* submissions the job will never write a record for again

vars == <<posted, delivered, settled>>

Init ==
  /\ posted \subseteq Submissions
  /\ delivered \subseteq posted
  /\ settled = {}

(* People fill in the form. *)
Post(s) ==
  /\ s \in Submissions \ posted
  /\ posted' = posted \cup {s}
  /\ UNCHANGED <<delivered, settled>>

(* Records appear, a request's worth at a time. *)
Deliver(S) ==
  /\ S \subseteq posted
  /\ delivered' = delivered \cup S
  /\ UNCHANGED <<posted, settled>>

(* A batch is settled as a whole, and only once it is delivered. *)
Settle(S) ==
  /\ S \subseteq delivered
  /\ settled' = settled \cup S
  /\ UNCHANGED <<posted, delivered>>

Next ==
  \/ \E s \in Submissions : Post(s)
  \/ \E S \in SUBSET Submissions : Deliver(S) \/ Settle(S)

Spec == Init /\ [][Next]_vars
=============================================================================
