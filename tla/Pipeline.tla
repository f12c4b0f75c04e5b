------------------------------ MODULE Pipeline ------------------------------
(***************************************************************************)
(* Inside one pass of syncOnce (internal/nps/sync.go): the producer        *)
(* goroutine that walks Fillout's listing (AllSubmissions of               *)
(* fillout/submissions.go) and groups submissions into batches, the        *)
(* channel with room for one batch, the consumer that writes batches, and  *)
(* the contexts that end them.                                             *)
(*                                                                         *)
(* Poller sees the producer as a queue of fetched submissions; here are    *)
(* the select statements, the buffer and the closing of the channel that   *)
(* make it one.  A submission is its place in the listing.                 *)
(***************************************************************************)
EXTENDS Integers, Sequences

CONSTANTS
  BatchSize,   \* syncBatchSize (50)
  PageSize,    \* maxPageLimit (150)
  MaxListing   \* bound: submissions newer than the cursor

ASSUME PipelineAssumption ==
  /\ {BatchSize, PageSize} \subseteq Nat \ {0}
  /\ \E n \in 1..PageSize : PageSize = n * BatchSize
  /\ MaxListing \in Nat

VARIABLES
  listing,    \* how many submissions there are to list
  prod,       \* the producer: "fetching", "yielding", "sending", "closing", "gone"
  offset,     \* params.Offset: where the page in hand begins
  yielded,    \* submissions the iterator has yielded
  buf,        \* the batch under construction
  batches,    \* contents of the channel
  closed,     \* the channel is closed
  prodErr,
  cons,       \* the consumer: "receiving", "writing", "draining", "done"
  inHand,     \* the batch being written
  written,    \* submissions written so far
  syncErr,
  stopped,    \* stopProducer was called
  cancelled   \* the poller's context is cancelled

producer == <<prod, offset, yielded, buf, prodErr>>
channel  == <<batches, closed>>
consumer == <<cons, inHand, written, syncErr, stopped>>
vars     == <<listing, producer, channel, consumer, cancelled>>

Init ==
  /\ listing \in 0..MaxListing
  /\ prod = "fetching" /\ offset = 0 /\ yielded = 0 /\ buf = << >>
  /\ batches = << >> /\ closed = FALSE
  /\ cons = "receiving" /\ inHand = << >> /\ written = << >>
  /\ prodErr = FALSE /\ syncErr = FALSE
  /\ stopped = FALSE /\ cancelled = FALSE

(* prodCtx is a child of the poller's context. *)
ProdCtxDone == stopped \/ cancelled

PageEnd == IF listing < offset + PageSize THEN listing ELSE offset + PageSize

-----------------------------------------------------------------------------
(* The producer *)

FetchPage ==
  /\ prod = "fetching" /\ ~ProdCtxDone
  /\ prod' = "yielding"
  /\ UNCHANGED <<listing, offset, yielded, buf, prodErr, channel, consumer,
                 cancelled>>

FetchFails ==
  /\ prod = "fetching"
  /\ prodErr' = TRUE
  /\ prod' = "closing"
  /\ UNCHANGED <<listing, offset, yielded, buf, channel, consumer, cancelled>>

(* Mutant: a batch is sent one submission late. *)
YieldLate ==
  /\ prod = "yielding" /\ yielded < PageEnd
  /\ yielded' = yielded + 1
  /\ buf' = Append(buf, yielded + 1)
  /\ prod' = IF Len(buf') > BatchSize THEN "sending" ELSE "yielding"
  /\ UNCHANGED <<listing, offset, prodErr, channel, consumer, cancelled>>

(* The loop body, for the next submission of the page *)
Yield ==
  /\ prod = "yielding" /\ yielded < PageEnd
  /\ yielded' = yielded + 1
  /\ IF ProdCtxDone
     THEN prod' = "closing" /\ UNCHANGED buf
     ELSE /\ buf' = Append(buf, yielded + 1)
          /\ prod' = IF Len(buf') >= BatchSize THEN "sending" ELSE "yielding"
  /\ UNCHANGED <<listing, offset, prodErr, channel, consumer, cancelled>>

(* Mutant: the last, partial batch is forgotten. *)
EndPageAtOnce ==
  /\ prod = "yielding" /\ yielded = PageEnd
  /\ \/ /\ PageEnd - offset = PageSize
        /\ offset' = offset + PageSize
        /\ prod' = "fetching"
     \/ /\ PageEnd - offset < PageSize
        /\ prod' = "closing"
        /\ UNCHANGED offset
  /\ UNCHANGED <<listing, yielded, buf, prodErr, channel, consumer, cancelled>>

(* A full page is followed by another request, a short one by the last,     *)
(* partial batch.                                                           *)
EndPage ==
  /\ prod = "yielding" /\ yielded = PageEnd
  /\ \/ /\ PageEnd - offset = PageSize
        /\ offset' = offset + PageSize
        /\ prod' = "fetching"
     \/ /\ PageEnd - offset < PageSize
        /\ prod' = IF buf = << >> THEN "closing" ELSE "sending"
        /\ UNCHANGED offset
  /\ UNCHANGED <<listing, yielded, buf, prodErr, channel, consumer, cancelled>>

(* Mutant: the slice handed over is used again. *)
SendShared ==
  /\ prod = "sending" /\ batches = << >>
  /\ batches' = Append(batches, buf)
  /\ prod' = IF Len(buf) >= BatchSize THEN "yielding" ELSE "closing"
  /\ UNCHANGED <<listing, offset, yielded, buf, prodErr, closed, consumer,
                 cancelled>>

(* Mutant: the channel has room for two batches. *)
SendAhead ==
  /\ prod = "sending" /\ Len(batches) <= 1
  /\ batches' = Append(batches, buf)
  /\ buf' = << >>
  /\ prod' = IF Len(buf) >= BatchSize THEN "yielding" ELSE "closing"
  /\ UNCHANGED <<listing, offset, yielded, prodErr, closed, consumer,
                 cancelled>>

(* send: a full batch in the midst of a page, or the last one; there is     *)
(* room for one batch in the channel.                                       *)
Send ==
  /\ prod = "sending" /\ batches = << >>
  /\ batches' = Append(batches, buf)
  /\ buf' = << >>
  /\ prod' = IF Len(buf) >= BatchSize THEN "yielding" ELSE "closing"
  /\ UNCHANGED <<listing, offset, yielded, prodErr, closed, consumer,
                 cancelled>>

SendGivenUp ==
  /\ prod = "sending" /\ ProdCtxDone
  /\ prod' = "closing"
  /\ UNCHANGED <<listing, offset, yielded, buf, prodErr, channel, consumer,
                 cancelled>>

Close ==
  /\ prod = "closing"
  /\ closed' = TRUE
  /\ prod' = "gone"
  /\ UNCHANGED <<listing, offset, yielded, buf, prodErr, batches, consumer,
                 cancelled>>

-----------------------------------------------------------------------------
(* The consumer *)

Receive ==
  /\ cons = "receiving" /\ batches # << >>
  /\ inHand' = Head(batches)
  /\ batches' = Tail(batches)
  /\ cons' = "writing"
  /\ UNCHANGED <<listing, producer, closed, written, syncErr, stopped,
                 cancelled>>

WriteBatch ==
  /\ cons = "writing" /\ ~cancelled
  /\ written' = written \o inHand
  /\ inHand' = << >>
  /\ cons' = "receiving"
  /\ UNCHANGED <<listing, producer, channel, syncErr, stopped, cancelled>>

(* Mutant: the next batch is tried all the same. *)
WriteFailsGoesOn ==
  /\ cons = "writing"
  /\ syncErr' = TRUE
  /\ inHand' = << >>
  /\ cons' = "receiving"
  /\ UNCHANGED <<listing, producer, channel, written, stopped, cancelled>>

(* Mutant: the consumer returns and leaves the producer to itself. *)
WriteFailsLeaves ==
  /\ cons = "writing"
  /\ syncErr' = TRUE
  /\ inHand' = << >>
  /\ cons' = "done"
  /\ UNCHANGED <<listing, producer, channel, written, stopped, cancelled>>

(* syncBatch returns an error: the producer is told to stop. *)
WriteFails ==
  /\ cons = "writing"
  /\ syncErr' = TRUE
  /\ stopped' = TRUE
  /\ inHand' = << >>
  /\ cons' = "draining"
  /\ UNCHANGED <<listing, producer, channel, written, cancelled>>

Drain ==
  /\ cons = "draining" /\ batches # << >>
  /\ batches' = Tail(batches)
  /\ UNCHANGED <<listing, producer, closed, consumer, cancelled>>

(* Mutant: an empty channel is taken for a closed one. *)
FinishEarly ==
  /\ cons \in {"receiving", "draining"} /\ batches = << >>
  /\ cons' = "done"
  /\ syncErr' = (syncErr \/ prodErr)
  /\ UNCHANGED <<listing, producer, channel, inHand, written, stopped,
                 cancelled>>

(* The channel is closed and empty: prodErr is looked at. *)
Finish ==
  /\ cons \in {"receiving", "draining"}
  /\ closed /\ batches = << >>
  /\ cons' = "done"
  /\ syncErr' = (syncErr \/ prodErr)
  /\ UNCHANGED <<listing, producer, channel, inHand, written, stopped,
                 cancelled>>

(* The job is stopped or the process shut down. *)
Cancel ==
  /\ ~cancelled
  /\ cancelled' = TRUE
  /\ UNCHANGED <<listing, producer, channel, consumer>>

-----------------------------------------------------------------------------
Producer == FetchPage \/ FetchFails \/ Yield \/ EndPage \/ Send \/ SendGivenUp
            \/ Close

Consumer == Receive \/ WriteBatch \/ WriteFails \/ Drain \/ Finish

Next == Producer \/ Consumer \/ Cancel

Spec == Init /\ [][Next]_vars

(* Both goroutines keep running; requests return. *)
FairSpec == Spec /\ WF_vars(Producer) /\ WF_vars(Consumer)

-----------------------------------------------------------------------------
(* Properties *)

FirstOnes(n) == [i \in 1..n |-> i]

(* The batch in the channel *)
Waiting == IF batches = << >> THEN << >> ELSE Head(batches)

(* Everything yielded so far, where it is now *)
InFlight == written \o inHand \o Waiting \o buf

(* The only type invariant of the module. *)
TypeOK ==
  /\ listing \in 0..MaxListing /\ offset \in Nat
  /\ yielded \in 0..listing
  /\ Len(batches) <= 1 /\ Len(buf) <= BatchSize
  /\ prod \in {"fetching", "yielding", "sending", "closing", "gone"}
  /\ cons \in {"receiving", "writing", "draining", "done"}
  /\ {closed, prodErr, syncErr, stopped, cancelled} \subseteq BOOLEAN

(* Batches are written in the order of the listing, and nothing of a        *)
(* listing is written behind a gap: the cursor, which moves to the end of   *)
(* each batch, never moves over a submission that was dropped on the way.   *)
NoGap == \E n \in 0..listing : written \o inHand = FirstOnes(n)

(* Until a context ends, no submission is lost between the goroutines.      *)
NothingLost == ProdCtxDone \/ prodErr \/ InFlight = FirstOnes(yielded)

(* A pass that is not cancelled and reports no error wrote the whole        *)
(* listing.                                                                 *)
SuccessIsComplete ==
  cons = "done" /\ ~syncErr /\ ~cancelled =>
    written = FirstOnes(listing)

(* "safe: producer has finished once batches is closed" (sync.go:224): the  *)
(* consumer looks at prodErr only when no goroutine can still set it.       *)
ErrorIsFinal == cons = "done" => prod = "gone" /\ (prodErr => syncErr)

(* Backpressure: a page is requested only when at most one batch of the     *)
(* page before waits in the channel.                                        *)
PrefetchIsBounded ==
  prod = "fetching" => Len(batches) <= 1 /\ Len(Waiting) + Len(buf) <= BatchSize

(* The pass ends, both goroutines do: no deadlock between a producer that   *)
(* wants to send and a consumer that has stopped receiving.                 *)
PassEnds == <>(cons = "done" /\ prod = "gone")

(* What the pass has come to, seen from outside *)
Outcome == IF syncErr THEN "failed" ELSE IF cons = "done" THEN "ok" ELSE "running"

Loop == INSTANCE OnePass WITH outcome <- Outcome

(* "The next Fillout page is fetched in the background while the current      *)
(* batch is being written" (sync.go:158), and nobody can tell: what is written *)
(* and reported is what a loop would write and report that fetches nothing    *)
(* ahead.  In particular no batch but the last is partial, none follows an    *)
(* error, none a cancellation, whatever the producer has in store; and         *)
(* success is complete.                                                       *)
ActsAsLoop == Loop!Spec
=============================================================================
