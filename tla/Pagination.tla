----------------------------- MODULE Pagination -----------------------------
(***************************************************************************)
(* AllSubmissions of fillout/submissions.go pages through a listing by      *)
(* offset while the listing changes: submissions are completed, become      *)
(* visible out of order, are deleted.  The poller (internal/nps/sync.go)    *)
(* cuts what it is handed into batches, writes them, and asks the next time *)
(* for what lies behind its cursor.                                         *)
(*                                                                         *)
(* Poller assumes that a pass is handed everything its query matches.       *)
(* This module says when that is so.  Writing a batch always succeeds here. *)
(***************************************************************************)
EXTENDS Integers, Sequences, FiniteSets, SequencesExt

CONSTANTS
  Total,       \* submissions are 1..Total in the order of Fillout's listing
  PostedAt,    \* submissionTime of each, in seconds
  Overlap,     \* how far before the cursor a pass starts (one second)
  Lateness,    \* a submission becomes visible at most that late
  PageSize,    \* maxPageLimit (150)
  BatchSize,   \* syncBatchSize (50)
  MaxDeletes   \* bound: submissions deleted in Fillout

ASSUME PaginationAssumption ==
  /\ Total \in Nat
  /\ PostedAt \in [1..Total -> Nat \ {0}]
  /\ \A s, t \in 1..Total : s < t => PostedAt[s] <= PostedAt[t]
  /\ {Overlap, Lateness, MaxDeletes} \subseteq Nat
  /\ {PageSize, BatchSize} \subseteq Nat \ {0}
  /\ \E n \in 1..PageSize : PageSize = n * BatchSize

VARIABLES
  posted,    \* submissions ever visible
  listed,    \* those not deleted
  stage,     \* whether a pass is under way, its iterator at the end or not
  after,     \* its afterDate
  offset,    \* its params.Offset
  buf,       \* the batch being filled
  cursor,    \* maxProcessed; 0 for nil
  written,   \* submissions handed to syncBatch
  batch,     \* the last batch handed to syncBatch
  passed,    \* history: the last submission of the last page of this pass
  late,      \* history: became visible before a page end of a pass under way,
             \* or too late for the overlap
  holes      \* history: deletions of what a pass under way had passed

pagePass == <<stage, after, offset, buf, passed>>
pagingVars == <<posted, listed, pagePass, cursor, written, batch, late, holes>>

Submissions == 1..Total

(* What the query of this pass matches, and in the order of the listing *)
Matching == {s \in listed : PostedAt[s] > after}
Place(s) == Cardinality({t \in Matching : t <= s})
Listing == [i \in 1..Cardinality(Matching) |-> CHOOSE s \in Matching : Place(s) = i]

(* A submission is visible that is at least so much later than s. *)
Outrun(s, by) == \E t \in posted : PostedAt[s] + by <= PostedAt[t]

PagingInit ==
  /\ posted \in {1..n : n \in 0..Total} /\ listed = posted
  /\ stage = "idle" /\ after = 0 /\ offset = 0 /\ buf = <<>> /\ passed = 0
  /\ cursor = 0
  /\ written = {} /\ batch = <<>>
  /\ late = {} /\ holes = 0

(* A submission becomes visible. *)
Post(s) ==
  /\ s \notin posted
  /\ ~Outrun(s, Lateness + 1)
  /\ posted' = posted \cup {s}
  /\ listed' = listed \cup {s}
  /\ late' = IF (stage = "paging" /\ s < passed) \/ Outrun(s, Overlap)
             THEN late \cup {s} ELSE late
  /\ UNCHANGED <<pagePass, cursor, written, batch, holes>>

(* A submission is deleted: the ones after it move up. *)
Delete(s) ==
  /\ Cardinality(posted \ listed) < MaxDeletes
  /\ listed' = listed \ {s}
  /\ holes' = IF stage = "paging" /\ s <= passed /\ PostedAt[s] > after
                THEN holes + 1 ELSE holes
  /\ UNCHANGED <<posted, pagePass, cursor, written, batch, late>>

(* Mutant: the pass starts at the cursor itself. *)
AfterExact(c) == c

AfterDate(c) == IF c = 0 THEN 0 ELSE c - Overlap

BeginPass ==
  /\ stage = "idle"
  /\ stage' = "paging"
  /\ after' = AfterDate(cursor)
  /\ offset' = 0 /\ buf' = <<>> /\ passed' = 0
  /\ UNCHANGED <<posted, listed, cursor, written, batch, late, holes>>

Slice(n) ==
  SubSeq(Listing, offset + 1, IF offset + n < Len(Listing) THEN offset + n
                                                           ELSE Len(Listing))

(* Mutant: a limit of one submission more than the batches divide into. *)
OddPage == Slice(PageSize + 1)

Page == Slice(PageSize)

(* The consumer writes a batch: the cursor moves across all of it. *)
Write(b) ==
  /\ batch' = b
  /\ written' = written \cup ToSet(b)
  /\ cursor' = CHOOSE c \in {cursor} \cup {PostedAt[s] : s \in ToSet(b)} :
                 /\ cursor <= c
                 /\ \A s \in ToSet(b) : PostedAt[s] <= c

(* A full batch is sent, *)
Flush ==
  /\ Len(buf) >= BatchSize
  /\ Write(SubSeq(buf, 1, BatchSize))
  /\ buf' = SubSeq(buf, BatchSize + 1, Len(buf))
  /\ UNCHANGED <<posted, listed, stage, after, offset, passed, late, holes>>

(* and what is left when the iterator has returned. *)
FlushRest ==
  /\ stage = "ended" /\ Len(buf) \in 1..BatchSize - 1
  /\ Write(buf)
  /\ buf' = <<>>
  /\ UNCHANGED <<posted, listed, stage, after, offset, passed, late, holes>>

(* GetSubmissions; a page shorter than its limit, possibly empty, is the last. *)
FetchPage ==
  /\ stage = "paging" /\ Len(buf) < BatchSize
  /\ buf' = buf \o Page
  /\ IF Len(Page) < PageSize
     THEN stage' = "ended" /\ UNCHANGED <<offset, passed>>
     ELSE /\ offset' = offset + Len(Page)
          /\ passed' = Page[Len(Page)]
          /\ UNCHANGED stage
  /\ UNCHANGED <<posted, listed, after, cursor, written, batch, late, holes>>

EndPass ==
  /\ stage = "ended" /\ buf = <<>>
  /\ stage' = "idle"
  /\ after' = 0 /\ offset' = 0 /\ passed' = 0
  /\ UNCHANGED <<posted, listed, buf, cursor, written, batch, late, holes>>

PagingNext ==
  \/ \E s \in Submissions : Post(s)
  \/ \E s \in listed : Delete(s)
  \/ BeginPass \/ FetchPage \/ Flush \/ FlushRest \/ EndPass

PagingSpec == PagingInit /\ [][PagingNext]_pagingVars

-----------------------------------------------------------------------------
(* Properties *)

PagingTypeOK ==
  /\ listed \subseteq posted /\ posted \subseteq Submissions
  /\ stage \in {"idle", "paging", "ended"}
  /\ after \in Int /\ {offset, passed, cursor, holes} \subseteq Nat
  /\ buf \in Seq(Submissions) /\ batch \in Seq(Submissions)
  /\ Len(buf) <= PageSize /\ Len(batch) <= BatchSize
  /\ written \cup late \cup ToSet(buf) \cup ToSet(batch) \subseteq posted

(* What no later pass will be handed, and no pass has been. *)
Missed == {s \in listed \ (written \cup ToSet(buf)) :
             stage = "idle" /\ PostedAt[s] <= AfterDate(cursor)}

(* A submission is missed for good only if it became visible more than the   *)
(* overlap late, or before the end of a page of a pass under way, or was     *)
(* moved across a page end by a deletion: submissions.go:228 advances the    *)
(* offset by what it was given, whatever has happened to the listing since.  *)
(* A deletion costs at most one.                                             *)
MissedWasLateOrShifted == Cardinality(Missed \ late) <= holes

(* A late arrival moves the end of a page to the next one, where it is       *)
(* listed again.  The two never meet in one batch, where neither the ledger  *)
(* nor Airtable would tell them apart (sync.go:203, submissions.go:190):     *)
(* batches never reach across the end of a page.                             *)
BatchHasNoRepeats == IsInjective(batch)
=============================================================================
