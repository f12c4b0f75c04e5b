------------------------------- MODULE Poller -------------------------------
(***************************************************************************)
(* One sync job and the poller goroutine that serves it:                   *)
(* internal/nps/sync.go (Manager.run, syncOnce, syncBatch), dedup.go, the  *)
(* ledger and job progress of internal/db, and CreateRecords of airtable.  *)
(*                                                                         *)
(* Fillout, Postgres and Airtable share no transaction.  A pass reads a    *)
(* listing from Fillout, asks the ledger in Postgres and then Airtable     *)
(* itself what has been written before, creates what is missing, records   *)
(* the outcome and moves the cursor.  Every one of these calls may fail,   *)
(* the process may die between any two of them, and the job may be stopped *)
(* at any moment.                                                          *)
(*                                                                         *)
(* Here the poller of a job is gone before the next one starts; what       *)
(* happens when two of them overlap is the subject of module Manager.      *)
(***************************************************************************)
EXTENDS Integers, FiniteSets

CONSTANTS
  Submissions,     \* all submissions the form may ever receive
  SubmissionTime,  \* submissionTime of each, in units finer than a second
  Second,          \* how many of these units make a second
  Foreign,         \* submissions another instance has written before we start
  BatchSize,       \* syncBatchSize: submissions per batch (50)
  PageSize,        \* the page limit of Fillout's listing (150)
  QueryChunk,      \* dedupQueryChunk: stamps asked for per Airtable query (25)
  ChunkSize,       \* maxBatchSize: records per create request (10)
  MaxFaults        \* bound: failures, crashes, stops and shutdowns per run

ASSUME TimeAssumption ==
  /\ SubmissionTime \in [Submissions -> Nat \ {0}]
  /\ Second \in Nat \ {0}

ASSUME SizeAssumption ==
  /\ IsFiniteSet(Submissions)
  /\ Foreign \subseteq Submissions
  /\ {BatchSize, PageSize, QueryChunk, ChunkSize} \subseteq Nat \ {0}
  /\ PageSize % BatchSize = 0   \* a full page never leaves a partial batch
  /\ MaxFaults \in Nat

VARIABLES
  \* Fillout
  visible,       \* submissions the API lists
  \* Airtable
  records,       \* number of live records stamped with each submission
  limbo,         \* create requests the client gave up on, still to be decided
  \* Postgres
  ledger,        \* synced_submissions: outcome per submission, or "none"
  storedCursor,  \* sync_jobs.cursor
  lastError,     \* sync_jobs.last_error is not empty
  status,        \* sync_jobs.status
  \* the process
  pc,            \* where the poller is (see States)
  cancelled,     \* the poller's context is cancelled
  cursor,        \* run's cursor and syncOnce's maxProcessed
  after,         \* the afterDate this pass queries with
  fetched,       \* submissions this pass has been handed by Fillout
  queue,         \* those of them not yet taken by the consumer
  listDone,      \* the producer has closed the batches channel
  passErr,       \* this pass has met an error
  batch,         \* the batch being processed
  todo,          \* candidates, then toCreate: those with no record yet
  asked,         \* those of the candidates whose stamps were asked for in vain
  skip,          \* ledger entries to write as skipped_existing
  made,          \* ledger entries to write as created
  \* history and bounds
  ours,          \* submissions for which this job has ever made a record
  abandoned,     \* submissions in a create request the client gave up on
  faults

fillout  == <<visible>>
airtable == <<records, limbo, ours, abandoned>>
job      == <<storedCursor, lastError, status>>
pass     == <<after, fetched, queue, listDone, passErr>>
local    == <<batch, todo, asked, skip, made>>
vars     == <<visible, airtable, ledger, job, pc, cancelled, cursor, pass,
              local, faults>>

(* nil cursor: submission times are positive *)
NoCursor == 0

InBatch == {"ledger", "stamps", "creating", "recording"}
InPass  == {"taking", "persisting"} \cup InBatch
States  == {"down",      \* no process
            "off",       \* a process, no poller for this job
            "first",     \* poller started, about to make its first pass
            "waiting"}   \* in run's select, between passes
           \cup InPass

Ledgered == {s \in Submissions : ledger[s] # "none"}

-----------------------------------------------------------------------------
(* afterDate: one second before the cursor, formatted without its fraction. *)
Truncated(t) == t - (t % Second)

(* Mutant: no overlap, the query starts at the cursor itself. *)
AfterDateExact(c) == c

AfterDate(c) == IF c = NoCursor THEN 0 ELSE Truncated(c - Second)

(* The first n of S in the order of the ascending listing.  Fillout does not *)
(* say how it orders submissions of one instant.                             *)
Leading(S, n) ==
  {F \in SUBSET S : /\ Cardinality(F) = IF Cardinality(S) < n
                                        THEN Cardinality(S) ELSE n
                    /\ \A f \in F, r \in S \ F :
                         SubmissionTime[f] <= SubmissionTime[r]}

(* What a page request asked now may still return to this pass. *)
Remaining == {s \in visible : SubmissionTime[s] > after} \ fetched

Init ==
  /\ visible \in {V \in SUBSET Submissions :
                    /\ Foreign \subseteq V
                    /\ \A v \in V, s \in Submissions \ V :
                         SubmissionTime[v] <= SubmissionTime[s]}
  /\ records = [s \in Submissions |-> IF s \in Foreign THEN 1 ELSE 0]
  /\ limbo = {}
  /\ ledger = [s \in Submissions |-> "none"]
  /\ storedCursor = NoCursor
  /\ lastError = FALSE
  /\ status = "active"
  /\ pc = "first"
  /\ cancelled = FALSE
  /\ cursor = NoCursor
  /\ after = 0 /\ fetched = {} /\ queue = {}
  /\ listDone = FALSE /\ passErr = FALSE
  /\ batch = {} /\ todo = {} /\ asked = {} /\ skip = {} /\ made = {}
  /\ ours = {} /\ abandoned = {}
  /\ faults = 0

-----------------------------------------------------------------------------
(* The world outside *)

(* A submission becomes visible.  Fillout lists them in the order of their *)
(* submission times; several may share one.                                *)
Post(s) ==
  /\ s \notin visible
  /\ \A v \in visible : SubmissionTime[v] <= SubmissionTime[s]
  /\ visible' = visible \cup {s}
  /\ UNCHANGED <<airtable, ledger, job, pc, cancelled, cursor, pass, local,
                 faults>>

(* Somebody deletes a record by hand in Airtable. *)
DeleteByHand(s) ==
  /\ records[s] > 0
  /\ records' = [records EXCEPT ![s] = @ - 1]
  /\ UNCHANGED <<fillout, limbo, ours, abandoned, ledger, job, pc, cancelled,
                 cursor, pass, local, faults>>

AddRecords(S) ==
  /\ records' = [s \in Submissions |->
                   IF s \in S THEN records[s] + 1 ELSE records[s]]
  /\ ours' = ours \cup S

(* Airtable carries out a request nobody waits for any more, or drops it. *)
Land(chunk) ==
  /\ chunk \in limbo
  /\ AddRecords(chunk)
  /\ limbo' = limbo \ {chunk}
  /\ UNCHANGED <<fillout, abandoned, ledger, job, pc, cancelled, cursor, pass,
                 local, faults>>

Vanish(chunk) ==
  /\ chunk \in limbo
  /\ limbo' = limbo \ {chunk}
  /\ UNCHANGED <<fillout, records, ours, abandoned, ledger, job, pc, cancelled,
                 cursor, pass, local, faults>>

-----------------------------------------------------------------------------
(* Failures.  A call made with a cancelled context fails; any other call     *)
(* fails when it pleases, up to MaxFaults.                                   *)
Budget == faults < MaxFaults /\ faults' = faults + 1

CallFails == Budget \/ (cancelled /\ UNCHANGED faults)

-----------------------------------------------------------------------------
(* run *)

ClearPass  == after' = 0 /\ fetched' = {} /\ queue' = {}
              /\ listDone' = FALSE /\ passErr' = FALSE
(* Mutant: a batch leaves its slices behind for the next one. *)
KeepLocal == UNCHANGED local

ClearLocal == batch' = {} /\ todo' = {} /\ asked' = {} /\ skip' = {} /\ made' = {}

(* Mutant: the stored cursor is ignored. *)
StartFromScratch == pc' = "first" /\ cancelled' = FALSE /\ cursor' = NoCursor

(* StartJob and the head of run: the cursor is the one stored with the job. *)
StartPoller ==
  /\ pc' = "first"
  /\ cancelled' = FALSE
  /\ cursor' = storedCursor

(* syncOnce up to the start of the producer.  The first pass is made        *)
(* whether or not the context is cancelled; later ones when the ticker wins. *)
BeginPass ==
  /\ pc \in {"first", "waiting"}
  /\ pc' = "taking"
  /\ after' = AfterDate(cursor)
  /\ UNCHANGED <<fillout, airtable, ledger, job, cancelled, cursor, fetched,
                 queue, listDone, passErr, local, faults>>

(* The producer: fetch a page.  It does so once all but one batch of the    *)
(* previous page have been received, and stops after a short page.          *)
FetchPage ==
  /\ pc \in {"taking"} \cup InBatch
  /\ ~listDone /\ ~cancelled
  /\ Cardinality(queue) <= BatchSize
  /\ \E page \in Leading(Remaining, PageSize) :
       /\ fetched' = fetched \cup page
       /\ queue' = queue \cup page
       /\ listDone' = (Cardinality(page) < PageSize)
  /\ UNCHANGED <<fillout, airtable, ledger, job, pc, cancelled, cursor, after,
                 passErr, local, faults>>

(* The iterator yields an error.  Batches already handed over stay queued. *)
FetchFails ==
  /\ pc \in {"taking"} \cup InBatch
  /\ ~listDone
  /\ CallFails
  /\ listDone' = TRUE
  /\ passErr' = TRUE
  /\ UNCHANGED <<fillout, airtable, ledger, job, pc, cancelled, cursor, after,
                 fetched, queue, local>>

(* A producer that notices the cancelled context returns without an error;  *)
(* the batch it was about to send may be lost.                              *)
ProducerStops ==
  /\ pc \in {"taking"} \cup InBatch
  /\ ~listDone /\ cancelled
  /\ listDone' = TRUE
  /\ queue' \in {queue, {}}
  /\ UNCHANGED <<fillout, airtable, ledger, job, pc, cancelled, cursor, after,
                 fetched, passErr, local, faults>>

(* The consumer receives the next batch, *)
TakeBatch ==
  /\ pc = "taking"
  /\ Cardinality(queue) >= BatchSize \/ (listDone /\ queue # {})
  /\ \E b \in Leading(queue, BatchSize) : batch' = b /\ queue' = queue \ b
  /\ pc' = "ledger"
  /\ UNCHANGED <<fillout, airtable, ledger, job, cancelled, cursor, after,
                 fetched, listDone, passErr, todo, asked, skip, made, faults>>

(* or finds the channel closed and empty. *)
ListingEnds ==
  /\ pc = "taking"
  /\ listDone /\ queue = {}
  /\ pc' = "persisting"
  /\ UNCHANGED <<fillout, airtable, ledger, job, cancelled, cursor, pass,
                 local, faults>>

(* Persist progress, with a context of its own. *)
Persist ==
  /\ pc = "persisting"
  /\ storedCursor' = cursor
  /\ lastError' = passErr
  /\ pc' = "waiting"
  /\ ClearPass
  /\ UNCHANGED <<fillout, airtable, ledger, status, cancelled, cursor, local,
                 faults>>

PersistFails ==
  /\ pc = "persisting"
  /\ Budget
  /\ pc' = "waiting"
  /\ ClearPass
  /\ UNCHANGED <<fillout, airtable, ledger, job, cancelled, cursor, local>>

(* The poller leaves: after a stop the process lives on, after a shutdown   *)
(* it goes too.                                                             *)
Exit ==
  /\ pc = "waiting" /\ cancelled
  /\ pc' = IF status = "stopped" THEN "off" ELSE "down"
  /\ cursor' = NoCursor
  /\ cancelled' = FALSE
  /\ UNCHANGED <<fillout, airtable, ledger, job, pass, local, faults>>

-----------------------------------------------------------------------------
(* syncBatch *)

(* Mutant: the error is dropped. *)
FailSilently ==
  /\ pc' = "persisting"
  /\ queue' = {} /\ listDone' = TRUE
  /\ ClearLocal
  /\ UNCHANGED <<cursor, after, fetched, passErr>>

(* On the first batch error the producer is stopped, the channel drained    *)
(* and the cursor left where it is.                                         *)
FailBatch ==
  /\ pc' = "persisting"
  /\ passErr' = TRUE
  /\ queue' = {} /\ listDone' = TRUE
  /\ ClearLocal
  /\ UNCHANGED <<cursor, after, fetched>>

(* Whole batch handled: the cursor advances across all of it. *)
FinishBatch ==
  /\ pc' = "taking"
  /\ \E c \in {cursor} \cup {SubmissionTime[s] : s \in batch} :
       /\ cursor <= c
       /\ \A s \in batch : SubmissionTime[s] <= c
       /\ cursor' = c
  /\ ClearLocal
  /\ UNCHANGED pass

(* Mutant: the ledger is not asked. *)
TrustStampsOnly ==
  /\ pc = "ledger" /\ ~cancelled
  /\ todo' = batch
  /\ pc' = "stamps"
  /\ UNCHANGED <<fillout, airtable, ledger, job, cancelled, cursor, pass,
                 batch, asked, skip, made, faults>>

(* ExistingSubmissionIDs *)
CheckLedger ==
  /\ pc = "ledger" /\ ~cancelled
  /\ \/ /\ batch \subseteq Ledgered
        /\ FinishBatch
     \/ /\ ~(batch \subseteq Ledgered)
        /\ todo' = batch \ Ledgered
        /\ pc' = "stamps"
        /\ UNCHANGED <<cursor, pass, batch, asked, skip, made>>
  /\ UNCHANGED <<fillout, airtable, ledger, job, cancelled, faults>>

(* Mutant: Airtable is not asked. *)
TrustLedgerOnly ==
  /\ pc = "stamps" /\ ~cancelled
  /\ pc' = "creating"
  /\ UNCHANGED <<fillout, airtable, ledger, job, cancelled, cursor, pass,
                 local, faults>>

(* FindStampedRecords, one query; after the last one the batch is sorted    *)
(* into what has a record and what needs one.                               *)
CheckStamps ==
  /\ pc = "stamps" /\ ~cancelled
  /\ \E query \in Leading(todo \ asked, QueryChunk) :
       LET found   == {s \in query : records[s] > 0}
           missing == asked \cup (query \ found) IN
       /\ skip' = skip \cup found
       /\ todo' = todo \ found
       /\ \/ /\ missing # todo'
             /\ asked' = missing
             /\ pc' = "stamps"
          \/ /\ missing = todo'
             /\ asked' = {}
             /\ pc' = IF todo' = {} THEN "recording" ELSE "creating"
  /\ UNCHANGED <<fillout, airtable, ledger, job, cancelled, cursor, pass,
                 batch, made, faults>>

(* Either lookup fails. *)
LookupFails ==
  /\ pc \in {"ledger", "stamps"}
  /\ CallFails
  /\ FailBatch
  /\ UNCHANGED <<fillout, airtable, ledger, job, cancelled>>

(* CreateRecords: one request per chunk. *)
CreateChunk ==
  /\ pc = "creating" /\ ~cancelled
  /\ \E chunk \in Leading(todo, ChunkSize) :
       /\ AddRecords(chunk)
       /\ made' = made \cup chunk
       /\ todo' = todo \ chunk
  /\ pc' = IF todo' = {} THEN "recording" ELSE "creating"
  /\ UNCHANGED <<fillout, limbo, abandoned, ledger, job, cancelled, cursor,
                 pass, batch, asked, skip, faults>>

(* The request got no answer: Airtable may have done it, do it later, or    *)
(* never.                                                                   *)
GiveUpOnChunk ==
  /\ \E chunk \in Leading(todo, ChunkSize) :
       /\ limbo' = limbo \cup {chunk}
       /\ abandoned' = abandoned \cup chunk
  /\ UNCHANGED <<records, ours>>

(* Mutant: the failed chunk is counted as created. *)
CountFailedChunk ==
  /\ pc = "creating"
  /\ CallFails
  /\ \E chunk \in Leading(todo, ChunkSize) : made' = made \cup chunk
  /\ pc' = "recording"
  /\ UNCHANGED <<fillout, airtable, ledger, job, cancelled, cursor, pass,
                 batch, todo, asked, skip>>

(* A chunk is refused or gets no answer; the chunks before it were created, *)
(* those after it are not tried.                                            *)
CreateFails ==
  /\ pc = "creating"
  /\ CallFails
  /\ UNCHANGED airtable \/ GiveUpOnChunk
  /\ pc' = "recording"
  /\ UNCHANGED <<fillout, ledger, job, cancelled, cursor, pass, local>>

(* Mutant: every candidate is booked, created or not. *)
RecordAll ==
  [s \in Submissions |->
     IF ledger[s] = "none" /\ s \in batch THEN "created" ELSE ledger[s]]

(* RecordSubmissions: one INSERT, existing rows win. *)
Recorded ==
  [s \in Submissions |->
     CASE ledger[s] # "none" -> ledger[s]
       [] ledger[s] = "none" /\ s \in made -> "created"
       [] ledger[s] = "none" /\ s \in skip \ made -> "skipped_existing"
       [] OTHER -> "none"]

(* Submissions are still to be created: CreateRecords returned an error. *)
CreateErr == todo # {}

RecordLedger ==
  /\ pc = "recording"
  /\ ~cancelled \/ made \cup skip = {}   \* no entries, no statement
  /\ ledger' = Recorded
  /\ \/ CreateErr /\ FailBatch
     \/ ~CreateErr /\ FinishBatch
  /\ UNCHANGED <<fillout, airtable, job, cancelled, faults>>

(* The statement fails, or it was carried out and only the answer was lost. *)
RecordFails ==
  /\ pc = "recording"
  /\ made \cup skip # {}
  /\ CallFails
  /\ ledger' \in {ledger, Recorded}
  /\ FailBatch
  /\ UNCHANGED <<fillout, airtable, job, cancelled>>

-----------------------------------------------------------------------------
(* The process and its users *)

(* Mutant: pollers are not restarted with the process. *)
BootIdle ==
  /\ pc = "down"
  /\ pc' = "off"
  /\ UNCHANGED <<fillout, airtable, ledger, job, cancelled, cursor, pass,
                 local, faults>>

(* Manager.Start: a poller for every active job. *)
Boot ==
  /\ pc = "down"
  /\ \/ status = "active" /\ StartPoller
     \/ /\ status = "stopped"
        /\ pc' = "off"
        /\ UNCHANGED <<cancelled, cursor>>
  /\ UNCHANGED <<fillout, airtable, ledger, job, pass, local, faults>>

(* handleStop, and handleResume once the old poller has gone *)
Stop ==
  /\ pc \notin {"down", "off"} /\ status = "active" /\ ~cancelled
  /\ Budget
  /\ cancelled' = TRUE
  /\ status' = "stopped"
  /\ UNCHANGED <<fillout, airtable, ledger, storedCursor, lastError, pc,
                 cursor, pass, local>>

Resume ==
  /\ pc = "off" /\ status = "stopped"
  /\ status' = "active"
  /\ StartPoller
  /\ UNCHANGED <<fillout, airtable, ledger, storedCursor, lastError, pass,
                 local, faults>>

(* SIGTERM: the base context of every poller is cancelled. *)
Shutdown ==
  /\ pc \notin {"down", "off"} /\ ~cancelled
  /\ Budget
  /\ cancelled' = TRUE
  /\ UNCHANGED <<fillout, airtable, ledger, job, pc, cursor, pass, local>>

(* The process dies; a create request may be under way. *)
Crash ==
  /\ pc # "down"
  /\ Budget
  /\ UNCHANGED airtable \/ (pc = "creating" /\ GiveUpOnChunk)
  /\ pc' = "down"
  /\ cancelled' = FALSE
  /\ cursor' = NoCursor
  /\ ClearPass /\ ClearLocal
  /\ UNCHANGED <<fillout, ledger, job>>

-----------------------------------------------------------------------------
Producer == FetchPage \/ FetchFails \/ ProducerStops

Consumer ==
  \/ TakeBatch \/ ListingEnds
  \/ CheckLedger \/ CheckStamps \/ LookupFails
  \/ CreateChunk \/ CreateFails
  \/ RecordLedger \/ RecordFails
  \/ Persist \/ PersistFails

Process == Boot \/ BeginPass \/ Producer \/ Consumer \/ Exit

Users == Stop \/ Resume \/ Shutdown \/ Crash

World ==
  \/ \E s \in Submissions : Post(s) \/ DeleteByHand(s)
  \/ \E chunk \in limbo : Land(chunk) \/ Vanish(chunk)

Next == Process \/ Users \/ World

Spec == Init /\ [][Next]_vars

(* The goroutines are scheduled, the ticker ticks, every call returns       *)
(* (clients have timeouts), a process that died is started again, and       *)
(* run's select does not prefer the ticker for ever.                        *)
FairSpec == Spec /\ WF_vars(Process) /\ SF_vars(Exit)

-----------------------------------------------------------------------------
(* Properties *)

(* The only type invariant of the module. *)
TypeOK ==
  /\ visible \subseteq Submissions
  /\ records \in [Submissions -> Nat]
  /\ limbo \subseteq SUBSET Submissions
  /\ ledger \in [Submissions -> {"none", "created", "skipped_existing"}]
  /\ storedCursor \in Nat /\ cursor \in Nat
  /\ after \in Int
  /\ lastError \in BOOLEAN /\ cancelled \in BOOLEAN
  /\ listDone \in BOOLEAN /\ passErr \in BOOLEAN
  /\ status \in {"active", "stopped"}
  /\ pc \in States
  /\ queue \subseteq fetched /\ fetched \subseteq visible
  /\ batch \subseteq fetched
  /\ todo \subseteq batch /\ skip \subseteq batch /\ made \subseteq batch
  /\ asked \subseteq todo
  /\ ours \subseteq visible /\ abandoned \subseteq visible
  /\ faults \in 0..MaxFaults

(* "dedup makes any reprocessing harmless" (sync.go:161): however passes are *)
(* interrupted and repeated, a submission has at most one live record.       *)
AtMostOneRecord == \A s \in Submissions : records[s] <= 1

(* What is left of it: a submission that got two records was part of a      *)
(* create request for which the client did not wait to the end.  Crashes,   *)
(* stops, partial creates, failed ledger writes and repeated passes alone   *)
(* never duplicate a record.                                                *)
DuplicatesWereAbandoned ==
  \A s \in Submissions : records[s] > 1 => s \in abandoned

(* A submission that has a ledger row is never created again, even when     *)
(* its record is deleted by hand (sync.go:247-250).                         *)
NeverRecreated ==
  [][\A s \in Ledgered : records'[s] > records[s] => s \in abandoned]_vars

(* A ledger row never claims a record that did not exist: what it calls     *)
(* created this job created, what it calls skipped_existing somebody had    *)
(* written.                                                                 *)
LedgerIsTruthful ==
  \A s \in Submissions :
    /\ ledger[s] = "created" => s \in ours
    /\ ledger[s] = "skipped_existing" => s \in ours \cup Foreign

(* "those records were written by someone else" (ledger.go:101): a record   *)
(* this job made is never booked as skipped.                                *)
SkippedIsForeign ==
  \A s \in Submissions : ledger[s] = "skipped_existing" => s \notin ours

(* A submission that is listed and not yet in the ledger would still be     *)
(* returned by a query from the cursor, the one in memory and the one a     *)
(* restart would read: whatever failed before, none is skipped for good,    *)
(* siblings of one second included (sync.go:167).                           *)
NoneSkipped ==
  \A s \in visible \ Ledgered :
    \A c \in {cursor, storedCursor} : SubmissionTime[s] > AfterDate(c)

(* A pass that ends without an error, and was not cancelled, has put into   *)
(* the ledger every submission Fillout handed it: no batch is lost between  *)
(* producer and consumer, no failure goes unreported as last_error.         *)
CleanPassIsComplete ==
  pc = "persisting" /\ ~passErr /\ ~cancelled => fetched \subseteq Ledgered

(* UpdateJobProgress advances the cursor (jobs.go:158): progress that was   *)
(* persisted is not lost by crashes, failed passes or restarts.             *)
CursorNeverRegresses == [][storedCursor' >= storedCursor]_vars

(* Every submission posted to a job that stays active gets into the ledger, *)
(* once failures no longer strike.                                          *)
EventuallySettled ==
  <>[](status = "active") =>
    \A s \in Submissions : s \in visible ~> s \in Ledgered

(* The promise kept to users of the job. *)
Promise == INSTANCE Delivery WITH
  posted <- visible, delivered <- ours \cup Foreign, settled <- Ledgered

KeepsPromise == Promise!Spec
=============================================================================
