------------------------------- MODULE Service -------------------------------
(***************************************************************************)
(* The stores of a form shared by everything that works on them: several   *)
(* pollers of one or of several jobs (internal/nps/sync.go), the ledger and *)
(* the jobs of internal/db, the records in Airtable, a request that removes *)
(* a sync (app.go, handleRemove) and restarts with another Airtable base.   *)
(*                                                                         *)
(* Poller looks closely at one poller and Manager at how many there are;    *)
(* here a pass is coarser (a listing is one batch) and what matters is what *)
(* pollers and the removal do to each other.  Manager shows that a job may  *)
(* have several pollers and that a poller may outlive its job; Launch takes *)
(* both for granted.                                                        *)
(***************************************************************************)
EXTENDS Integers, FiniteSets

CONSTANTS
  Pollers,      \* goroutines
  Bases,        \* Airtable bases the service may be configured with
  Last,         \* submissions are 1..Last in the order of their times
  MaxJobs,      \* bound: jobs ever inserted
  MaxRecords,   \* bound: records ever asked for
  MaxFaults,    \* bound: failures, restarts, stops, records deleted by hand
  DeleteChunk   \* maxBatchSize: records per delete request (10)

ASSUME ServiceAssumption ==
  /\ {Last, MaxJobs, MaxRecords, MaxFaults} \subseteq Nat
  /\ DeleteChunk \in Nat \ {0}
  /\ Bases # {} /\ Pollers # {}

VARIABLES
  visible,    \* Fillout lists the submissions 1..visible
  live,       \* Airtable records
  inflight,   \* records Airtable has been asked to create and has not (yet)
  doomed,     \* delete requests nobody waits for any more
  count,      \* records asked for so far
  base,       \* cfg.AirtableBaseID of the running process
  inserted,   \* jobs inserted so far are 1..inserted
  exists,     \* those that have a row
  jobBase,    \* sync_jobs.airtable_base_id
  stored,     \* sync_jobs.cursor, 0 for NULL
  ledger,     \* synced_submissions: the row of each submission, or NoRow
  pl,         \* the pollers
  rm,         \* the request that removes a sync
  faults,
  contested,  \* history: what two pollers had both found missing, and where
  abandoned,  \* history: what a create request was for, and where, that was
              \* given up while Airtable might still carry it out
  uncertain,  \* history: records asked for, but not (or not in time) booked
  orphaned,   \* history: submissions whose ledger row went with one job
              \* while there was another
  purged,     \* history: jobs removed together with their records
  unfinished, \* history: records a removal knew, and had not deleted when it
              \* ended with an error
  byHand      \* history: records people have deleted

world   == <<visible, live, inflight, doomed, count>>
jobs    == <<inserted, exists, jobBase, stored>>
doubts  == <<contested, abandoned, orphaned, purged, unfinished>>
history == <<doubts, uncertain, byHand>>
vars    == <<world, base, jobs, ledger, pl, rm, faults, history>>

Submissions == 1..Last
Jobs == 1..MaxJobs
Records == [id : 1..MaxRecords, sub : Submissions, base : Bases, job : Jobs]
NoRow == [job |-> 0]
Rows == [job : Jobs, sub : Submissions, rec : Records,
         outcome : {"created", "skipped_existing"}]
Idle == [pc |-> "idle", job |-> 0, cancelled |-> FALSE, cursor |-> 0,
         batch |-> {}, todo |-> {}, sent |-> {}, rows |-> {}, err |-> FALSE]
NoRequest == [pc |-> "idle", job |-> 0, ids |-> {}, purge |-> FALSE]

Ledgered == {s \in Submissions : ledger[s] # NoRow}
CreatedBy(rows) == {row.rec : row \in {w \in rows : w.outcome = "created"}}
InHand(p) == CreatedBy(pl[p].rows) \cup pl[p].sent
Place(r) == <<r.sub, r.base>>

(* DeleteByHand, Stop and every failure draw on one bound; a call with a      *)
(* cancelled context fails in any case.                                      *)
Budget == faults < MaxFaults /\ faults' = faults + 1
CallFails(p) == Budget \/ (pl[p].cancelled /\ UNCHANGED faults)

Init ==
  /\ visible \in 0..Last /\ live = {} /\ count = 0
  /\ inflight = {} /\ doomed = {}
  /\ base \in Bases
  /\ inserted = 0 /\ exists = {}
  /\ jobBase = [j \in Jobs |-> base] /\ stored = [j \in Jobs |-> 0]
  /\ ledger = [s \in Submissions |-> NoRow]
  /\ pl = [p \in Pollers |-> Idle]
  /\ rm = NoRequest
  /\ faults = 0
  /\ contested = {} /\ abandoned = {} /\ uncertain = {}
  /\ orphaned = {} /\ purged = {} /\ unfinished = {} /\ byHand = {}

-----------------------------------------------------------------------------
(* The world outside *)

Post ==
  /\ visible < Last
  /\ visible' = visible + 1
  /\ UNCHANGED <<live, inflight, doomed, count, base, jobs, ledger, pl, rm,
                 faults, history>>

DeleteByHand(r) ==
  /\ Budget
  /\ live' = live \ {r}
  /\ byHand' = byHand \cup {r}
  /\ UNCHANGED <<visible, inflight, doomed, count, base, jobs, ledger, pl, rm,
                 doubts, uncertain>>

(* Airtable carries out a create request: while the client waits for the    *)
(* answer, or after it has given up.  Or never: nothing makes it happen.    *)
Land(r) ==
  /\ r \in inflight
  /\ inflight' = inflight \ {r}
  /\ live' = live \cup {r}
  /\ UNCHANGED <<visible, doomed, count, base, jobs, ledger, pl, rm, faults,
                 history>>

(* The same of a delete request that was given up. *)
LandDelete(chunk) ==
  /\ chunk \in doomed /\ chunk \subseteq live
  /\ doomed' = doomed \ {chunk}
  /\ live' = live \ chunk
  /\ UNCHANGED <<visible, inflight, count, base, jobs, ledger, pl, rm, faults,
                 history>>

-----------------------------------------------------------------------------
(* Jobs and pollers *)

(* CreateJob: one row per form, configured base and table. *)
InsertJob ==
  /\ inserted < MaxJobs
  /\ \A j \in exists : jobBase[j] # base
  /\ inserted' = inserted + 1
  /\ exists' = exists \cup {inserted'}
  /\ jobBase' = [jobBase EXCEPT ![inserted'] = base]
  /\ UNCHANGED <<world, base, stored, ledger, pl, rm, faults, history>>

(* run starts with the cursor of the row its caller has read. *)
Launch(p, j) ==
  /\ pl[p].pc = "idle"
  /\ pl' = [pl EXCEPT ![p] = [Idle EXCEPT !.pc = "waiting", !.job = j,
                                          !.cursor = stored[j]]]
  /\ UNCHANGED <<world, base, jobs, ledger, rm, faults, history>>

(* StopJob for handleStop, or Shutdown: whatever the poller is doing, its      *)
(* context is cancelled.                                                     *)
Stop(p) ==
  /\ pl[p].pc # "idle" /\ ~pl[p].cancelled
  /\ Budget
  /\ pl' = [pl EXCEPT ![p].cancelled = TRUE]
  /\ UNCHANGED <<world, base, jobs, ledger, rm, history>>

Leave(p) ==
  /\ pl[p].pc = "waiting" /\ pl[p].cancelled
  /\ pl' = [pl EXCEPT ![p] = Idle]
  /\ UNCHANGED <<world, base, jobs, ledger, rm, faults, history>>

(* The request for a chunk of what is left to delete: chunks are full but for *)
(* the last one.                                                             *)
NextChunks ==
  {chunk \in SUBSET rm.ids :
     /\ chunk # {}
     /\ \/ Cardinality(chunk) = DeleteChunk
        \/ chunk = rm.ids /\ Cardinality(chunk) < DeleteChunk}
Known(chunk) == \A r \in chunk : r \in live /\ r.base = base

(* A removal ends before it has deleted everything; a request under way may  *)
(* be carried out all the same.                                              *)
LeaveUnfinished ==
  /\ unfinished' = unfinished \cup (IF rm.pc = "deleting" THEN rm.ids ELSE {})
  /\ \/ UNCHANGED doomed
     \/ /\ rm.pc = "deleting"
        /\ \E chunk \in NextChunks : Known(chunk) /\ doomed' = doomed \cup {chunk}

(* The process dies, and comes back with a configuration of its own.  Its   *)
(* pollers take what they have not booked with them; their requests stay.   *)
Restart(b) ==
  /\ Budget
  /\ base' = b
  /\ pl' = [p \in Pollers |-> Idle]
  /\ rm' = NoRequest
  /\ uncertain' = uncertain \cup UNION {InHand(p) : p \in Pollers}
  /\ abandoned' = abandoned \cup {Place(r) : r \in inflight}
  /\ LeaveUnfinished
  /\ UNCHANGED <<visible, live, inflight, count, jobs, ledger, contested,
                 orphaned, purged, byHand>>

-----------------------------------------------------------------------------
(* A pass *)

(* One second of overlap: the submission at the cursor is listed again. *)
BeginPass(p) ==
  /\ pl[p].pc = "waiting"
  /\ pl' = [pl EXCEPT ![p].pc = "ledger",
                      ![p].batch = {s \in 1..visible : s >= pl[p].cursor}]
  /\ UNCHANGED <<world, base, jobs, ledger, rm, faults, history>>

(* Mutant: the cursor moves although the batch failed. *)
EndBatchAlways(p, failed) ==
  pl' = [pl EXCEPT ![p] =
          [@ EXCEPT !.pc = "persisting", !.todo = {}, !.rows = {},
                    !.batch = {}, !.err = FALSE,
                    !.cursor = IF pl[p].batch = {} THEN pl[p].cursor
                               ELSE CHOOSE c \in pl[p].batch :
                                      \A s \in pl[p].batch : s <= c]]

(* syncBatch is done; the cursor moves across the batch unless it failed. *)
EndBatch(p, failed) ==
  pl' = [pl EXCEPT ![p] =
          [@ EXCEPT !.pc = "persisting", !.todo = {}, !.rows = {},
                    !.batch = {}, !.err = FALSE,
                    !.cursor = IF failed \/ pl[p].batch = {} THEN pl[p].cursor
                               ELSE CHOOSE c \in pl[p].batch :
                                      \A s \in pl[p].batch : s <= c]]

(* Mutant: the ledger is asked about the rows of the job alone. *)
CheckOwnLedger(p) ==
  LET own == {s \in Ledgered : ledger[s].job = pl[p].job}
  IN /\ pl[p].pc = "ledger" /\ ~pl[p].cancelled
     /\ IF pl[p].batch \subseteq own
        THEN EndBatch(p, FALSE)
        ELSE pl' = [pl EXCEPT ![p].pc = "stamps", ![p].todo = pl[p].batch \ own]
     /\ UNCHANGED <<world, base, jobs, ledger, rm, faults, history>>

(* ExistingSubmissionIDs: a row of any job of the form counts. *)
CheckLedger(p) ==
  /\ pl[p].pc = "ledger" /\ ~pl[p].cancelled
  /\ IF pl[p].batch \subseteq Ledgered
     THEN EndBatch(p, FALSE)
     ELSE pl' = [pl EXCEPT ![p].pc = "stamps",
                           ![p].todo = pl[p].batch \ Ledgered]
  /\ UNCHANGED <<world, base, jobs, ledger, rm, faults, history>>

(* Mutant: the ledger alone decides. *)
NeverStamped(s) == {}

(* The table is looked up in the base of the configuration. *)
StampedWith(s) == {r \in live : r.sub = s /\ r.base = base}

(* FindStampedRecords, and what of the batch is left to create *)
CheckStamps(p) ==
  LET todo    == pl[p].todo
      found   == {s \in todo : StampedWith(s) # {}}
      missing == todo \ found
  IN /\ pl[p].pc = "stamps" /\ ~pl[p].cancelled
     /\ \E pick \in [found -> live] :
          /\ \A s \in found : pick[s] \in StampedWith(s)
          /\ pl' = [pl EXCEPT ![p].pc = "creating", ![p].todo = missing,
               ![p].rows = {[job |-> pl[p].job, sub |-> s, rec |-> pick[s],
                             outcome |-> "skipped_existing"] : s \in found}]
     /\ contested' = contested \cup
          {<<s, base>> : s \in {m \in missing : \E q \in Pollers \ {p} :
                             pl[q].pc = "creating" /\ m \in pl[q].todo}}
     /\ UNCHANGED <<world, base, jobs, ledger, rm, faults, abandoned, uncertain,
                    orphaned, purged, unfinished, byHand>>

LookupFails(p) ==
  /\ pl[p].pc \in {"ledger", "stamps"}
  /\ CallFails(p)
  /\ EndBatch(p, TRUE)
  /\ UNCHANGED <<world, base, jobs, ledger, rm, history>>

NewRecord(p, s) ==
  [id |-> count + 1, sub |-> s, base |-> base, job |-> pl[p].job]

(* The ids for a removal of this job have been read: a record made now will *)
(* not be among them.                                                       *)
TooLate(j) == j \notin exists \/ (rm.job = j /\ rm.pc # "idle")

(* CreateRecords, one record at a time: the request goes out *)
Send(p) ==
  /\ pl[p].pc = "creating" /\ pl[p].sent = {} /\ ~pl[p].cancelled
  /\ count < MaxRecords
  /\ \E s \in pl[p].todo :
       LET r == NewRecord(p, s)
       IN /\ \A t \in pl[p].todo : s <= t
          /\ inflight' = inflight \cup {r}
          /\ pl' = [pl EXCEPT ![p].sent = {r}]
          /\ uncertain' = IF TooLate(pl[p].job) THEN uncertain \cup {r}
                                                ELSE uncertain
  /\ count' = count + 1
  /\ UNCHANGED <<visible, live, doomed, base, jobs, ledger, rm, faults, doubts,
                 byHand>>

(* and its answer comes back. *)
Create(p) ==
  /\ pl[p].pc = "creating" /\ ~pl[p].cancelled
  /\ pl[p].sent \cap inflight = {}
  /\ \E r \in pl[p].sent :
       pl' = [pl EXCEPT ![p].sent = {}, ![p].todo = @ \ {r.sub},
                ![p].rows = @ \cup {[job |-> pl[p].job, sub |-> r.sub,
                                     rec |-> r, outcome |-> "created"]}]
  /\ UNCHANGED <<world, base, jobs, ledger, rm, faults, history>>

(* Airtable refuses, or the client gives up: on a timeout, because StopJob has *)
(* cancelled its context, or since the answer is lost.                       *)
CreateFails(p) ==
  /\ pl[p].pc = "creating" /\ pl[p].todo # {}
  /\ CallFails(p)
  /\ pl' = [pl EXCEPT ![p].todo = {}, ![p].sent = {}, ![p].err = TRUE]
  /\ uncertain' = uncertain \cup pl[p].sent
  /\ \/ inflight' = inflight \ pl[p].sent /\ UNCHANGED abandoned
     \/ /\ abandoned' = abandoned \cup
                          {Place(r) : r \in pl[p].sent \cap inflight}
        /\ UNCHANGED inflight
  /\ UNCHANGED <<visible, live, doomed, count, base, jobs, ledger, rm, contested,
                 orphaned, purged, unfinished, byHand>>

Fresh(p) == {row \in pl[p].rows : row.sub \notin Ledgered}

(* Mutant: ON CONFLICT DO UPDATE. *)
UpsertRows(rows, fresh) ==
  ledger' = [s \in Submissions |->
              IF \E row \in rows : row.sub = s
              THEN CHOOSE row \in rows : row.sub = s ELSE ledger[s]]

(* ON CONFLICT DO NOTHING *)
InsertRows(rows, fresh) ==
  ledger' = [s \in Submissions |->
              IF \E row \in fresh : row.sub = s
              THEN CHOOSE row \in fresh : row.sub = s ELSE ledger[s]]

(* RecordSubmissions: one statement; rows that would really be inserted must *)
(* refer to a job.                                                           *)
RecordLedger(p) ==
  /\ pl[p].pc = "creating" /\ pl[p].todo = {} /\ ~pl[p].cancelled
  /\ Fresh(p) # {} => pl[p].job \in exists
  /\ InsertRows(pl[p].rows, Fresh(p))
  /\ uncertain' = uncertain \cup CreatedBy(pl[p].rows \ Fresh(p))
  /\ EndBatch(p, pl[p].err)
  /\ UNCHANGED <<world, base, jobs, rm, faults, doubts, byHand>>

RecordFails(p) ==
  /\ pl[p].pc = "creating" /\ pl[p].todo = {}
  /\ \/ CallFails(p)
     \/ /\ Fresh(p) # {} /\ pl[p].job \notin exists
        /\ UNCHANGED faults
  /\ uncertain' = uncertain \cup CreatedBy(pl[p].rows)
  /\ EndBatch(p, TRUE)
  /\ UNCHANGED <<world, base, jobs, ledger, rm, doubts, byHand>>

(* UpdateJobProgress, with a context of its own; for a job that is gone it  *)
(* updates no row.                                                          *)
Persist(p) ==
  /\ pl[p].pc = "persisting"
  /\ pl' = [pl EXCEPT ![p].pc = "waiting"]
  /\ \/ /\ stored' = IF pl[p].job \in exists
                     THEN [stored EXCEPT ![pl[p].job] = pl[p].cursor]
                     ELSE stored
        /\ UNCHANGED faults
     \/ Budget /\ UNCHANGED stored
  /\ UNCHANGED <<world, base, inserted, exists, jobBase, ledger, rm, history>>

-----------------------------------------------------------------------------
(* handleRemove *)

(* Mutant: every record the ledger has for the job. *)
AllRecordIDs(j) == {ledger[s].rec : s \in {t \in Ledgered : ledger[t].job = j}}

CreatedRecordIDs(j) ==
  {ledger[s].rec : s \in {t \in Ledgered : /\ ledger[t].job = j
                                           /\ ledger[t].outcome = "created"}}

(* GetJob and, if the box was ticked, CreatedRecordIDs.  What the pollers of *)
(* the job have made and not booked yet escapes it.                          *)
LoadForRemoval(j, purge) ==
  /\ rm.pc = "idle" /\ j \in exists
  /\ rm' = [pc |-> "stopping", job |-> j, purge |-> purge,
            ids |-> IF purge THEN CreatedRecordIDs(j) ELSE {}]
  /\ uncertain' = uncertain \cup
       UNION {InHand(p) : p \in {q \in Pollers : pl[q].job = j}}
  /\ UNCHANGED <<world, base, jobs, ledger, pl, faults, doubts, byHand>>

(* StopJob cancels the registered poller, which is the only one unless they *)
(* overlap.                                                                 *)
StopPollers ==
  /\ rm.pc = "stopping"
  /\ rm' = [rm EXCEPT !.pc = "removing"]
  /\ \E P \in SUBSET {p \in Pollers : pl[p].job = rm.job} :
       /\ Cardinality(P) = 1 \/ \A p \in Pollers : pl[p].job # rm.job
       /\ pl' = [p \in Pollers |->
                   IF p \in P THEN [pl[p] EXCEPT !.cancelled = TRUE] ELSE pl[p]]
  /\ UNCHANGED <<world, base, jobs, ledger, faults, history>>

(* Mutant: without ON DELETE CASCADE. *)
KeepRows(j) == UNCHANGED ledger

Cascade(j) ==
  ledger' = [s \in Submissions |->
              IF ledger[s].job = j THEN NoRow ELSE ledger[s]]

DeleteJob ==
  /\ rm.pc = "removing"
  /\ exists' = exists \ {rm.job}
  /\ Cascade(rm.job)
  /\ rm' = [rm EXCEPT !.pc = "deleting"]
  /\ orphaned' = IF exists = {rm.job} THEN orphaned
                 ELSE orphaned \cup {s \in Ledgered : ledger[s].job = rm.job}
  /\ purged' = IF rm.purge THEN purged \cup {rm.job} ELSE purged
  /\ UNCHANGED <<world, base, inserted, jobBase, stored, pl, faults, contested,
                 abandoned, uncertain, unfinished, byHand>>

(* Mutant: DeleteRecords returns after its first request. *)
DeleteFirstChunk ==
  /\ rm.pc = "deleting"
  /\ \E chunk \in NextChunks :
       /\ Known(chunk)
       /\ live' = live \ chunk
       /\ rm' = [rm EXCEPT !.ids = {}]
  /\ UNCHANGED <<visible, inflight, doomed, count, base, jobs, ledger, pl,
                 faults, history>>

(* DeleteRecords, a request at a time *)
DeleteSome ==
  /\ rm.pc = "deleting"
  /\ \E chunk \in NextChunks :
       /\ Known(chunk)
       /\ live' = live \ chunk
       /\ rm' = [rm EXCEPT !.ids = @ \ chunk]
  /\ UNCHANGED <<visible, inflight, doomed, count, base, jobs, ledger, pl,
                 faults, history>>

(* DeleteJob or a delete request fails; the latter also when Airtable does  *)
(* not know a record of the request (any more).  The rest is left.          *)
RemovalFails ==
  /\ \/ /\ rm.pc \in {"removing", "deleting"}
        /\ rm.pc = "deleting" => rm.ids # {}
        /\ Budget
        /\ LeaveUnfinished
     \/ /\ rm.pc = "deleting"
        /\ \E chunk \in NextChunks : ~Known(chunk)
        /\ unfinished' = unfinished \cup rm.ids
        /\ UNCHANGED <<faults, doomed>>
  /\ rm' = NoRequest
  /\ UNCHANGED <<visible, live, inflight, count, base, jobs, ledger, pl,
                 contested, abandoned, uncertain, orphaned, purged, byHand>>

RemovalDone ==
  /\ rm.pc = "deleting" /\ rm.ids = {}
  /\ rm' = NoRequest
  /\ UNCHANGED <<world, base, jobs, ledger, pl, faults, history>>

Next ==
  \/ Post \/ InsertJob \/ \E r \in live : DeleteByHand(r)
  \/ \E r \in inflight : Land(r)
  \/ \E chunk \in doomed : LandDelete(chunk)
  \/ \E b \in Bases : Restart(b)
  \/ \E p \in Pollers :
       \/ \E j \in 1..inserted : Launch(p, j)
       \/ Stop(p) \/ Leave(p) \/ BeginPass(p)
       \/ CheckLedger(p) \/ CheckStamps(p) \/ LookupFails(p)
       \/ Send(p) \/ Create(p) \/ CreateFails(p)
       \/ RecordLedger(p) \/ RecordFails(p) \/ Persist(p)
  \/ \E j \in exists, purge \in BOOLEAN : LoadForRemoval(j, purge)
  \/ StopPollers \/ DeleteJob \/ DeleteSome \/ RemovalFails \/ RemovalDone

Spec == Init /\ [][Next]_vars

-----------------------------------------------------------------------------
(* Properties *)

TypeOK ==
  /\ visible \in 0..Last /\ count \in 0..MaxRecords
  /\ live \cup inflight \subseteq Records /\ doomed \subseteq SUBSET Records
  /\ base \in Bases
  /\ inserted \in 0..MaxJobs /\ exists \subseteq 1..inserted
  /\ jobBase \in [Jobs -> Bases] /\ stored \in [Jobs -> 0..Last]
  /\ \A s \in Ledgered : /\ ledger[s] \in Rows /\ ledger[s].sub = s
                         /\ ledger[s].job \in exists
  /\ \A p \in Pollers :
       /\ pl[p].pc \in {"idle", "waiting", "ledger", "stamps", "creating",
                        "persisting"}
       /\ pl[p].job \in 0..inserted /\ pl[p].cursor \in 0..Last
       /\ pl[p].batch \cup pl[p].todo \subseteq Submissions
       /\ pl[p].rows \subseteq Rows
       /\ pl[p].sent \subseteq Records /\ \A r, t \in pl[p].sent : r = t
  /\ rm.job \in 0..inserted /\ rm.ids \subseteq Records
  /\ faults \in 0..MaxFaults

(* A submission has two live records in one base only if two pollers had    *)
(* both found it missing there before either had created it, the window      *)
(* between FindStampedRecords (sync.go:273) and CreateRecords (sync.go:301), *)
(* or a create request was given up that Airtable carried out later           *)
(* (client.go:125).  It has records in two bases only if one of them was not *)
(* booked (in time), or was made by a job removed since: the ledger belongs to *)
(* the form (0001_init.sql:34), whatever base the process runs with.  All     *)
(* this with failures, restarts and removals at any point.                   *)
DuplicatesHaveACause ==
  \A r, t \in live : r.sub = t.sub /\ r # t =>
    IF r.base = t.base THEN Place(r) \in contested \cup abandoned
    ELSE \E x \in {r, t} : x \in uncertain \/ x.job \notin exists

(* "Records added by anyone else are left untouched" (app.html:433): what a *)
(* removal is about to delete was made by the job that is being removed,    *)
(* whatever other pollers have booked in the meantime.                      *)
OnlyOwnRecords == \A r \in rm.ids : r.job = rm.job

(* What is left of a job that was removed together with its records was not   *)
(* in the ledger in time (made by a pass that was cut or lost the race for the *)
(* row, or still in flight at app.go:571), or is still to be deleted, or a     *)
(* removal ended with an error that left it: those are the records the user is *)
(* told of, "some could not be deleted" (app.go:594).  This however many     *)
(* requests the deletion takes and whichever of them fails.                    *)
LeftoversAreKnown ==
  \A r \in live : r.job \in purged => r \in uncertain \cup unfinished \cup rm.ids

(* Everything behind the stored cursor of a job is in the ledger, although  *)
(* pollers overlap, and an old one may write its cursor over that of its    *)
(* successor (sync.go:236).  The one exception: jobs of one form and two    *)
(* bases share the ledger (0001_init.sql:34), and the rows one of them has  *)
(* passed over by go when the other is removed.                             *)
BehindCursorIsLedgered ==
  \A j \in exists : (1..stored[j]) \ orphaned \subseteq Ledgered

(* "Records already present - synced by us or anyone else - are skipped"     *)
(* (app.html:572): what a sync for the configured base has passed over as     *)
(* booked is in that base.  The code does not keep this: the ledger says that *)
(* a submission of the form was synced, not to which base (ledger.go:42).     *)
PassedOverIsPresent ==
  \A j \in exists : jobBase[j] = base =>
    \A s \in (1..stored[j]) \cap Ledgered : ledger[s].rec.base = base

(* A record the ledger knows stays: but for people deleting it, only a row  *)
(* that says "skipped" can point to nothing, at the record of a job removed *)
(* since.  That happens when a sync is set up again while DeleteRecords of  *)
(* the removed one is under way (app.go:589).                               *)
DanglingRowsAreSkipped ==
  \A s \in Ledgered :
    \/ ledger[s].rec \in live \cup byHand
    \/ /\ ledger[s].outcome = "skipped_existing"
       /\ ledger[s].rec.job \notin exists
=============================================================================
