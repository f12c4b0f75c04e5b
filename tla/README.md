# Verification of fillout-ysws-nps

The program copies answers of Fillout feedback forms into an Airtable base. A
user picks a form and a program in a dashboard; from then on a *sync job* polls
the form and creates one Airtable record per submission. This directory holds
TLA+ models of the parts whose correctness depends on order, failure or
concurrency, the TLC configurations that check them, and TLAPS proofs.

    tlc -workers 2 -config PollerMC.cfg PollerMC      # model-check
    tlapm PollerProofs.tla                            # check the proofs

`PROJECT.json` lists the runs, the mutants that show each property can fail, the
source lines behind every definition, the hazards, findings and theorems.

## 1. Inventory

| Part | Source | State it keeps | Operations |
|---|---|---|---|
| Sync poller | `internal/nps/sync.go` (`run`, `syncOnce`, `syncBatch`), `dedup.go` | cursor in memory, pass and batch locals | poll, look up, create, book, persist the cursor |
| Pipeline of a pass | `sync.go:178-225`, `fillout/submissions.go` | channel of batches, producer's buffer, contexts | fetch page, yield, send, receive, drain |
| Poller manager | `sync.go:25-124` | `cancels` (job -> CancelFunc), wait group, base context | Start, StartJob, StopJob, Shutdown |
| Handlers | `app.go` | none of their own | start, stop, resume, remove a job; preview; login pages |
| Database | `internal/db` | `sync_jobs`, `synced_submissions`, audit log, `schema_migrations` | one statement (or transaction) per operation |
| Airtable client | `airtable/` | none | list, create (chunks of 10), delete (chunks of 10); no retries |
| Fillout client | `fillout/` | rate limiter | pages of submissions, forms, retries after 429 |
| Transformation | `internal/nps/transform.go`, `mapping.go`, `tags.go`, `target.go`, `programs.go` | none | answers -> fields, coercion, guessing a mapping |
| Login | `internal/auth` | cookies (pending state, session), author list cache | login, callback, CSRF check, author check |
| Identity provider | `hcauth/` | key cache | token exchange, id-token check |
| OpenAI, config, templates, demo | `openai/`, `internal/config`, `templates/`, `cmd/` | none after start | one request; read the environment; render |

How they interact. A handler writes `sync_jobs` and calls the manager; the
manager starts one goroutine per job under a mutex; the goroutine alternates
between a pass and a `select` on its ticker and its context. A pass runs a
producer goroutine (Fillout pages to batches) and a consumer (for each batch:
ask the ledger, ask Airtable, create, book), joined by a channel with room for
one batch. Nothing spans Postgres, Airtable and Fillout: every call may fail,
or succeed and lose its answer, and the process may die between any two.

What makes each part correct:

* *Poller*: no submission is skipped for good, none gets a second record, the
  ledger tells the truth, the persisted cursor only advances, everything
  gets settled eventually.
* *Pipeline*: batches in order and without gaps, no loss, no leaked goroutine,
  an error of the producer is never overlooked.
* *Manager and handlers*: one poller per active job, none for a stopped or
  removed one, shutdown ends.
* *Stores of a form*, shared by several pollers and jobs: duplicates only from a
  race or from a request that was given up, removals touch nothing of anyone else
  and leave nothing behind unsaid, no cursor passes over what is not booked.
* *Fillout client*: no more requests in a second than the server takes, retries
  wait, a listing that changes loses nothing but what it moved.
* *Login*: a session is earned by a login begun in this browser; a form acts for
  the user it was rendered for; the author list is fresh and not hammered.
* *Identity provider*: a published key is found.
* *Transformation*: an answer is dropped only if its column cannot take it;
  stamps lead back to their records.
* *Migrations*: each takes effect once, whoever starts at once.

The hard behaviours, each with its line, are the `hazards` of
`PROJECT.json`.

## 2. Modules

| Module | What it is |
|---|---|
| `Delivery` | abstract: what a job promises; submissions are posted, delivered, settled |
| `Poller` | one job, its poller, Fillout, Airtable and Postgres, with faults |
| `PollerProofs` | TLAPS proofs about `Poller`, and that it implements `Delivery` |
| `Pipeline` | producer, channel and consumer inside one pass |
| `OnePass` | abstract: a pass as a plain loop that writes batch after batch |
| `Manager` | registry, pollers' lives, handlers, process |
| `ManagerProofs` | TLAPS proofs about `Manager` |
| `Service` | several pollers, jobs and bases on the stores of one form, and removal |
| `ServiceProofs` | TLAPS proofs about `Service` |
| `PipelineProofs` | TLAPS proofs about `Pipeline`, and that it implements `OnePass` |
| `Pagination` | offsets over a listing that changes, batches, the cursor |
| `FilloutClient` | rate limiter, 429, waits, cancellation |
| `Allowlist` | the cached author list and its fetches |
| `AuthFlow` | login, sessions and forms of one browser with several requests |
| `KeyCache` | the signing keys of the identity provider |
| `Transform` | mapping, answers to fields, stamps and their lookup |
| `Migrate` | instances that start and migrate at once |
| `LoginProofs` | TLAPS proofs about `Allowlist`, `AuthFlow` and `KeyCache` |
| `SubmissionProofs` | TLAPS proofs about `FilloutClient`, `Pagination` and `Transform` |
| `MigrateProofs` | TLAPS proofs about `Migrate` |
| `PartsProofs` | that the composition in `PartsMC` implements each of its parts |
| `PollerMC`, `ManagerMC`, `ServiceMC`, `TransformMC`, `PartsMC` | the instances TLC checks |

`Service` takes from `Manager` that pollers of one job may overlap and outlive
it; `Poller` takes from `Pagination` when a pass is handed everything and from
`Pipeline` that batches arrive in order; `AuthFlow` takes from `Allowlist` that
the answers of `allowed` change. `PartsMC` puts the seven small modules side by
side.

### Poller

State: `visible` (what Fillout lists), `records` and `limbo` (Airtable: live
records per submission; create requests the client gave up on and Airtable may
still carry out), `ledger`, `storedCursor`, `lastError`, `status` (Postgres),
and the locals of `run`, `syncOnce` and `syncBatch`. `pc` names the place in the
code. One action per call: `BeginPass`, `FetchPage`, `FetchFails`,
`ProducerStops`, `TakeBatch`, `ListingEnds`, `CheckLedger`
(ExistingSubmissionIDs), `CheckStamps` (FindStampedRecords), `CreateChunk`,
`CreateFails`, `RecordLedger`, `RecordFails`, `Persist`, `PersistFails`, `Exit`;
`Boot`, `Stop`, `Resume`, `Shutdown`, `Crash` around them; and `Post`,
`DeleteByHand`, `Land`, `Vanish` outside the program. A batch error takes
effect in the same action (`FailBatch`), as does the end of a batch
(`FinishBatch`, which also advances the cursor): no other process sees the steps
in between.

What is abstracted, and assumed:

* Submission times are numbers, `Second` of them to the second; `AfterDate`
  truncates like the query parameter does (`fillout/submissions.go:66`), after
  subtracting the second of overlap (`sync.go:169`).
* Fillout lists in the order of submission times, a submission does not appear
  behind one that is listed already, and the listing does not shrink during a
  pass. What happens otherwise is the subject of `Pagination`.
* A page is taken from what the query still has to return, not from an offset;
  the two agree while the listing only grows at its end.
* The stamp lookup takes one step per Airtable query (`QueryChunk`, 25 ids); the
  pages of one query's answer are read at one moment. The ledger lookup is one
  statement, as in the code.
* Turning a submission into fields never fails: `BuildFields` has no error
  result, and `parseMapping` reads what the job was created with.
* `PageSize` is a multiple of `BatchSize` (150 and 50), so only a short page
  leaves a partial batch.
* The producer has no state but the queue; `Pipeline` is where its `select`s,
  buffer and channel are. A page may be fetched while at most one batch is
  queued, which is `Pipeline!PrefetchIsBounded`.
* A job has one poller at a time. How overlaps come about is in `Manager`, what
  they do to the stores in `Service`.

### Pipeline

The goroutines of `syncOnce` statement by statement: `FetchPage`, `Yield` (the
loop body, with its check of the context), `EndPage`, `Send`/`SendGivenUp` (the
two branches of the `select`), `Close`; `Receive`, `WriteBatch`, `WriteFails`
(which calls stopProducer), `Drain`, `Finish` (which reads `prodErr`); `Cancel`.
A submission is its place in the listing.

### Manager

`row` (sync_jobs), `cancels`, `pc`/`serves`/`cancelled` per poller goroutine,
`server` (main), `req` (what each request is about to do). Handlers are
sequences of separately committed steps, e.g. stop is `Unregister` (the critical
section of StopJob), `Signal` (the CancelFunc called after it), `Mark`
(SetJobStatus). A request fails at any database call (`RequestFails`) or after
its write (`AnswerLost`); the browser going away is the same. `halfDone` and
`overlapped` are history: jobs a failed request left half changed, and pollers
launched while an older one of their job was alive. A pass is a single state
here; that it ends is what `Pipeline` and `Poller` show.

### Service

State: the stores (`live` records with their base and job; `exists`, `jobBase`,
`stored` of sync_jobs; `ledger`, one row per submission of the form as
`UNIQUE (form_id, submission_id)` has it), what Airtable has been asked and has
not carried out (`inflight` records, `doomed` delete requests), the pollers with
their locals, the removal request `rm`, the configured `base`. A pass is coarser
than in `Poller`: its listing is one batch, `BeginPass` reads it. The steps
between which others interleave are kept: `CheckLedger`, `CheckStamps`, the
create of a record as `Send` (the request goes out), `Land` (Airtable carries it
out) and `Create` (the answer is back), `RecordLedger`, `Persist`, and for a
removal `LoadForRemoval` (GetJob, CreatedRecordIDs), `StopPollers`, `DeleteJob`
(with its cascade), `DeleteSome` (a request of DeleteRecords, `DeleteChunk`
records at most; Airtable refuses a request with a record it does not know).

A request in flight survives whoever sent it. `CreateFails` is a refusal, a
timeout, a lost answer or a context cancelled by `Stop` or `StopPollers`: the
record is then refused for good, there already, or still `inflight`, to land at
any later moment or never, after the next pass has looked for stamps too.
`Restart` leaves `inflight` alone. `RemovalFails` and `Restart` may leave the
delete request under way to `LandDelete`.

`Restart` may change the base: the Airtable client is bound to the configuration
(`main.go:48`), jobs keep the base they were set up with. Which pollers a StopJob
reaches is left open unless there is one, since the registry may know any of
them.

History names the exceptions of the properties: `contested`, what two pollers had
both found missing, and in which base; `abandoned`, what a create request was for
that was given up while it could still be carried out; `uncertain`, records asked
for and not booked, or not before a removal read the ledger; `orphaned`,
submissions whose row went with one job while there was another; `purged`, jobs
removed with their records; `unfinished`, records a removal knew and had not
deleted when it ended with an error; `byHand`, what people have deleted.

### The small modules

* `Pagination`: a listing sorted by time into which submissions come late and
  from which they are deleted; `FetchPage` takes a slice at an offset, `Flush` a
  batch. Writing always succeeds. A submission that becomes visible within the
  second of overlap but before the place a running pass has reached is skipped
  by that pass, and the cursor may move past it: `late` records both ways.
* `FilloutClient`: the limiter reserves slots (`ahead`), callers wait, wake up to
  `Jitter` ticks late, are answered 429, sleep `retryAfter` and take a slot again.
* `Allowlist`: `BeginFetch`, `ReadPage`, `FetchDone`, `FetchBreaks` under the
  mutex; the table changes between two pages.
* `AuthFlow`: a handler decides on the cookies its request carried and its
  response sets cookies later; `Login`, `Callback`, `Exchange`, `Admit`,
  `Logout`, and `RequireUser` as `Request`, `Through`, `TurnedAway`, `Render`.
  Signatures cannot be forged: a cookie is its payload.
* `KeyCache`: `publicKey` looks, fetches outside the mutex, looks again. The
  login handlers use UserInfo; VerifyIDToken is there for users of the package.
* `Transform`: a value is its class (absent, blank, number, words, only
  separators, a quoted stamp), which is what `BuildFields` tells apart; a column
  is the set of the questions whose answers were written to it, so the order of
  the blocks in a text is left out.
* `Migrate`: `Check`, `RunFile`, `InsertVersion` (blocked by an uncommitted
  insert of the same version), `Commit`; a loser exits and is started again.

## 3. Runs

| Run | Shows | Bounds, and why they suffice |
|---|---|---|
| `poller` | types; duplicates only through abandoned requests; truthful ledger; nothing skipped; clean passes are complete; booked once; cursor monotonic; every submission of an active job is settled; `Delivery` is implemented | three submissions, two of one instant and one two seconds on, so that the truncated second both includes siblings and excludes them; pages of one batch of two, so there are full pages, partial batches, a second page and a batch queued while another is written; queries and chunks of one, so a batch is looked up and created in several steps and a create can fail half-way; one submission written by another instance; two faults, so a failure can meet the recovery from another. Pages of several batches are in `pipeline` |
| `poller_skips_own` | finding | as `poller` |
| `manager` | types; sound registry; what is lost was overlapped; active jobs are served | one job (jobs share nothing but the id counter and the UNIQUE constraint), three pollers alive at once (one more than an overlap), two concurrent requests (all races of two); requests and pollers are interchangeable, hence the symmetry; the process may die and be started again at any time |
| `manager_shutdown` | the wait in Shutdown ends, lost pollers included | two pollers, one request at a time |
| `manager_twice`, `manager_stopped`, `manager_removed` | findings | as `manager`, small |
| `service` | duplicates are contested or abandoned, across bases unbooked; removals delete only own records; leftovers are unbooked, known to a failed removal or about to go; what is behind a cursor is booked; dangling rows are skipped ones | two pollers and two jobs, which race pairwise; two bases, so that two jobs of the form exist; two records, the smallest duplicate; two submissions and delete requests of one record, so a removal takes two requests and fails before, between or after them; one fault (a stop, a failure, a restart or a deletion by hand) besides the failures cancellation brings: giving up one request is one fault, and a single poller whose request lands late already duplicates; one of the jobs is removed (`OneRemoval`), the other stays. While two submissions are listed, or a given-up request is pending, one poller works at a time (`AloneWithTwo`, `AloneWithDoubt`). The proofs have no such bounds |
| `service_new_base` | finding | one poller, one submission, one restart with another base |
| `parts` | the properties of the seven small modules | see below |
| `answers_lost` | finding | two questions and one added later; every assignment of them to a number, e-mail, feedback and tag column, the catch-all, none, and one that does not exist |
| `pipeline` | no gap, no loss, no overlooked error, bounded prefetch, no deadlock or leak; `OnePass` is implemented, so a pass that reports success has written everything | listings of nought to fourteen with pages of six and batches of two: empty, partial and full batches, several page boundaries, a full last page; failures and cancellation anywhere |

The modules of `parts` share no state. The initial state picks one of them and
only that one moves, so the run explores each module's states, not their
product, and an invariant is checked wherever its module moves. The bounds:

* `Pagination`: five submissions, two of one second and two more seconds on
  either side of the overlap; pages and batches of two; one deletion. A page
  boundary, a shift across it, a late arrival on both sides of the overlap.
* `FilloutClient`: three callers, four slots a second, a server limit of five,
  wake-ups one tick late, one retry. The margin between four and five is what one
  late tick uses up.
* `Allowlist`: two requests, three addresses of which one is static, on two
  pages; time to outlive a cache and a failure.
* `AuthFlow`: two requests, two users, two logins, two codes; an expiry of login
  and session.
* `KeyCache`: two verifications, two keys, one rotation; a valid, an expired and
  a foreign token.
* `Transform`: as `answers_lost`, plus three submissions whose ids share queries
  of two, one of which another answer quotes.
* `Migrate`: three instances, three migrations, three deaths.

Deadlock is checked in the runs of `Poller` and `Manager`. Elsewhere things end:
a pass ends (that it does is `PassEnds`), the records, moments or logins of
the instance are used up.

### Fairness

* `Poller!FairSpec`: weak fairness of the process (the Go scheduler runs ready
  goroutines, the ticker fires, every HTTP call has a client timeout, a database
  call ends or fails, the container is restarted), strong fairness of `Exit`:
  `run`'s `select` picks among ready cases at random, so a cancelled context is
  not overlooked for ever although the ticker fires. Nothing is assumed of
  users, Fillout or Airtable.
* `Manager!FairSpec`: passes end, `Leave` strongly fair for the same `select`,
  deferred calls run, `Shutdown` proceeds. Requests get no fairness;
  `ShutdownCompletes` supposes that they stop coming.
* `Pipeline!FairSpec`: weak fairness of each goroutine.

## 4. Findings

1. **Two pollers of one job** (`OnePollerPerJob`, `sync.go:130`). The deferred
   `delete(m.cancels, job.ID)` of a poller removes whatever is registered. Stop,
   resume before the old pass ends, and the old exit unregisters the new poller;
   the next resume launches a second one and StopJob cannot find the first.
   `ManagerProofs!OnlyOverlapsAreLost` and `OneWithoutOverlap` prove that such an
   overlap is the only way there.
2. **A stopped job that is polled** (`StoppedIsNotPolled`, `app.go:470`): stop
   cancels first and marks the row afterwards; a launch in between survives.
3. **A removed job that is polled** (`RemovedIsNotPolled`, `app.go:578`): the
   same race against remove; the poller has no row and no button to stop it.
4. **Own records booked as someone else's** (`SkippedIsForeign`, `sync.go:319`):
   a create that succeeded and a ledger write that failed make the next pass
   book its own record as `skipped_existing`; `ledger.go:100` relies on these
   being "written by someone else", so removing the sync leaves them behind.
5. **Answers lost** (`EveryAnswerIsKept`, `transform.go:129`): an answer mapped
   to a number column that is not a number, a second answer of a number or e-mail
   column, and a tags answer without a tag are written nowhere, since the
   catch-all leaves out every mapped question. `mapping.go:57` and
   `transform.go:35` say that no answer is lost.
   `OnlyUnfitAnswersAreDropped` is what the code does keep.
6. **A new base that stays empty** (`PassedOverIsPresent`, `ledger.go:42`): jobs
   are unique per form, base and table, ledger rows per form. After the
   configured base changes a user can set up the form again; the new job finds
   every submission booked by the old one, passes over it, moves its cursor and
   writes nothing. `app.html:572` says that the sync writes these records now and
   skips those already present. `BehindCursorIsLedgered` holds all the same: they
   are booked, elsewhere.

## 5. Proofs

Every type invariant, safety invariant and action property of a passing run is
proved, and both refinements: for any number of submissions, jobs, pollers,
requests, users, callers and keys, any batch, page and chunk sizes and any
lifetimes, from the assumptions named in the modules. The one further hypothesis
is `Headroom`, where the rate limit is concerned.

*Poller.* `TypeInv` adds to the types the shape of the locals at each place in
the code. On it rest three independent inductive invariants:

* `OneCopy`: what is about to be created has no record unless a request that was
  given up on makes one. It is needed because the lookup and the create are
  separate steps. Gives `NoOtherDuplicates`.
* `Books`: what a batch is going to book is true, and what it is going to create
  has no ledger row. Gives `LedgerTruth` and `BookedOnce`, and, with the mapping
  posted = `visible`, delivered = `ours` and `Foreign`, settled = `Ledgered`,
  `PollerKeepsPromise` (every step is a step of `Delivery` or a stutter).
* `CursorInv`: `NoneSkipped` alone is not inductive, since the cursor jumps to
  the end of a batch. What makes that safe is order: what the pass was handed
  comes before what it will be handed (`AskedBefore`), what the consumer took
  before what is queued (`TakenBefore`), everything unbooked is within reach of
  the query (`InReach`), everything handed over but the queue and the batch in
  hand is booked (`Progress`), and no cursor is ahead of everything posted
  (`Anchored`), so that a new submission is within reach too. `FinishKeepsReach`
  is the heart of the argument. Gives `NothingIsSkipped`, `CleanPasses` and,
  with `Forward`, `CursorIsMonotonic`.

*Manager.* `RegInv`: a CancelFunc held by a StopJob is not registered any more,
and nothing survives the process. Gives `RegistryIsSound`. `RegisteredIsNewest`
(if another poller of the job is alive, the registered one was launched over it)
makes `LostNeedsOverlap` inductive. `Served` says that an active job is polled
or a request is under way that launches its poller or ends the job; it gives
`ActiveJobsAreServed`.

*Service.* One inductive invariant of thirteen parts, which need one another:

* `Requests` (a record in flight was sent by a poller that waits for it, or is
  `abandoned`), `Wanted` (what a poller is about to create is not there, not in
  flight, and wanted by nobody else, unless contested or abandoned) and `Twins`
  (no two records, there or in flight, of one submission and base otherwise)
  give `DuplicatesHaveACause` within a base.
* `Homes` gives it across bases: what a poller has in hand is in the base of the
  process, and so is the booked record of whatever it is about to create or book.
  By `Accounted`, of two records in two bases one is uncertain or its job is gone.
* `Booked` and `Locals` say whose records rows and removals name; with `Numbers`
  (job numbers never come back) they give `OnlyOwnRecords`.
* `Accounted`: every record of a job is booked, in a poller's hands or uncertain;
  once the removal has read the ledger it is uncertain or among the ids; once the
  job is purged, uncertain, `unfinished` or still to be deleted. Hence
  `LeftoversAreKnown`.
* `Behind`: what a cursor passes over is settled, and what a poller has in hand
  will be; it needs `Batches`, since the cursor jumps to the end of a batch.
* `Pointing`: the record of a row is there, or was deleted by hand, or its job
  is gone; it needs `OnlyOwnRecords` for the deletions of a removal.

*Migrate.* `SchemaIsWhole` rests on `Alone`: whoever is about to commit a
version is the only one, which is what the unique key of schema_migrations and
the blocking insert achieve.

*Pipeline.* Every sequence in the pipeline is a run of consecutive places of the
listing (`Run`); `Content` follows where what is written, in hand, in the channel
and in the batch begins and ends, `Paging` that pages consist of whole batches,
so that a full page leaves nothing in the batch, and that a producer which ends
on its own has sent everything. The channel's one place is `Waiting`.
`PipelineActsAsLoop` maps a pass to `OnePass` by what is written and reported
(`Outcome`): the producer's steps, receiving and draining are stutters, and
writing a batch is the loop's next step. That needs `Batches`: a batch in the
channel or in hand is full unless it ends the listing.

*Allowlist.* `Fetching` says what the pages read so far are worth (whoever was
read was in the table since the fetch began, whoever was not on them was out of
it); at the last page this becomes what the cache is worth. Pages have to be
contiguous and `ErrTTL` not to exceed `TTL`, which `AllowlistAssumption` says.

*AuthFlow.* The login in a cookie, in an exchange and behind an admission is one
of this browser (`LoginsAreOurs`); the token of a page is that of whom the page
was rendered for (`PagesAreHonest`), wherever the page is.

*KeyCache.* For a lookup that has not crossed a late response: every response on
its way has the key (`Found`), so no replacement of the cache can take it away.

*FilloutClient.* `Slots`: callers that wait have slots of their own, none of them
still free. `Paced` counts: the requests of the last `k + 1` ticks and the callers
that may send one now have slots of these ticks or of the `Jitter` ticks before.
So a second sees at most `SecondTicks + Jitter` requests, and `WindowIsRespected`
needs `Headroom`, that the server takes as many: four a second and one tick late
under a limit of five, which is the room `client.go:33` speaks of. `Rested`, what a
caller has waited since its 429 and what it still will, gives `RetriesAreSpaced`.

*Pagination.* `Ordered`: buffer and batch are in the order of the listing, since a
full page divides into batches and the next is fetched into an empty buffer; this
gives `BatchesHaveNoRepeats`. `Paid` is the accounting behind
`MissedIsAccountedFor`: every submission that was listed and will not be handed
over is paid for by a deletion, and so is every place by which the listing has
moved up under the offset. It needs `Anchored`: the cursor is at a submission and
a pass starts the overlap before one. Places in the listing are cardinalities,
so the proof counts and needs no induction over the listing.

*Transform.* `Agreeing`: the entries of one question have one target. `Built`: the
fields are those of the submission under way. `Stamped`: each record bears its own
stamp, at the bottom. That a column with a fitting answer takes a first one
(`FirstExists`) is the well-foundedness of the numbers; so is that every id is in
one of the chunks (`ChunksCover`).

*The composition.* A step of `PartsSpec` is a step of one part and leaves the
others alone, so each part's specification follows (`PartsImplementTheirSpecs`),
and with it everything proved of the part: `PartsTypes`, `PartsKeepTheirPromises`.

Only model-checked: liveness (`EventuallySettled`, `ShutdownCompletes`,
`PassEnds`), which the prover does not reach under fairness; and the findings,
which are counterexamples.

## 6. Not modelled

* Rendering and rich text (`templates/`, `richtext.go`): layout.
* Configuration and dotenv: read once before anything runs, no state.
* The OpenAI client: one stateless request; its answer is an arbitrary input of
  `Transform!AIMapping`.
* The structured-output demo: a program of its own.
* The audit log: written by handlers, read by one page, never acted upon; pages
  that only read (dashboard, samples, programs).
* Encoding and decoding of requests and tokens, signatures: taken to be what
  they promise.

Known limits. A pass of `Service` has one batch and its create requests carry one
record; several batches and chunks are in `Poller`. TLC combines given-up requests
in `Service` with one poller at work; the proofs combine them with any number.
`Poller` is not shown to refine `Service`: the two abstract the pass differently.
How `Pagination`'s late and shifted submissions meet failures of writing is not
explored. An author removed from the table may get in for up to a cache lifetime
and a fetch (`CacheIsRecent`), although `auth.go:235` speaks of the next request.
