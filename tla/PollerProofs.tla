---------------------------- MODULE PollerProofs ----------------------------
(***************************************************************************)
(* Proofs about Poller, for every number of submissions, every size of     *)
(* batches, pages and chunks, and any number of faults.                    *)
(***************************************************************************)
EXTENDS Poller, FiniteSetTheorems, TLAPS

-----------------------------------------------------------------------------
(* What the state looks like at each place in a pass: locals of syncBatch   *)
(* live only within a batch, those of syncOnce only within a pass.          *)
Shape ==
  /\ pc \notin InBatch => batch = {}
  /\ pc \notin InPass => fetched = {}
  /\ pc = "ledger" => todo = {}
  /\ pc = "ledger" => skip = {}
  /\ pc \in {"ledger", "stamps"} => made = {}
  /\ pc # "stamps" => asked = {}
  /\ pc \in {"stamps", "creating", "recording"} => todo \cup skip \cup made # {}

(* Requests in limbo are those the client gave up on. *)
LimboIsAbandoned == \A chunk \in limbo : chunk \subseteq abandoned

TypeInv == TypeOK /\ Shape /\ LimboIsAbandoned

LEMMA AfterDateType ==
  ASSUME NEW c \in Nat
  PROVE  /\ AfterDate(c) \in Int
         /\ c # NoCursor => AfterDate(c) < c
<1>1. c - Second \in Int
  BY TimeAssumption
<1>2. (c - Second) % Second \in 0 .. Second - 1
  BY <1>1, TimeAssumption
<1>3. QED
  BY <1>1, <1>2, TimeAssumption DEF AfterDate, Truncated, NoCursor

(* Leading returns subsets, each of them no later than what it leaves. *)
LEMMA LeadingPrefix ==
  ASSUME NEW S, NEW n, NEW F \in Leading(S, n)
  PROVE  /\ F \subseteq S
         /\ \A f \in F, r \in S \ F : SubmissionTime[f] <= SubmissionTime[r]
BY DEF Leading

(* One query of the stamp lookup moves what it found from todo to skip; when *)
(* there is something to create, everything left was asked for in vain.     *)
LEMMA StampsSorted ==
  ASSUME TypeOK, CheckStamps
  PROVE  /\ pc = "stamps" /\ pc' \in {"stamps", "creating", "recording"}
         /\ skip' \cup todo' = skip \cup todo /\ todo' \subseteq todo
         /\ asked' \subseteq todo' /\ (pc' # "stamps" => asked' = {})
         /\ \A s \in skip' : s \in skip \/ records[s] > 0
         /\ \A s \in asked' : s \in asked \/ records[s] = 0
         /\ pc' = "creating" =>
              \A s \in todo' : s \in asked \/ records[s] = 0
         /\ UNCHANGED <<fillout, airtable, ledger, job, cancelled, cursor, pass,
                        batch, made, faults>>
<1> PICK query \in Leading(todo \ asked, QueryChunk) :
      LET found   == {s \in query : records[s] > 0}
          missing == asked \cup (query \ found) IN
      /\ skip' = skip \cup found
      /\ todo' = todo \ found
      /\ \/ missing # todo' /\ asked' = missing /\ pc' = "stamps"
         \/ /\ missing = todo' /\ asked' = {}
            /\ pc' = IF todo' = {} THEN "recording" ELSE "creating"
  BY DEF CheckStamps
<1> DEFINE found   == {s \in query : records[s] > 0}
           missing == asked \cup (query \ found)
<1>1. query \subseteq todo \ asked
  BY LeadingPrefix
<1>2. \A s \in query \ found : records[s] = 0
  BY <1>1 DEF TypeOK
<1>3. missing \subseteq todo'
  BY <1>1 DEF TypeOK
<1>4. skip' \cup todo' = skip \cup todo
  BY <1>1
<1>5. QED
  BY <1>2, <1>3, <1>4 DEF CheckStamps

LEMMA InitType == Init => TypeInv
<1> SUFFICES ASSUME Init PROVE TypeInv
  OBVIOUS
<1> USE SizeAssumption DEF Init, NoCursor
<1>1. {lastError, cancelled, listDone, passErr} \subseteq BOOLEAN
  OBVIOUS
<1>2. TypeOK
  BY <1>1 DEF TypeOK, States, InPass, InBatch
<1>3. Shape /\ LimboIsAbandoned
  BY DEF Shape, LimboIsAbandoned, InPass, InBatch
<1>4. QED
  BY <1>2, <1>3 DEF TypeInv

LEMMA StepType ==
  ASSUME TypeInv, [Next]_vars
  PROVE  TypeInv'
<1> USE SizeAssumption, TimeAssumption
    DEF TypeInv, fillout, airtable, job, pass, local, States, InPass, InBatch
<1>1. CASE \E s \in Submissions : Post(s)
  BY <1>1 DEF Post, TypeOK, Shape, LimboIsAbandoned
<1>2. CASE \E s \in Submissions : DeleteByHand(s)
  BY <1>2 DEF DeleteByHand, TypeOK, Shape, LimboIsAbandoned
<1>3. CASE \E chunk \in limbo : Land(chunk)
  BY <1>3 DEF Land, AddRecords, TypeOK, Shape, LimboIsAbandoned
<1>4. CASE \E chunk \in limbo : Vanish(chunk)
  BY <1>4 DEF Vanish, TypeOK, Shape, LimboIsAbandoned
<1>5. CASE BeginPass
  BY <1>5, AfterDateType DEF BeginPass, TypeOK, Shape, LimboIsAbandoned
<1>6. CASE FetchPage
  BY <1>6, LeadingPrefix DEF FetchPage, Remaining, TypeOK, Shape,
     LimboIsAbandoned
<1>7. CASE FetchFails
  BY <1>7 DEF FetchFails, CallFails, Budget, TypeOK, Shape, LimboIsAbandoned
<1>8. CASE ProducerStops
  BY <1>8 DEF ProducerStops, TypeOK, Shape, LimboIsAbandoned
<1>9. CASE TakeBatch
  BY <1>9, LeadingPrefix DEF TakeBatch, TypeOK, Shape, LimboIsAbandoned
<1>10. CASE ListingEnds
  BY <1>10 DEF ListingEnds, TypeOK, Shape, LimboIsAbandoned
<1>11. CASE CheckLedger
  BY <1>11 DEF CheckLedger, FinishBatch, ClearLocal, Ledgered, TypeOK,
     Shape, LimboIsAbandoned
<1>12. CASE CheckStamps
  BY <1>12, StampsSorted DEF TypeOK, Shape, LimboIsAbandoned
<1>13. CASE LookupFails
  BY <1>13 DEF LookupFails, CallFails, Budget, FailBatch, ClearLocal,
     TypeOK, Shape, LimboIsAbandoned
<1>14. CASE CreateChunk
  BY <1>14, LeadingPrefix DEF CreateChunk, AddRecords, TypeOK, Shape,
     LimboIsAbandoned
<1>15. CASE CreateFails
  BY <1>15, LeadingPrefix DEF CreateFails, CallFails, Budget, GiveUpOnChunk,
     TypeOK, Shape, LimboIsAbandoned
<1>16. CASE RecordLedger
  BY <1>16 DEF RecordLedger, FinishBatch, FailBatch, ClearLocal, Recorded,
     CreateErr, TypeOK, Shape, LimboIsAbandoned
<1>17. CASE RecordFails
  BY <1>17 DEF RecordFails, CallFails, Budget, FailBatch, ClearLocal,
     Recorded, TypeOK, Shape, LimboIsAbandoned
<1>18. CASE Persist
  <2>1. listDone' \in BOOLEAN /\ passErr' \in BOOLEAN
    BY <1>18 DEF Persist, ClearPass
  <2>2. QED
    BY <1>18, <2>1 DEF Persist, ClearPass, TypeOK, Shape, LimboIsAbandoned
<1>19. CASE PersistFails
  <2>1. listDone' \in BOOLEAN /\ passErr' \in BOOLEAN
    BY <1>19 DEF PersistFails, ClearPass
  <2>2. QED
    BY <1>19, <2>1 DEF PersistFails, Budget, ClearPass, TypeOK, Shape,
       LimboIsAbandoned
<1>20. CASE Boot
  BY <1>20 DEF Boot, StartPoller, TypeOK, Shape, LimboIsAbandoned
<1>21. CASE Exit
  BY <1>21 DEF Exit, NoCursor, TypeOK, Shape, LimboIsAbandoned
<1>22. CASE Stop
  BY <1>22 DEF Stop, Budget, TypeOK, Shape, LimboIsAbandoned
<1>23. CASE Resume
  BY <1>23 DEF Resume, StartPoller, TypeOK, Shape, LimboIsAbandoned
<1>24. CASE Shutdown
  BY <1>24 DEF Shutdown, Budget, TypeOK, Shape, LimboIsAbandoned
<1>25. CASE Crash
  <2>1. {listDone', passErr', cancelled'} \subseteq BOOLEAN
    BY <1>25 DEF Crash, ClearPass
  <2>2. QED
    BY <1>25, <2>1, LeadingPrefix DEF Crash, Budget, GiveUpOnChunk, ClearPass,
       ClearLocal, NoCursor, TypeOK, Shape, LimboIsAbandoned
<1>26. CASE UNCHANGED vars
  BY <1>26 DEF vars, TypeOK, Shape, LimboIsAbandoned
<1>27. QED
  BY <1>1, <1>2, <1>3, <1>4, <1>5, <1>6, <1>7, <1>8, <1>9, <1>10, <1>11,
     <1>12, <1>13, <1>14, <1>15, <1>16, <1>17, <1>18, <1>19, <1>20, <1>21,
     <1>22, <1>23, <1>24, <1>25, <1>26
  DEF Next, Process, Producer, Consumer, Users, World

(* Locals of syncBatch and syncOnce live no longer than the batch and the   *)
(* pass, and nothing is in limbo that was not given up on.                  *)
THEOREM TypeCorrect == Spec => []TypeInv
<1>1. Init => TypeInv
  BY InitType
<1>2. TypeInv /\ [Next]_vars => TypeInv'
  BY StepType
<1>3. QED
  BY <1>1, <1>2, PTL DEF Spec

(* In particular it has the declared types.                                 *)
THEOREM TypesHold == Spec => []TypeOK
<1>1. TypeInv => TypeOK
  BY DEF TypeInv
<1>2. QED
  BY <1>1, TypeCorrect, PTL

-----------------------------------------------------------------------------
(* Duplicates.  What the lookup has not found or is about to be created has *)
(* no record, unless a request that was given up on makes one meanwhile.    *)
OneCopy ==
  /\ \A s \in Submissions \ abandoned : records[s] <= 1
  /\ \A s \in asked \ abandoned : records[s] = 0
  /\ pc = "creating" => \A s \in todo \ abandoned : records[s] = 0

(* The steps that write to Airtable or choose what to create; all others    *)
(* leave OneCopy alone.                                                     *)
Writes ==
  \/ \E s \in Submissions : DeleteByHand(s)
  \/ \E chunk \in limbo : Land(chunk)
  \/ CheckStamps \/ CreateChunk \/ CreateFails \/ Crash

LEMMA OtherStepsDoNotWrite ==
  ASSUME [Next]_vars, ~Writes
  PROVE  /\ UNCHANGED <<records, abandoned>>
         /\ asked' \subseteq asked
         /\ pc' = "creating" => pc = "creating" /\ todo' = todo
<1> USE DEF fillout, airtable, job, pass, local
<1>1. CASE Producer
  BY <1>1 DEF Producer, FetchPage, FetchFails, ProducerStops
<1>2. CASE TakeBatch \/ ListingEnds \/ CheckLedger \/ LookupFails
  BY <1>2 DEF TakeBatch, ListingEnds, CheckLedger, LookupFails, FailBatch,
     FinishBatch, ClearLocal
<1>3. CASE RecordLedger \/ RecordFails
  BY <1>3 DEF RecordLedger, RecordFails, FailBatch, FinishBatch,
     ClearLocal
<1>4. CASE Persist \/ PersistFails \/ BeginPass \/ Boot \/ Exit
  BY <1>4 DEF Persist, PersistFails, BeginPass, Boot, Exit, StartPoller
<1>5. CASE Stop \/ Resume \/ Shutdown
  BY <1>5 DEF Stop, Resume, Shutdown, StartPoller
<1>6. CASE \E s \in Submissions : Post(s)
  BY <1>6 DEF Post
<1>7. CASE \E chunk \in limbo : Vanish(chunk)
  BY <1>7 DEF Vanish
<1>8. CASE UNCHANGED vars
  BY <1>8 DEF vars
<1>9. QED
  BY <1>1, <1>2, <1>3, <1>4, <1>5, <1>6, <1>7, <1>8
  DEF Next, Process, Consumer, Users, World, Writes

LEMMA StepOneCopy ==
  ASSUME TypeInv, OneCopy, [Next]_vars
  PROVE  OneCopy'
<1> USE DEF TypeInv, TypeOK, OneCopy, airtable, local
<1>1. CASE \E s \in Submissions : DeleteByHand(s)
  BY <1>1 DEF DeleteByHand
<1>2. CASE \E chunk \in limbo : Land(chunk)
  BY <1>2 DEF Land, AddRecords, LimboIsAbandoned
<1>3. CASE CheckStamps
  BY <1>3, StampsSorted
<1>4. CASE CreateChunk
  BY <1>4, LeadingPrefix DEF CreateChunk, AddRecords, Shape
<1>5. CASE CreateFails
  BY <1>5 DEF CreateFails, GiveUpOnChunk
<1>6. CASE Crash
  BY <1>6 DEF Crash, GiveUpOnChunk, ClearLocal
<1>7. CASE ~Writes
  BY <1>7, OtherStepsDoNotWrite
<1>8. QED
  BY <1>1, <1>2, <1>3, <1>4, <1>5, <1>6, <1>7 DEF Writes

(* Crashes, stops, failed creates and failed ledger writes, in any number   *)
(* and order, never duplicate a record; only a create request that was      *)
(* given up on can.                                                         *)
THEOREM NoOtherDuplicates == Spec => []DuplicatesWereAbandoned
<1>1. Init => OneCopy
  BY DEF Init, OneCopy
<1>2. TypeInv /\ OneCopy /\ [Next]_vars => OneCopy'
  BY StepOneCopy
<1>3. TypeInv /\ OneCopy => DuplicatesWereAbandoned
  BY DEF TypeInv, TypeOK, OneCopy, DuplicatesWereAbandoned
<1>4. QED
  BY <1>1, <1>2, <1>3, TypeCorrect, PTL DEF Spec

-----------------------------------------------------------------------------
(* The ledger.  What a batch is going to book is true already, and what it  *)
(* is going to create has no row: only the poller writes the ledger.        *)
Sourced ==
  /\ \A s \in Submissions : records[s] > 0 => s \in ours \cup Foreign
  /\ made \subseteq ours
  /\ skip \subseteq ours \cup Foreign

Unbooked == pc \in {"stamps", "creating"} => \A s \in todo : ledger[s] = "none"

Books == LedgerIsTruthful /\ Sourced /\ Unbooked

LEMMA BooksStep ==
  ASSUME TypeInv, Books, [Next]_vars
  PROVE  Books'
<1> USE DEF TypeInv, TypeOK, Books, LedgerIsTruthful, Sourced, Unbooked,
        fillout, airtable, job, pass, local
<1>1. CASE \E s \in Submissions : DeleteByHand(s)
  BY <1>1 DEF DeleteByHand
<1>2. CASE \E chunk \in limbo : Land(chunk)
  BY <1>2 DEF Land, AddRecords
<1>3. CASE CheckLedger
  BY <1>3 DEF CheckLedger, FinishBatch, ClearLocal, Ledgered
<1>4. CASE CheckStamps
  BY <1>4, StampsSorted
<1>5. CASE CreateChunk
  BY <1>5 DEF CreateChunk, AddRecords, Leading
<1>6. CASE CreateFails
  BY <1>6 DEF CreateFails, GiveUpOnChunk
<1>7. CASE RecordLedger
  BY <1>7 DEF RecordLedger, Recorded, FailBatch, FinishBatch, ClearLocal
<1>8. CASE RecordFails
  BY <1>8 DEF RecordFails, Recorded, FailBatch, ClearLocal
<1>9. CASE LookupFails \/ Crash
  BY <1>9 DEF LookupFails, Crash, GiveUpOnChunk, FailBatch, ClearLocal
<1>10. CASE Producer \/ TakeBatch \/ ListingEnds
  BY <1>10 DEF Producer, FetchPage, FetchFails, ProducerStops, TakeBatch,
     ListingEnds
<1>11. CASE Persist \/ PersistFails \/ BeginPass \/ Boot \/ Exit
  BY <1>11 DEF Persist, PersistFails, BeginPass, Boot, Exit, StartPoller
<1>12. CASE Stop \/ Resume \/ Shutdown
  BY <1>12 DEF Stop, Resume, Shutdown, StartPoller
<1>13. CASE \E s \in Submissions : Post(s)
  BY <1>13 DEF Post
<1>14. CASE \E chunk \in limbo : Vanish(chunk)
  BY <1>14 DEF Vanish
<1>15. CASE UNCHANGED vars
  BY <1>15 DEF vars
<1>16. QED
  BY <1>1, <1>2, <1>3, <1>4, <1>5, <1>6, <1>7, <1>8, <1>9, <1>10, <1>11,
     <1>12, <1>13, <1>14, <1>15
  DEF Next, Process, Consumer, Users, World

LEMMA BooksHold == Spec => []Books
<1>1. Init => Books
  BY SizeAssumption
  DEF Init, Books, LedgerIsTruthful, Sourced, Unbooked
<1>2. TypeInv /\ Books /\ [Next]_vars => Books'
  BY BooksStep
<1>3. QED
  BY <1>1, <1>2, TypeCorrect, PTL DEF Spec

(* A ledger row never claims a record that did not exist.                   *)
THEOREM LedgerTruth == Spec => []LedgerIsTruthful
<1>1. Books => LedgerIsTruthful
  BY DEF Books
<1>2. QED
  BY <1>1, BooksHold, PTL

(* Records appear through CreateChunk and Land only, and what CreateChunk   *)
(* writes has no ledger row.                                                *)
LEMMA RecordsAppear ==
  ASSUME TypeInv, Books, [Next]_vars,
         NEW s \in Ledgered, records'[s] > records[s]
  PROVE  s \in abandoned
<1> USE DEF TypeInv, TypeOK, airtable, Ledgered
<1>1. CASE \E x \in Submissions : DeleteByHand(x)
  BY <1>1 DEF DeleteByHand
<1>2. CASE \E chunk \in limbo : Land(chunk)
  BY <1>2 DEF Land, AddRecords, LimboIsAbandoned
<1>3. CASE CreateChunk
  BY <1>3 DEF CreateChunk, AddRecords, Leading, Books, Unbooked
<1>4. CASE CheckStamps \/ CreateFails \/ Crash
  BY <1>4 DEF CheckStamps, CreateFails, Crash, GiveUpOnChunk
<1>5. CASE ~Writes
  BY <1>5, OtherStepsDoNotWrite
<1>6. QED
  BY <1>1, <1>2, <1>3, <1>4, <1>5 DEF Writes

(* What the ledger knows is not created again, deleted by hand or not.      *)
THEOREM BookedOnce == Spec => NeverRecreated
<1>1. TypeInv /\ Books /\ [Next]_vars =>
        [\A s \in Ledgered : records'[s] > records[s] => s \in abandoned]_vars
  BY RecordsAppear
<1>2. QED
  BY <1>1, TypeCorrect, BooksHold, PTL DEF Spec, NeverRecreated

-----------------------------------------------------------------------------
(* The cursor.  It advances over whole batches, so the argument is about    *)
(* order: what the pass has been handed comes before what it will be handed *)
(* (AskedBefore), what the consumer has taken before what is queued         *)
(* (TakenBefore), and everything unbooked is within reach of the query the  *)
(* pass asks (InReach).                                                     *)
AskedBefore ==
  \A f \in fetched, s \in visible \ fetched :
    SubmissionTime[s] > after => SubmissionTime[f] <= SubmissionTime[s]

TakenBefore ==
  \A f \in fetched \ queue, q \in queue : SubmissionTime[f] <= SubmissionTime[q]

InReach ==
  /\ after > 0 => \E v \in visible : SubmissionTime[v] > after
  /\ pc \in InPass =>
       \A s \in visible : ledger[s] = "none" => SubmissionTime[s] > after

Listing == AskedBefore /\ TakenBefore /\ InReach /\ batch \cap queue = {}

(* No cursor is ahead of everything that has been posted.                   *)
Anchored ==
  \A c \in {cursor, storedCursor} :
    c = NoCursor \/ \E v \in visible : c <= SubmissionTime[v]

Forward == pc \notin {"down", "off"} => storedCursor <= cursor

(* Of what was handed to the pass, all but the queue and the batch in hand  *)
(* is booked; of the batch in hand, all but what has been sorted.           *)
Progress ==
  /\ pc \in {"taking"} \cup InBatch /\ ~cancelled =>
       \A s \in fetched \ (queue \cup batch) : ledger[s] # "none"
  /\ pc \in {"stamps", "creating", "recording"} =>
       \A s \in batch \ (todo \cup skip \cup made) : ledger[s] # "none"

CursorInv ==
  NoneSkipped /\ Listing /\ Anchored /\ Forward /\ Progress
    /\ CleanPassIsComplete

(* Rows are only added to the ledger.                                       *)
LEMMA RecordedKeeps ==
  ASSUME TypeInv
  PROVE  /\ \A s \in Submissions : ledger[s] # "none" => Recorded[s] # "none"
         /\ \A s \in made \cup skip : Recorded[s] # "none"
BY DEF TypeInv, TypeOK, Recorded

(* What every cursor must leave within reach.                               *)
LEMMA Reach ==
  ASSUME NEW c \in Nat, NEW t \in Nat \ {0}, c = NoCursor \/ c <= t
  PROVE  t > AfterDate(c)
<1>1. CASE c = NoCursor
  BY <1>1 DEF AfterDate
<1>2. CASE c # NoCursor
  BY <1>2, AfterDateType
<1>3. QED
  BY <1>1, <1>2

(* A batch that is done: nothing unbooked comes before it.                  *)
LEMMA FinishKeepsReach ==
  ASSUME TypeInv, NoneSkipped, Listing, Progress,
         pc \in InBatch, ~cancelled, FinishBatch,
         \A s \in Submissions : ledger[s] # "none" => ledger'[s] # "none",
         \A s \in batch : ledger'[s] # "none",
         NEW s \in visible, ledger'[s] = "none"
  PROVE  SubmissionTime[s] > AfterDate(cursor')
<1> USE TimeAssumption DEF TypeInv, TypeOK
<1>1. ledger[s] = "none" /\ s \notin batch /\ s \in Submissions
  OBVIOUS
<1>2. CASE cursor' = cursor
  BY <1>1, <1>2 DEF NoneSkipped, Ledgered
<1>3. CASE cursor' # cursor
  <2>1. PICK b \in batch : cursor' = SubmissionTime[b]
    BY <1>3 DEF FinishBatch
  <2>2. b \in Submissions /\ b \in fetched /\ b \notin queue
    BY DEF Listing
  <2>3. SubmissionTime[b] <= SubmissionTime[s]
    <3>1. CASE s \notin fetched
      BY <1>1, <2>2, <3>1 DEF Listing, AskedBefore, InReach, InPass
    <3>2. CASE s \in queue
      BY <2>2, <3>2 DEF Listing, TakenBefore
    <3>3. CASE s \in fetched \ queue
      BY <1>1, <3>3 DEF Progress
    <3>4. QED
      BY <3>1, <3>2, <3>3
  <2>4. SubmissionTime[b] \in Nat /\ SubmissionTime[s] \in Nat \ {0}
    BY <1>1, <2>2
  <2>5. QED
    BY <2>1, <2>3, <2>4, Reach
<1>4. QED
  BY <1>2, <1>3

LEMMA StepListing ==
  ASSUME TypeInv, CursorInv, [Next]_vars
  PROVE  Listing'
<1> USE TimeAssumption
    DEF TypeInv, TypeOK, CursorInv, Listing, AskedBefore, TakenBefore, InReach,
        fillout, airtable, job, pass, local
<1>1. CASE \E s \in Submissions : Post(s)
  BY <1>1 DEF Post
<1>2. CASE BeginPass
  <2>1. after' > 0 => \E v \in visible : SubmissionTime[v] > after'
    BY <1>2, AfterDateType DEF BeginPass, Anchored, AfterDate
  <2>2. \A s \in visible : ledger[s] = "none" => SubmissionTime[s] > after'
    BY <1>2 DEF BeginPass, NoneSkipped, Ledgered
  <2>3. fetched = {} /\ queue = {} /\ batch = {}
    BY <1>2 DEF BeginPass, Shape, InPass, InBatch
  <2>4. QED
    BY <1>2, <2>1, <2>2, <2>3 DEF BeginPass
<1>3. CASE FetchPage
  <2>1. PICK page \in Leading(Remaining, PageSize) :
          fetched' = fetched \cup page /\ queue' = queue \cup page
    BY <1>3 DEF FetchPage
  <2>2. /\ page \subseteq visible \ fetched
        /\ \A p \in page : SubmissionTime[p] > after
        /\ \A p \in page, s \in visible \ (fetched \cup page) :
             SubmissionTime[s] > after => SubmissionTime[p] <= SubmissionTime[s]
    BY LeadingPrefix DEF Remaining
  <2>3. UNCHANGED <<visible, after, pc, ledger, batch>>
    BY <1>3 DEF FetchPage
  <2>4. AskedBefore'
    BY <2>1, <2>2, <2>3
  <2>5. TakenBefore'
    BY <2>1, <2>2, <2>3
  <2>6. InReach' /\ (batch \cap queue = {})'
    BY <2>1, <2>2, <2>3
  <2>7. QED
    BY <2>4, <2>5, <2>6
<1>4. CASE FetchFails \/ ProducerStops
  BY <1>4 DEF FetchFails, ProducerStops
<1>5. CASE TakeBatch
  BY <1>5, LeadingPrefix DEF TakeBatch, InPass, InBatch
<1>6. CASE CheckLedger \/ LookupFails
  BY <1>6 DEF CheckLedger, LookupFails, FinishBatch, FailBatch, ClearLocal,
     InPass, InBatch
<1>7. CASE RecordLedger
  BY <1>7, RecordedKeeps DEF RecordLedger, FinishBatch, FailBatch, ClearLocal,
     InPass, InBatch
<1>8. CASE RecordFails
  BY <1>8, RecordedKeeps DEF RecordFails, FailBatch, ClearLocal, InPass, InBatch
<1>9. CASE CheckStamps \/ CreateChunk \/ CreateFails \/ ListingEnds
  BY <1>9 DEF CheckStamps, CreateChunk, CreateFails, ListingEnds,
     InPass, InBatch
<1>10. CASE Persist \/ PersistFails \/ Crash
  BY <1>10 DEF Persist, PersistFails, Crash, ClearPass, ClearLocal, Shape,
     InPass, InBatch
<1>11. CASE Boot \/ Exit \/ Stop \/ Resume \/ Shutdown
  BY <1>11 DEF Boot, Exit, Stop, Resume, Shutdown, StartPoller, InPass, InBatch
<1>12. CASE \E s \in Submissions : DeleteByHand(s)
  BY <1>12 DEF DeleteByHand
<1>13. CASE \E chunk \in limbo : Land(chunk) \/ Vanish(chunk)
  BY <1>13 DEF Land, Vanish
<1>14. CASE UNCHANGED vars
  BY <1>14 DEF vars
<1>15. QED
  BY <1>1, <1>2, <1>3, <1>4, <1>5, <1>6, <1>7, <1>8, <1>9, <1>10, <1>11,
     <1>12, <1>13, <1>14
  DEF Next, Process, Producer, Consumer, Users, World

LEMMA StepNoneSkipped ==
  ASSUME TypeInv, CursorInv, [Next]_vars
  PROVE  NoneSkipped'
<1> USE TimeAssumption
    DEF TypeInv, TypeOK, CursorInv, Ledgered, fillout, airtable, job, pass,
        local
<1> SUFFICES ASSUME NEW s \in visible', ledger'[s] = "none"
             PROVE  /\ SubmissionTime[s] > AfterDate(cursor')
                    /\ SubmissionTime[s] > AfterDate(storedCursor')
  BY StepType DEF NoneSkipped
<1>1. s \in visible /\ ledger[s] = "none" =>
        /\ SubmissionTime[s] > AfterDate(cursor)
        /\ SubmissionTime[s] > AfterDate(storedCursor)
  BY DEF NoneSkipped
<1>2. s \in Submissions => SubmissionTime[s] > AfterDate(NoCursor)
  BY DEF AfterDate
<1>3. CASE \E x \in Submissions : Post(x)
  <2>1. PICK x \in Submissions : Post(x)
    BY <1>3
  <2>2. CASE s = x
    <3>1. \A c \in {cursor, storedCursor} : c = NoCursor \/ c <= SubmissionTime[x]
      BY <2>1 DEF Post, Anchored
    <3>2. SubmissionTime[x] \in Nat \ {0}
      OBVIOUS
    <3>3. UNCHANGED <<cursor, storedCursor>>
      BY <2>1 DEF Post
    <3>4. QED
      BY <2>2, <3>1, <3>2, <3>3, Reach
  <2>3. QED
    BY <1>1, <2>1, <2>2 DEF Post
<1>4. CASE CheckLedger
  <2>1. CASE FinishBatch
    BY <1>1, <1>4, <2>1, FinishKeepsReach DEF CheckLedger, FinishBatch, InBatch
  <2>2. QED
    BY <1>1, <1>4, <2>1 DEF CheckLedger
<1>5. CASE RecordLedger
  <2>1. CASE FinishBatch /\ ~CreateErr
    <3>1. ~cancelled
      BY <1>5, <2>1 DEF RecordLedger, Shape, CreateErr
    <3>2. \A b \in batch : ledger'[b] # "none"
      BY <1>5, <2>1, RecordedKeeps DEF RecordLedger, Progress, CreateErr
    <3>3. pc = "recording" /\ ledger' = Recorded /\ visible' = visible
          /\ storedCursor' = storedCursor
      BY <1>5 DEF RecordLedger
    <3>4. \A x \in Submissions : ledger[x] # "none" => ledger'[x] # "none"
      BY <3>3, RecordedKeeps
    <3>5. SubmissionTime[s] > AfterDate(cursor')
      BY <2>1, <3>1, <3>2, <3>3, <3>4, FinishKeepsReach DEF InBatch
    <3>6. QED
      BY <1>1, <3>3, <3>4, <3>5
  <2>2. QED
    BY <1>1, <1>5, <2>1, RecordedKeeps DEF RecordLedger, FailBatch
<1>6. CASE RecordFails
  BY <1>1, <1>6, RecordedKeeps DEF RecordFails, FailBatch
<1>7. CASE Producer \/ TakeBatch \/ ListingEnds \/ CheckStamps \/ LookupFails
            \/ CreateChunk \/ CreateFails
  BY <1>1, <1>7 DEF Producer, FetchPage, FetchFails, ProducerStops, TakeBatch,
     ListingEnds, CheckStamps, LookupFails, FailBatch, CreateChunk, CreateFails
<1>8. CASE Persist \/ PersistFails \/ BeginPass \/ Exit \/ Boot
  BY <1>1, <1>2, <1>8 DEF Persist, PersistFails, BeginPass, Exit, Boot,
     StartPoller
<1>9. CASE Stop \/ Resume \/ Shutdown \/ Crash
  BY <1>1, <1>2, <1>9 DEF Stop, Resume, Shutdown, Crash, StartPoller
<1>10. CASE \E x \in Submissions : DeleteByHand(x)
  BY <1>1, <1>10 DEF DeleteByHand
<1>11. CASE \E chunk \in limbo : Land(chunk) \/ Vanish(chunk)
  BY <1>1, <1>11 DEF Land, Vanish
<1>12. CASE UNCHANGED vars
  BY <1>1, <1>12 DEF vars
<1>13. QED
  BY <1>3, <1>4, <1>5, <1>6, <1>7, <1>8, <1>9, <1>10, <1>11, <1>12
  DEF Next, Process, Consumer, Users, World

LEMMA StepAnchored ==
  ASSUME TypeInv, CursorInv, [Next]_vars
  PROVE  Anchored' /\ Forward'
<1> USE TimeAssumption
    DEF TypeInv, TypeOK, CursorInv, Anchored, Forward, NoCursor, States,
        fillout, airtable, job, pass, local
<1>1. CASE \E s \in Submissions : Post(s)
  BY <1>1 DEF Post
<1>2. CASE CheckLedger
  BY <1>2 DEF CheckLedger, FinishBatch
<1>3. CASE RecordLedger \/ RecordFails
  BY <1>3 DEF RecordLedger, RecordFails, FinishBatch, FailBatch
<1>4. CASE Producer \/ TakeBatch \/ ListingEnds \/ CheckStamps \/ LookupFails
            \/ CreateChunk \/ CreateFails
  BY <1>4 DEF Producer, FetchPage, FetchFails, ProducerStops, TakeBatch,
     ListingEnds, CheckStamps, LookupFails, FailBatch, CreateChunk, CreateFails,
     InBatch
<1>5. CASE Persist \/ PersistFails \/ BeginPass \/ Exit \/ Boot
  BY <1>5 DEF Persist, PersistFails, BeginPass, Exit, Boot, StartPoller
<1>6. CASE Stop \/ Resume \/ Shutdown \/ Crash
  BY <1>6 DEF Stop, Resume, Shutdown, Crash, StartPoller
<1>7. CASE \E s \in Submissions : DeleteByHand(s)
  BY <1>7 DEF DeleteByHand
<1>8. CASE \E chunk \in limbo : Land(chunk) \/ Vanish(chunk)
  BY <1>8 DEF Land, Vanish
<1>9. CASE UNCHANGED vars
  BY <1>9 DEF vars
<1>10. QED
  BY <1>1, <1>2, <1>3, <1>4, <1>5, <1>6, <1>7, <1>8, <1>9
  DEF Next, Process, Consumer, Users, World

LEMMA StepProgress ==
  ASSUME TypeInv, CursorInv, [Next]_vars
  PROVE  Progress' /\ CleanPassIsComplete'
<1> USE DEF TypeInv, TypeOK, CursorInv, Progress, CleanPassIsComplete,
        Ledgered, InBatch, fillout, airtable, job, pass, local
<1>1. CASE \E s \in Submissions : Post(s)
  BY <1>1 DEF Post
<1>2. CASE BeginPass
  BY <1>2 DEF BeginPass, Shape, InPass
<1>3. CASE FetchPage
  BY <1>3, LeadingPrefix DEF FetchPage
<1>4. CASE FetchFails \/ ProducerStops
  BY <1>4 DEF FetchFails, ProducerStops
<1>5. CASE TakeBatch
  <2>1. batch' \subseteq queue /\ queue' = queue \ batch' /\ batch = {}
    BY <1>5, LeadingPrefix DEF TakeBatch, Shape
  <2>2. QED
    BY <1>5, <2>1 DEF TakeBatch
<1>6. CASE ListingEnds
  BY <1>6 DEF ListingEnds, Shape
<1>7. CASE CheckLedger
  BY <1>7 DEF CheckLedger, FinishBatch, ClearLocal, Shape
<1>8. CASE CheckStamps
  <2>1. todo \cup skip \subseteq todo' \cup skip'
    BY <1>8 DEF CheckStamps
  <2>2. pc = "stamps" /\ pc' \in {"stamps", "creating", "recording"}
    BY <1>8 DEF CheckStamps
  <2>3. UNCHANGED <<ledger, cancelled, fetched, queue, batch, made>>
    BY <1>8 DEF CheckStamps
  <2>4. QED
    BY <2>1, <2>2, <2>3
<1>9. CASE LookupFails \/ RecordFails
  BY <1>9 DEF LookupFails, RecordFails, FailBatch
<1>10. CASE CreateChunk \/ CreateFails
  BY <1>10 DEF CreateChunk, CreateFails
<1>11. CASE RecordLedger
  <2>1. CASE FailBatch
    BY <1>11, <2>1 DEF RecordLedger, FailBatch
  <2>2. CASE FinishBatch /\ ~CreateErr
    BY <1>11, <2>2, RecordedKeeps
    DEF RecordLedger, FinishBatch, ClearLocal, CreateErr, Shape
  <2>3. QED
    BY <1>11, <2>1, <2>2 DEF RecordLedger
<1>12. CASE Persist \/ PersistFails \/ Crash
  BY <1>12 DEF Persist, PersistFails, Crash
<1>13. CASE Boot \/ Exit \/ Stop \/ Resume \/ Shutdown
  BY <1>13 DEF Boot, Exit, Stop, Resume, Shutdown, StartPoller
<1>14. CASE \E s \in Submissions : DeleteByHand(s)
  BY <1>14 DEF DeleteByHand
<1>15. CASE \E chunk \in limbo : Land(chunk) \/ Vanish(chunk)
  BY <1>15 DEF Land, Vanish
<1>16. CASE UNCHANGED vars
  BY <1>16 DEF vars
<1>17. QED
  BY <1>1, <1>2, <1>3, <1>4, <1>5, <1>6, <1>7, <1>8, <1>9, <1>10, <1>11,
     <1>12, <1>13, <1>14, <1>15, <1>16
  DEF Next, Process, Producer, Consumer, Users, World

LEMMA CursorInvHolds == Spec => []CursorInv
<1>1. Init => CursorInv
  BY TimeAssumption
  DEF Init, CursorInv, NoneSkipped, Listing, AskedBefore, TakenBefore, InReach,
      Anchored, Forward, Progress, CleanPassIsComplete, AfterDate, NoCursor,
      InPass, InBatch
<1>2. TypeInv /\ CursorInv /\ [Next]_vars => CursorInv'
  <2>1. SUFFICES ASSUME TypeInv, CursorInv, [Next]_vars PROVE CursorInv'
    OBVIOUS
  <2>2. Listing' /\ NoneSkipped' /\ Anchored' /\ Forward' /\ Progress'
          /\ CleanPassIsComplete'
    BY <2>1, StepListing, StepNoneSkipped, StepAnchored, StepProgress
  <2>3. QED
    BY <2>2 DEF CursorInv
<1>3. QED
  BY <1>1, <1>2, TypeCorrect, PTL DEF Spec

(* No submission is skipped for good, whatever fails and whenever.          *)
THEOREM NothingIsSkipped == Spec => []NoneSkipped
<1>1. CursorInv => NoneSkipped
  BY DEF CursorInv
<1>2. QED
  BY <1>1, CursorInvHolds, PTL

(* A pass that reports no error has booked everything it was handed.        *)
THEOREM CleanPasses == Spec => []CleanPassIsComplete
<1>1. CursorInv => CleanPassIsComplete
  BY DEF CursorInv
<1>2. QED
  BY <1>1, CursorInvHolds, PTL

(* Persisted progress is never taken back.                                  *)
THEOREM CursorIsMonotonic == Spec => CursorNeverRegresses
<1>1. TypeInv /\ CursorInv /\ [Next]_vars => [storedCursor' >= storedCursor]_vars
  <2>1. SUFFICES ASSUME TypeInv, CursorInv, Next
                 PROVE  storedCursor' >= storedCursor
    OBVIOUS
  <2>2. storedCursor \in Nat
    BY <2>1 DEF TypeInv, TypeOK
  <2>3. CASE Persist
    BY <2>1, <2>2, <2>3 DEF Persist, CursorInv, Forward, TypeInv, TypeOK
  <2>4. CASE ~Persist
    <3>1. storedCursor' = storedCursor
      BY <2>1, <2>4
      DEF Next, Process, Producer, Consumer, Users, World, job, Boot, BeginPass,
          FetchPage, FetchFails, ProducerStops, Exit, TakeBatch, ListingEnds,
          CheckLedger, CheckStamps, LookupFails, CreateChunk, CreateFails,
          RecordLedger, RecordFails, PersistFails, Stop, Resume, Shutdown,
          Crash, Post, DeleteByHand, Land, Vanish
    <3>2. QED
      BY <2>2, <3>1
  <2>5. QED
    BY <2>3, <2>4
<1>2. QED
  BY <1>1, TypeCorrect, CursorInvHolds, PTL DEF Spec, CursorNeverRegresses

-----------------------------------------------------------------------------
(* Refinement.  Every step posts, delivers, settles or does nothing that    *)
(* Delivery can see.                                                        *)
LEMMA StepsKeepPromise ==
  ASSUME TypeInv, Books, Foreign \subseteq visible, [Next]_vars
  PROVE  [Promise!Next]_(Promise!vars)
<1> USE SizeAssumption DEF TypeInv, TypeOK, Promise!vars, fillout, airtable
<1>1. CASE \E s \in Submissions : Post(s)
  <2>1. PICK s \in Submissions : Post(s)
    BY <1>1
  <2>2. Promise!Post(s)
    BY <2>1 DEF Post, Promise!Post, Ledgered
  <2>3. QED
    BY <2>2 DEF Promise!Next
<1>2. CASE ours' # ours
  <2>1. PICK S \in SUBSET visible : ours' = ours \cup S
    <3>1. CASE CreateChunk
      BY <3>1, LeadingPrefix, SMTT(30) DEF CreateChunk, AddRecords
    <3>2. CASE \E chunk \in limbo : Land(chunk)
      BY <3>2 DEF Land, AddRecords, LimboIsAbandoned
    <3>3. QED
      BY <1>2, <3>1, <3>2
      DEF Next, Process, Producer, Consumer, Users, World, Boot, BeginPass,
          FetchPage, FetchFails, ProducerStops, Exit, TakeBatch, ListingEnds,
          CheckLedger, CheckStamps, LookupFails, CreateFails, GiveUpOnChunk,
          RecordLedger, RecordFails, Persist, PersistFails, Stop, Resume,
          Shutdown, Crash, Post, DeleteByHand, Vanish, vars
  <2>2. UNCHANGED <<visible, ledger>>
    BY <1>2
    DEF Next, Process, Producer, Consumer, Users, World, Boot, BeginPass,
        FetchPage, FetchFails, ProducerStops, Exit, TakeBatch, ListingEnds,
        CheckLedger, CheckStamps, LookupFails, CreateChunk, CreateFails,
        RecordLedger, RecordFails, Persist, PersistFails, Stop, Resume, Shutdown,
        Crash, Post, DeleteByHand, Land, Vanish, GiveUpOnChunk, vars
  <2>3. Promise!Deliver(S)
    BY <2>1, <2>2 DEF Promise!Deliver, Ledgered
  <2>4. QED
    BY <2>1, <2>3 DEF Promise!Next
<1>3. CASE ledger' # ledger
  <2>1. ledger' = Recorded /\ UNCHANGED <<visible, ours>>
    BY <1>3
    DEF Next, Process, Producer, Consumer, Users, World, Boot, BeginPass,
        FetchPage, FetchFails, ProducerStops, Exit, TakeBatch, ListingEnds,
        CheckLedger, CheckStamps, LookupFails, CreateChunk, CreateFails,
        RecordLedger, RecordFails, Persist, PersistFails, Stop, Resume, Shutdown,
        Crash, Post, DeleteByHand, Land, Vanish, vars
  <2>2. Ledgered' = Ledgered \cup made \cup skip
    BY <2>1 DEF Recorded, Ledgered
  <2>3. made \cup skip \subseteq ours \cup Foreign
    BY DEF Books, Sourced
  <2>4. Promise!Settle(made \cup skip)
    BY <2>1, <2>2, <2>3 DEF Promise!Settle
  <2>5. made \cup skip \in SUBSET Submissions
    OBVIOUS
  <2>6. QED
    BY <2>4, <2>5 DEF Promise!Next
<1>4. CASE UNCHANGED <<visible, ours, ledger>>
  BY <1>4 DEF Ledgered
<1>5. CASE visible' # visible
  BY <1>1, <1>5
  DEF Next, Process, Producer, Consumer, Users, World, Boot, BeginPass,
      FetchPage, FetchFails, ProducerStops, Exit, TakeBatch, ListingEnds,
      CheckLedger, CheckStamps, LookupFails, CreateChunk, CreateFails,
      RecordLedger, RecordFails, Persist, PersistFails, Stop, Resume, Shutdown,
      Crash, DeleteByHand, Land, Vanish, vars
<1>6. QED
  BY <1>2, <1>3, <1>4, <1>5

(* The poller implements Delivery.                                          *)
THEOREM PollerKeepsPromise == Spec => KeepsPromise
<1>1. Init => Promise!Init
  BY SizeAssumption DEF Init, Promise!Init, Ledgered
<1>2. Init => Foreign \subseteq visible
  BY DEF Init
<1>3. Foreign \subseteq visible /\ [Next]_vars => (Foreign \subseteq visible)'
  <2>1. SUFFICES ASSUME [Next]_vars PROVE visible \subseteq visible'
    OBVIOUS
  <2>2. QED
    BY <2>1
    DEF Next, Process, Producer, Consumer, Users, World, Boot, BeginPass,
        FetchPage, FetchFails, ProducerStops, Exit, TakeBatch, ListingEnds,
        CheckLedger, CheckStamps, LookupFails, CreateChunk, CreateFails,
        RecordLedger, RecordFails, Persist, PersistFails, Stop, Resume, Shutdown,
        Crash, Post, DeleteByHand, Land, Vanish, vars, fillout
<1>4. TypeInv /\ Books /\ Foreign \subseteq visible /\ [Next]_vars
        => [Promise!Next]_(Promise!vars)
  BY StepsKeepPromise
<1>5. QED
  BY <1>1, <1>2, <1>3, <1>4, TypeCorrect, BooksHold, PTL
  DEF Spec, KeepsPromise, Promise!Spec
=============================================================================
