---------------------------- MODULE ServiceProofs ----------------------------
(***************************************************************************)
(* The promises of Service, for any number of pollers, jobs, bases,        *)
(* submissions and failures.                                               *)
(*                                                                         *)
(* They rest on one another: what a cursor passes over depends on what the  *)
(* poller is about to book (Behind on Locals and Batches), which records a  *)
(* removal may miss on who made them (Accounted on Booked and Numbers),     *)
(* where rows point on what a removal deletes (Pointing on OnlyOwnRecords).  *)
(* So they are parts of one inductive invariant.                            *)
(***************************************************************************)
EXTENDS Service, TLAPS

Stages == {"idle", "waiting", "ledger", "stamps", "creating", "persisting"}
PollerState ==
  [pc : Stages, job : 0..MaxJobs, cancelled : BOOLEAN, cursor : 0..Last,
   batch : SUBSET Submissions, todo : SUBSET Submissions, sent : SUBSET Records,
   rows : SUBSET Rows, err : BOOLEAN]
RemovalStages == {"idle", "stopping", "removing", "deleting"}
Removal == [pc : RemovalStages, job : 0..MaxJobs, ids : SUBSET Records,
            purge : BOOLEAN]

Shape ==
  /\ visible \in 0..Last /\ count \in 0..MaxRecords
  /\ live \subseteq Records /\ inflight \subseteq Records
  /\ doomed \subseteq SUBSET Records
  /\ base \in Bases
  /\ inserted \in 0..MaxJobs /\ exists \subseteq 1..inserted
  /\ jobBase \in [Jobs -> Bases] /\ stored \in [Jobs -> 0..Last]
  /\ ledger \in [Submissions -> Rows \cup {NoRow}]
  /\ pl \in [Pollers -> PollerState]
  /\ rm \in Removal
  /\ faults \in 0..MaxFaults

(* The records there are and those there may still be *)
Asked == live \cup inflight

(* Jobs are numbered as they are inserted, and no number comes back. *)
Numbers ==
  /\ \A r \in Asked : r.job <= inserted
  /\ \A p \in Pollers : pl[p].job <= inserted /\ (pl[p].pc # "idle" => pl[p].job # 0)
  /\ \A j \in Jobs : j > inserted => stored[j] = 0
  /\ purged \subseteq (1..inserted) \ exists
  /\ rm.job <= inserted
  /\ rm.pc = "idle" => rm.ids = {}
  /\ rm.pc \in {"stopping", "removing"} => rm.job \in exists
  /\ rm.pc = "deleting" => rm.job \notin exists /\ rm.job # 0

(* What a pass has to do, and what it is about to book. *)
LocalsOf(st) ==
  /\ st.pc \notin {"stamps", "creating"} => st.todo = {}
  /\ st.pc # "creating" => st.rows = {} /\ st.sent = {} /\ ~st.err
  /\ \A r \in st.sent : r.job = st.job /\ r.sub \in st.todo
  /\ \A r, t \in st.sent : r = t
  /\ \A row \in st.rows :
       /\ row.job = st.job /\ row.sub \notin st.todo
       /\ row.outcome = "created" => row.rec.job = row.job /\ row.rec.sub = row.sub
       /\ \A other \in st.rows : other.sub = row.sub => other = row
Locals == \A p \in Pollers : LocalsOf(pl[p])

Booked ==
  \A s \in Ledgered :
    /\ ledger[s].sub = s /\ ledger[s].job \in exists
    /\ ledger[s].outcome = "created" =>
         ledger[s].rec.job = ledger[s].job /\ ledger[s].rec.sub = s

(* A request on its way has a poller waiting for it, and only one, or was given *)
(* up; no two requests are the same.                                            *)
Requests ==
  /\ live \cap inflight = {}
  /\ \A r \in Asked : r.id <= count
  /\ \A p \in Pollers : \A r \in pl[p].sent : r.id <= count
  /\ \A p, q \in Pollers : p # q => pl[p].sent \cap pl[q].sent = {}
  /\ \A r \in inflight : \/ \E p \in Pollers : r \in pl[p].sent
                         \/ r \in uncertain /\ Place(r) \in abandoned

(* What a poller is about to create is not there, nor asked for by anyone else, *)
(* unless two were about to create it or a request for it was given up.       *)
Excused(s) == <<s, base>> \in contested \cup abandoned
AskedFor(s) == {r \in Asked : r.sub = s /\ r.base = base}
Wanted ==
  \A p \in Pollers : \A s \in pl[p].todo :
    pl[p].pc = "creating" /\ ~Excused(s) =>
      /\ AskedFor(s) \subseteq pl[p].sent
      /\ \A q \in Pollers \ {p} : pl[q].pc = "creating" => s \notin pl[q].todo

(* Two records of a submission in one base, or one there and one asked for *)
Twins ==
  \A r, t \in Asked : r.sub = t.sub /\ r.base = t.base /\ r # t =>
    Place(r) \in contested \cup abandoned

(* What a poller has in hand is for the base of the process, and so is what has *)
(* been booked since it looked at the ledger.                                  *)
Subs(rows) == {row.sub : row \in rows}
Homes ==
  \A p \in Pollers :
    /\ \A r \in InHand(p) : r.base = base
    /\ \A s \in pl[p].todo \cup Subs(pl[p].rows) :
         s \in Ledgered /\ ledger[s].outcome = "created" => ledger[s].rec.base = base

(* Every record of a job is booked, or its poller is about to, or it is       *)
(* uncertain; while the job is being removed, it is known or uncertain, and    *)
(* afterwards it is uncertain, still to be deleted, or left by a failure.     *)
Held(r) == \E p \in Pollers : r \in InHand(p)
Kept(r) == \E s \in Ledgered : ledger[s].outcome = "created" /\ ledger[s].rec = r
Accounted ==
  /\ \A r \in Asked : r.job \in exists => r \in uncertain \/ Kept(r) \/ Held(r)
  /\ rm.pc # "idle" /\ rm.job \in exists /\ rm.purge =>
       \A r \in Asked : r.job = rm.job => r \in uncertain \cup rm.ids
  /\ \A r \in Asked : r.job \in purged => r \in uncertain \cup unfinished \cup rm.ids

(* A batch is the end of what was listed when the pass began. *)
Batches ==
  \A p \in Pollers :
    IF pl[p].pc \in {"ledger", "stamps", "creating"}
      THEN \E v \in 0..Last : pl[p].batch = {s \in 1..v : s >= pl[p].cursor}
      ELSE pl[p].batch = {}

(* A cursor has left nothing behind, and will not. *)
Settled == Ledgered \cup orphaned
Behind ==
  /\ \A j \in exists : 1..stored[j] \subseteq Settled
  /\ \A p \in Pollers :
       pl[p].job \in exists =>
         /\ 1..pl[p].cursor \subseteq Settled
         /\ pl[p].pc \in {"stamps", "creating"} /\ ~pl[p].err =>
              pl[p].batch \subseteq Settled \cup pl[p].todo \cup Subs(pl[p].rows)

(* A row points to a record that is there, or was, or whose job was removed; *)
(* and only of removed jobs are records deleted.                             *)
There(rec) == rec \in live \cup byHand
Pointing ==
  /\ \A p \in Pollers : \A row \in pl[p].rows :
       There(row.rec) \/ row.rec.job \notin exists
  /\ \A p \in Pollers : \A row \in pl[p].rows : row.rec.job <= inserted
  /\ \A p \in Pollers : \A r \in pl[p].sent :
       r \in inflight \/ There(r) \/ r.job \notin exists
  /\ \A s \in Ledgered : There(ledger[s].rec) \/ ledger[s].rec.job \notin exists
  /\ \A s \in Ledgered : ledger[s].rec.job <= inserted
  /\ \A chunk \in doomed : \A r \in chunk : r.job <= inserted /\ r.job \notin exists

Inv ==
  /\ Shape /\ Numbers /\ Locals /\ Booked /\ OnlyOwnRecords /\ Requests /\ Wanted
  /\ Twins /\ Homes /\ Accounted /\ Batches /\ Behind /\ Pointing

-----------------------------------------------------------------------------
LEMMA Initially == Init => Inv
<1> SUFFICES ASSUME Init PROVE Inv
  OBVIOUS
<1> USE ServiceAssumption
<1>1. Idle \in PollerState /\ NoRequest \in Removal
  BY DEF Idle, PollerState, Stages, NoRequest, Removal, RemovalStages
<1>2. Shape
  BY <1>1 DEF Init, Shape, Jobs
<1>3. Ledgered = {} /\ Asked = {}
  BY DEF Init, Ledgered, Asked
<1>4. \A p \in Pollers : pl[p] = Idle
  BY DEF Init
<1>5. Numbers
  BY <1>3, <1>4 DEF Init, Numbers, Idle, NoRequest
<1>6. Locals /\ Wanted /\ Batches
  BY <1>4 DEF Idle, Locals, LocalsOf, Wanted, Batches
<1>7. Booked /\ Homes
  BY <1>3, <1>4 DEF Booked, Homes, InHand, CreatedBy, Idle, Subs
<1>8. OnlyOwnRecords /\ Twins /\ Accounted
  BY <1>3 DEF Init, OnlyOwnRecords, Twins, Accounted, NoRequest
<1>9. Requests
  BY <1>3, <1>4 DEF Init, Requests, Idle
<1>10. Behind
  <2>1. \A p \in Pollers : 1..pl[p].cursor = {}
    BY <1>4 DEF Idle
  <2> QED BY <2>1, <1>4 DEF Init, Behind, Idle
<1>11. Pointing
  BY <1>3, <1>4 DEF Init, Pointing, Idle
<1> QED BY <1>2, <1>5, <1>6, <1>7, <1>8, <1>9, <1>10, <1>11 DEF Inv

(* Steps that leave the pollers and the ledger alone *)
LEMMA PollersStay ==
  ASSUME Inv, UNCHANGED <<base, ledger, pl>>
  PROVE  /\ Locals' /\ Batches' /\ Homes' /\ Ledgered' = Ledgered
         /\ \A r : Held(r)' <=> Held(r)
         /\ \A r : Kept(r)' <=> Kept(r)
<1>1. Ledgered' = Ledgered
  BY DEF Ledgered
<1>2. \A p : InHand(p)' = InHand(p)
  BY DEF InHand, CreatedBy
<1>3. Locals' /\ Batches'
  BY DEF Inv, Locals, LocalsOf, Batches
<1>4. Homes'
  BY <1>1, <1>2 DEF Inv, Homes, Subs
<1> QED BY <1>1, <1>2, <1>3, <1>4 DEF Held, Kept

(* As long as nothing is asked for and no poller wants to create what it did  *)
(* not want before, or forgets what it has asked for and still wants.         *)
LEMMA NoMoreAsked ==
  ASSUME Wanted, Twins, Asked' \subseteq Asked, base' = base,
         contested \subseteq contested', abandoned \subseteq abandoned',
         \A q \in Pollers : pl'[q].pc = "creating" =>
           /\ pl[q].pc = "creating" /\ pl'[q].todo \subseteq pl[q].todo
           /\ \A r \in pl[q].sent : r.sub \in pl'[q].todo => r \in pl'[q].sent
  PROVE  Wanted' /\ Twins'
<1>1. Twins'
  BY DEF Twins, Place
<1>2. Wanted'
  <2> SUFFICES ASSUME NEW q \in Pollers, NEW s \in pl'[q].todo,
                      pl'[q].pc = "creating", ~Excused(s)'
               PROVE  /\ AskedFor(s)' \subseteq pl'[q].sent
                      /\ \A o \in Pollers \ {q} :
                           pl'[o].pc = "creating" => s \notin pl'[o].todo
    BY DEF Wanted
  <2>1. s \in pl[q].todo /\ pl[q].pc = "creating" /\ ~Excused(s)
    BY DEF Excused
  <2>2. AskedFor(s)' \subseteq AskedFor(s)
    BY DEF AskedFor
  <2>3. AskedFor(s) \subseteq pl[q].sent
    BY <2>1 DEF Wanted
  <2>4. \A r \in AskedFor(s)' : r \in pl'[q].sent
    BY <2>2, <2>3 DEF AskedFor
  <2>5. \A o \in Pollers \ {q} : pl'[o].pc = "creating" => s \notin pl'[o].todo
    BY <2>1 DEF Wanted
  <2> QED BY <2>4, <2>5
<1> QED BY <1>1, <1>2

(* The parts say nothing of what is visible and of the number of failures. *)
Rest == <<live, inflight, doomed, count, base, jobs, ledger, pl, rm, history>>

LEMMA StutterKeeps == ASSUME Inv, Shape', UNCHANGED Rest PROVE Inv'
<1> USE DEF Inv, Rest, jobs, history, doubts
<1>1. Asked' = Asked
  BY DEF Asked
<1>2. /\ Locals' /\ Batches' /\ Homes' /\ Ledgered' = Ledgered
      /\ \A r : Held(r)' <=> Held(r)
      /\ \A r : Kept(r)' <=> Kept(r)
  BY PollersStay
<1>3. Numbers'
  BY <1>1 DEF Numbers
<1>4. Booked' /\ Pointing'
  BY <1>2 DEF Booked, Pointing, There
<1>5. OnlyOwnRecords' /\ Requests'
  BY <1>1 DEF OnlyOwnRecords, Requests
<1>6. Wanted' /\ Twins'
  BY <1>1, NoMoreAsked
<1>7. Accounted'
  BY <1>1, <1>2 DEF Accounted
<1>8. Behind'
  BY <1>2 DEF Behind, Settled, Subs
<1> QED BY <1>2, <1>3, <1>4, <1>5, <1>6, <1>7, <1>8

LEMMA PostKeeps == ASSUME Inv, Post PROVE Inv'
<1>1. Shape'
  BY ServiceAssumption DEF Post, Inv, Shape, jobs
<1> QED BY <1>1, StutterKeeps DEF Post, Rest

(* Airtable loses records: by hand, or to a delete request carried out late. *)
LEMMA FewerRecords ==
  ASSUME Inv, Shape', live' \subseteq live, byHand \subseteq byHand',
         \A r \in live \ live' : r \in byHand' \/ r.job \notin exists,
         doomed' \subseteq doomed, UNCHANGED <<inflight, count, base, jobs, ledger,
                                           pl, rm, doubts, uncertain>>
  PROVE  Inv'
<1> USE DEF Inv, jobs, doubts
<1>1. Asked' \subseteq Asked
  BY DEF Asked
<1>2. /\ Locals' /\ Batches' /\ Homes' /\ Ledgered' = Ledgered
      /\ \A r : Held(r)' <=> Held(r)
      /\ \A r : Kept(r)' <=> Kept(r)
  BY PollersStay
<1>3. Numbers'
  BY <1>1 DEF Numbers
<1>4. Booked' /\ OnlyOwnRecords'
  BY <1>2 DEF Booked, OnlyOwnRecords
<1>5. Requests'
  BY <1>1 DEF Requests
<1>6. Wanted' /\ Twins'
  BY <1>1, NoMoreAsked
<1>7. Accounted'
  BY <1>1, <1>2 DEF Accounted
<1>8. Behind'
  BY <1>2 DEF Behind, Settled, Subs
<1>9. Pointing'
  <2>1. \A rec : There(rec) => There(rec)' \/ rec.job \notin exists
    BY DEF There
  <2> QED BY <2>1, <1>2 DEF Pointing
<1> QED BY <1>2, <1>3, <1>4, <1>5, <1>6, <1>7, <1>8, <1>9

LEMMA DeleteByHandKeeps ==
  ASSUME Inv, NEW r \in live, DeleteByHand(r) PROVE Inv'
<1>1. Shape'
  BY ServiceAssumption DEF DeleteByHand, Budget, Inv, Shape, jobs
<1> QED BY <1>1, FewerRecords DEF DeleteByHand

LEMMA LandDeleteKeeps ==
  ASSUME Inv, NEW chunk \in doomed, LandDelete(chunk) PROVE Inv'
<1>1. Shape'
  BY DEF LandDelete, Inv, Shape, jobs
<1>2. \A r \in chunk : r.job \notin exists
  BY DEF Inv, Pointing
<1> QED BY <1>1, <1>2, FewerRecords DEF LandDelete, history

(* A record that was asked for is there. *)
LEMMA LandKeeps == ASSUME Inv, NEW r \in inflight, Land(r) PROVE Inv'
<1> USE DEF Land, Inv, jobs, history, doubts
<1>1. Asked' = Asked /\ live \subseteq live'
  BY DEF Asked
<1>2. /\ Locals' /\ Batches' /\ Homes' /\ Ledgered' = Ledgered
      /\ \A t : Held(t)' <=> Held(t)
      /\ \A t : Kept(t)' <=> Kept(t)
  BY PollersStay
<1>3. Shape'
  BY DEF Shape
<1>4. Numbers'
  BY <1>1 DEF Numbers
<1>5. Booked' /\ OnlyOwnRecords'
  BY <1>2 DEF Booked, OnlyOwnRecords
<1>6. Requests'
  BY <1>1 DEF Requests
<1>7. Wanted' /\ Twins'
  BY <1>1, NoMoreAsked
<1>8. Accounted'
  BY <1>1, <1>2 DEF Accounted
<1>9. Behind'
  BY <1>2 DEF Behind, Settled, Subs
<1>10. Pointing'
  <2>1. \A rec : There(rec) \/ rec = r => There(rec)'
    BY DEF There
  <2>2. \A rec : rec \in inflight => rec \in inflight' \/ There(rec)'
    BY <2>1
  <2> QED BY <2>1, <2>2, <1>2 DEF Pointing
<1> QED BY <1>2, <1>3, <1>4, <1>5, <1>6, <1>7, <1>8, <1>9, <1>10

LEMMA InsertJobKeeps == ASSUME Inv, InsertJob PROVE Inv'
<1> USE DEF InsertJob, Inv, world, history, doubts
<1>1. /\ inserted' = inserted + 1 /\ inserted' \in Jobs /\ inserted \in Nat
      /\ exists' = exists \cup {inserted'} /\ inserted' \notin exists
      /\ inserted' \notin 1..inserted
  BY ServiceAssumption DEF Shape, Jobs
<1>2. Asked' = Asked /\ \A r \in Asked : r.job <= inserted /\ r.job \in Nat
  BY DEF Asked, Numbers, Shape, Records, Jobs
<1>3. /\ Locals' /\ Batches' /\ Homes' /\ Ledgered' = Ledgered
      /\ \A r : Held(r)' <=> Held(r)
      /\ \A r : Kept(r)' <=> Kept(r)
  BY PollersStay
<1>4. Shape'
  BY <1>1, ServiceAssumption DEF Shape, Jobs
<1>5. Numbers'
  <2>1. purged' \subseteq (1..inserted') \ exists'
    BY <1>1 DEF Numbers
  <2>2. \A r \in Asked' : r.job <= inserted'
    BY <1>1, <1>2
  <2> QED BY <2>1, <2>2, <1>1 DEF Numbers, Shape, Jobs, PollerState, Removal
<1>6. Booked'
  BY <1>1, <1>3 DEF Booked
<1>7. OnlyOwnRecords' /\ Requests'
  BY <1>2 DEF OnlyOwnRecords, Requests
<1>8. Wanted' /\ Twins'
  BY <1>2, NoMoreAsked
<1>9. Accounted'
  <2>1. \A r \in Asked : r.job # inserted'
    BY <1>1, <1>2
  <2>2. inserted' \notin purged
    BY <1>1 DEF Numbers
  <2> QED BY <2>1, <2>2, <1>1, <1>2, <1>3 DEF Accounted
<1>10. Behind'
  <2>1. stored[inserted'] = 0
    BY <1>1 DEF Numbers, Shape
  <2>2. \A p \in Pollers : pl[p].job # inserted'
    BY <1>1 DEF Numbers, Shape, PollerState
  <2>3. 1..0 = {}
    OBVIOUS
  <2> QED BY <2>1, <2>2, <2>3, <1>1, <1>3 DEF Behind, Settled, Subs
<1>11. Pointing'
  <2>1. \A j \in Nat : j <= inserted => j <= inserted' /\ (j \in exists' => j \in exists)
    BY <1>1
  <2>2. \A r \in Records : r.job \in Nat
    BY DEF Records, Jobs
  <2>3. ASSUME NEW p \in Pollers
        PROVE  /\ \A row \in pl[p].rows : row.rec \in Records
               /\ \A r \in pl[p].sent : r \in Records /\ r.job <= inserted
    <3>1. pl[p] \in PollerState /\ pl[p].job <= inserted
      BY DEF Shape, Numbers
    <3> QED BY <3>1 DEF PollerState, Rows, Locals, LocalsOf
  <2>4. \A s \in Ledgered : ledger[s].rec \in Records
    BY DEF Shape, Ledgered, Rows
  <2>5. \A chunk \in doomed : chunk \subseteq Records
    BY DEF Shape
  <2>6. \A p \in Pollers : \A row \in pl[p].rows :
          /\ There(row.rec) \/ row.rec.job \notin exists'
          /\ row.rec.job <= inserted'
    BY <2>1, <2>2, <2>3 DEF Pointing
  <2>7. \A p \in Pollers : \A r \in pl[p].sent :
          r \in inflight \/ There(r) \/ r.job \notin exists'
    BY <2>1, <2>2, <2>3 DEF Pointing
  <2>8. \A s \in Ledgered : /\ There(ledger[s].rec) \/ ledger[s].rec.job \notin exists'
                            /\ ledger[s].rec.job <= inserted'
    BY <2>1, <2>2, <2>4 DEF Pointing
  <2>9. \A chunk \in doomed : \A r \in chunk : r.job <= inserted' /\ r.job \notin exists'
    BY <2>1, <2>2, <2>5 DEF Pointing
  <2> QED BY <2>6, <2>7, <2>8, <2>9, <1>3 DEF Pointing, There
<1> QED BY <1>3, <1>4, <1>5, <1>6, <1>7, <1>8, <1>9, <1>10, <1>11

LEMMA LoadForRemovalKeeps ==
  ASSUME Inv, NEW j \in exists, NEW purge \in BOOLEAN, LoadForRemoval(j, purge)
  PROVE  Inv'
<1> USE DEF LoadForRemoval, Inv, world, jobs, doubts
<1>1. /\ Locals' /\ Batches' /\ Homes' /\ Ledgered' = Ledgered
      /\ \A r : Held(r)' <=> Held(r)
      /\ \A r : Kept(r)' <=> Kept(r)
  BY PollersStay
<1>2. Asked' = Asked /\ uncertain \subseteq uncertain' /\ rm.ids = {}
  BY DEF Asked, Numbers
<1>3. rm' \in Removal
  <2>1. CreatedRecordIDs(j) \subseteq Records
    BY DEF CreatedRecordIDs, Ledgered, Shape, Rows, NoRow
  <2> QED BY <2>1, ServiceAssumption DEF Removal, RemovalStages, Shape
<1>4. Shape'
  BY <1>3 DEF Shape
<1>5. Numbers'
  BY <1>2, ServiceAssumption DEF Numbers, Shape
<1>6. Booked' /\ Pointing'
  BY <1>1 DEF Booked, Pointing, There
<1>7. OnlyOwnRecords'
  BY DEF OnlyOwnRecords, CreatedRecordIDs, Booked
<1>8. Requests'
  BY <1>2 DEF Requests
<1>9. Wanted' /\ Twins'
  BY <1>2, NoMoreAsked
<1>10. Accounted'
  <2>1. \A r \in Asked : r.job \in exists => r \in uncertain' \/ Kept(r)' \/ Held(r)'
    BY <1>1, <1>2 DEF Accounted
  <2>2. ASSUME purge, NEW r \in Asked, r.job = j PROVE r \in uncertain' \cup rm'.ids
    <3>1. CASE Kept(r)
      BY <2>2, <3>1 DEF Kept, Booked, CreatedRecordIDs
    <3>2. CASE Held(r)
      <4>1. PICK p \in Pollers : r \in InHand(p)
        BY <3>2 DEF Held
      <4>2. pl[p].job = j
        BY <2>2, <4>1 DEF InHand, CreatedBy, Locals, LocalsOf
      <4> QED BY <4>1, <4>2
    <3> QED BY <2>2, <3>1, <3>2, <1>2 DEF Accounted
  <2>3. \A r \in Asked : r.job \in purged => r \in uncertain' \cup unfinished
    BY <1>2 DEF Accounted
  <2> QED BY <2>1, <2>2, <2>3, <1>2 DEF Accounted
<1>11. Behind'
  BY <1>1 DEF Behind, Settled, Subs
<1> QED BY <1>1, <1>4, <1>5, <1>6, <1>7, <1>8, <1>9, <1>10, <1>11

LEMMA DeleteJobKeeps == ASSUME Inv, DeleteJob PROVE Inv'
<1> USE DEF DeleteJob, Inv, world
<1>1. /\ exists' = exists \ {rm.job} /\ rm.job \in exists
      /\ rm' = [rm EXCEPT !.pc = "deleting"]
  BY DEF Numbers
<1>2. rm' \in Removal /\ rm'.pc = "deleting" /\ rm'.job = rm.job
      /\ rm'.ids = rm.ids /\ rm'.purge = rm.purge
  BY <1>1 DEF Shape, Removal, RemovalStages
<1>3. \A s \in Submissions :
        ledger'[s] = IF ledger[s].job = rm.job THEN NoRow ELSE ledger[s]
  BY DEF Cascade
<1>4. /\ Ledgered' = {s \in Ledgered : ledger[s].job # rm.job}
      /\ \A s \in Ledgered' : ledger'[s] = ledger[s]
  <2>1. \A s \in Submissions : ledger[s] = NoRow => ledger[s].job = 0
    BY DEF NoRow
  <2> QED BY <1>3, <2>1 DEF Ledgered
<1>5. Shape'
  <2>1. ledger' \in [Submissions -> Rows \cup {NoRow}]
    BY DEF Cascade, Shape
  <2> QED BY <2>1, <1>1, <1>2 DEF Shape
<1>6. Asked' = Asked /\ \A r : Held(r)' <=> Held(r)
  BY DEF Asked, Held, InHand, CreatedBy
<1>7. Numbers'
  <2>1. purged' \subseteq (1..inserted) \ exists'
    BY <1>1 DEF Numbers, Shape
  <2> QED BY <2>1, <1>1, <1>2, <1>6, ServiceAssumption DEF Numbers, Shape, Removal
<1>8. Locals' /\ Batches'
  BY DEF Locals, LocalsOf, Batches
<1>9. Booked'
  BY <1>1, <1>4 DEF Booked
<1>10. Pointing'
  BY <1>1, <1>4 DEF Pointing, There
<1>11. OnlyOwnRecords' /\ Requests'
  BY <1>2, <1>6 DEF OnlyOwnRecords, Requests
<1>12. Wanted' /\ Twins'
  BY <1>6, NoMoreAsked
<1>13. Homes'
  BY <1>4 DEF Homes, InHand, CreatedBy, Subs
<1>14. Accounted'
  <2>1. ASSUME NEW r \in Asked, r.job \in exists'
        PROVE  r \in uncertain \/ Kept(r)' \/ Held(r)
    BY <2>1, <1>1, <1>4 DEF Accounted, Kept, Booked
  <2>2. ASSUME NEW r \in Asked, r.job \in purged'
        PROVE  r \in uncertain \cup unfinished \cup rm.ids
    BY <2>2, <1>1 DEF Accounted
  <2> QED BY <2>1, <2>2, <1>1, <1>2, <1>6 DEF Accounted
<1>15. Behind'
  <2>1. CASE exists = {rm.job}
    BY <2>1, <1>1 DEF Behind
  <2>2. CASE exists # {rm.job}
    <3>1. Settled \subseteq Settled'
      BY <2>2, <1>4 DEF Settled
    <3> QED BY <3>1, <1>1 DEF Behind, Subs
  <2> QED BY <2>1, <2>2
<1> QED BY <1>5, <1>7, <1>8, <1>9, <1>10, <1>11, <1>12, <1>13, <1>14, <1>15

LEMMA DeleteSomeKeeps == ASSUME Inv, DeleteSome PROVE Inv'
<1> USE DEF DeleteSome, Inv, jobs, history, doubts
<1>1. PICK chunk \in SUBSET rm.ids :
        /\ chunk \subseteq live /\ live' = live \ chunk
        /\ rm' = [rm EXCEPT !.ids = @ \ chunk]
  BY DEF NextChunks, Known
<1>2. rm' \in Removal /\ rm'.pc = "deleting" /\ rm'.job = rm.job
      /\ rm'.ids = rm.ids \ chunk /\ rm'.purge = rm.purge
  BY <1>1 DEF Shape, Removal
<1>3. Asked' = Asked \ chunk
  BY <1>1 DEF Asked, Requests
<1>4. /\ Locals' /\ Batches' /\ Homes' /\ Ledgered' = Ledgered
      /\ \A r : Held(r)' <=> Held(r)
      /\ \A r : Kept(r)' <=> Kept(r)
  BY PollersStay
<1>5. Shape'
  BY <1>1, <1>2 DEF Shape
<1>6. Numbers'
  BY <1>2, <1>3 DEF Numbers
<1>7. Booked'
  BY <1>4 DEF Booked
<1>8. Pointing'
  <2>1. \A r \in chunk : r.job \notin exists
    BY <1>1 DEF OnlyOwnRecords, Numbers
  <2>2. \A rec : There(rec) => There(rec)' \/ rec.job \notin exists
    BY <1>1, <2>1 DEF There
  <2> QED BY <2>2, <1>4 DEF Pointing
<1>9. OnlyOwnRecords' /\ Requests'
  BY <1>1, <1>2, <1>3 DEF OnlyOwnRecords, Requests
<1>10. Wanted' /\ Twins'
  BY <1>3, NoMoreAsked
<1>11. Accounted'
  BY <1>2, <1>3, <1>4 DEF Accounted
<1>12. Behind'
  BY <1>4 DEF Behind, Settled, Subs
<1> QED BY <1>4, <1>5, <1>6, <1>7, <1>8, <1>9, <1>10, <1>11, <1>12

(* What a removal that ends early leaves is known. *)
LEMMA LeftUnfinished ==
  ASSUME Shape, Numbers, OnlyOwnRecords, Pointing, Accounted,
         \/ LeaveUnfinished
         \/ unfinished' = unfinished \cup rm.ids /\ UNCHANGED doomed
         \/ rm.ids = {} /\ UNCHANGED <<unfinished, doomed>>
  PROVE  /\ doomed' \in SUBSET SUBSET Records
         /\ \A chunk \in doomed' : \A r \in chunk : r.job <= inserted /\ r.job \notin exists
         /\ \A r \in Asked : r.job \in purged => r \in uncertain \cup unfinished'
<1>1. rm \in Removal /\ \A r \in rm.ids : r.job = rm.job
  BY DEF Shape, OnlyOwnRecords
<1>2. ASSUME NEW chunk \in doomed', chunk \notin doomed
      PROVE  rm.pc = "deleting" /\ chunk \subseteq rm.ids
  BY <1>2 DEF LeaveUnfinished, NextChunks
<1>3. doomed' \in SUBSET SUBSET Records
  BY <1>1, <1>2 DEF Shape, Removal
<1>4. \A chunk \in doomed' : \A r \in chunk : r.job <= inserted /\ r.job \notin exists
  BY <1>1, <1>2 DEF Pointing, Numbers
<1>5. ASSUME NEW r \in Asked, r.job \in purged PROVE r \in uncertain \cup unfinished'
  <2>1. CASE r \in uncertain \cup unfinished
    BY <2>1 DEF LeaveUnfinished
  <2>2. CASE r \in rm.ids
    <3>1. rm.pc = "deleting"
      BY <1>1, <1>5, <2>2 DEF Numbers, Removal, RemovalStages
    <3> QED BY <2>2, <3>1 DEF LeaveUnfinished
  <2> QED BY <1>5, <2>1, <2>2 DEF Accounted
<1> QED BY <1>3, <1>4, <1>5

LEMMA RemovalEndsKeeps == ASSUME Inv, RemovalFails \/ RemovalDone PROVE Inv'
<1> USE DEF Inv
<1>1. rm' = NoRequest /\ NoRequest \in Removal
  BY ServiceAssumption DEF NoRequest, Removal, RemovalStages, RemovalFails, RemovalDone
<1>2. UNCHANGED <<visible, live, inflight, count, base, jobs, ledger, pl, contested,
                  abandoned, uncertain, orphaned, purged, byHand>>
  BY DEF RemovalFails, RemovalDone, world, jobs, history, doubts
<1> USE DEF jobs
<1>3. /\ doomed' \in SUBSET SUBSET Records
      /\ \A chunk \in doomed' : \A r \in chunk : r.job <= inserted /\ r.job \notin exists
      /\ \A r \in Asked : r.job \in purged => r \in uncertain \cup unfinished'
  <2>1. \/ LeaveUnfinished
        \/ unfinished' = unfinished \cup rm.ids /\ UNCHANGED doomed
        \/ rm.ids = {} /\ UNCHANGED <<unfinished, doomed>>
    BY DEF RemovalFails, RemovalDone, world, history, doubts
  <2> QED BY <2>1, LeftUnfinished
<1>4. Asked' = Asked
  BY <1>2 DEF Asked
<1>5. /\ Locals' /\ Batches' /\ Homes' /\ Ledgered' = Ledgered
      /\ \A r : Held(r)' <=> Held(r)
      /\ \A r : Kept(r)' <=> Kept(r)
  BY <1>2, PollersStay
<1>6. Shape'
  <2>1. faults' \in 0..MaxFaults
    BY ServiceAssumption DEF Shape, Budget, RemovalFails, RemovalDone
  <2> QED BY <1>1, <1>2, <1>3, <2>1 DEF Shape
<1>7. Numbers'
  BY <1>1, <1>2, <1>4 DEF Numbers, NoRequest, Shape
<1>8. Booked'
  BY <1>2, <1>5 DEF Booked
<1>9. Pointing'
  BY <1>2, <1>3, <1>5 DEF Pointing, There
<1>10. OnlyOwnRecords' /\ Requests'
  BY <1>1, <1>2, <1>4 DEF OnlyOwnRecords, NoRequest, Requests
<1>11. Wanted' /\ Twins'
  BY <1>2, <1>4, NoMoreAsked
<1>12. Accounted'
  BY <1>1, <1>2, <1>3, <1>4, <1>5 DEF Accounted, NoRequest
<1>13. Behind'
  BY <1>2, <1>5 DEF Behind, Settled, Subs
<1> QED BY <1>5, <1>6, <1>7, <1>8, <1>9, <1>10, <1>11, <1>12, <1>13

-----------------------------------------------------------------------------
(* Steps of the pollers.  Some facts they share: what setting one poller's   *)
(* state does to the others, what ending a batch does to the cursor, and what *)
(* a poller's own bookkeeping cannot disturb.                                *)
LEMMA OneMoves ==
  ASSUME Shape, NEW p \in Pollers, NEW st \in PollerState, pl' = [pl EXCEPT ![p] = st]
  PROVE  /\ pl' \in [Pollers -> PollerState] /\ pl'[p] = st
         /\ \A q \in Pollers : q # p => pl'[q] = pl[q]
BY DEF Shape

LEMMA BatchEnds ==
  ASSUME Inv, NEW p \in Pollers, NEW failed \in BOOLEAN, EndBatch(p, failed),
         pl[p].pc \in {"ledger", "stamps", "creating"},
         pl[p].pc = "creating" => pl[p].todo = {}
  PROVE  /\ pl' \in [Pollers -> PollerState]
         /\ \A q \in Pollers : q # p => pl'[q] = pl[q]
         /\ pl'[p].pc = "persisting" /\ pl'[p].job = pl[p].job
         /\ pl'[p].todo = {} /\ pl'[p].rows = {} /\ pl'[p].batch = {}
         /\ pl[p].sent = {} /\ pl'[p].sent = {} /\ ~pl'[p].err
         /\ IF failed THEN pl'[p].cursor = pl[p].cursor
            ELSE 1..pl'[p].cursor \subseteq (1..pl[p].cursor) \cup pl[p].batch
<1> DEFINE Greatest == CHOOSE c \in pl[p].batch : \A s \in pl[p].batch : s <= c
           cursor == IF failed \/ pl[p].batch = {} THEN pl[p].cursor ELSE Greatest
           st == [pl[p] EXCEPT !.pc = "persisting", !.todo = {}, !.rows = {},
                               !.batch = {}, !.err = FALSE, !.cursor = cursor]
<1>1. pl[p] \in PollerState /\ pl[p].sent = {}
  BY DEF Inv, Shape, Locals, LocalsOf
<1>2. cursor \in 0..Last /\ (~failed => 1..cursor \subseteq (1..pl[p].cursor) \cup pl[p].batch)
  <2>1. CASE failed \/ pl[p].batch = {}
    BY <2>1, <1>1 DEF PollerState
  <2>2. CASE ~failed /\ pl[p].batch # {}
    <3>1. PICK v \in 0..Last : pl[p].batch = {s \in 1..v : s >= pl[p].cursor}
      BY DEF Inv, Batches
    <3>2. v \in pl[p].batch /\ \A s \in pl[p].batch : s <= v
      BY <2>2, <3>1, <1>1, ServiceAssumption DEF PollerState
    <3>3. Greatest \in pl[p].batch /\ \A s \in pl[p].batch : s <= Greatest
      BY <3>2
    <3> HIDE DEF Greatest
    <3> QED BY <2>2, <3>1, <3>3, <1>1, ServiceAssumption DEF PollerState
  <2> QED BY <2>1, <2>2
<1> HIDE DEF cursor
<1>3. st \in PollerState /\ st.pc = "persisting" /\ st.job = pl[p].job
      /\ st.todo = {} /\ st.rows = {} /\ st.batch = {} /\ ~st.err
      /\ st.cursor = cursor /\ st.sent = {}
  BY <1>1, <1>2 DEF PollerState, Stages
<1>4. pl' = [pl EXCEPT ![p] = st]
  BY DEF EndBatch, cursor, Inv, Shape
<1> HIDE DEF st
<1>5. /\ pl' \in [Pollers -> PollerState] /\ pl'[p] = st
      /\ \A q \in Pollers : q # p => pl'[q] = pl[q]
  BY <1>3, <1>4, OneMoves DEF Inv
<1>6. failed => cursor = pl[p].cursor
  BY DEF cursor
<1> QED BY <1>1, <1>2, <1>3, <1>5, <1>6

(* As long as a poller leaves the stores alone, asks for nothing, books        *)
(* nothing, and wants to create no more than before, only what is said of it   *)
(* is at stake.                                                              *)
LEMMA OthersKeep ==
  ASSUME Inv, NEW p \in Pollers,
         UNCHANGED <<live, inflight, doomed, count, base, inserted, exists, ledger,
                     rm, history>>,
         \A q \in Pollers : q # p => pl'[q] = pl[q],
         pl'[p].rows = pl[p].rows, pl'[p].sent = pl[p].sent,
         pl'[p].todo \subseteq pl[p].todo \/ pl'[p].todo \cap Ledgered = {},
         pl'[p].pc = "creating" => pl'[p].pc = pl[p].pc /\ pl'[p].todo \subseteq pl[p].todo
  PROVE  /\ Booked' /\ OnlyOwnRecords' /\ Requests' /\ Wanted' /\ Twins' /\ Homes'
         /\ Accounted' /\ Pointing'
<1> USE DEF Inv, history, doubts
<1>1. Ledgered' = Ledgered /\ Asked' = Asked
  BY DEF Ledgered, Asked
<1>2. \A q \in Pollers : pl'[q].rows = pl[q].rows /\ pl'[q].sent = pl[q].sent
  OBVIOUS
<1>3. \A q \in Pollers : InHand(q)' = InHand(q)
  BY <1>2 DEF InHand, CreatedBy
<1>4. Booked' /\ OnlyOwnRecords'
  BY <1>1 DEF Booked, OnlyOwnRecords
<1>5. Requests'
  BY <1>1, <1>2 DEF Requests
<1>6. Wanted' /\ Twins'
  <2>1. ASSUME NEW q \in Pollers, pl'[q].pc = "creating"
        PROVE  pl[q].pc = "creating" /\ pl'[q].todo \subseteq pl[q].todo
    BY <2>1
  <2> QED BY <2>1, <1>1, <1>2, NoMoreAsked
<1>7. Homes'
  <2> SUFFICES ASSUME NEW q \in Pollers, NEW s \in pl'[q].todo \cup Subs(pl'[q].rows),
                      s \in Ledgered, ledger[s].outcome = "created"
               PROVE  ledger[s].rec.base = base
    BY <1>1, <1>3 DEF Homes
  <2>1. s \in pl[q].todo \cup Subs(pl[q].rows)
    BY <1>2 DEF Subs
  <2> QED BY <2>1 DEF Homes
<1>8. Accounted'
  <2>1. \A r : Held(r)' <=> Held(r)
    BY <1>3 DEF Held
  <2> QED BY <1>1, <2>1 DEF Accounted, Kept
<1>9. Pointing'
  BY <1>1, <1>2 DEF Pointing, There
<1> QED BY <1>4, <1>5, <1>6, <1>7, <1>8, <1>9

LEMMA LocalsMove ==
  ASSUME Locals, NEW p \in Pollers, \A q \in Pollers : q # p => pl'[q] = pl[q],
         LocalsOf(pl'[p])
  PROVE  Locals'
BY DEF Locals

(* A poller between two batches, or at the start of one, has nothing in hand. *)
LEMMA EmptyHanded ==
  ASSUME Locals, Batches, NEW p \in Pollers,
         \A q \in Pollers : q # p => pl'[q] = pl[q],
         pl'[p].todo = {}, pl'[p].rows = {}, pl'[p].sent = {}, ~pl'[p].err,
         IF pl'[p].pc \in {"ledger", "stamps", "creating"}
           THEN \E v \in 0..Last : pl'[p].batch = {s \in 1..v : s >= pl'[p].cursor}
           ELSE pl'[p].batch = {}
  PROVE  Locals' /\ Batches'
<1>1. Locals'
  <2>1. LocalsOf(pl'[p])
    BY DEF LocalsOf
  <2> QED BY <2>1, LocalsMove
<1>2. Batches'
  <2> SUFFICES ASSUME NEW q \in Pollers
               PROVE  IF pl'[q].pc \in {"ledger", "stamps", "creating"}
                        THEN \E v \in 0..Last : pl'[q].batch = {s \in 1..v : s >= pl'[q].cursor}
                        ELSE pl'[q].batch = {}
    BY DEF Batches
  <2>1. CASE q = p
    BY <2>1
  <2>2. CASE q # p
    <3>1. pl'[q] = pl[q]
      BY <2>2
    <3> QED BY <3>1 DEF Batches
  <2> QED BY <2>1, <2>2
<1> QED BY <1>1, <1>2

LEMMA LaunchKeeps ==
  ASSUME Inv, NEW p \in Pollers, NEW j \in 1..inserted, Launch(p, j) PROVE Inv'
<1> USE DEF Launch, Inv, world, jobs, history, doubts
<1> DEFINE st == [Idle EXCEPT !.pc = "waiting", !.job = j, !.cursor = stored[j]]
<1>1. st \in PollerState /\ st.pc = "waiting" /\ st.job = j /\ st.cursor = stored[j]
      /\ st.todo = {} /\ st.rows = {} /\ st.sent = {} /\ st.batch = {} /\ ~st.err
  <2>1. j \in Jobs /\ j \in 0..MaxJobs /\ stored[j] \in 0..Last
    BY ServiceAssumption DEF Shape, Jobs
  <2>2. Idle \in PollerState /\ Idle.todo = {} /\ Idle.rows = {} /\ Idle.batch = {}
        /\ Idle.sent = {} /\ ~Idle.err
    BY ServiceAssumption DEF Idle, PollerState, Stages
  <2> QED BY <2>1, <2>2 DEF PollerState, Stages
<1> HIDE DEF st
<1>2. /\ pl' \in [Pollers -> PollerState] /\ pl'[p] = st
      /\ \A q \in Pollers : q # p => pl'[q] = pl[q]
  BY <1>1, OneMoves DEF st
<1>3. Shape'
  BY <1>2 DEF Shape
<1>4. Numbers'
  BY <1>1, <1>2 DEF Numbers, Shape, Asked
<1>5. Locals' /\ Batches'
  BY <1>1, <1>2, EmptyHanded, ZenonT(40)
<1>6. Behind'
  <2>1. Settled' = Settled
    BY DEF Settled, Ledgered
  <2> QED BY <1>1, <1>2, <2>1 DEF Behind, Subs
<1>7. pl[p].rows = {} /\ pl[p].sent = {}
  BY DEF Locals, LocalsOf
<1>8. /\ Booked' /\ OnlyOwnRecords' /\ Requests' /\ Wanted' /\ Twins' /\ Homes'
      /\ Accounted' /\ Pointing'
  BY <1>1, <1>2, <1>7, OthersKeep
<1> QED BY <1>3, <1>4, <1>5, <1>6, <1>8

LEMMA StopKeeps == ASSUME Inv, NEW p \in Pollers, Stop(p) PROVE Inv'
<1> USE DEF Stop, Inv, world, jobs, history, doubts
<1> DEFINE st == [pl[p] EXCEPT !.cancelled = TRUE]
<1>1. /\ st \in PollerState /\ st.pc = pl[p].pc /\ st.job = pl[p].job
      /\ st.cursor = pl[p].cursor /\ st.todo = pl[p].todo /\ st.rows = pl[p].rows
      /\ st.sent = pl[p].sent /\ st.batch = pl[p].batch /\ st.err = pl[p].err
  BY DEF PollerState, Shape
<1>2. pl' = [pl EXCEPT ![p] = st]
  BY DEF Shape
<1> HIDE DEF st
<1>3. /\ pl' \in [Pollers -> PollerState] /\ pl'[p] = st
      /\ \A q \in Pollers : q # p => pl'[q] = pl[q]
  BY <1>1, <1>2, OneMoves
<1>4. Shape'
  <2>1. faults' \in 0..MaxFaults
    BY ServiceAssumption DEF Budget, Shape
  <2> QED BY <2>1, <1>3 DEF Shape
<1>5. Numbers'
  BY <1>1, <1>3 DEF Numbers, Asked
<1>6. Locals'
  <2>1. LocalsOf(pl'[p])
    BY <1>1, <1>3 DEF Locals, LocalsOf
  <2> QED BY <2>1, <1>3, LocalsMove
<1>7. Batches'
  BY <1>1, <1>3 DEF Batches
<1>8. Behind'
  <2>1. Settled' = Settled
    BY DEF Settled, Ledgered
  <2> QED BY <1>1, <1>3, <2>1 DEF Behind, Subs
<1>9. /\ Booked' /\ OnlyOwnRecords' /\ Requests' /\ Wanted' /\ Twins' /\ Homes'
      /\ Accounted' /\ Pointing'
  BY <1>1, <1>3, OthersKeep
<1> QED BY <1>4, <1>5, <1>6, <1>7, <1>8, <1>9

LEMMA LeaveKeeps == ASSUME Inv, NEW p \in Pollers, Leave(p) PROVE Inv'
<1> USE DEF Leave, Inv, world, jobs, history, doubts
<1>1. Idle \in PollerState /\ Idle.pc = "idle" /\ Idle.job = 0 /\ Idle.rows = {}
      /\ Idle.todo = {} /\ Idle.sent = {} /\ Idle.batch = {} /\ ~Idle.err
  BY ServiceAssumption DEF Idle, PollerState, Stages
<1>2. /\ pl' \in [Pollers -> PollerState] /\ pl'[p] = Idle
      /\ \A q \in Pollers : q # p => pl'[q] = pl[q]
  BY <1>1, OneMoves
<1>3. Shape'
  BY <1>2 DEF Shape
<1>4. Numbers'
  BY <1>1, <1>2, ServiceAssumption DEF Numbers, Shape, Asked
<1>5. Locals' /\ Batches'
  BY <1>1, <1>2, EmptyHanded
<1>6. Behind'
  <2>1. Settled' = Settled /\ 0 \notin exists
    BY DEF Settled, Ledgered, Shape
  <2> QED BY <1>1, <1>2, <2>1 DEF Behind, Subs
<1>7. pl[p].rows = {} /\ pl[p].sent = {}
  BY DEF Locals, LocalsOf
<1>8. /\ Booked' /\ OnlyOwnRecords' /\ Requests' /\ Wanted' /\ Twins' /\ Homes'
      /\ Accounted' /\ Pointing'
  BY <1>1, <1>2, <1>7, OthersKeep
<1> QED BY <1>3, <1>4, <1>5, <1>6, <1>8

LEMMA BeginPassKeeps == ASSUME Inv, NEW p \in Pollers, BeginPass(p) PROVE Inv'
<1> USE DEF BeginPass, Inv, world, jobs, history, doubts
<1> DEFINE listed == {s \in 1..visible : s >= pl[p].cursor}
           st == [pl[p] EXCEPT !.pc = "ledger", !.batch = listed]
<1>1. st \in PollerState /\ st.pc = "ledger" /\ st.job = pl[p].job
      /\ st.cursor = pl[p].cursor /\ st.todo = {} /\ st.rows = {} /\ st.sent = {}
      /\ pl[p].rows = {} /\ pl[p].sent = {} /\ st.batch = listed /\ ~st.err
  <2>1. pl[p] \in PollerState /\ listed \in SUBSET Submissions
    BY ServiceAssumption DEF Shape, Submissions
  <2>2. pl[p].todo = {} /\ pl[p].rows = {} /\ pl[p].sent = {} /\ ~pl[p].err
    BY DEF Locals, LocalsOf
  <2> QED BY <2>1, <2>2 DEF PollerState, Stages
<1>2. pl' = [pl EXCEPT ![p] = st]
  BY DEF Shape
<1> HIDE DEF st
<1>3. /\ pl' \in [Pollers -> PollerState] /\ pl'[p] = st
      /\ \A q \in Pollers : q # p => pl'[q] = pl[q]
  BY <1>1, <1>2, OneMoves
<1>4. Shape'
  BY <1>3 DEF Shape
<1>5. Numbers'
  BY <1>1, <1>3, ZenonT(40) DEF Numbers, Shape, Asked
<1>6. Locals' /\ Batches'
  <2>1. visible \in 0..Last /\ pl'[p].batch = {s \in 1..visible : s >= pl'[p].cursor}
    <3>1. pl'[p].batch = listed /\ pl'[p].cursor = pl[p].cursor
      BY <1>1, <1>3, ZenonT(40)
    <3> QED BY <3>1, ZenonT(40) DEF Shape
  <2> QED BY <1>1, <1>3, <2>1, EmptyHanded
<1>7. Behind'
  <2>1. Settled' = Settled
    BY DEF Settled, Ledgered
  <2>2. pl'[p].pc = "ledger" /\ pl'[p].job = pl[p].job /\ pl'[p].cursor = pl[p].cursor
    BY <1>1, <1>3
  <2> QED BY <1>3, <2>1, <2>2 DEF Behind, Subs
<1>8. /\ pl'[p].todo = {} /\ pl'[p].rows = pl[p].rows /\ pl'[p].sent = pl[p].sent
      /\ pl'[p].pc # "creating"
  BY <1>1, <1>3
<1>9. /\ Booked' /\ OnlyOwnRecords' /\ Requests' /\ Wanted' /\ Twins' /\ Homes'
      /\ Accounted' /\ Pointing'
  BY <1>3, <1>8, OthersKeep
<1> QED BY <1>4, <1>5, <1>6, <1>7, <1>9

(* A batch that ends without a row booked: nothing was missing, or a lookup  *)
(* failed.                                                                  *)
LEMMA UnbookedEndKeeps ==
  ASSUME Inv, NEW p \in Pollers, NEW failed \in BOOLEAN, EndBatch(p, failed),
         pl[p].pc \in {"ledger", "stamps"}, failed \/ pl[p].batch \subseteq Ledgered,
         faults' \in 0..MaxFaults,
         UNCHANGED <<world, base, jobs, ledger, rm, history>>
  PROVE  Inv'
<1> USE DEF Inv, world, jobs, history, doubts
<1>1. /\ pl' \in [Pollers -> PollerState]
      /\ \A q \in Pollers : q # p => pl'[q] = pl[q]
      /\ pl'[p].pc = "persisting" /\ pl'[p].job = pl[p].job
      /\ pl'[p].todo = {} /\ pl'[p].rows = {} /\ pl'[p].batch = {}
      /\ pl[p].sent = {} /\ pl'[p].sent = {} /\ ~pl'[p].err
      /\ IF failed THEN pl'[p].cursor = pl[p].cursor
         ELSE 1..pl'[p].cursor \subseteq (1..pl[p].cursor) \cup pl[p].batch
  BY BatchEnds
<1>2. Shape'
  BY <1>1 DEF Shape
<1>3. Numbers'
  BY <1>1 DEF Numbers, Shape, Asked
<1>4. Locals' /\ Batches'
  BY <1>1, EmptyHanded
<1>5. Behind'
  <2>1. Settled' = Settled /\ Ledgered \subseteq Settled
    BY DEF Settled, Ledgered
  <2>2. pl[p].job \in exists => 1..pl'[p].cursor \subseteq Settled
    BY <1>1, <2>1 DEF Behind
  <2> QED BY <1>1, <2>1, <2>2 DEF Behind, Subs
<1>6. pl[p].rows = {}
  BY DEF Locals, LocalsOf
<1>7. /\ Booked' /\ OnlyOwnRecords' /\ Requests' /\ Wanted' /\ Twins' /\ Homes'
      /\ Accounted' /\ Pointing'
  BY <1>1, <1>6, OthersKeep
<1> QED BY <1>2, <1>3, <1>4, <1>5, <1>7

LEMMA CheckLedgerKeeps == ASSUME Inv, NEW p \in Pollers, CheckLedger(p) PROVE Inv'
<1> USE DEF CheckLedger, Inv
<1>1. CASE pl[p].batch \subseteq Ledgered
  <2>1. faults' \in 0..MaxFaults
    BY DEF Shape
  <2> QED BY <1>1, <2>1, UnbookedEndKeeps
<1>2. CASE ~(pl[p].batch \subseteq Ledgered)
  <2> USE DEF world, jobs, history, doubts
  <2> DEFINE missing == pl[p].batch \ Ledgered
             st == [pl[p] EXCEPT !.pc = "stamps", !.todo = missing]
  <2>1. st \in PollerState /\ st.pc = "stamps" /\ st.job = pl[p].job
        /\ st.cursor = pl[p].cursor /\ st.todo = missing /\ st.sent = pl[p].sent
        /\ st.rows = pl[p].rows /\ st.batch = pl[p].batch /\ st.err = pl[p].err
    <3>1. pl[p] \in PollerState /\ missing \in SUBSET Submissions
      BY DEF Shape, PollerState
    <3> QED BY ONLY <3>1 DEF PollerState, Stages
  <2>2. pl' = [pl EXCEPT ![p] = st]
    BY <1>2 DEF Shape
  <2> HIDE DEF st
  <2>3. /\ pl' \in [Pollers -> PollerState] /\ pl'[p] = st
        /\ \A q \in Pollers : q # p => pl'[q] = pl[q]
    BY <2>1, <2>2, OneMoves
  <2>4. Shape'
    BY <2>3 DEF Shape
  <2>5. Numbers'
    BY <2>1, <2>3 DEF Numbers, Shape, Asked
  <2>6. Locals'
    <3>1. LocalsOf(pl'[p])
      BY <2>1, <2>3 DEF Locals, LocalsOf
    <3> QED BY <2>3, <3>1, LocalsMove
  <2>7. Batches'
    BY <2>1, <2>3 DEF Batches
  <2>8. Behind'
    <3>1. Settled' = Settled /\ pl[p].batch \subseteq Settled \cup missing
      BY DEF Settled, Ledgered
    <3> QED BY <2>1, <2>3, <3>1 DEF Behind, Subs
  <2>9. /\ Booked' /\ OnlyOwnRecords' /\ Requests' /\ Wanted' /\ Twins' /\ Homes'
        /\ Accounted' /\ Pointing'
    <3>1. pl'[p].todo \cap Ledgered = {}
      BY <2>1, <2>3
    <3> QED BY <2>1, <2>3, <3>1, OthersKeep
  <2> QED BY <2>4, <2>5, <2>6, <2>7, <2>8, <2>9
<1> QED BY <1>1, <1>2

LEMMA LookupFailsKeeps == ASSUME Inv, NEW p \in Pollers, LookupFails(p) PROVE Inv'
<1>1. faults' \in 0..MaxFaults
  BY ServiceAssumption DEF LookupFails, CallFails, Budget, Inv, Shape
<1> QED BY <1>1, UnbookedEndKeeps DEF LookupFails

LEMMA CheckStampsKeeps == ASSUME Inv, NEW p \in Pollers, CheckStamps(p) PROVE Inv'
<1> USE DEF Inv, world, jobs
<1> DEFINE found   == {s \in pl[p].todo : StampedWith(s) # {}}
           missing == pl[p].todo \ found
           raced   == {m \in missing : \E q \in Pollers \ {p} :
                         pl[q].pc = "creating" /\ m \in pl[q].todo}
           row(s, r) == [job |-> pl[p].job, sub |-> s, rec |-> r,
                         outcome |-> "skipped_existing"]
<1>1. /\ pl[p].pc = "stamps" /\ pl[p].rows = {} /\ ~pl[p].err /\ pl[p].job \in Jobs
      /\ pl[p].job <= inserted /\ pl[p].todo \subseteq Submissions
      /\ pl[p] \in PollerState /\ pl[p].sent = {}
  <2>1. pl[p].pc = "stamps" /\ pl[p] \in PollerState
    BY DEF CheckStamps, Shape
  <2>2. pl[p].job # 0 /\ pl[p].job <= inserted
    BY <2>1 DEF Numbers
  <2>3. pl[p].rows = {} /\ pl[p].sent = {} /\ ~pl[p].err
    BY <2>1 DEF Locals, LocalsOf
  <2> QED BY <2>1, <2>2, <2>3, ServiceAssumption DEF PollerState, Jobs
<1>2. PICK pick \in [found -> live] :
        /\ \A s \in found : pick[s] \in StampedWith(s)
        /\ pl' = [pl EXCEPT ![p].pc = "creating", ![p].todo = missing,
                            ![p].rows = {row(s, pick[s]) : s \in found}]
  BY DEF CheckStamps
<1> DEFINE rows == {row(s, pick[s]) : s \in found}
           st == [pl[p] EXCEPT !.pc = "creating", !.todo = missing, !.rows = rows]
<1>3. rows \subseteq Rows
  <2>1. \A s \in found : s \in Submissions /\ pick[s] \in Records
    BY <1>1, <1>2 DEF Shape
  <2>2. \A s \in found : row(s, pick[s]) \in Rows
    BY <2>1, <1>1 DEF Rows
  <2> QED BY <2>2
<1>4. /\ st \in PollerState /\ st.pc = "creating" /\ st.job = pl[p].job
      /\ st.cursor = pl[p].cursor /\ st.batch = pl[p].batch /\ st.todo = missing
      /\ st.rows = rows /\ st.err = pl[p].err /\ st.sent = {}
  BY <1>1, <1>3 DEF PollerState, Stages
<1>5. pl' = [pl EXCEPT ![p] = st]
  BY <1>2 DEF Shape
<1>6. /\ \A w \in rows : /\ w.job = pl[p].job /\ w.sub \in found
                         /\ w.outcome = "skipped_existing" /\ w.rec \in live
                         /\ w = row(w.sub, pick[w.sub])
      /\ \A s \in found : \E w \in rows : w.sub = s
  <2>1. \A s \in found : row(s, pick[s]) \in rows /\ row(s, pick[s]).sub = s
    OBVIOUS
  <2>2. ASSUME NEW w \in rows
        PROVE  /\ w.job = pl[p].job /\ w.sub \in found
               /\ w.outcome = "skipped_existing" /\ w.rec \in live
               /\ w = row(w.sub, pick[w.sub])
    <3>1. PICK s \in found : w = row(s, pick[s])
      OBVIOUS
    <3>2. pick[s] \in live
      BY <1>2
    <3> QED BY <3>1, <3>2
  <2> QED BY <2>1, <2>2
<1> HIDE DEF st, rows
<1>7. /\ pl' \in [Pollers -> PollerState] /\ pl'[p] = st
      /\ \A q \in Pollers : q # p => pl'[q] = pl[q]
  BY <1>4, <1>5, OneMoves
<1>8. /\ UNCHANGED <<visible, live, inflight, doomed, count, base, inserted, exists,
                     jobBase, stored, ledger, rm, faults, abandoned, uncertain,
                     orphaned, purged, unfinished, byHand>>
      /\ contested' = contested \cup {<<s, base>> : s \in raced}
  BY DEF CheckStamps
<1> HIDE DEF found, missing
<1>9. Ledgered' = Ledgered /\ Asked' = Asked
  BY <1>8 DEF Ledgered, Asked
<1>10. Shape'
  BY <1>7, <1>8 DEF Shape
<1>11. Numbers'
  BY <1>1, <1>4, <1>7, <1>8, <1>9 DEF Numbers
<1>12. Locals'
  <2>1. LocalsOf(pl'[p])
    BY <1>4, <1>6, <1>7 DEF LocalsOf, missing
  <2> QED BY <2>1, <1>7, LocalsMove
<1>13. Booked' /\ OnlyOwnRecords'
  BY <1>8, <1>9 DEF Booked, OnlyOwnRecords
<1>14. \A q \in Pollers : pl'[q].sent = pl[q].sent
  BY <1>1, <1>4, <1>7
<1>15. Requests'
  BY <1>8, <1>9, <1>14 DEF Requests, Place
<1>16. Twins'
  BY <1>8, <1>9 DEF Twins, Place
<1>17. Wanted'
  <2>1. \A s : AskedFor(s)' = AskedFor(s)
    BY <1>8, <1>9 DEF AskedFor
  <2>2. \A s : Excused(s) => Excused(s)'
    BY <1>8 DEF Excused
  <2>3. ASSUME NEW q \in Pollers, q # p, pl[q].pc = "creating", NEW s \in pl[q].todo,
               s \in missing
        PROVE  Excused(s)'
    BY <2>3, <1>8 DEF Excused
  <2>4. ASSUME NEW s \in missing, ~Excused(s)' PROVE AskedFor(s) = {}
    <3> SUFFICES ASSUME NEW r \in Asked, r.sub = s, r.base = base PROVE FALSE
      BY DEF AskedFor
    <3>1. r \notin live
      BY DEF missing, found, StampedWith
    <3>2. r \in inflight /\ ~Excused(s)
      BY <3>1, <2>2, <2>4 DEF Asked
    <3>3. PICK q \in Pollers : r \in pl[q].sent
      BY <3>2 DEF Requests, Excused, Place
    <3>4. pl[q].pc = "creating" /\ s \in pl[q].todo /\ q # p
      BY <3>3, <1>1 DEF Locals, LocalsOf
    <3> QED BY <3>4, <2>3, <2>4
  <2> SUFFICES ASSUME NEW q \in Pollers, NEW s \in pl'[q].todo, pl'[q].pc = "creating",
                      ~Excused(s)'
               PROVE  /\ AskedFor(s) \subseteq pl'[q].sent
                      /\ \A o \in Pollers \ {q} : pl'[o].pc = "creating" => s \notin pl'[o].todo
    BY <2>1 DEF Wanted
  <2>5. CASE q = p
    <3>1. AskedFor(s) = {}
      BY <2>4, <2>5, <1>4, <1>7
    <3>2. \A o \in Pollers \ {q} : pl'[o].pc = "creating" => s \notin pl'[o].todo
      BY <2>3, <2>5, <1>4, <1>7
    <3> QED BY <3>1, <3>2
  <2>6. CASE q # p
    BY <2>2, <2>3, <2>6, <1>4, <1>7, <1>14 DEF Wanted
  <2> QED BY <2>5, <2>6
<1>18. Homes'
  <2>1. \A q \in Pollers : \A r : r \in InHand(q)' => r \in InHand(q)
    BY <1>1, <1>4, <1>6, <1>7 DEF InHand, CreatedBy
  <2>2. \A q \in Pollers : \A s : s \in pl'[q].todo \cup Subs(pl'[q].rows) =>
                                  s \in pl[q].todo \cup Subs(pl[q].rows)
    BY <1>4, <1>6, <1>7 DEF Subs, missing, found
  <2> QED BY <2>1, <2>2, <1>8, <1>9 DEF Homes
<1>19. Accounted'
  <2>1. \A r : Held(r) => Held(r)'
    BY <1>1, <1>7, <1>14 DEF Held, InHand, CreatedBy
  <2> QED BY <2>1, <1>8, <1>9 DEF Accounted, Kept
<1>20. Batches'
  BY <1>1, <1>4, <1>7 DEF Batches
<1>21. Behind'
  <2>1. Settled' = Settled
    BY <1>8, <1>9 DEF Settled
  <2>2. pl[p].todo \subseteq missing \cup Subs(rows)
    BY <1>6 DEF missing, Subs
  <2>3. pl[p].job \in exists => st.batch \subseteq Settled \cup st.todo \cup Subs(st.rows)
    BY <2>2, <1>1, <1>4 DEF Behind, Subs
  <2> QED BY <2>1, <2>3, <1>4, <1>7, <1>8 DEF Behind, Subs
<1>22. Pointing'
  <2>1. \A w \in rows : There(w.rec) /\ w.rec.job <= inserted
    BY <1>6 DEF There, Numbers, Asked
  <2> QED BY <2>1, <1>4, <1>7, <1>8, <1>9, <1>14 DEF Pointing, There
<1> QED BY <1>10, <1>11, <1>12, <1>13, <1>15, <1>16, <1>17, <1>18, <1>19, <1>20,
           <1>21, <1>22

LEMMA NewRecordType ==
  ASSUME Inv, NEW p \in Pollers, pl[p].pc = "creating", NEW s \in pl[p].todo,
         count < MaxRecords
  PROVE  /\ NewRecord(p, s) \in Records /\ NewRecord(p, s).job = pl[p].job
         /\ NewRecord(p, s).sub = s /\ NewRecord(p, s).base = base
         /\ NewRecord(p, s).id = count + 1
         /\ pl[p].job \in Jobs /\ pl[p].job <= inserted /\ s \in Submissions
<1>1. pl[p] \in PollerState /\ base \in Bases /\ count \in 0..MaxRecords
  BY DEF Inv, Shape
<1>2. pl[p].job # 0 /\ pl[p].job <= inserted
  BY DEF Inv, Numbers
<1> QED BY <1>1, <1>2, ServiceAssumption DEF PollerState, NewRecord, Records, Jobs

LEMMA SendKeeps == ASSUME Inv, NEW p \in Pollers, Send(p) PROVE Inv'
<1> USE DEF Inv
<1>1. /\ pl[p].pc = "creating" /\ pl[p].sent = {} /\ count < MaxRecords
      /\ count' = count + 1 /\ count \in Nat /\ count' \in 0..MaxRecords
      /\ pl[p] \in PollerState
      /\ UNCHANGED <<visible, live, doomed, base, inserted, exists, jobBase, stored,
                     ledger, rm, faults, contested, abandoned, orphaned, purged,
                     unfinished, byHand>>
  BY ServiceAssumption DEF Send, jobs, doubts, Shape
<1>2. PICK s \in pl[p].todo, r \in {NewRecord(p, t) : t \in pl[p].todo} :
        /\ r = NewRecord(p, s)
        /\ inflight' = inflight \cup {r}
        /\ pl' = [pl EXCEPT ![p].sent = {r}]
        /\ uncertain' = IF TooLate(pl[p].job) THEN uncertain \cup {r} ELSE uncertain
  BY DEF Send
<1> DEFINE st == [pl[p] EXCEPT !.sent = {r}]
<1>3. /\ r \in Records /\ r.job = pl[p].job /\ r.sub = s /\ r.base = base
      /\ r.id = count + 1 /\ pl[p].job <= inserted
  BY <1>1, <1>2, NewRecordType
<1>4. /\ inflight' = inflight \cup {r} /\ uncertain \subseteq uncertain'
      /\ (TooLate(pl[p].job) => r \in uncertain')
  BY <1>2
<1>5. /\ st \in PollerState /\ st.pc = "creating" /\ st.job = pl[p].job
      /\ st.cursor = pl[p].cursor /\ st.batch = pl[p].batch /\ st.todo = pl[p].todo
      /\ st.rows = pl[p].rows /\ st.err = pl[p].err /\ st.sent = {r}
  BY <1>1, <1>3 DEF PollerState
<1>6. pl' = [pl EXCEPT ![p] = st]
  BY <1>2 DEF Shape
<1> HIDE DEF st
<1>7. /\ pl' \in [Pollers -> PollerState] /\ pl'[p] = st
      /\ \A q \in Pollers : q # p => pl'[q] = pl[q]
  BY <1>5, <1>6, OneMoves
<1>8. Ledgered' = Ledgered /\ Asked' = Asked \cup {r}
  BY <1>1, <1>4 DEF Ledgered, Asked
<1>9. /\ \A t \in Asked : t \in Records /\ t.id <= count
      /\ \A q \in Pollers : \A t \in pl[q].sent : t \in Records /\ t.id <= count
      /\ \A t \in Records : t.id \in Nat
  BY DEF Shape, Requests, Asked, PollerState, Records
<1>10. /\ r \notin Asked /\ \A q \in Pollers : r \notin pl[q].sent
       /\ \A t \in Asked' : t.id <= count'
       /\ \A q \in Pollers : \A t \in pl[q].sent : t.id <= count'
  BY <1>1, <1>3, <1>8, <1>9
<1>11. Shape'
  BY <1>1, <1>3, <1>4, <1>7 DEF Shape
<1>12. Numbers'
  <2>1. \A t \in Asked' : t.job <= inserted
    BY <1>3, <1>8 DEF Numbers
  <2> QED BY <2>1, <1>1, <1>5, <1>7 DEF Numbers
<1>13. Locals'
  <2>1. LocalsOf(pl'[p])
    BY <1>1, <1>3, <1>5, <1>7 DEF Locals, LocalsOf
  <2> QED BY <2>1, <1>7, LocalsMove
<1>14. Booked' /\ OnlyOwnRecords'
  BY <1>1, <1>8 DEF Booked, OnlyOwnRecords
<1>15. Requests'
  <2>1. live' \cap inflight' = {}
    BY <1>1, <1>4, <1>10 DEF Requests, Asked
  <2>2. \A q \in Pollers : \A t \in pl'[q].sent : t.id <= count'
    BY <1>1, <1>3, <1>5, <1>7, <1>10
  <2>3. \A q, o \in Pollers : q # o => pl'[q].sent \cap pl'[o].sent = {}
    BY <1>5, <1>7, <1>10 DEF Requests
  <2>4. ASSUME NEW t \in inflight'
        PROVE  \/ \E q \in Pollers : t \in pl'[q].sent
               \/ t \in uncertain' /\ Place(t) \in abandoned'
    <3>1. CASE t = r
      BY <3>1, <1>5, <1>7
    <3>2. CASE t \in inflight
      BY <3>2, <1>1, <1>4, <1>7 DEF Requests
    <3> QED BY <3>1, <3>2, <1>4
  <2>5. \A t : Place(t)' = Place(t)
    BY DEF Place
  <2> QED BY <2>1, <2>2, <2>3, <2>4, <2>5, <1>10 DEF Requests
<1>16. \A t : t # s => AskedFor(t)' = AskedFor(t)
  BY <1>1, <1>3, <1>8 DEF AskedFor
<1>17. ASSUME ~Excused(s)
       PROVE  /\ AskedFor(s) = {}
              /\ \A q \in Pollers \ {p} : pl[q].pc = "creating" => s \notin pl[q].todo
  BY <1>1, <1>17 DEF Wanted
<1>18. Wanted'
  <2> SUFFICES ASSUME NEW q \in Pollers, NEW t \in pl'[q].todo, pl'[q].pc = "creating",
                      ~Excused(t)'
               PROVE  /\ AskedFor(t)' \subseteq pl'[q].sent
                      /\ \A o \in Pollers \ {q} : pl'[o].pc = "creating" => t \notin pl'[o].todo
    BY DEF Wanted
  <2>1. ~Excused(t)
    BY <1>1 DEF Excused
  <2>2. \A o \in Pollers : pl'[o].pc = pl[o].pc /\ pl'[o].todo = pl[o].todo
    BY <1>1, <1>5, <1>7
  <2>3. AskedFor(t) \subseteq pl[q].sent
    BY <2>1, <2>2 DEF Wanted
  <2>4. CASE t = s
    <3>1. q = p
      BY <2>1, <2>2, <2>4, <1>17
    <3>2. AskedFor(t)' \subseteq {r}
      BY <2>1, <2>4, <1>1, <1>8, <1>17 DEF AskedFor
    <3> QED BY <3>1, <3>2, <2>1, <2>2, <2>4, <1>5, <1>7, <1>17
  <2>5. CASE t # s
    <3>1. pl[q].sent \subseteq pl'[q].sent
      BY <1>1, <1>7
    <3>2. \A o \in Pollers \ {q} : pl'[o].pc = "creating" => t \notin pl'[o].todo
      BY <2>1, <2>2 DEF Wanted
    <3> QED BY <3>1, <3>2, <2>3, <2>5, <1>16
  <2> QED BY <2>4, <2>5
<1>19. Twins'
  <2>1. ASSUME NEW t \in Asked, t.sub = s, t.base = base
        PROVE  <<s, base>> \in contested \cup abandoned
    BY <2>1, <1>17 DEF AskedFor, Excused
  <2>2. Place(r) = <<s, base>> /\ \A t : t.sub = s /\ t.base = base => Place(t) = <<s, base>>
    BY <1>3 DEF Place
  <2> SUFFICES ASSUME NEW a \in Asked', NEW b \in Asked', a.sub = b.sub,
                      a.base = b.base, a # b
               PROVE  Place(a) \in contested \cup abandoned
    BY <1>1 DEF Twins, Place
  <2>3. CASE a \in Asked /\ b \in Asked
    BY <2>3 DEF Twins
  <2>4. CASE a = r
    BY <2>1, <2>2, <2>4, <1>3, <1>8
  <2>5. CASE b = r
    BY <2>1, <2>2, <2>5, <1>3, <1>8
  <2> QED BY <2>3, <2>4, <2>5, <1>8
<1>20. Homes'
  <2>1. \A q \in Pollers : pl'[q].rows = pl[q].rows /\ pl'[q].todo = pl[q].todo
    BY <1>5, <1>7
  <2>2. \A q \in Pollers : InHand(q)' \subseteq InHand(q) \cup {r}
    BY <1>5, <1>7 DEF InHand, CreatedBy
  <2> QED BY <2>1, <2>2, <1>1, <1>3, <1>8 DEF Homes, Subs
<1>21. Accounted'
  <2>1. \A t : Held(t) => Held(t)'
    BY <1>1, <1>5, <1>7 DEF Held, InHand, CreatedBy
  <2>2. Held(r)'
    <3>1. r \in pl'[p].sent
      BY <1>5, <1>7
    <3> QED BY ONLY <3>1, p \in Pollers DEF Held, InHand
  <2>3. r.job \in purged \/ (rm.pc # "idle" /\ rm.job = r.job) => r \in uncertain'
    <3>1. purged \cap exists = {}
      BY DEF Numbers
    <3> QED BY <3>1, <1>3, <1>4 DEF TooLate
  <2>4. \A t : Kept(t)' <=> Kept(t)
    BY <1>1, <1>8 DEF Kept
  <2>5. \A t \in Asked' : t.job \in exists => t \in uncertain' \/ Kept(t)' \/ Held(t)'
    BY <2>1, <2>2, <2>4, <1>4, <1>8 DEF Accounted
  <2>6. rm.pc # "idle" /\ rm.job \in exists /\ rm.purge =>
          \A t \in Asked' : t.job = rm.job => t \in uncertain' \cup rm.ids
    BY <2>3, <1>4, <1>8 DEF Accounted
  <2>7. \A t \in Asked' : t.job \in purged => t \in uncertain' \cup unfinished \cup rm.ids
    BY <2>3, <1>4, <1>8 DEF Accounted
  <2> QED BY <2>5, <2>6, <2>7, <1>1 DEF Accounted
<1>22. Batches'
  BY <1>1, <1>5, <1>7 DEF Batches
<1>23. Behind'
  <2>1. Settled' = Settled
    BY <1>1, <1>8 DEF Settled
  <2> QED BY <2>1, <1>1, <1>5, <1>7 DEF Behind, Subs
<1>24. Pointing'
  <2>1. \A q \in Pollers : \A t \in pl'[q].sent :
          t \in inflight' \/ There(t) \/ t.job \notin exists
    BY <1>4, <1>5, <1>7 DEF Pointing
  <2>2. \A q \in Pollers : pl'[q].rows = pl[q].rows
    BY <1>5, <1>7
  <2> QED BY <2>1, <2>2, <1>1, <1>8 DEF Pointing, There
<1> QED BY <1>11, <1>12, <1>13, <1>14, <1>15, <1>18, <1>19, <1>20, <1>21, <1>22,
           <1>23, <1>24

LEMMA CreateKeeps == ASSUME Inv, NEW p \in Pollers, Create(p) PROVE Inv'
<1> USE DEF Inv
<1> DEFINE row(r) == [job |-> pl[p].job, sub |-> r.sub, rec |-> r, outcome |-> "created"]
<1>1. /\ pl[p].pc = "creating" /\ pl[p].sent \cap inflight = {}
      /\ pl[p] \in PollerState
      /\ UNCHANGED <<visible, live, inflight, doomed, count, base, inserted, exists,
                     jobBase, stored, ledger, rm, faults, contested, abandoned,
                     uncertain, orphaned, purged, unfinished, byHand>>
  BY DEF Create, world, jobs, history, doubts, Shape
<1>2. PICK r \in pl[p].sent :
        pl' = [pl EXCEPT ![p].sent = {}, ![p].todo = @ \ {r.sub},
                         ![p].rows = @ \cup {row(r)}]
  BY DEF Create
<1> DEFINE st == [pl[p] EXCEPT !.sent = {}, !.todo = @ \ {r.sub},
                               !.rows = @ \cup {row(r)}]
<1>3. /\ r \in Records /\ r.job = pl[p].job /\ r.sub \in pl[p].todo
      /\ \A t \in pl[p].sent : t = r
      /\ pl[p].job \in Jobs /\ pl[p].job <= inserted /\ r.sub \in Submissions
  <2>1. r \in Records /\ r.job = pl[p].job /\ r.sub \in pl[p].todo
        /\ \A t \in pl[p].sent : t = r
    BY <1>1 DEF Locals, LocalsOf, PollerState
  <2>2. pl[p].job <= inserted
    BY DEF Numbers
  <2> QED BY <2>1, <2>2, <1>1 DEF PollerState, Records
<1>4. row(r) \in Rows /\ row(r).sub = r.sub /\ row(r).rec = r
      /\ row(r).job = pl[p].job /\ row(r).outcome = "created"
  BY <1>3 DEF Rows
<1> HIDE DEF row
<1>5. /\ st \in PollerState /\ st.pc = "creating" /\ st.job = pl[p].job
      /\ st.cursor = pl[p].cursor /\ st.batch = pl[p].batch
      /\ st.todo = pl[p].todo \ {r.sub} /\ st.rows = pl[p].rows \cup {row(r)}
      /\ st.err = pl[p].err /\ st.sent = {}
  BY <1>1, <1>4 DEF PollerState
<1>6. pl' = [pl EXCEPT ![p] = st]
  BY <1>2 DEF Shape
<1> HIDE DEF st
<1>7. /\ pl' \in [Pollers -> PollerState] /\ pl'[p] = st
      /\ \A q \in Pollers : q # p => pl'[q] = pl[q]
  BY <1>5, <1>6, OneMoves
<1>8. Ledgered' = Ledgered /\ Asked' = Asked
  BY <1>1 DEF Ledgered, Asked
<1>9. \A q \in Pollers : \A t : t \in InHand(q)' <=> t \in InHand(q)
  <2>1. ASSUME NEW t PROVE t \in CreatedBy(st.rows) <=> t \in CreatedBy(pl[p].rows) \/ t = r
    BY <1>4, <1>5 DEF CreatedBy
  <2>2. \A t : t \in InHand(p)' <=> t \in InHand(p)
    BY <2>1, <1>3, <1>5, <1>7 DEF InHand
  <2>3. \A q \in Pollers : q # p => InHand(q)' = InHand(q)
    BY <1>7 DEF InHand, CreatedBy
  <2> QED BY <2>2, <2>3
<1>10. Shape'
  BY <1>1, <1>7 DEF Shape
<1>11. Numbers'
  BY <1>1, <1>5, <1>7, <1>8 DEF Numbers
<1>12. Locals'
  <2>1. \A w \in pl[p].rows : w.sub # r.sub
    BY <1>3 DEF Locals, LocalsOf
  <2>2. LocalsOf(st)
    BY <2>1, <1>1, <1>3, <1>4, <1>5 DEF Locals, LocalsOf
  <2> QED BY <2>2, <1>7, LocalsMove
<1>13. Booked' /\ OnlyOwnRecords'
  BY <1>1, <1>8 DEF Booked, OnlyOwnRecords
<1>14. Requests'
  <2>1. \A q \in Pollers : pl'[q].sent \subseteq pl[q].sent
    BY <1>5, <1>7
  <2>2. ASSUME NEW t \in inflight
        PROVE  \/ \E q \in Pollers : t \in pl'[q].sent
               \/ t \in uncertain /\ Place(t) \in abandoned
    BY <1>1, <1>7 DEF Requests
  <2> QED BY <2>1, <2>2, <1>1, <1>8 DEF Requests, Place
<1>15. Wanted' /\ Twins'
  <2>1. \A q \in Pollers : pl'[q].pc = "creating" =>
          /\ pl[q].pc = "creating" /\ pl'[q].todo \subseteq pl[q].todo
          /\ \A t \in pl[q].sent : t.sub \in pl'[q].todo => t \in pl'[q].sent
    BY <1>1, <1>3, <1>5, <1>7
  <2> QED BY <2>1, <1>1, <1>8, NoMoreAsked
<1>16. Homes'
  <2>1. \A q \in Pollers : \A s : s \in pl'[q].todo \cup Subs(pl'[q].rows) =>
                                  s \in pl[q].todo \cup Subs(pl[q].rows)
    BY <1>3, <1>4, <1>5, <1>7 DEF Subs
  <2> QED BY <2>1, <1>1, <1>8, <1>9 DEF Homes
<1>17. Accounted'
  BY <1>1, <1>8, <1>9 DEF Accounted, Held, Kept
<1>18. Batches'
  BY <1>1, <1>5, <1>7 DEF Batches
<1>19. Behind'
  <2>1. Settled' = Settled
    BY <1>1, <1>8 DEF Settled
  <2>2. pl[p].todo \cup Subs(pl[p].rows) \subseteq st.todo \cup Subs(st.rows)
    BY <1>4, <1>5 DEF Subs
  <2>3. pl[p].job \in exists =>
          /\ 1..st.cursor \subseteq Settled
          /\ ~st.err => st.batch \subseteq Settled \cup st.todo \cup Subs(st.rows)
    BY <2>2, <1>1, <1>5 DEF Behind
  <2> HIDE DEF Subs
  <2> QED BY <2>1, <2>3, <1>1, <1>5, <1>7 DEF Behind
<1>20. Pointing'
  <2>1. There(r) \/ r.job \notin exists
    BY <1>1 DEF Pointing
  <2>2. \A t : There(t)' <=> There(t)
    BY <1>1 DEF There
  <2>3. ASSUME NEW q \in Pollers, NEW w \in pl'[q].rows
        PROVE  /\ There(w.rec) \/ w.rec.job \notin exists
               /\ w.rec.job <= inserted
    <3>1. CASE w \in pl[q].rows
      BY <3>1 DEF Pointing
    <3>2. CASE w \notin pl[q].rows
      <4>1. w = row(r)
        BY <3>2, <1>5, <1>7
      <4> QED BY <4>1, <2>1, <1>3, <1>4
    <3> QED BY <3>1, <3>2
  <2>4. \A q \in Pollers : pl'[q].sent \subseteq pl[q].sent
    BY <1>5, <1>7
  <2> QED BY <2>2, <2>3, <2>4, <1>1, <1>8 DEF Pointing
<1> QED BY <1>10, <1>11, <1>12, <1>13, <1>14, <1>15, <1>16, <1>17, <1>18, <1>19, <1>20

LEMMA CreateFailsKeeps == ASSUME Inv, NEW p \in Pollers, CreateFails(p) PROVE Inv'
<1> USE DEF Inv
<1> DEFINE st == [pl[p] EXCEPT !.todo = {}, !.sent = {}, !.err = TRUE]
<1>1. /\ pl[p].pc = "creating" /\ pl[p] \in PollerState
      /\ UNCHANGED <<visible, live, doomed, count, base, inserted, exists, jobBase,
                     stored, ledger, rm, contested, orphaned, purged, unfinished,
                     byHand>>
      /\ uncertain' = uncertain \cup pl[p].sent
  BY DEF CreateFails, jobs, Shape
<1>2. /\ inflight' \subseteq inflight /\ abandoned \subseteq abandoned'
      /\ \A t \in inflight \ inflight' : t \in pl[p].sent
      /\ \A t \in inflight' \cap pl[p].sent : Place(t) \in abandoned'
  BY DEF CreateFails
<1>3. /\ st \in PollerState /\ st.pc = "creating" /\ st.job = pl[p].job
      /\ st.cursor = pl[p].cursor /\ st.batch = pl[p].batch /\ st.todo = {}
      /\ st.rows = pl[p].rows /\ st.err /\ st.sent = {}
  BY <1>1 DEF PollerState
<1>4. pl' = [pl EXCEPT ![p] = st]
  BY DEF CreateFails, Shape
<1> HIDE DEF st
<1>5. /\ pl' \in [Pollers -> PollerState] /\ pl'[p] = st
      /\ \A q \in Pollers : q # p => pl'[q] = pl[q]
  BY <1>3, <1>4, OneMoves
<1>6. Ledgered' = Ledgered /\ Asked' \subseteq Asked
  BY <1>1, <1>2 DEF Ledgered, Asked
<1>7. \A q \in Pollers : pl'[q].rows = pl[q].rows /\ pl'[q].sent \subseteq pl[q].sent
  BY <1>3, <1>5
<1>8. Shape'
  <2>1. faults' \in 0..MaxFaults
    BY ServiceAssumption DEF CreateFails, CallFails, Budget, Shape
  <2> QED BY <2>1, <1>1, <1>2, <1>5 DEF Shape
<1>9. Numbers'
  BY <1>1, <1>3, <1>5, <1>6 DEF Numbers
<1>10. Locals'
  <2>1. LocalsOf(pl'[p])
    BY <1>3, <1>5 DEF Locals, LocalsOf
  <2> QED BY <2>1, <1>5, LocalsMove
<1>11. Booked' /\ OnlyOwnRecords'
  BY <1>1, <1>6 DEF Booked, OnlyOwnRecords
<1>12. Requests'
  <2>1. live' \cap inflight' = {}
    BY <1>1, <1>2 DEF Requests
  <2>2. \A q, o \in Pollers : q # o => pl'[q].sent \cap pl'[o].sent = {}
    BY <1>7 DEF Requests
  <2>3. ASSUME NEW t \in inflight'
        PROVE  \/ \E q \in Pollers : t \in pl'[q].sent
               \/ t \in uncertain' /\ Place(t) \in abandoned'
    <3>1. CASE t \in pl[p].sent
      BY <3>1, <1>1, <1>2
    <3>2. CASE t \notin pl[p].sent
      BY <3>2, <1>1, <1>2, <1>5 DEF Requests
    <3> QED BY <3>1, <3>2
  <2>4. \A q \in Pollers : \A t \in pl'[q].sent : t.id <= count
    BY <1>7 DEF Requests
  <2>5. \A t \in Asked' : t.id <= count
    BY <1>6 DEF Requests
  <2> QED BY <2>1, <2>2, <2>3, <2>4, <2>5, <1>1 DEF Requests, Place
<1>13. Wanted' /\ Twins'
  <2>1. \A q \in Pollers : pl'[q].pc = "creating" =>
          /\ pl[q].pc = "creating" /\ pl'[q].todo \subseteq pl[q].todo
          /\ \A t \in pl[q].sent : t.sub \in pl'[q].todo => t \in pl'[q].sent
    BY <1>1, <1>3, <1>5
  <2> QED BY <2>1, <1>1, <1>2, <1>6, NoMoreAsked
<1>14. \A q \in Pollers : \A t : t \in InHand(q)' => t \in InHand(q)
  BY <1>7 DEF InHand, CreatedBy
<1>15. Homes'
  <2>1. \A q \in Pollers : \A s : s \in pl'[q].todo \cup Subs(pl'[q].rows) =>
                                  s \in pl[q].todo \cup Subs(pl[q].rows)
    BY <1>3, <1>5 DEF Subs
  <2> QED BY <2>1, <1>1, <1>6, <1>14 DEF Homes
<1>16. Accounted'
  <2>1. ASSUME NEW t, Held(t) PROVE Held(t)' \/ t \in uncertain'
    <3>1. PICK q \in Pollers : t \in InHand(q)
      BY <2>1 DEF Held
    <3>2. t \in InHand(q)' \/ t \in pl[p].sent
      BY <3>1, <1>5, <1>7 DEF InHand, CreatedBy
    <3> QED BY <3>2, <1>1 DEF Held
  <2> QED BY <2>1, <1>1, <1>6 DEF Accounted, Kept
<1>17. Batches'
  BY <1>1, <1>3, <1>5 DEF Batches
<1>18. Behind'
  <2>1. Settled' = Settled
    BY <1>1, <1>6 DEF Settled
  <2> QED BY <2>1, <1>1, <1>3, <1>5 DEF Behind, Subs
<1>19. Pointing'
  <2>1. ASSUME NEW q \in Pollers, NEW t \in pl'[q].sent
        PROVE  t \in inflight' \/ There(t) \/ t.job \notin exists
    <3>1. q # p /\ t \in pl[q].sent
      BY <1>3, <1>5
    <3>2. t \notin pl[p].sent
      BY <3>1 DEF Requests
    <3> QED BY <3>1, <3>2, <1>2 DEF Pointing
  <2> QED BY <2>1, <1>1, <1>6, <1>7 DEF Pointing, There
<1> QED BY <1>8, <1>9, <1>10, <1>11, <1>12, <1>13, <1>15, <1>16, <1>17, <1>18, <1>19

LEMMA PersistKeeps == ASSUME Inv, NEW p \in Pollers, Persist(p) PROVE Inv'
<1> USE DEF Inv
<1> DEFINE st == [pl[p] EXCEPT !.pc = "waiting"]
<1>1. /\ pl[p].pc = "persisting" /\ pl[p] \in PollerState
      /\ UNCHANGED <<visible, live, inflight, doomed, count, base, inserted, exists,
                     jobBase, ledger, rm, history>>
  BY DEF Persist, world, Shape
<1>2. pl[p].todo = {} /\ pl[p].rows = {} /\ pl[p].sent = {} /\ ~pl[p].err
      /\ pl[p].batch = {}
  BY <1>1 DEF Locals, LocalsOf, Batches
<1>3. /\ st \in PollerState /\ st.pc = "waiting" /\ st.job = pl[p].job
      /\ st.cursor = pl[p].cursor /\ st.batch = {} /\ st.todo = {} /\ st.rows = {}
      /\ st.sent = {} /\ ~st.err
  BY <1>1, <1>2 DEF PollerState, Stages
<1>4. pl' = [pl EXCEPT ![p] = st]
  BY DEF Persist, Shape
<1> HIDE DEF st
<1>5. /\ pl' \in [Pollers -> PollerState] /\ pl'[p] = st
      /\ \A q \in Pollers : q # p => pl'[q] = pl[q]
  BY <1>3, <1>4, OneMoves
<1>6. /\ stored' \in [Jobs -> 0..Last]
      /\ \A j \in Jobs : \/ stored'[j] = stored[j]
                         \/ j = pl[p].job /\ j \in exists /\ stored'[j] = pl[p].cursor
  BY <1>1 DEF Persist, Shape, PollerState
<1>7. exists \subseteq Jobs /\ \A j \in exists : j <= inserted
  BY <1>1, ServiceAssumption DEF Shape, Jobs
<1>8. Shape'
  <2>1. faults' \in 0..MaxFaults
    BY ServiceAssumption DEF Persist, Budget, Shape
  <2> QED BY <2>1, <1>1, <1>5, <1>6 DEF Shape
<1>9. Numbers'
  <2>1. \A j \in Jobs : j > inserted => stored'[j] = 0
    BY <1>6, <1>7 DEF Numbers, Shape, Jobs
  <2> QED BY <2>1, <1>1, <1>3, <1>5 DEF Numbers, Asked, history, doubts
<1>10. Locals' /\ Batches'
  BY <1>3, <1>5, EmptyHanded
<1>11. Behind'
  <2>1. Settled' = Settled
    BY <1>1 DEF Settled, Ledgered, history, doubts
  <2>2. \A j \in exists : 1..stored'[j] \subseteq Settled
    BY <1>6, <1>7 DEF Behind
  <2> QED BY <2>1, <2>2, <1>1, <1>3, <1>5 DEF Behind, Subs
<1>12. /\ Booked' /\ OnlyOwnRecords' /\ Requests' /\ Wanted' /\ Twins' /\ Homes'
       /\ Accounted' /\ Pointing'
  BY <1>1, <1>2, <1>3, <1>5, OthersKeep
<1> QED BY <1>8, <1>9, <1>10, <1>11, <1>12

LEMMA StopPollersKeeps == ASSUME Inv, StopPollers PROVE Inv'
<1> USE DEF Inv
<1>1. /\ rm.pc = "stopping" /\ rm' = [rm EXCEPT !.pc = "removing"]
      /\ UNCHANGED <<visible, live, inflight, doomed, count, base, inserted, exists,
                     jobBase, stored, ledger, faults, contested, abandoned, uncertain,
                     orphaned, purged, unfinished, byHand>>
  BY DEF StopPollers, world, jobs, history, doubts
<1>2. PICK P \in SUBSET Pollers :
        pl' = [p \in Pollers |->
                 IF p \in P THEN [pl[p] EXCEPT !.cancelled = TRUE] ELSE pl[p]]
  BY DEF StopPollers
<1>3. ASSUME NEW p \in Pollers
      PROVE  /\ pl'[p] \in PollerState /\ pl'[p].pc = pl[p].pc /\ pl'[p].job = pl[p].job
             /\ pl'[p].cursor = pl[p].cursor /\ pl'[p].batch = pl[p].batch
             /\ pl'[p].todo = pl[p].todo /\ pl'[p].rows = pl[p].rows
             /\ pl'[p].sent = pl[p].sent /\ pl'[p].err = pl[p].err
  <2>1. pl[p] \in PollerState
    BY DEF Shape
  <2>2. pl'[p] = IF p \in P THEN [pl[p] EXCEPT !.cancelled = TRUE] ELSE pl[p]
    BY <1>2
  <2> QED BY <2>1, <2>2 DEF PollerState
<1>4. pl' \in [Pollers -> PollerState]
  BY <1>2, <1>3
<1>5. rm' \in Removal /\ rm'.pc = "removing" /\ rm'.job = rm.job
      /\ rm'.ids = rm.ids /\ rm'.purge = rm.purge
  BY <1>1 DEF Shape, Removal, RemovalStages
<1>6. Ledgered' = Ledgered /\ Asked' = Asked
  BY <1>1 DEF Ledgered, Asked
<1>7. \A p \in Pollers : InHand(p)' = InHand(p)
  BY <1>3 DEF InHand, CreatedBy
<1>8. Shape'
  BY <1>1, <1>4, <1>5 DEF Shape
<1>9. Numbers'
  BY <1>1, <1>3, <1>5, <1>6 DEF Numbers
<1>10. Locals'
  BY <1>3 DEF Locals, LocalsOf
<1>11. Batches'
  BY <1>3 DEF Batches
<1>12. Booked' /\ OnlyOwnRecords'
  BY <1>1, <1>5, <1>6 DEF Booked, OnlyOwnRecords
<1>13. Requests'
  BY <1>1, <1>3, <1>6 DEF Requests, Place
<1>14. Wanted' /\ Twins'
  BY <1>1, <1>3, <1>6, NoMoreAsked
<1>15. Homes'
  BY <1>1, <1>3, <1>6, <1>7 DEF Homes, Subs
<1>16. Accounted'
  BY <1>1, <1>5, <1>6, <1>7 DEF Accounted, Kept, Held
<1>17. Behind'
  <2>1. Settled' = Settled
    BY <1>1, <1>6 DEF Settled
  <2> QED BY <2>1, <1>1, <1>3 DEF Behind, Subs
<1>18. Pointing'
  BY <1>1, <1>3, <1>6 DEF Pointing, There
<1> QED BY <1>8, <1>9, <1>10, <1>11, <1>12, <1>13, <1>14, <1>15, <1>16, <1>17, <1>18

LEMMA RestartKeeps == ASSUME Inv, NEW b \in Bases, Restart(b) PROVE Inv'
<1> USE DEF Inv
<1>1. /\ base' = b /\ rm' = NoRequest
      /\ UNCHANGED <<visible, live, inflight, count, inserted, exists, jobBase, stored,
                     ledger, contested, orphaned, purged, byHand>>
      /\ uncertain' = uncertain \cup UNION {InHand(p) : p \in Pollers}
      /\ abandoned' = abandoned \cup {Place(r) : r \in inflight}
  BY DEF Restart, jobs
<1>2. Idle \in PollerState /\ Idle.pc = "idle" /\ Idle.job = 0 /\ Idle.rows = {}
      /\ Idle.todo = {} /\ Idle.sent = {} /\ Idle.batch = {} /\ ~Idle.err
      /\ Idle.cursor = 0
  BY ServiceAssumption DEF Idle, PollerState, Stages
<1>3. pl' \in [Pollers -> PollerState] /\ \A p \in Pollers : pl'[p] = Idle
  BY <1>2 DEF Restart
<1>4. NoRequest \in Removal /\ NoRequest.pc = "idle" /\ NoRequest.job = 0
      /\ NoRequest.ids = {}
  BY ServiceAssumption DEF NoRequest, Removal, RemovalStages
<1>5. Ledgered' = Ledgered /\ Asked' = Asked
  BY <1>1 DEF Ledgered, Asked
<1>6. /\ doomed' \in SUBSET SUBSET Records
      /\ \A chunk \in doomed' : \A r \in chunk : r.job <= inserted /\ r.job \notin exists
      /\ \A r \in Asked : r.job \in purged => r \in uncertain \cup unfinished'
  <2>1. LeaveUnfinished
    BY DEF Restart
  <2> QED BY <2>1, LeftUnfinished
<1>7. Shape'
  <2>1. faults' \in 0..MaxFaults
    BY ServiceAssumption DEF Restart, Budget, Shape
  <2> QED BY <2>1, <1>1, <1>3, <1>4, <1>6 DEF Shape
<1>8. Numbers'
  <2>1. \A p \in Pollers : pl'[p].pc = "idle" /\ pl'[p].job = 0
    BY <1>2, <1>3
  <2> QED BY <2>1, <1>1, <1>4, <1>5, ServiceAssumption DEF Numbers, Shape
<1>9. \A p \in Pollers : InHand(p)' = {}
  BY <1>2, <1>3 DEF InHand, CreatedBy
<1>10. Locals' /\ Batches' /\ Wanted' /\ Homes'
  BY <1>2, <1>3, <1>9 DEF Locals, LocalsOf, Batches, Wanted, Homes, Subs
<1>11. Booked' /\ OnlyOwnRecords'
  BY <1>1, <1>4, <1>5 DEF Booked, OnlyOwnRecords
<1>12. Requests'
  <2>1. ASSUME NEW r \in inflight PROVE r \in uncertain' /\ Place(r) \in abandoned'
    BY <1>1 DEF Requests, InHand
  <2>2. \A r \in Asked' : r.id <= count
    BY <1>5 DEF Requests
  <2>3. live \cap inflight = {}
    BY DEF Requests
  <2> QED BY <2>1, <2>2, <2>3, <1>1, <1>2, <1>3 DEF Requests, Place
<1>13. Twins'
  BY <1>1, <1>5 DEF Twins, Place
<1>14. Accounted'
  <2>1. \A r : Held(r) => r \in uncertain'
    BY <1>1 DEF Held
  <2>2. \A r \in Asked : r.job \in exists => r \in uncertain' \/ Kept(r)
    BY <2>1, <1>1 DEF Accounted
  <2>3. \A r : Kept(r)' <=> Kept(r)
    BY <1>1, <1>5 DEF Kept
  <2> QED BY <2>2, <2>3, <1>1, <1>4, <1>5, <1>6 DEF Accounted
<1>15. Behind'
  <2>1. Settled' = Settled /\ 0 \notin exists
    BY <1>1, <1>5 DEF Settled, Shape
  <2> QED BY <2>1, <1>1, <1>2, <1>3 DEF Behind
<1>16. Pointing'
  BY <1>1, <1>2, <1>3, <1>5, <1>6 DEF Pointing, There
<1> QED BY <1>7, <1>8, <1>10, <1>11, <1>12, <1>13, <1>14, <1>15, <1>16

LEMMA RecordFailsKeeps == ASSUME Inv, NEW p \in Pollers, RecordFails(p) PROVE Inv'
<1> USE DEF Inv
<1>1. /\ pl[p].pc = "creating" /\ pl[p].todo = {} /\ EndBatch(p, TRUE)
      /\ UNCHANGED <<visible, live, inflight, doomed, count, base, inserted, exists,
                     jobBase, stored, ledger, rm, contested, abandoned, orphaned,
                     purged, unfinished, byHand>>
      /\ uncertain' = uncertain \cup CreatedBy(pl[p].rows)
  BY DEF RecordFails, world, jobs, doubts
<1>2. /\ pl' \in [Pollers -> PollerState]
      /\ \A q \in Pollers : q # p => pl'[q] = pl[q]
      /\ pl'[p].pc = "persisting" /\ pl'[p].job = pl[p].job
      /\ pl'[p].todo = {} /\ pl'[p].rows = {} /\ pl'[p].batch = {}
      /\ pl[p].sent = {} /\ pl'[p].sent = {} /\ ~pl'[p].err
      /\ pl'[p].cursor = pl[p].cursor
  BY <1>1, BatchEnds
<1>3. Ledgered' = Ledgered /\ Asked' = Asked
  BY <1>1 DEF Ledgered, Asked
<1>4. Shape'
  <2>1. faults' \in 0..MaxFaults
    BY ServiceAssumption DEF RecordFails, CallFails, Budget, Shape
  <2> QED BY <2>1, <1>1, <1>2 DEF Shape
<1>5. Numbers'
  BY <1>1, <1>2, <1>3 DEF Numbers
<1>6. Locals' /\ Batches'
  BY <1>2, EmptyHanded
<1>7. Booked' /\ OnlyOwnRecords'
  BY <1>1, <1>3 DEF Booked, OnlyOwnRecords
<1>8. \A q \in Pollers : pl'[q].sent = pl[q].sent /\ pl'[q].rows \subseteq pl[q].rows
                         /\ pl'[q].todo \subseteq pl[q].todo
  BY <1>2
<1>9. Requests'
  BY <1>1, <1>3, <1>8 DEF Requests, Place
<1>10. Wanted' /\ Twins'
  <2>1. \A q \in Pollers : pl'[q].pc = "creating" => pl[q].pc = "creating"
    BY <1>1, <1>2
  <2> QED BY <2>1, <1>1, <1>3, <1>8, NoMoreAsked
<1>11. Homes'
  <2>1. \A q \in Pollers : InHand(q)' \subseteq InHand(q)
    BY <1>8 DEF InHand, CreatedBy
  <2>2. \A q \in Pollers : Subs(pl'[q].rows) \subseteq Subs(pl[q].rows)
    BY <1>8 DEF Subs
  <2> QED BY <2>1, <2>2, <1>1, <1>3, <1>8 DEF Homes
<1>12. Accounted'
  <2>1. \A r : Held(r) => Held(r)' \/ r \in uncertain'
    BY <1>1, <1>2 DEF Held, InHand
  <2>2. \A r : Kept(r)' <=> Kept(r)
    BY <1>1, <1>3 DEF Kept
  <2> QED BY <2>1, <2>2, <1>1, <1>3 DEF Accounted
<1>13. Behind'
  <2>1. Settled' = Settled
    BY <1>1, <1>3 DEF Settled
  <2> QED BY <2>1, <1>1, <1>2 DEF Behind, Subs
<1>14. Pointing'
  BY <1>1, <1>3, <1>8 DEF Pointing, There
<1> QED BY <1>4, <1>5, <1>6, <1>7, <1>9, <1>10, <1>11, <1>12, <1>13, <1>14

(* The statement books what the ledger lacks, and changes no row there is. *)
LEMMA RowsInserted ==
  ASSUME Inv, NEW p \in Pollers, InsertRows(pl[p].rows, Fresh(p))
  PROVE  /\ \A s \in Ledgered : s \in Ledgered' /\ ledger'[s] = ledger[s]
         /\ \A row \in Fresh(p) : row.sub \in Ledgered' /\ ledger'[row.sub] = row
         /\ \A s \in Ledgered' \ Ledgered : \E row \in Fresh(p) : row.sub = s
         /\ ledger' \in [Submissions -> Rows \cup {NoRow}]
<1> USE DEF Inv
<1>1. pl[p].rows \subseteq Rows
  BY DEF Shape, PollerState
<1>2. \A row \in Fresh(p) : row \in Rows /\ row.sub \in Submissions \ Ledgered
  BY <1>1 DEF Fresh, Rows
<1>3. \A row \in Rows : row # NoRow
  <2>1. \A row \in Rows : row.job # 0
    BY DEF Rows, Jobs
  <2> QED BY <2>1 DEF NoRow
<1>4. ASSUME NEW row \in Fresh(p)
      PROVE  (CHOOSE w \in Fresh(p) : w.sub = row.sub) = row
  <2>1. \A w \in Fresh(p) : w.sub = row.sub => w = row
    BY DEF Fresh, Locals, LocalsOf
  <2> QED BY <2>1
<1>5. ASSUME NEW row \in Fresh(p) PROVE ledger'[row.sub] = row
  <2>1. ledger'[row.sub] = CHOOSE w \in Fresh(p) : w.sub = row.sub
    BY <1>2, <1>5 DEF InsertRows
  <2> QED BY <2>1, <1>4, <1>5
<1>6. ASSUME NEW s \in Submissions, \A row \in Fresh(p) : row.sub # s
      PROVE  ledger'[s] = ledger[s]
  BY <1>6 DEF InsertRows
<1>7. \A s \in Ledgered : s \in Ledgered' /\ ledger'[s] = ledger[s]
  BY <1>2, <1>6 DEF Ledgered
<1>8. \A row \in Fresh(p) : row.sub \in Ledgered'
  BY <1>2, <1>3, <1>5 DEF Ledgered
<1>9. \A s \in Ledgered' \ Ledgered : \E row \in Fresh(p) : row.sub = s
  BY <1>6 DEF Ledgered
<1>10. ledger' \in [Submissions -> Rows \cup {NoRow}]
  <2>1. \A s \in Submissions : ledger'[s] \in Rows \cup {NoRow}
    BY <1>2, <1>5, <1>6 DEF Shape
  <2>2. ledger' = [s \in Submissions |-> ledger'[s]]
    BY DEF InsertRows
  <2> QED BY <2>1, <2>2
<1> QED BY <1>5, <1>7, <1>8, <1>9, <1>10

LEMMA RecordLedgerKeeps == ASSUME Inv, NEW p \in Pollers, RecordLedger(p) PROVE Inv'
<1> USE DEF Inv
<1>1. /\ pl[p].pc = "creating" /\ pl[p].todo = {} /\ EndBatch(p, pl[p].err)
      /\ pl[p] \in PollerState
      /\ UNCHANGED <<visible, live, inflight, doomed, count, base, inserted, exists,
                     jobBase, stored, rm, faults, contested, abandoned, orphaned,
                     purged, unfinished, byHand>>
      /\ InsertRows(pl[p].rows, Fresh(p))
      /\ uncertain' = uncertain \cup CreatedBy(pl[p].rows \ Fresh(p))
      /\ Fresh(p) # {} => pl[p].job \in exists
  BY DEF RecordLedger, world, jobs, doubts, Shape
<1>2. /\ pl' \in [Pollers -> PollerState]
      /\ \A q \in Pollers : q # p => pl'[q] = pl[q]
      /\ pl'[p].pc = "persisting" /\ pl'[p].job = pl[p].job
      /\ pl'[p].todo = {} /\ pl'[p].rows = {} /\ pl'[p].batch = {}
      /\ pl[p].sent = {} /\ pl'[p].sent = {} /\ ~pl'[p].err
      /\ IF pl[p].err THEN pl'[p].cursor = pl[p].cursor
         ELSE 1..pl'[p].cursor \subseteq (1..pl[p].cursor) \cup pl[p].batch
  <2>1. pl[p].err \in BOOLEAN
    BY <1>1 DEF PollerState
  <2> QED BY <2>1, <1>1, BatchEnds
<1>3. /\ \A s \in Ledgered : s \in Ledgered' /\ ledger'[s] = ledger[s]
      /\ \A row \in Fresh(p) : row.sub \in Ledgered' /\ ledger'[row.sub] = row
      /\ \A s \in Ledgered' \ Ledgered : \E row \in Fresh(p) : row.sub = s
      /\ ledger' \in [Submissions -> Rows \cup {NoRow}]
  BY <1>1, RowsInserted
<1>4. /\ Fresh(p) \subseteq pl[p].rows
      /\ \A row \in pl[p].rows : row \in Fresh(p) \/ row.sub \in Ledgered
  BY DEF Fresh
<1>5. Asked' = Asked
  BY <1>1 DEF Asked
<1>6. \A q \in Pollers : pl'[q].sent = pl[q].sent /\ pl'[q].rows \subseteq pl[q].rows
                         /\ pl'[q].todo \subseteq pl[q].todo
  BY <1>2
<1>7. Shape'
  BY <1>1, <1>2, <1>3 DEF Shape
<1>8. Numbers'
  BY <1>1, <1>2, <1>5 DEF Numbers
<1>9. Locals' /\ Batches'
  BY <1>2, EmptyHanded
<1>10. \A row \in Fresh(p) :
         /\ row.job \in exists
         /\ row.outcome = "created" => row.rec.job = row.job /\ row.rec.sub = row.sub
  BY <1>1, <1>4 DEF Locals, LocalsOf
<1>11. Booked'
  <2> SUFFICES ASSUME NEW s \in Ledgered'
               PROVE  /\ ledger'[s].sub = s /\ ledger'[s].job \in exists
                      /\ ledger'[s].outcome = "created" =>
                           ledger'[s].rec.job = ledger'[s].job /\ ledger'[s].rec.sub = s
    BY <1>1 DEF Booked
  <2>1. CASE s \in Ledgered
    BY <2>1, <1>3 DEF Booked
  <2>2. CASE s \notin Ledgered
    <3>1. PICK row \in Fresh(p) : row.sub = s
      BY <2>2, <1>3
    <3>2. ledger'[s] = row
      BY <3>1, <1>3
    <3> QED BY <3>1, <3>2, <1>10
  <2> QED BY <2>1, <2>2
<1>12. OnlyOwnRecords' /\ Requests'
  <2>1. OnlyOwnRecords'
    BY <1>1 DEF OnlyOwnRecords
  <2>2. Requests'
    BY <1>1, <1>5, <1>6 DEF Requests, Place
  <2> QED BY <2>1, <2>2
<1>13. Wanted' /\ Twins'
  <2>1. \A q \in Pollers : pl'[q].pc = "creating" => pl[q].pc = "creating"
    BY <1>1, <1>2
  <2> QED BY <2>1, <1>1, <1>5, <1>6, NoMoreAsked
<1>14. Homes'
  <2>1. \A q \in Pollers : InHand(q)' \subseteq InHand(q)
    BY <1>6 DEF InHand, CreatedBy
  <2>2. \A q \in Pollers : Subs(pl'[q].rows) \subseteq Subs(pl[q].rows)
    BY <1>6 DEF Subs
  <2> SUFFICES ASSUME NEW q \in Pollers, NEW s \in pl[q].todo \cup Subs(pl[q].rows),
                      s \in Ledgered', ledger'[s].outcome = "created"
               PROVE  ledger'[s].rec.base = base
    BY <2>1, <2>2, <1>1, <1>6 DEF Homes
  <2>3. CASE s \in Ledgered
    BY <2>3, <1>3 DEF Homes
  <2>4. CASE s \notin Ledgered
    <3>1. PICK row \in Fresh(p) : row.sub = s
      BY <2>4, <1>3
    <3>2. ledger'[s] = row
      BY <3>1, <1>3
    <3>3. row.rec \in InHand(p)
      BY <3>2, <1>4 DEF InHand, CreatedBy
    <3> QED BY <3>2, <3>3 DEF Homes
  <2> QED BY <2>3, <2>4
<1>15. Accounted'
  <2>1. ASSUME NEW r, Held(r) PROVE Held(r)' \/ Kept(r)' \/ r \in uncertain'
    <3>1. PICK q \in Pollers : r \in InHand(q)
      BY <2>1 DEF Held
    <3>2. CASE q # p
      BY <3>1, <3>2, <1>2 DEF Held, InHand
    <3>3. CASE q = p
      <4>1. PICK row \in pl[p].rows : row.outcome = "created" /\ row.rec = r
        BY <3>1, <3>3, <1>2 DEF InHand, CreatedBy
      <4>2. CASE row \in Fresh(p)
        BY <4>1, <4>2, <1>3 DEF Kept
      <4>3. CASE row \notin Fresh(p)
        <5>1. r \in CreatedBy(pl[p].rows \ Fresh(p))
          BY <4>1, <4>3 DEF CreatedBy
        <5> QED BY <5>1, <1>1
      <4> QED BY <4>2, <4>3
    <3> QED BY <3>2, <3>3
  <2>2. \A r : Kept(r) => Kept(r)'
    BY <1>3 DEF Kept
  <2> QED BY <2>1, <2>2, <1>1, <1>5 DEF Accounted
<1>16. Behind'
  <2>1. Settled \cup Subs(pl[p].rows) \subseteq Settled'
    BY <1>1, <1>3, <1>4 DEF Settled, Subs
  <2>2. pl[p].job \in exists => 1..pl'[p].cursor \subseteq Settled'
    BY <2>1, <1>1, <1>2 DEF Behind
  <2> QED BY <2>1, <2>2, <1>1, <1>2 DEF Behind
<1>17. Pointing'
  <2>1. \A rec : There(rec)' <=> There(rec)
    BY <1>1 DEF There
  <2>2. ASSUME NEW s \in Ledgered'
        PROVE  /\ There(ledger'[s].rec) \/ ledger'[s].rec.job \notin exists
               /\ ledger'[s].rec.job <= inserted
    <3>1. CASE s \in Ledgered
      BY <3>1, <1>3 DEF Pointing
    <3>2. CASE s \notin Ledgered
      BY <3>2, <1>3, <1>4 DEF Pointing
    <3> QED BY <3>1, <3>2
  <2> QED BY <2>1, <2>2, <1>1, <1>6 DEF Pointing
<1> QED BY <1>7, <1>8, <1>9, <1>11, <1>12, <1>13, <1>14, <1>15, <1>16, <1>17

-----------------------------------------------------------------------------
LEMMA Inductive == Inv /\ [Next]_vars => Inv'
<1> SUFFICES ASSUME Inv, [Next]_vars PROVE Inv'
  OBVIOUS
<1>1. CASE UNCHANGED vars
  <2>1. Shape'
    BY <1>1 DEF vars, world, jobs, history, Inv, Shape
  <2> QED BY <1>1, <2>1, StutterKeeps DEF vars, world, Rest
<1>2. CASE Post \/ InsertJob
  BY <1>2, PostKeeps, InsertJobKeeps
<1>3. ASSUME NEW r \in live, DeleteByHand(r) PROVE Inv'
  BY <1>3, DeleteByHandKeeps
<1>4. ASSUME NEW r \in inflight, Land(r) PROVE Inv'
  BY <1>4, LandKeeps
<1>5. ASSUME NEW chunk \in doomed, LandDelete(chunk) PROVE Inv'
  BY <1>5, LandDeleteKeeps
<1>6. ASSUME NEW b \in Bases, Restart(b) PROVE Inv'
  BY <1>6, RestartKeeps
<1>7. ASSUME NEW p \in Pollers, NEW j \in 1..inserted, Launch(p, j) PROVE Inv'
  BY <1>7, LaunchKeeps
<1>8. ASSUME NEW p \in Pollers,
             \/ Stop(p) \/ Leave(p) \/ BeginPass(p)
             \/ CheckLedger(p) \/ CheckStamps(p) \/ LookupFails(p)
             \/ Send(p) \/ Create(p) \/ CreateFails(p)
             \/ RecordLedger(p) \/ RecordFails(p) \/ Persist(p)
      PROVE Inv'
  BY <1>8, StopKeeps, LeaveKeeps, BeginPassKeeps, CheckLedgerKeeps, CheckStampsKeeps,
     LookupFailsKeeps, SendKeeps, CreateKeeps, CreateFailsKeeps, RecordLedgerKeeps,
     RecordFailsKeeps, PersistKeeps
<1>9. ASSUME NEW j \in exists, NEW purge \in BOOLEAN, LoadForRemoval(j, purge) PROVE Inv'
  BY <1>9, LoadForRemovalKeeps
<1>10. CASE StopPollers \/ DeleteJob \/ DeleteSome \/ RemovalFails \/ RemovalDone
  BY <1>10, StopPollersKeeps, DeleteJobKeeps, DeleteSomeKeeps, RemovalEndsKeeps
<1> QED BY <1>1, <1>2, <1>3, <1>4, <1>5, <1>6, <1>7, <1>8, <1>9, <1>10 DEF Next

LEMMA InvHolds == Spec => []Inv
<1>1. Init => Inv
  BY Initially
<1>2. Inv /\ [Next]_vars => Inv'
  BY Inductive
<1> QED BY <1>1, <1>2, PTL DEF Spec

(* Two records of a submission in two bases: booked, or in hand, they would be *)
(* one.                                                                     *)
LEMMA OneBase ==
  ASSUME Inv, NEW r \in live, NEW t \in live, r.sub = t.sub, r # t,
         {r, t} \cap uncertain = {}, r.job \in exists, t.job \in exists
  PROVE  r.base = t.base
<1> USE DEF Inv
<1>1. Kept(r) \/ Held(r)
  BY DEF Accounted, Asked
<1>2. Kept(t) \/ Held(t)
  BY DEF Accounted, Asked
<1>3. ASSUME NEW x, Kept(x)
      PROVE  x.sub \in Ledgered /\ ledger[x.sub].rec = x /\ ledger[x.sub].outcome = "created"
  BY <1>3 DEF Kept, Booked
<1>4. ASSUME NEW x, Held(x)
      PROVE  /\ x.base = base
             /\ \E p \in Pollers : x.sub \in pl[p].todo \cup Subs(pl[p].rows)
  <2>1. PICK p \in Pollers : x \in InHand(p)
    BY <1>4 DEF Held
  <2>2. x.sub \in pl[p].todo \cup Subs(pl[p].rows)
    BY <2>1 DEF InHand, CreatedBy, Locals, LocalsOf, Subs
  <2> QED BY <2>1, <2>2 DEF Homes
<1>5. ASSUME NEW x, NEW y, Kept(x), Held(y), x.sub = y.sub PROVE x.base = y.base
  BY <1>3, <1>4, <1>5 DEF Homes
<1>6. CASE Kept(r) /\ Kept(t)
  BY <1>3, <1>6
<1>7. CASE Held(r) /\ Held(t)
  BY <1>4, <1>7
<1> QED BY <1>1, <1>2, <1>5, <1>6, <1>7

(* The stores and the locals have the shape the code gives them, and a ledger *)
(* row refers to a job there is (the foreign key of 0001_init.sql:26).        *)
THEOREM TypesHold == Spec => []TypeOK
<1>1. Inv => TypeOK
  <2> SUFFICES ASSUME Inv PROVE TypeOK
    OBVIOUS
  <2> USE DEF Inv
  <2>1. /\ visible \in 0..Last /\ count \in 0..MaxRecords
        /\ live \cup inflight \subseteq Records /\ doomed \subseteq SUBSET Records
        /\ base \in Bases
        /\ inserted \in 0..MaxJobs /\ exists \subseteq 1..inserted
        /\ jobBase \in [Jobs -> Bases] /\ stored \in [Jobs -> 0..Last]
        /\ faults \in 0..MaxFaults
    BY DEF Shape
  <2>2. \A s \in Ledgered : ledger[s] \in Rows /\ ledger[s].sub = s /\ ledger[s].job \in exists
    BY DEF Shape, Ledgered, Booked
  <2>3. \A p \in Pollers :
          /\ pl[p].pc \in {"idle", "waiting", "ledger", "stamps", "creating", "persisting"}
          /\ pl[p].job \in 0..inserted /\ pl[p].cursor \in 0..Last
          /\ pl[p].batch \cup pl[p].todo \subseteq Submissions
          /\ pl[p].rows \subseteq Rows /\ pl[p].sent \subseteq Records
    BY ServiceAssumption DEF Shape, PollerState, Stages, Numbers
  <2>4. \A p \in Pollers : \A r, t \in pl[p].sent : r = t
    BY DEF Locals, LocalsOf
  <2>5. rm.job \in 0..inserted /\ rm.ids \subseteq Records
    BY ServiceAssumption DEF Shape, Removal, Numbers
  <2> QED BY <2>1, <2>2, <2>3, <2>4, <2>5 DEF TypeOK
<1> QED BY <1>1, InvHolds, PTL

(* Whatever overlaps, is given up, carried out late, fails or is removed: two  *)
(* live records of a submission in one base take two pollers between           *)
(* sync.go:273 and sync.go:301 at once, or a create request given up while     *)
(* Airtable might still carry it out; in two bases, a record that was not      *)
(* booked (in time), or whose job has been removed.                           *)
THEOREM DuplicatesAreExplained == Spec => []DuplicatesHaveACause
<1>1. Inv => DuplicatesHaveACause
  <2> SUFFICES ASSUME Inv, NEW r \in live, NEW t \in live, r.sub = t.sub, r # t
               PROVE  IF r.base = t.base THEN Place(r) \in contested \cup abandoned
                      ELSE \E x \in {r, t} : x \in uncertain \/ x.job \notin exists
    BY DEF DuplicatesHaveACause
  <2>1. CASE r.base = t.base
    BY <2>1 DEF Inv, Twins, Asked
  <2>2. CASE r.base # t.base
    BY <2>2, OneBase
  <2> QED BY <2>1, <2>2
<1> QED BY <1>1, InvHolds, PTL

(* A removal deletes no record another job has made (app.html:433). *)
THEOREM RemovalsSpareOthers == Spec => []OnlyOwnRecords
<1>1. Inv => OnlyOwnRecords
  BY DEF Inv
<1> QED BY <1>1, InvHolds, PTL

(* What is left of a job that was removed together with its records was not in *)
(* the ledger when CreatedRecordIDs was read (app.go:571), or is still to be   *)
(* deleted, or a removal ended with an error that left it (app.go:594).       *)
THEOREM LeftoversAreExplained == Spec => []LeftoversAreKnown
<1>1. Inv => LeftoversAreKnown
  BY DEF Inv, Accounted, Asked, LeftoversAreKnown
<1> QED BY <1>1, InvHolds, PTL

(* No overlap and no late UpdateJobProgress makes a cursor pass over what is   *)
(* not booked; only a removed sibling job does (0001_init.sql:34).             *)
THEOREM CursorsLeaveNothing == Spec => []BehindCursorIsLedgered
<1>1. Inv => BehindCursorIsLedgered
  BY DEF Inv, Behind, Settled, BehindCursorIsLedgered
<1> QED BY <1>1, InvHolds, PTL

(* The record of a ledger row is there, unless people have deleted it or the   *)
(* row says "skipped" and the record's job has been removed (app.go:589).      *)
THEOREM OnlySkippedRowsDangle == Spec => []DanglingRowsAreSkipped
<1>1. Inv => DanglingRowsAreSkipped
  <2> SUFFICES ASSUME Inv, NEW s \in Ledgered, ~There(ledger[s].rec)
               PROVE  /\ ledger[s].outcome = "skipped_existing"
                      /\ ledger[s].rec.job \notin exists
    BY DEF DanglingRowsAreSkipped, There
  <2>1. ledger[s] \in Rows
    BY DEF Inv, Shape, Ledgered
  <2> QED BY <2>1 DEF Inv, Pointing, Booked, Rows
<1> QED BY <1>1, InvHolds, PTL
=============================================================================
