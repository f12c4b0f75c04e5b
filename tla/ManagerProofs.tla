---------------------------- MODULE ManagerProofs ----------------------------
(***************************************************************************)
(* Proofs about Manager, for any number of jobs, pollers and concurrent    *)
(* requests.                                                               *)
(***************************************************************************)
EXTENDS Manager, TLAPS

(* A CancelFunc taken out of the registry is held by one StopJob, between   *)
(* its two steps, and its poller is not registered any more.                *)
HeldIsUnregistered ==
  \A r \in Requests : req[r].held # None =>
    /\ req[r].at = "signal"
    /\ \A j \in Jobs : cancels[j] # req[r].held

(* Without a process there is nothing but the rows.                         *)
NothingWhenDown ==
  server = "down" =>
    /\ \A r \in Requests : req[r] = Idle
    /\ \A g \in Pollers : pc[g] = "gone"
    /\ cancelled = {} /\ \A j \in Jobs : cancels[j] = None

LiveServes == \A g \in Pollers : Live(g) => serves[g] \in Jobs

RegInv ==
  TypeOK /\ HeldIsUnregistered /\ NothingWhenDown /\ LiveServes
    /\ RegisteredIsLive

LEMMA InitReg == Init => RegInv
<1> SUFFICES ASSUME Init PROVE RegInv
  OBVIOUS
<1> USE NoneAssumption DEF Init, Idle
<1>1. TypeOK
  BY DEF TypeOK, Ops, Steps
<1>2. HeldIsUnregistered /\ NothingWhenDown /\ LiveServes /\ RegisteredIsLive
  BY DEF HeldIsUnregistered, NothingWhenDown, LiveServes, RegisteredIsLive, Live
<1>3. QED
  BY <1>1, <1>2 DEF RegInv

(* The steps of requests that only touch rows and the request itself.       *)
RowStep(r) ==
  \/ InsertJob(r) \/ FetchExisting(r) \/ Activate(r) \/ Mark(r) \/ LoadJob(r)
  \/ DeleteJob(r) \/ RequestFails(r) \/ AnswerLost(r) \/ Arrive(r)

(* What they do to the request: it goes on to a step that holds nothing.    *)
LEMMA RowStepRequest ==
  ASSUME RegInv, NEW r \in Requests, RowStep(r)
  PROVE  /\ UNCHANGED <<cancels, pc, serves, cancelled, server, overlapped>>
         /\ server # "down"
         /\ req[r].at # "signal"
         /\ \A q \in Requests \ {r} : req'[q] = req[q]
         /\ req'[r].held = None /\ req'[r].at # "signal"
<1> USE NoneAssumption
    DEF RegInv, TypeOK, Ops, Steps, HeldIsUnregistered, NothingWhenDown, Idle
<1>1. CASE InsertJob(r) \/ FetchExisting(r) \/ LoadJob(r)
  BY <1>1 DEF InsertJob, FetchExisting, LoadJob, Goto, Done
<1>2. CASE Activate(r) \/ Mark(r)
  BY <1>2 DEF Activate, Mark, SetStatus, Goto, Done
<1>3. CASE DeleteJob(r) \/ RequestFails(r)
  BY <1>3 DEF DeleteJob, RequestFails, Done
<1>4. CASE AnswerLost(r)
  BY <1>4 DEF AnswerLost, Done
<1>5. CASE Arrive(r)
  BY <1>5 DEF Arrive, FirstStep
<1>6. QED
  BY <1>1, <1>2, <1>3, <1>4, <1>5 DEF RowStep

LEMMA RowStepType ==
  ASSUME RegInv, NEW r \in Requests, RowStep(r)
  PROVE  TypeOK'
<1> USE NoneAssumption DEF RegInv, TypeOK, Ops, Steps, Idle, Goto, Done
<1>1. CASE InsertJob(r)
  BY <1>1, SMTT(30) DEF InsertJob
<1>2. CASE FetchExisting(r)
  BY <1>2, SMTT(30) DEF FetchExisting
<1>3. CASE LoadJob(r)
  BY <1>3 DEF LoadJob
<1>4. CASE Activate(r)
  BY <1>4 DEF Activate, SetStatus
<1>5. CASE Mark(r)
  BY <1>5, SMTT(30) DEF Mark, SetStatus
<1>6. CASE DeleteJob(r)
  BY <1>6 DEF DeleteJob
<1>7. CASE RequestFails(r)
  BY <1>7 DEF RequestFails
<1>8. CASE AnswerLost(r)
  BY <1>8 DEF AnswerLost
<1>9. CASE Arrive(r)
  BY <1>9 DEF Arrive, FirstStep
<1>10. QED
  BY <1>1, <1>2, <1>3, <1>4, <1>5, <1>6, <1>7, <1>8, <1>9 DEF RowStep

(* Both steps of StopJob leave the request well-formed.                     *)
RequestType == [op : Ops, at : Steps, job : Jobs \cup {None},
                held : Pollers \cup {None}]

LEMMA RequestUpdated ==
  ASSUME NEW f \in [Requests -> RequestType], NEW r \in Requests,
         NEW at \in Steps, NEW held \in Pollers \cup {None}
  PROVE  [f EXCEPT ![r] = [@ EXCEPT !.at = at, !.held = held]]
           \in [Requests -> RequestType]
<1>1. [f[r] EXCEPT !.at = at, !.held = held] \in RequestType
  BY DEF RequestType
<1>2. QED
  BY <1>1

LEMMA StepReg ==
  ASSUME RegInv, [Next]_vars
  PROVE  RegInv'
<1> USE NoneAssumption
    DEF RegInv, HeldIsUnregistered, NothingWhenDown, LiveServes,
        RegisteredIsLive, Live
<1>1. CASE \E r \in Requests : RowStep(r)
  BY <1>1, RowStepRequest, RowStepType DEF TypeOK
<1>2. CASE \E g \in Pollers : EndPass(g) \/ Tick(g) \/ Leave(g)
  BY <1>2 DEF EndPass, Tick, Leave, TypeOK
<1>3. CASE \E g \in Pollers : Deregister(g)
  BY <1>3 DEF Deregister, TypeOK
<1>4. CASE \E r \in Requests : CallStartJob(r)
  <2>1. PICK r \in Requests : CallStartJob(r)
    BY <1>4
  <2>2. /\ req[r].job \in Jobs /\ req[r].at = "launch" /\ req[r].held = None
        /\ req' = [req EXCEPT ![r] = Idle]
        /\ UNCHANGED <<row, server>>
    BY <2>1 DEF CallStartJob, Done, TypeOK
  <2>3. CASE UNCHANGED <<pc, serves, cancelled, cancels, overlapped>>
    <3>1. TypeOK'
      BY <2>1, <2>2, <2>3 DEF CallStartJob, StartJob, TypeOK, Idle, Ops, Steps
    <3>2. QED
      BY <2>2, <2>3, <3>1 DEF Idle, TypeOK
  <2>4. CASE \E g \in Pollers : Launch(g, req[r].job)
    <3>1. PICK g \in Pollers : Launch(g, req[r].job)
      BY <2>4
    <3>2. TypeOK'
      BY <2>1, <2>2, <3>1
      DEF CallStartJob, StartJob, Launch, TypeOK, Idle, Ops, Steps
    <3>3. HeldIsUnregistered'
      BY <2>2, <3>1 DEF Launch, Idle, TypeOK
    <3>4. NothingWhenDown' /\ LiveServes'
      BY <2>2, <3>1 DEF Launch, Idle, TypeOK
    <3>5. RegisteredIsLive'
      BY <2>2, <3>1 DEF Launch, TypeOK
    <3>6. QED
      BY <3>2, <3>3, <3>4, <3>5
  <2>5. QED
    BY <2>1, <2>3, <2>4 DEF CallStartJob, StartJob
<1>5. CASE \E r \in Requests : Unregister(r)
  <2>1. PICK r \in Requests : Unregister(r)
    BY <1>5
  <2>2. req[r].job \in Jobs /\ req[r].at = "unregister"
    BY <2>1 DEF Unregister, TypeOK
  <2>3. TypeOK'
    <3>1. PICK held \in Pollers \cup {None} :
            req' = [req EXCEPT ![r] =
                      [@ EXCEPT !.at = "signal", !.held = held]]
      BY <2>1, <2>2 DEF Unregister, TypeOK
    <3>2. "signal" \in Steps /\ req \in [Requests -> RequestType]
      BY DEF TypeOK, Steps, RequestType
    <3>3. req' \in [Requests -> RequestType]
      BY <3>1, <3>2, RequestUpdated
    <3>4. \A q \in Requests :
            req'[q].job = None <=> req'[q].at \in {"idle", "create", "fetch"}
      BY <2>2, <3>1 DEF TypeOK
    <3>5. QED
      BY <2>1, <2>2, <3>3, <3>4 DEF Unregister, TypeOK, RequestType
  <2>4. HeldIsUnregistered'
    BY <2>1, <2>2 DEF Unregister, TypeOK
  <2>5. server # "down" /\ UNCHANGED <<server, pc, serves, cancelled>>
    BY <2>1, <2>2 DEF Unregister, Idle
  <2>6. RegisteredIsLive' /\ LiveServes'
    BY <2>1, <2>2, <2>5 DEF Unregister, TypeOK
  <2>7. QED
    BY <2>3, <2>4, <2>5, <2>6
<1>6. CASE \E r \in Requests : Signal(r)
  <2>1. PICK r \in Requests : Signal(r)
    BY <1>6
  <2>2. req[r].job \in Jobs /\ req[r].at = "signal"
    BY <2>1 DEF Signal, TypeOK
  <2>3. TypeOK'
    <3>1. PICK at \in {"mark", "delete"} :
            req' = [req EXCEPT ![r] = [@ EXCEPT !.at = at, !.held = None]]
      BY <2>1 DEF Signal
    <3>2. at \in Steps /\ req \in [Requests -> RequestType]
      BY DEF TypeOK, Steps, RequestType
    <3>3. req' \in [Requests -> RequestType]
      BY <3>1, <3>2, RequestUpdated
    <3>4. \A q \in Requests :
            req'[q].job = None <=> req'[q].at \in {"idle", "create", "fetch"}
      BY <2>2, <3>1 DEF TypeOK
    <3>5. QED
      BY <2>1, <3>3, <3>4 DEF Signal, TypeOK, RequestType
  <2>4. HeldIsUnregistered'
    BY <2>1, <2>2 DEF Signal, TypeOK
  <2>5. server # "down" /\ UNCHANGED <<server, pc, serves, cancels>>
    BY <2>1, <2>2 DEF Signal, Idle
  <2>6. \A j \in Jobs : cancels[j] # None => cancels[j] \notin cancelled'
    BY <2>1, <2>2 DEF Signal
  <2>7. RegisteredIsLive' /\ LiveServes'
    BY <2>5, <2>6
  <2>8. QED
    BY <2>3, <2>4, <2>5, <2>7
<1>7. CASE Interrupt \/ CancelAll \/ Drained
  BY <1>7 DEF Interrupt, CancelAll, Drained, TypeOK
<1>8. CASE Die
  <2>1. TypeOK'
    BY <1>8 DEF Die, TypeOK, Idle, Ops, Steps
  <2>2. QED
    BY <1>8, <2>1 DEF Die, Idle
<1>9. CASE Boot
  <2>1. PICK launched \in [{j \in Jobs : row[j] = "active"} -> Pollers] :
          /\ \A i, j \in DOMAIN launched : i # j => launched[i] # launched[j]
          /\ cancels' = [j \in Jobs |-> IF row[j] = "active"
                                        THEN launched[j] ELSE None]
          /\ pc' = [g \in Pollers |->
                      IF \E j \in DOMAIN launched : launched[j] = g
                      THEN "pass" ELSE "gone"]
          /\ serves' = [g \in Pollers |->
                          IF \E j \in DOMAIN launched : launched[j] = g
                          THEN CHOOSE j \in DOMAIN launched : launched[j] = g
                          ELSE None]
    BY <1>9 DEF Boot
  <2>2. /\ server = "down" /\ server' = "up"
        /\ UNCHANGED <<row, cancelled, req, halfDone, overlapped>>
    BY <1>9 DEF Boot
  <2>3. \A g \in Pollers : pc'[g] = "pass" =>
          serves'[g] \in DOMAIN launched /\ launched[serves'[g]] = g
    BY <2>1
  <2>4. TypeOK'
    BY <2>1, <2>2, <2>3 DEF TypeOK
  <2>5. LiveServes'
    BY <2>1, <2>3
  <2>6. RegisteredIsLive'
    BY <2>1, <2>2, <2>3
  <2>7. HeldIsUnregistered' /\ NothingWhenDown'
    BY <2>2 DEF Idle
  <2>8. QED
    BY <2>4, <2>5, <2>6, <2>7
<1>10. CASE UNCHANGED vars
  BY <1>10 DEF vars, TypeOK
<1>11. QED
  BY <1>1, <1>2, <1>3, <1>4, <1>5, <1>6, <1>7, <1>8, <1>9, <1>10
  DEF Next, Goroutine, Handler, RowStep

LEMMA RegHolds == Spec => []RegInv
<1>1. RegInv /\ [Next]_vars => RegInv'
  BY StepReg
<1>2. QED
  BY <1>1, InitReg, PTL DEF Spec

(* The declared types, and: a request has a job from the step on that reads *)
(* one.                                                                     *)
THEOREM TypesHold == Spec => []TypeOK
<1>1. RegInv => TypeOK
  BY DEF RegInv
<1>2. QED
  BY <1>1, RegHolds, PTL

(* The registry never points at a poller that has gone or is cancelled.     *)
THEOREM RegistryIsSound == Spec => []RegisteredIsLive
<1>1. RegInv => RegisteredIsLive
  BY DEF RegInv
<1>2. QED
  BY <1>1, RegHolds, PTL

-----------------------------------------------------------------------------
(* Losing track.  The poller registered for a job was launched after every  *)
(* other live one of that job, so only an overlapped one can lose its entry *)
(* to the exit of another.                                                  *)
RegisteredIsNewest ==
  \A j \in Jobs, g \in Pollers :
    Live(g) /\ serves[g] = j /\ cancels[j] # None /\ cancels[j] # g
      => cancels[j] \in overlapped

Overlap == LostNeedsOverlap /\ RegisteredIsNewest

(* A step of a request on its row changes nothing a poller can notice.      *)
LEMMA RowStepPolls ==
  ASSUME RegInv, NEW r \in Requests, RowStep(r), NEW g \in Pollers
  PROVE  Doomed(g)' <=> Doomed(g)
BY RowStepRequest, NoneAssumption
DEF RegInv, HeldIsUnregistered, Doomed, BaseDone

LEMMA StepOverlap ==
  ASSUME RegInv, Overlap, [Next]_vars
  PROVE  Overlap'
<1> USE NoneAssumption
    DEF RegInv, TypeOK, Overlap, LostNeedsOverlap, RegisteredIsNewest, Polls,
        Live
<1>1. CASE \E r \in Requests : RowStep(r)
  <2>1. UNCHANGED <<cancels, pc, serves, overlapped>>
    BY <1>1, RowStepRequest
  <2>2. \A g \in Pollers : Doomed(g)' <=> Doomed(g)
    BY <1>1, RowStepPolls
  <2>3. QED
    BY <2>1, <2>2
<1>2. CASE \E g \in Pollers : EndPass(g) \/ Tick(g) \/ Leave(g)
  BY <1>2 DEF EndPass, Tick, Leave, Doomed, BaseDone
<1>3. CASE \E g \in Pollers : Deregister(g)
  <2>1. PICK g \in Pollers : Deregister(g)
    BY <1>3
  <2>2. serves[g] \in Jobs
    BY <2>1 DEF Deregister, LiveServes
  <2>3. \A h \in Pollers \ {g} :
          /\ Live(h)' <=> Live(h)
          /\ serves'[h] = serves[h]
          /\ Doomed(h)' => Doomed(h)
          /\ Doomed(h) => Doomed(h)'
          /\ h \in overlapped => h \in overlapped'
    BY <2>1 DEF Deregister, Doomed, BaseDone
  <2>4. ~Live(g)'
    BY <2>1 DEF Deregister
  <2>5. LostNeedsOverlap'
    <3>1. SUFFICES ASSUME NEW j \in Jobs, NEW h \in Pollers,
                          Polls(h, j)', cancels'[j] # h
                   PROVE  h \in overlapped'
      OBVIOUS
    <3>2. h # g /\ Polls(h, j)
      BY <2>3, <2>4, <3>1
    <3>3. CASE cancels[j] # h
      BY <2>3, <3>2, <3>3
    <3>4. CASE cancels[j] = h
      <4>1. j = serves[g]
        BY <2>1, <2>2, <3>1, <3>4 DEF Deregister
      <4>2. Live(g)
        BY <2>1 DEF Deregister
      <4>3. h \in overlapped
        BY <3>2, <3>4, <4>1, <4>2
      <4>4. QED
        BY <2>3, <3>2, <4>3
    <3>5. QED
      BY <3>3, <3>4
  <2>6. RegisteredIsNewest'
    BY <2>1, <2>2, <2>3, <2>4 DEF Deregister, RegisteredIsLive
  <2>7. QED
    BY <2>5, <2>6
<1>4. CASE \E r \in Requests : CallStartJob(r)
  <2>1. PICK r \in Requests : CallStartJob(r)
    BY <1>4
  <2>2. /\ req[r].job \in Jobs /\ req[r].at = "launch"
        /\ req' = [req EXCEPT ![r] = Idle]
        /\ UNCHANGED server
    BY <2>1 DEF CallStartJob, Done
  <2>3. \A h \in Pollers :
          (\E q \in Requests : req'[q].at = "signal" /\ req'[q].held = h)
            <=> (\E q \in Requests : req[q].at = "signal" /\ req[q].held = h)
    BY <2>2 DEF Idle
  <2>4. CASE UNCHANGED <<pc, serves, cancelled, cancels, overlapped>>
    BY <2>2, <2>3, <2>4 DEF Doomed, BaseDone
  <2>5. CASE cancels[req[r].job] = None /\ \E g \in Pollers : Launch(g, req[r].job)
    <3>1. PICK g \in Pollers : Launch(g, req[r].job)
      BY <2>5
    <3>2. \A h \in Pollers \ {g} :
            /\ Live(h)' <=> Live(h)
            /\ serves'[h] = serves[h]
            /\ Doomed(h)' <=> Doomed(h)
            /\ h \in overlapped => h \in overlapped'
      BY <2>2, <2>3, <3>1 DEF Launch, Doomed, BaseDone
    <3>3. /\ cancels' = [cancels EXCEPT ![req[r].job] = g]
          /\ serves'[g] = req[r].job
          /\ ~Live(g)
      BY <3>1 DEF Launch
    <3>4. LostNeedsOverlap'
      BY <2>2, <2>5, <3>2, <3>3
    <3>5. RegisteredIsNewest'
      <4>1. SUFFICES ASSUME NEW j \in Jobs, NEW h \in Pollers, Live(h)',
                            serves'[h] = j, cancels'[j] # None, cancels'[j] # h
                     PROVE  cancels'[j] \in overlapped'
        OBVIOUS
      <4>2. CASE j = req[r].job
        BY <3>1, <3>2, <3>3, <4>1, <4>2 DEF Launch
      <4>3. CASE j # req[r].job
        <5>1. cancels'[j] = cancels[j] /\ h # g
          BY <3>3, <4>1, <4>3
        <5>2. cancels[j] \in Pollers \ {g}
          BY <3>3, <4>1, <5>1 DEF RegisteredIsLive
        <5>3. QED
          BY <3>2, <4>1, <5>1, <5>2
      <4>4. QED
        BY <4>2, <4>3
    <3>6. QED
      BY <3>4, <3>5
  <2>6. QED
    BY <2>1, <2>4, <2>5 DEF CallStartJob, StartJob
<1>5. CASE \E r \in Requests : Unregister(r)
  <2>1. PICK r \in Requests : Unregister(r)
    BY <1>5
  <2>2. /\ req[r].job \in Jobs /\ req[r].at = "unregister"
        /\ cancels' = [cancels EXCEPT ![req[r].job] = None]
        /\ req'[r].at = "signal" /\ req'[r].held = cancels[req[r].job]
        /\ \A q \in Requests \ {r} : req'[q] = req[q]
        /\ UNCHANGED <<pc, serves, cancelled, server, overlapped>>
    BY <2>1 DEF Unregister
  <2>3. \A h \in Pollers : Doomed(h) => Doomed(h)'
    BY <2>2 DEF Doomed, BaseDone
  <2>4. \A h \in Pollers : cancels[req[r].job] = h => Doomed(h)'
    BY <2>2 DEF Doomed
  <2>5. QED
    BY <2>2, <2>3, <2>4
<1>6. CASE \E r \in Requests : Signal(r)
  <2>1. PICK r \in Requests : Signal(r)
    BY <1>6
  <2>2. /\ req[r].at = "signal"
        /\ cancelled' = cancelled \cup ({req[r].held} \ {None})
        /\ \A q \in Requests \ {r} : req'[q] = req[q]
        /\ UNCHANGED <<cancels, pc, serves, server, overlapped>>
    BY <2>1 DEF Signal
  <2>3. \A h \in Pollers : Doomed(h) => Doomed(h)'
    BY <2>2 DEF Doomed, BaseDone
  <2>4. QED
    BY <2>2, <2>3
<1>7. CASE Interrupt \/ CancelAll \/ Drained
  BY <1>7 DEF Interrupt, CancelAll, Drained, Doomed, BaseDone
<1>8. CASE Die
  BY <1>8 DEF Die
<1>9. CASE Boot
  <2>1. PICK launched \in [{j \in Jobs : row[j] = "active"} -> Pollers] :
          /\ cancels' = [j \in Jobs |-> IF row[j] = "active"
                                        THEN launched[j] ELSE None]
          /\ pc' = [g \in Pollers |->
                      IF \E j \in DOMAIN launched : launched[j] = g
                      THEN "pass" ELSE "gone"]
          /\ serves' = [g \in Pollers |->
                          IF \E j \in DOMAIN launched : launched[j] = g
                          THEN CHOOSE j \in DOMAIN launched : launched[j] = g
                          ELSE None]
    BY <1>9 DEF Boot
  <2>2. \A g \in Pollers : Live(g)' => /\ serves'[g] \in Jobs
                                       /\ cancels'[serves'[g]] = g
    BY <2>1
  <2>3. QED
    BY <2>2
<1>10. CASE UNCHANGED vars
  BY <1>10 DEF vars, Doomed, BaseDone
<1>11. QED
  BY <1>1, <1>2, <1>3, <1>4, <1>5, <1>6, <1>7, <1>8, <1>9, <1>10
  DEF Next, Goroutine, Handler, RowStep

LEMMA OverlapHolds == Spec => []Overlap
<1>1. Init => Overlap
  BY NoneAssumption
  DEF Init, Overlap, LostNeedsOverlap, RegisteredIsNewest, Polls, Live
<1>2. RegInv /\ Overlap /\ [Next]_vars => Overlap'
  BY StepOverlap
<1>3. QED
  BY <1>1, <1>2, RegHolds, PTL DEF Spec

(* A poller nobody can stop any more was launched while its predecessor was *)
(* still alive.                                                             *)
THEOREM OnlyOverlapsAreLost == Spec => []LostNeedsOverlap
<1>1. Overlap => LostNeedsOverlap
  BY DEF Overlap
<1>2. QED
  BY <1>1, OverlapHolds, PTL

(* Where no poller was launched over a live one, each job has at most one.  *)
THEOREM OneWithoutOverlap == Spec => [](overlapped = {} => OnePollerPerJob)
<1>1. Overlap => (overlapped = {} => OnePollerPerJob)
  BY DEF Overlap, LostNeedsOverlap, OnePollerPerJob
<1>2. QED
  BY <1>1, OverlapHolds, PTL

-----------------------------------------------------------------------------
(* Service.  While the server is up, an active job has a poller or a        *)
(* request on its way to launch one or to end the job.                      *)
UnderWay(j) ==
  \E r \in Requests :
    /\ req[r].job = j
    /\ \/ req[r].at \in {"launch", "signal", "mark", "delete"}
       \/ req[r].at = "load" /\ req[r].op = "resume"

Served ==
  server = "up" =>
    \A j \in Jobs : row[j] = "active" /\ j \notin halfDone =>
      UnderWay(j) \/ \E g \in Pollers : Polls(g, j)

LeavingIsDoomed ==
  \A g \in Pollers : pc[g] = "leaving" => BaseDone \/ g \in cancelled

(* Whoever is registered polls.                                             *)
RegisteredPoll ==
  server = "up" =>
    \A j \in Jobs : cancels[j] # None => \E g \in Pollers : Polls(g, j)

LEMMA RegistersPoll == RegInv => RegisteredPoll
BY NoneAssumption
DEF RegInv, TypeOK, RegisteredIsLive, HeldIsUnregistered, RegisteredPoll, Polls,
    Doomed, BaseDone

LEMMA StepServed ==
  ASSUME RegInv, RegInv', LeavingIsDoomed, Served, [Next]_vars
  PROVE  Served'
<1>0. RegisteredPoll'
  BY RegistersPoll, PTL
<1> USE NoneAssumption DEF RegInv, TypeOK, Served, Polls, Live
<1>1. CASE \E r \in Requests : RowStep(r)
  <2>1. PICK r \in Requests : RowStep(r)
    BY <1>1
  <2>2. \A j \in Jobs, g \in Pollers : Polls(g, j) => Polls(g, j)'
    BY <2>1, RowStepRequest, RowStepPolls
  <2>3. UNCHANGED server /\ \A q \in Requests \ {r} : req'[q] = req[q]
    BY <2>1, RowStepRequest
  <2>4. \A j \in Jobs : row'[j] = "active" /\ j \notin halfDone' =>
          /\ row[j] = "active" /\ j \notin halfDone /\ (UnderWay(j) => UnderWay(j)')
          \/ UnderWay(j)'
    <3>1. CASE InsertJob(r)
      BY <2>3, <3>1, SMTT(30) DEF InsertJob, Goto, UnderWay
    <3>2. CASE FetchExisting(r)
      BY <2>3, <3>2 DEF FetchExisting, Done, UnderWay
    <3>3. CASE Activate(r)
      BY <2>3, <3>3 DEF Activate, SetStatus, Goto, Done, UnderWay
    <3>4. CASE Mark(r)
      BY <2>3, <3>4 DEF Mark, SetStatus, Exists, Done, UnderWay
    <3>5. CASE LoadJob(r)
      BY <2>3, <3>5 DEF LoadJob, Exists, Goto, Done, UnderWay
    <3>6. CASE DeleteJob(r)
      BY <2>3, <3>6 DEF DeleteJob, Exists, Done, UnderWay
    <3>7. CASE RequestFails(r)
      BY <2>3, <3>7 DEF RequestFails, Done, UnderWay
    <3>8. CASE AnswerLost(r)
      BY <2>3, <3>8 DEF AnswerLost, Done, UnderWay
    <3>9. CASE Arrive(r)
      BY <2>3, <3>9 DEF Arrive, Idle, UnderWay
    <3>10. QED
      BY <2>1, <3>1, <3>2, <3>3, <3>4, <3>5, <3>6, <3>7, <3>8, <3>9 DEF RowStep
  <2>5. QED
    BY <2>2, <2>3, <2>4
<1>2. CASE \E g \in Pollers : EndPass(g) \/ Tick(g) \/ Leave(g)
  BY <1>2 DEF EndPass, Tick, Leave, Doomed, BaseDone, UnderWay
<1>3. CASE \E g \in Pollers : Deregister(g)
  <2>1. PICK g \in Pollers : Deregister(g)
    BY <1>3
  <2>2. UNCHANGED <<server, row, req, halfDone>>
    BY <2>1 DEF Deregister
  <2>3. CASE server = "up"
    <3>1. Doomed(g)
      BY <2>1, <2>3 DEF Deregister, LeavingIsDoomed, Doomed, BaseDone
    <3>2. \A j \in Jobs, h \in Pollers : Polls(h, j) => Polls(h, j)'
      BY <2>1, <3>1 DEF Deregister, Doomed, BaseDone
    <3>3. QED
      BY <2>2, <3>2 DEF UnderWay
  <2>4. QED
    BY <2>2, <2>3
<1>4. CASE \E r \in Requests : CallStartJob(r)
  <2>1. PICK r \in Requests : CallStartJob(r)
    BY <1>4
  <2>2. PICK j \in Jobs : j = req[r].job
    BY <2>1 DEF CallStartJob
  <2>3. /\ req[r].at = "launch"
        /\ req' = [req EXCEPT ![r] = Idle]
        /\ UNCHANGED <<row, server>> /\ halfDone' = halfDone \ {j}
    BY <2>1, <2>2 DEF CallStartJob, StartJob, Done
  <2>4. cancels'[j] # None
    BY <2>1, <2>2 DEF CallStartJob, StartJob, Launch
  <2>5. server' = "up" => \E g \in Pollers : Polls(g, j)'
    BY <1>0, <2>4 DEF RegisteredPoll
  <2>6. \A i \in Jobs \ {j} : UnderWay(i) => UnderWay(i)'
    BY <2>2, <2>3 DEF UnderWay
  <2>7. \A i \in Jobs \ {j}, h \in Pollers : Polls(h, i) => Polls(h, i)'
    BY <2>1, <2>2, <2>3 DEF CallStartJob, StartJob, Launch, Doomed, BaseDone,
       Idle
  <2>8. QED
    BY <2>3, <2>5, <2>6, <2>7
<1>5. CASE \E r \in Requests : Unregister(r)
  <2>1. PICK r \in Requests : Unregister(r)
    BY <1>5
  <2>2. /\ req[r].job \in Jobs /\ req[r].at = "unregister"
        /\ req'[r].at = "signal" /\ req'[r].held = cancels[req[r].job]
        /\ req'[r].job = req[r].job
        /\ \A q \in Requests \ {r} : req'[q] = req[q]
        /\ UNCHANGED <<row, halfDone, pc, serves, cancelled, server>>
    BY <2>1 DEF Unregister
  <2>3. \A j \in Jobs : j = req[r].job => UnderWay(j)'
    BY <2>2 DEF UnderWay
  <2>4. \A j \in Jobs : UnderWay(j) => UnderWay(j)'
    BY <2>2 DEF UnderWay
  <2>5. \A j \in Jobs \ {req[r].job}, h \in Pollers :
          Polls(h, j) => Polls(h, j)'
    BY <2>2 DEF RegisteredIsLive, Doomed, BaseDone
  <2>6. QED
    BY <2>2, <2>3, <2>4, <2>5
<1>6. CASE \E r \in Requests : Signal(r)
  <2>1. PICK r \in Requests : Signal(r)
    BY <1>6
  <2>2. /\ req[r].job \in Jobs /\ req[r].at = "signal"
        /\ req'[r].at \in {"mark", "delete"} /\ req'[r].held = None
        /\ req'[r].job = req[r].job
        /\ \A q \in Requests \ {r} : req'[q] = req[q]
        /\ cancelled' = cancelled \cup ({req[r].held} \ {None})
        /\ UNCHANGED <<row, halfDone, pc, serves, server>>
    BY <2>1 DEF Signal
  <2>3. \A j \in Jobs : UnderWay(j) => UnderWay(j)'
    BY <2>2 DEF UnderWay
  <2>4. \A j \in Jobs, h \in Pollers : Polls(h, j) => Polls(h, j)'
    BY <2>2 DEF Doomed, BaseDone
  <2>5. QED
    BY <2>2, <2>3, <2>4
<1>7. CASE Interrupt \/ CancelAll \/ Drained \/ Die
  BY <1>7 DEF Interrupt, CancelAll, Drained, Die
<1>8. CASE Boot
  <2>1. UNCHANGED <<row, halfDone>> /\ server' = "up"
        /\ \A j \in Jobs : row[j] = "active" => cancels'[j] \in Pollers
    BY <1>8 DEF Boot
  <2>2. \A j \in Jobs : row[j] = "active" => \E g \in Pollers : Polls(g, j)'
    BY <1>0, <2>1 DEF RegisteredPoll
  <2>3. QED
    BY <2>1, <2>2
<1>9. CASE UNCHANGED vars
  BY <1>9 DEF vars, Doomed, BaseDone, UnderWay
<1>10. QED
  BY <1>1, <1>2, <1>3, <1>4, <1>5, <1>6, <1>7, <1>8, <1>9
  DEF Next, Goroutine, Handler, RowStep

(* Only pollers that were told to leave do.                                 *)
LEMMA StepLeaving ==
  ASSUME RegInv, LeavingIsDoomed, [Next]_vars
  PROVE  LeavingIsDoomed'
<1> USE DEF RegInv, TypeOK, LeavingIsDoomed, BaseDone
<1>1. CASE \E r \in Requests : RowStep(r)
  BY <1>1, RowStepRequest
<1>2. CASE \E g \in Pollers : Goroutine(g)
  BY <1>2 DEF Goroutine, EndPass, Tick, Leave, Deregister
<1>3. CASE \E r \in Requests : CallStartJob(r)
  BY <1>3 DEF CallStartJob, StartJob, Launch
<1>4. CASE \E r \in Requests : Unregister(r) \/ Signal(r)
  BY <1>4 DEF Unregister, Signal
<1>5. CASE Interrupt \/ CancelAll \/ Drained \/ Die \/ Boot
  BY <1>5 DEF Interrupt, CancelAll, Drained, Die, Boot
<1>6. CASE UNCHANGED vars
  BY <1>6 DEF vars
<1>7. QED
  BY <1>1, <1>2, <1>3, <1>4, <1>5, <1>6 DEF Next, Handler, RowStep

(* Once its requests are done, an active job is polled, unless one of them  *)
(* failed half-way.                                                         *)
THEOREM ActiveJobsAreServed == Spec => []ActiveIsServed
<1>1. Init => Served /\ LeavingIsDoomed
  BY DEF Init, Served, LeavingIsDoomed
<1>2. RegInv /\ LeavingIsDoomed /\ [Next]_vars => LeavingIsDoomed'
  BY StepLeaving
<1>3. RegInv /\ RegInv' /\ LeavingIsDoomed /\ Served /\ [Next]_vars => Served'
  BY StepServed
<1>4. Served => ActiveIsServed
  BY DEF Served, ActiveIsServed, UnderWay, Quiet
<1>5. QED
  BY <1>1, <1>2, <1>3, <1>4, RegHolds, PTL DEF Spec
=============================================================================
