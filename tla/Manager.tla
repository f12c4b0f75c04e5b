------------------------------ MODULE Manager -------------------------------
(***************************************************************************)
(* The life of pollers: nps.Manager (Start, StartJob, StopJob, Shutdown    *)
(* and the frame of run), the handlers of app.go that call it (handleStart,*)
(* handleStop, handleResume, handleRemove), the sync_jobs rows they change *)
(* and the process around them (main.go).                                  *)
(*                                                                         *)
(* Handlers run concurrently, each a sequence of separately committed      *)
(* steps.  What a poller does within a pass is the subject of module       *)
(* Poller; here a pass is something that takes a while.                    *)
(***************************************************************************)
EXTENDS FiniteSets

CONSTANTS
  Jobs,         \* job ids; an id is given out once
  Pollers,      \* poller goroutines; bound: how many are alive at a time
  Requests,     \* bound: how many HTTP requests are in flight at a time
  None

ASSUME NoneAssumption == None \notin Jobs \cup Pollers

VARIABLES
  row,        \* sync_jobs: "unused" id, "active", "stopped" or "removed"
  cancels,    \* Manager.cancels: the poller whose CancelFunc is kept for a job
  pc,         \* state of each poller goroutine
  serves,     \* the job it was launched for
  cancelled,  \* pollers whose own context is cancelled
  server,     \* "down", "up", "signalled", "draining" (in wg.Wait), "closing"
  req,        \* what each request in flight is about to do
  \* history
  halfDone,   \* jobs a failed request has left half changed
  overlapped  \* pollers launched while an older one of the job was alive

vars == <<row, cancels, pc, serves, cancelled, server, req, halfDone,
          overlapped>>

Ops == {"start", "stop", "resume", "remove"}

Steps == {"idle", "create", "fetch", "activate", "load", "launch",
          "unregister", "signal", "mark", "delete"}

Idle == [op |-> "start", at |-> "idle", job |-> None, held |-> None]

(* The context of every poller descends from the one main cancels. *)
BaseDone == server \in {"signalled", "draining", "closing"}

Live(g) == pc[g] \in {"pass", "select", "leaving"}

(* A poller that is cancelled, or about to be by a StopJob that has already *)
(* taken its CancelFunc out of the registry, will go away.                  *)
Doomed(g) ==
  \/ BaseDone
  \/ g \in cancelled
  \/ \E r \in Requests : req[r].at = "signal" /\ req[r].held = g

Polls(g, j) == Live(g) /\ serves[g] = j /\ ~Doomed(g)

(* The dashboard's and the audit log's view: nobody is working on the job. *)
Quiet(j) == server = "up" /\ \A r \in Requests : req[r].at = "idle" \/ req[r].job # j

Exists(j) == row[j] \in {"active", "stopped"}

Init ==
  /\ row = [j \in Jobs |-> "unused"]
  /\ cancels = [j \in Jobs |-> None]
  /\ pc = [g \in Pollers |-> "gone"]
  /\ serves = [g \in Pollers |-> None]
  /\ cancelled = {}
  /\ server = "up"
  /\ req = [r \in Requests |-> Idle]
  /\ halfDone = {} /\ overlapped = {}

-----------------------------------------------------------------------------
(* Manager *)

(* A fresh goroutine: its number may have been used before, but nobody      *)
(* knows it any more.                                                       *)
Launch(g, j) ==
  /\ pc[g] = "gone"
  /\ \A r \in Requests : req[r].held # g
  /\ pc' = [pc EXCEPT ![g] = "pass"]
  /\ serves' = [serves EXCEPT ![g] = j]
  /\ cancelled' = cancelled \ {g}
  /\ cancels' = [cancels EXCEPT ![j] = g]
  /\ overlapped' = IF \E h \in Pollers : Live(h) /\ serves[h] = j
                   THEN overlapped \cup {g} ELSE overlapped

StartJob(j) ==
  /\ \/ /\ cancels[j] # None
        /\ UNCHANGED <<pc, serves, cancelled, cancels, overlapped>>
     \/ /\ cancels[j] = None
        /\ \E g \in Pollers : Launch(g, j)
  /\ halfDone' = halfDone \ {j}

(* run: passes alternate with the select that waits for the ticker or the   *)
(* end of the context.                                                      *)
EndPass(g) ==
  /\ pc[g] = "pass"
  /\ pc' = [pc EXCEPT ![g] = "select"]
  /\ UNCHANGED <<row, cancels, serves, cancelled, server, req, halfDone,
                 overlapped>>

Tick(g) ==
  /\ pc[g] = "select"
  /\ pc' = [pc EXCEPT ![g] = "pass"]
  /\ UNCHANGED <<row, cancels, serves, cancelled, server, req, halfDone,
                 overlapped>>

(* Mutant: pollers' contexts do not descend from main's. *)
LeaveWhenStopped(g) ==
  /\ pc[g] = "select" /\ g \in cancelled
  /\ pc' = [pc EXCEPT ![g] = "leaving"]
  /\ UNCHANGED <<row, cancels, serves, cancelled, server, req, halfDone,
                 overlapped>>

Leave(g) ==
  /\ pc[g] = "select"
  /\ BaseDone \/ g \in cancelled
  /\ pc' = [pc EXCEPT ![g] = "leaving"]
  /\ UNCHANGED <<row, cancels, serves, cancelled, server, req, halfDone,
                 overlapped>>

(* Mutant: a poller that leaves does not clean up the registry. *)
LeaveRegistered(g) ==
  /\ pc[g] = "leaving"
  /\ pc' = [pc EXCEPT ![g] = "gone"]
  /\ serves' = [serves EXCEPT ![g] = None]
  /\ cancelled' = cancelled \ {g}
  /\ overlapped' = overlapped \ {g}
  /\ UNCHANGED <<row, cancels, server, req, halfDone>>

(* The deferred calls: forget the job's registration, leave the wait group. *)
Deregister(g) ==
  /\ pc[g] = "leaving"
  /\ pc' = [pc EXCEPT ![g] = "gone"]
  /\ serves' = [serves EXCEPT ![g] = None]
  /\ cancels' = [cancels EXCEPT ![serves[g]] = None]
  /\ cancelled' = cancelled \ {g}
  /\ overlapped' = overlapped \ {g}
  /\ UNCHANGED <<row, server, req, halfDone>>

-----------------------------------------------------------------------------
(* Requests.  Each step is one call; a failing call ends the request.       *)

Goto(r, step) == req' = [req EXCEPT ![r].at = step]
Done(r)       == req' = [req EXCEPT ![r] = Idle]

FirstStep(op) ==
  CASE op = "start"  -> "create"
    [] op = "stop"   -> "unregister"
    [] op = "resume" -> "activate"
    [] op = "remove" -> "load"

(* A request for a job: pages may be stale, so any id given out before. *)
Arrive(r) ==
  /\ server \in {"up", "signalled", "draining"}
  /\ req[r] = Idle
  /\ \/ req' = [req EXCEPT ![r] = [Idle EXCEPT !.at = FirstStep("start")]]
     \/ \E op \in Ops \ {"start"}, j \in {i \in Jobs : row[i] # "unused"} :
          req' = [req EXCEPT ![r] = [op |-> op, at |-> FirstStep(op),
                                     job |-> j, held |-> None]]
  /\ UNCHANGED <<row, cancels, pc, serves, cancelled, server, halfDone,
                 overlapped>>

(* CreateJob: the INSERT.  All requests of this model aim at one form and   *)
(* table, so the UNIQUE constraint admits one row at a time.                *)
InsertJob(r) ==
  /\ req[r].at = "create"
  /\ \/ /\ \A j \in Jobs : ~Exists(j)
        /\ \E j \in Jobs :
             /\ row[j] = "unused"
             /\ row' = [row EXCEPT ![j] = "active"]
             /\ req' = [req EXCEPT ![r].at = "launch", ![r].job = j]
     \/ /\ \E j \in Jobs : Exists(j)
        /\ Goto(r, "fetch")
        /\ UNCHANGED row
  /\ UNCHANGED <<cancels, pc, serves, cancelled, server, halfDone,
                 overlapped>>

(* Mutant: the result of the lookup is used without looking at its error. *)
FetchUnchecked(r) ==
  /\ req[r].at = "fetch"
  /\ \/ \E j \in Jobs :
          Exists(j) /\ req' = [req EXCEPT ![r].at = "activate", ![r].job = j]
     \/ (\A j \in Jobs : ~Exists(j)) /\ Goto(r, "activate")
  /\ UNCHANGED <<row, cancels, pc, serves, cancelled, server, halfDone,
                 overlapped>>

(* CreateJob: after a unique violation, look the existing job up; it may    *)
(* have been removed in the meantime.                                       *)
FetchExisting(r) ==
  /\ req[r].at = "fetch"
  /\ \/ \E j \in Jobs :
          Exists(j) /\ req' = [req EXCEPT ![r].at = "activate", ![r].job = j]
     \/ (\A j \in Jobs : ~Exists(j)) /\ Done(r)
  /\ UNCHANGED <<row, cancels, pc, serves, cancelled, server, halfDone,
                 overlapped>>

(* SetJobStatus; ErrNotFound ends the request. *)
SetStatus(r, status, next) ==
  LET j == req[r].job IN
  \/ /\ Exists(j)
     /\ row' = [row EXCEPT ![j] = status]
     /\ IF next = "idle" THEN Done(r) ELSE Goto(r, next)
  \/ ~Exists(j) /\ Done(r) /\ UNCHANGED row

Activate(r) ==
  /\ req[r].at = "activate"
  /\ SetStatus(r, "active", IF req[r].op = "resume" THEN "load" ELSE "launch")
  /\ UNCHANGED <<cancels, pc, serves, cancelled, server, halfDone,
                 overlapped>>

Mark(r) ==
  /\ req[r].at = "mark"
  /\ SetStatus(r, "stopped", "idle")
  /\ UNCHANGED <<cancels, pc, serves, cancelled, server, halfDone,
                 overlapped>>

(* GetJob, in handleResume and at the head of handleRemove *)
LoadJob(r) ==
  /\ req[r].at = "load"
  /\ IF Exists(req[r].job)
     THEN Goto(r, IF req[r].op = "resume" THEN "launch" ELSE "unregister")
     ELSE Done(r)
  /\ UNCHANGED <<row, cancels, pc, serves, cancelled, server, halfDone,
                 overlapped>>

CallStartJob(r) ==
  /\ req[r].at = "launch"
  /\ StartJob(req[r].job)
  /\ Done(r)
  /\ UNCHANGED <<row, server>>

(* Mutant: StopJob leaves the registration to the poller. *)
CancelOnly(r) ==
  /\ req[r].at = "unregister"
  /\ req' = [req EXCEPT ![r].at = "signal", ![r].held = cancels[req[r].job]]
  /\ UNCHANGED <<row, cancels, pc, serves, cancelled, server, halfDone,
                 overlapped>>

(* StopJob: the registration is dropped under the lock, *)
Unregister(r) ==
  LET j == req[r].job IN
  /\ req[r].at = "unregister"
  /\ cancels' = [cancels EXCEPT ![j] = None]
  /\ req' = [req EXCEPT ![r] = [@ EXCEPT !.at = "signal", !.held = cancels[j]]]
  /\ UNCHANGED <<row, pc, serves, cancelled, server, halfDone,
                 overlapped>>

(* Mutant: StopJob forgets to call the CancelFunc. *)
DropSignal(r) ==
  /\ req[r].at = "signal"
  /\ req' = [req EXCEPT ![r].at = IF req[r].op = "stop" THEN "mark"
                                                        ELSE "delete",
                        ![r].held = None]
  /\ UNCHANGED <<row, cancels, pc, serves, cancelled, server, halfDone,
                 overlapped>>

(* the context cancelled after it. *)
Signal(r) ==
  /\ req[r].at = "signal"
  /\ cancelled' = cancelled \cup ({req[r].held} \ {None})
  /\ req' = [req EXCEPT ![r] =
       [@ EXCEPT !.at = IF req[r].op = "stop"
                        THEN "mark" ELSE "delete",
                 !.held = None]]
  /\ UNCHANGED <<row, cancels, pc, serves, server, halfDone,
                 overlapped>>

DeleteJob(r) ==
  /\ req[r].at = "delete"
  /\ row' = [row EXCEPT ![req[r].job] = IF Exists(req[r].job)
                                        THEN "removed" ELSE @]
  /\ Done(r)
  /\ UNCHANGED <<cancels, pc, serves, cancelled, server, halfDone,
                 overlapped>>

(* A database call fails, or the browser has gone and its context with it. *)
RequestFails(r) ==
  /\ req[r].at \in {"create", "fetch", "activate", "load", "mark", "delete"}
  /\ Done(r)
  /\ halfDone' = halfDone \cup ({req[r].job} \ {None})
  /\ UNCHANGED <<row, cancels, pc, serves, cancelled, server, overlapped>>

(* The row was changed and only the answer was lost.  (For the last step of *)
(* a request that is no different from success.)                            *)
AnswerLost(r) ==
  /\ \E j \in Jobs :
       /\ \/ req[r].at = "create" /\ row[j] = "unused"
             /\ \A i \in Jobs : ~Exists(i)
          \/ req[r].at = "activate" /\ req[r].job = j /\ Exists(j)
       /\ row' = [row EXCEPT ![j] = "active"]
       /\ halfDone' = halfDone \cup {j}
  /\ Done(r)
  /\ UNCHANGED <<cancels, pc, serves, cancelled, server, overlapped>>

-----------------------------------------------------------------------------
(* The process *)

(* SIGINT or SIGTERM cancels main's context. *)
Interrupt ==
  /\ server = "up"
  /\ server' = "signalled"
  /\ UNCHANGED <<row, cancels, pc, serves, cancelled, req, halfDone, overlapped>>

(* Shutdown, up to wg.Wait *)
CancelAll ==
  /\ server = "signalled"
  /\ server' = "draining"
  /\ cancelled' = cancelled \cup ({cancels[j] : j \in Jobs} \ {None})
  /\ cancels' = [j \in Jobs |-> None]
  /\ UNCHANGED <<row, pc, serves, req, halfDone, overlapped>>

(* wg.Wait returns; the HTTP server stops listening. *)
Drained ==
  /\ server = "draining"
  /\ \A g \in Pollers : ~Live(g)
  /\ server' = "closing"
  /\ UNCHANGED <<row, cancels, pc, serves, cancelled, req, halfDone, overlapped>>

(* The process ends, killed or because main returned, in the midst of       *)
(* whatever goes on.                                                        *)
Die ==
  /\ server # "down"
  /\ server' = "down"
  /\ cancels' = [j \in Jobs |-> None]
  /\ pc' = [g \in Pollers |-> "gone"]
  /\ serves' = [g \in Pollers |-> None]
  /\ cancelled' = {}
  /\ req' = [r \in Requests |-> Idle]
  /\ halfDone' = {} /\ overlapped' = {}
  /\ UNCHANGED row

(* main: Manager.Start launches a poller for every active job, before the   *)
(* server listens.                                                          *)
Boot ==
  /\ server = "down"
  /\ server' = "up"
  /\ \E launched \in [{j \in Jobs : row[j] = "active"} -> Pollers] :
       /\ \A i, j \in DOMAIN launched : i # j => launched[i] # launched[j]
       /\ cancels' = [j \in Jobs |-> IF row[j] = "active"
                                     THEN launched[j] ELSE None]
       /\ pc' = [g \in Pollers |->
                   IF \E j \in DOMAIN launched : launched[j] = g
                   THEN "pass" ELSE "gone"]
       /\ serves' = [g \in Pollers |->
                       IF \E j \in DOMAIN launched : launched[j] = g
                       THEN CHOOSE j \in DOMAIN launched : launched[j] = g
                       ELSE None]
  /\ UNCHANGED <<row, cancelled, req, halfDone, overlapped>>

-----------------------------------------------------------------------------
Goroutine(g) == EndPass(g) \/ Tick(g) \/ Leave(g) \/ Deregister(g)

Handler(r) ==
  \/ InsertJob(r) \/ FetchExisting(r) \/ Activate(r) \/ Mark(r) \/ LoadJob(r)
  \/ CallStartJob(r) \/ Unregister(r) \/ Signal(r) \/ DeleteJob(r)
  \/ RequestFails(r) \/ AnswerLost(r)

Next ==
  \/ \E g \in Pollers : Goroutine(g)
  \/ \E r \in Requests : Arrive(r) \/ Handler(r)
  \/ Interrupt \/ CancelAll \/ Drained \/ Die \/ Boot

Spec == Init /\ [][Next]_vars

(* Passes end, contexts are noticed (select chooses fairly), Shutdown runs. *)
FairSpec ==
  /\ Spec
  /\ WF_vars(CancelAll) /\ WF_vars(Drained)
  /\ \A g \in Pollers : /\ WF_vars(EndPass(g))
                        /\ SF_vars(Leave(g))
                        /\ WF_vars(Deregister(g))

-----------------------------------------------------------------------------
(* Properties *)

(* The only type invariant of the module. *)
TypeOK ==
  /\ row \in [Jobs -> {"unused", "active", "stopped", "removed"}]
  /\ cancels \in [Jobs -> Pollers \cup {None}]
  /\ pc \in [Pollers -> {"gone", "pass", "select", "leaving"}]
  /\ serves \in [Pollers -> Jobs \cup {None}]
  /\ cancelled \subseteq Pollers /\ overlapped \subseteq Pollers
  /\ server \in {"down", "up", "signalled", "draining", "closing"}
  /\ req \in [Requests -> [op : Ops, at : Steps, job : Jobs \cup {None},
                           held : Pollers \cup {None}]]
  /\ \A r \in Requests :
       req[r].job = None <=> req[r].at \in {"idle", "create", "fetch"}
  /\ halfDone \subseteq Jobs

(* IsRunning (sync.go:107) never claims too much: a job with an entry in    *)
(* the registry has a live poller nobody has cancelled, so StartJob's       *)
(* early return never leaves a job without one.                             *)
RegisteredIsLive ==
  \A j \in Jobs : cancels[j] # None =>
    /\ Live(cancels[j])
    /\ serves[cancels[j]] = j
    /\ cancels[j] \notin cancelled

(* Losing track of a poller takes an overlap: one that nobody has cancelled *)
(* and StopJob cannot find was launched while its predecessor was alive.    *)
LostNeedsOverlap ==
  \A j \in Jobs, g \in Pollers :
    Polls(g, j) /\ cancels[j] # g => g \in overlapped

(* "keeps running until you stop it" (app.html:341): once its requests are  *)
(* done, an active job has a poller, however many requests raced; the only  *)
(* exception is a request that failed half-way.                             *)
ActiveIsServed ==
  \A j \in Jobs :
    Quiet(j) /\ row[j] = "active" /\ j \notin halfDone =>
      \E g \in Pollers : Polls(g, j)

(* "cancels every poller and waits for them to exit" (sync.go:115): after a *)
(* signal, once no more requests come, the wait ends.                       *)
ShutdownCompletes ==
  <>[](\A r \in Requests : req[r] = Idle) =>
    (server = "signalled" ~> server \in {"closing", "down"})

(* "a background poller goroutine per active sync job" (sync.go:32), "a     *)
(* no-op if one is already running" (sync.go:80)                            *)
OnePollerPerJob ==
  \A j \in Jobs, g, h \in Pollers : Polls(g, j) /\ Polls(h, j) => g = h

(* "Sync stopped" (app.go:478): a stopped job is not polled.                *)
StoppedIsNotPolled ==
  \A j \in Jobs : Quiet(j) /\ row[j] = "stopped" =>
    \A g \in Pollers : ~Polls(g, j)

(* "handleRemove stops a job's poller and deletes the job" (app.go:547): a  *)
(* removed job is not polled.                                               *)
RemovedIsNotPolled ==
  \A j \in Jobs : Quiet(j) /\ row[j] = "removed" =>
    \A g \in Pollers : ~Polls(g, j)
=============================================================================
