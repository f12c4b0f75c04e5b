---------------------------- MODULE FilloutClient -----------------------------
(***************************************************************************)
(* How fillout.Client paces and retries (fillout/client.go): every call of   *)
(* every poller and handler goes through one rate limiter, and is retried    *)
(* after a 429.  Time passes in ticks of one limiter interval (a quarter of  *)
(* a second), and is kept relative to the present.                           *)
(*                                                                         *)
(* External: golang.org/x/time/rate with a burst of 1, where each caller     *)
(* reserves the next free slot and sleeps until it comes; and the server,    *)
(* which answers 429 whenever it likes (the API key has other users).        *)
(***************************************************************************)
EXTENDS Integers, FiniteSets

CONSTANTS
  Callers,      \* goroutines that call the API
  SecondTicks,  \* ticks in a second: defaultRateLimit
  ServerLimit,  \* requests the server takes in a second
  Jitter,       \* how many ticks late a caller may wake and its request arrive
  MaxRetries,   \* defaultMaxRetries
  Hints,        \* seconds a 429 may ask to wait (Retry-After, RateLimit-Reset)
  MaxAhead      \* bound: slots reserved ahead

ASSUME FilloutClientAssumption ==
  /\ {SecondTicks, ServerLimit} \subseteq Nat \ {0}
  /\ {Jitter, MaxRetries, MaxAhead} \subseteq Nat
  /\ Hints \subseteq Nat
  /\ IsFiniteSet(Callers)

VARIABLES
  call,     \* per caller: where it is, how long still to wait, the attempt
  ahead,    \* ticks until the next slot nobody has reserved
  recent,   \* history: the requests that arrived in the last second, each as
            \* the ticks since, and its number among those of its tick
  rest      \* history: ticks since the last 429 of its call, up to a second

clientVars == <<call, ahead, recent, rest>>

NoCall == [pc |-> "idle", wait |-> 0, attempt |-> 0]
Doing(c, pc) == call[c].pc = pc
Becomes(c, pc, wait, attempt) ==
  call' = [call EXCEPT ![c] = [pc |-> pc, wait |-> wait, attempt |-> attempt]]
Done(c) ==
  /\ call' = [call EXCEPT ![c] = NoCall]
  /\ rest' = [rest EXCEPT ![c] = SecondTicks]

ClientInit ==
  /\ call = [c \in Callers |-> NoCall]
  /\ ahead = 0
  /\ recent = {}
  /\ rest = [c \in Callers |-> SecondTicks]

(* limiter.Wait reserves a slot, *)
Acquire(c, attempt) ==
  /\ ahead < MaxAhead
  /\ Becomes(c, "wait", ahead, attempt)
  /\ ahead' = ahead + 1

(* and gives it back when the context is done, if nobody reserved after it. *)
GiveUp(c) ==
  /\ Doing(c, "wait")
  /\ ahead' = IF call[c].wait >= 0 /\ call[c].wait = ahead - 1 THEN ahead - 1 ELSE ahead
  /\ Done(c)
  /\ UNCHANGED recent

Start(c) ==
  /\ Doing(c, "idle")
  /\ Acquire(c, 0)
  /\ UNCHANGED <<recent, rest>>

(* The request reaches the server, at its slot or a little late. *)
Arrive(c) ==
  /\ Doing(c, "wait") /\ call[c].wait <= 0
  /\ Becomes(c, "sent", 0, call[c].attempt)
  /\ recent' = recent \cup {<<0, Cardinality({r \in recent : r[1] = 0}) + 1>>}
  /\ UNCHANGED <<ahead, rest>>

(* An answer other than 429, an error, or the context is done. *)
Return(c) ==
  /\ call[c].pc \in {"sent", "sleep"}
  /\ Done(c)
  /\ UNCHANGED <<ahead, recent>>

(* Mutant: the hint is taken as it is. *)
AsHinted(seconds) == seconds * SecondTicks

(* Never less than a second; no usable header counts as zero. *)
retryAfter(seconds) == SecondTicks * IF seconds > 1 THEN seconds ELSE 1

(* Mutant: a 429 is always retried. *)
RetryForever(attempt) == TRUE

MayRetry(attempt) == attempt < MaxRetries

TooMany(c, hint) ==
  /\ Doing(c, "sent")
  /\ IF MayRetry(call[c].attempt)
       THEN /\ Becomes(c, "sleep", retryAfter(hint), call[c].attempt)
            /\ rest' = [rest EXCEPT ![c] = 0]
       ELSE Done(c)
  /\ UNCHANGED <<ahead, recent>>

(* Mutant: a retry goes straight out. *)
RetryAtOnce(c) ==
  /\ Doing(c, "sleep") /\ call[c].wait <= 0
  /\ Becomes(c, "wait", 0, call[c].attempt + 1)
  /\ UNCHANGED <<ahead, recent, rest>>

(* A retry takes a slot like any other request. *)
Retry(c) ==
  /\ Doing(c, "sleep") /\ call[c].wait <= 0
  /\ Acquire(c, call[c].attempt + 1)
  /\ UNCHANGED <<recent, rest>>

ClientTick ==
  /\ \A c \in Callers : Doing(c, "wait") => call[c].wait > -Jitter
  /\ call' = [c \in Callers |->
                IF Doing(c, "wait") \/ (Doing(c, "sleep") /\ call[c].wait > 0)
                  THEN [call[c] EXCEPT !.wait = @ - 1] ELSE call[c]]
  /\ ahead' = IF ahead > 0 THEN ahead - 1 ELSE 0
  /\ recent' = {<<r[1] + 1, r[2]>> : r \in {r \in recent : r[1] + 1 < SecondTicks}}
  /\ rest' = [c \in Callers |->
                IF Doing(c, "sent") \/ rest[c] = SecondTicks THEN rest[c] ELSE rest[c] + 1]

ClientNext ==
  \/ ClientTick
  \/ \E c \in Callers :
       \/ Start(c) \/ GiveUp(c) \/ Arrive(c) \/ Return(c) \/ Retry(c)
       \/ \E hint \in Hints : TooMany(c, hint)

ClientSpec == ClientInit /\ [][ClientNext]_clientVars

-----------------------------------------------------------------------------
(* Properties *)

ClientTypeOK ==
  /\ call \in [Callers -> [pc : {"idle", "wait", "sent", "sleep"},
                           wait : Int, attempt : 0..MaxRetries]]
  /\ \A c \in Callers : call[c].wait >= -Jitter
  /\ ahead \in 0..MaxAhead
  /\ recent \subseteq (0..SecondTicks - 1) \X (Nat \ {0})
  /\ rest \in [Callers -> 0..SecondTicks]

(* "Brief scheduling jitter ... can't tip a single 1-second window over the   *)
(* limit" (client.go:34): however many callers start, retry, are late or give *)
(* up, the server never counts more requests in a second than it takes, as    *)
(* long as they are no more than an interval late.                            *)
WindowRespected == Cardinality(recent) <= ServerLimit

(* "A 'reset: 0' hint doesn't cause an immediate re-request inside the same   *)
(* 1-second window" (client.go:233): a retry is on the wire a second after    *)
(* the 429 at the earliest.                                                   *)
RetryWaitsOutTheSecond ==
  \A c \in Callers : Doing(c, "sent") /\ call[c].attempt > 0 => rest[c] = SecondTicks
=============================================================================
