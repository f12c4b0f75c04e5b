--------------------------- MODULE SubmissionProofs ---------------------------
(***************************************************************************)
(* How submissions come from Fillout and become records, for any number of   *)
(* callers and submissions, any page size and any form: the pace of the      *)
(* client, what paging by offset misses, what becomes of an answer and how   *)
(* a record is recognised.                                                   *)
(***************************************************************************)
EXTENDS FilloutClient, Pagination, Transform, FiniteSetTheorems, SequenceTheorems,
        WellFoundedInduction, TLAPS

-----------------------------------------------------------------------------
(* The pace of the client.  No caller holds a slot that is still free, and   *)
(* no two hold the same.                                                     *)
Slots ==
  /\ \A c \in Callers : Doing(c, "wait") => call[c].wait < ahead
  /\ \A c, d \in Callers :
       Doing(c, "wait") /\ Doing(d, "wait") /\ call[c].wait = call[d].wait => c = d

(* The requests of the last ticks, and the callers that may send one now: all *)
(* of them have slots of these ticks or of the Jitter ticks before.           *)
Due == {c \in Callers : Doing(c, "wait") /\ call[c].wait <= 0}
Arrived(k) == {r \in recent : r[1] <= k}
SlotNow == IF ahead > 0 THEN 1 ELSE 0

Paced ==
  \A k \in 0..SecondTicks - 1 :
    Cardinality(Arrived(k)) + Cardinality(Due) <= k + Jitter + SlotNow

(* What a caller has waited since its last 429, and what it still will. *)
Rested ==
  \A c \in Callers :
    /\ call[c].pc \in {"wait", "sent"} /\ call[c].attempt > 0 => rest[c] = SecondTicks
    /\ Doing(c, "sleep") => /\ call[c].wait >= 0 /\ rest[c] + call[c].wait >= SecondTicks
                            /\ call[c].attempt < MaxRetries

ClientInv == ClientTypeOK /\ IsFiniteSet(recent) /\ Slots /\ Paced /\ Rested

(* One caller moves, the others stay. *)
LEMMA CallMoves ==
  ASSUME ClientTypeOK, NEW c \in Callers, NEW pc, NEW wait, NEW attempt,
         Becomes(c, pc, wait, attempt)
  PROVE  /\ DOMAIN call' = Callers
         /\ call'[c] = [pc |-> pc, wait |-> wait, attempt |-> attempt]
         /\ \A d \in Callers : d # c => call'[d] = call[d]
BY DEF Becomes, ClientTypeOK

LEMMA DoneMoves ==
  ASSUME ClientTypeOK, NEW c \in Callers, Done(c)
  PROVE  /\ DOMAIN call' = Callers /\ rest' \in [Callers -> 0..SecondTicks]
         /\ call'[c] = NoCall
         /\ \A d \in Callers : d # c => call'[d] = call[d] /\ rest'[d] = rest[d]
BY FilloutClientAssumption DEF Done, ClientTypeOK

LEMMA DueIsFinite == IsFiniteSet(Due) /\ Cardinality(Due) \in Nat
BY FS_Subset, FS_CardinalityType, FilloutClientAssumption DEF Due

LEMMA ArrivedIsFinite ==
  ASSUME IsFiniteSet(recent), NEW k
  PROVE  IsFiniteSet(Arrived(k)) /\ Cardinality(Arrived(k)) \in Nat
BY FS_Subset, FS_CardinalityType DEF Arrived

LEMMA ClientStarts == ClientInit => ClientInv
<1> SUFFICES ASSUME ClientInit PROVE ClientInv
  OBVIOUS
<1>1. ClientTypeOK
  BY FilloutClientAssumption DEF ClientInit, ClientTypeOK, NoCall
<1>2. recent = {} /\ Due = {} /\ \A k : Arrived(k) = {}
  BY DEF ClientInit, Due, Doing, NoCall, Arrived
<1>3. Paced
  BY <1>2, FS_EmptySet, FilloutClientAssumption DEF ClientInit, Paced, SlotNow
<1>4. Slots /\ Rested
  BY DEF ClientInit, Slots, Rested, Doing, NoCall
<1> QED BY <1>1, <1>2, <1>3, <1>4, FS_EmptySet DEF ClientInv

(* A caller that takes the next slot may send in this tick only if nobody     *)
(* held this tick's.                                                         *)
LEMMA AcquireKeeps ==
  ASSUME ClientInv, NEW c \in Callers, ~Doing(c, "wait"),
         NEW n \in 0..MaxRetries, n > 0 => rest[c] = SecondTicks,
         Acquire(c, n), UNCHANGED <<recent, rest>>
  PROVE  ClientInv'
<1>1. /\ DOMAIN call' = Callers
      /\ call'[c] = [pc |-> "wait", wait |-> ahead, attempt |-> n]
      /\ \A d \in Callers : d # c => call'[d] = call[d]
      /\ ahead' = ahead + 1 /\ ahead \in Nat /\ ahead' \in 0..MaxAhead
  BY CallMoves, FilloutClientAssumption DEF Acquire, ClientInv, ClientTypeOK
<1>2. ClientTypeOK'
  BY <1>1, FilloutClientAssumption, SMT DEF ClientInv, ClientTypeOK, Becomes, Acquire
<1>3. Slots'
  BY <1>1, FilloutClientAssumption DEF ClientInv, ClientTypeOK, Slots, Doing
<1>4. Rested'
  BY <1>1 DEF ClientInv, Rested, Doing
<1>5. Paced'
  <2>1. SlotNow' = 1 /\ SlotNow \in {0, 1}
    BY <1>1 DEF SlotNow
  <2>2. Cardinality(Due') <= Cardinality(Due) + (1 - SlotNow) /\ Cardinality(Due') \in Nat
    <3>1. CASE ahead = 0
      <4>1. Due' \subseteq Due \cup {c}
        BY <1>1 DEF Due, Doing
      <4>2. IsFiniteSet(Due \cup {c}) /\ Cardinality(Due \cup {c}) <= Cardinality(Due) + 1
        BY FS_AddElement, DueIsFinite
      <4> QED BY <4>1, <4>2, <3>1, FS_Subset, FS_CardinalityType, DueIsFinite DEF SlotNow
    <3>2. CASE ahead > 0
      <4>1. Due' \subseteq Due
        BY <1>1, <3>2 DEF Due, Doing
      <4> QED BY <4>1, <3>2, FS_Subset, FS_CardinalityType, DueIsFinite DEF SlotNow
    <3> QED BY <3>1, <3>2, <1>1
  <2>3. \A k : Arrived(k)' = Arrived(k)
    BY DEF Arrived
  <2> QED BY <2>1, <2>2, <2>3, ArrivedIsFinite, DueIsFinite, FilloutClientAssumption
          DEF Paced, ClientInv
<1> QED BY <1>2, <1>3, <1>4, <1>5 DEF ClientInv

LEMMA StartKeeps == ASSUME ClientInv, NEW c \in Callers, Start(c) PROVE ClientInv'
BY AcquireKeeps, FilloutClientAssumption DEF Start, Doing

LEMMA RetryKeeps == ASSUME ClientInv, NEW c \in Callers, Retry(c) PROVE ClientInv'
<1>1. rest[c] = SecondTicks /\ call[c].attempt + 1 \in 0..MaxRetries
  BY FilloutClientAssumption DEF Retry, Doing, ClientInv, ClientTypeOK, Rested
<1> QED BY <1>1, AcquireKeeps DEF Retry, Doing

(* The number of those who may send now does not grow: what a caller does     *)
(* that gives its slot up, or has none.                                       *)
LEMMA PaceKeeps ==
  ASSUME ClientInv, recent' = recent, Due' \subseteq Due,
         \/ ahead' = ahead
         \/ ahead' > 0
         \/ Cardinality(Due') < Cardinality(Due)
  PROVE  Paced'
<1>1. Cardinality(Due') <= Cardinality(Due) /\ Cardinality(Due') \in Nat
  BY FS_Subset, FS_CardinalityType, DueIsFinite
<1>2. SlotNow' \in {0, 1} /\ SlotNow \in {0, 1}
  BY DEF SlotNow
<1>3. Cardinality(Due') + SlotNow <= Cardinality(Due) + SlotNow'
  BY <1>1, <1>2, DueIsFinite DEF SlotNow
<1>4. \A k : Arrived(k)' = Arrived(k)
  BY DEF Arrived
<1> QED BY <1>1, <1>2, <1>3, <1>4, ArrivedIsFinite, DueIsFinite, FilloutClientAssumption
        DEF Paced, ClientInv

LEMMA GiveUpKeeps == ASSUME ClientInv, NEW c \in Callers, GiveUp(c) PROVE ClientInv'
<1>1. /\ DOMAIN call' = Callers /\ rest' \in [Callers -> 0..SecondTicks]
      /\ call'[c] = NoCall
      /\ \A d \in Callers : d # c => call'[d] = call[d] /\ rest'[d] = rest[d]
  BY DoneMoves DEF GiveUp, ClientInv
<1>2. ahead \in 0..MaxAhead /\ ahead' \in 0..MaxAhead
  BY FilloutClientAssumption DEF GiveUp, ClientInv, ClientTypeOK
<1>3. ClientTypeOK'
  BY <1>1, <1>2, FilloutClientAssumption, SMT
     DEF GiveUp, Done, NoCall, ClientInv, ClientTypeOK
<1>4. Slots'
  <2>1. \A d \in Callers : call[d].wait \in Int
    BY DEF ClientInv, ClientTypeOK
  <2>2. \A d \in Callers : call'[d].pc = "wait" => d # c /\ call'[d] = call[d]
    BY <1>1 DEF NoCall
  <2>3. ASSUME NEW d \in Callers, call'[d].pc = "wait" PROVE call'[d].wait < ahead'
    <3>1. call[d].wait < ahead /\ call[d].wait # call[c].wait
      BY <2>2, <2>3 DEF GiveUp, Doing, ClientInv, Slots
    <3> QED BY <2>1, <2>2, <2>3, <3>1, <1>2 DEF GiveUp
  <2> QED BY <2>2, <2>3 DEF ClientInv, Slots, Doing
<1>5. Rested'
  BY <1>1 DEF ClientInv, Rested, Doing, NoCall
<1>6. Due' \subseteq Due \ {c}
  BY <1>1 DEF Due, Doing, NoCall
<1>7. \/ ahead' = ahead \/ ahead' > 0 \/ Cardinality(Due') < Cardinality(Due)
  <2>1. CASE c \in Due
    BY <2>1, <1>6, FS_RemoveElement, FS_Subset, FS_CardinalityType, DueIsFinite
  <2>2. CASE c \notin Due
    BY <2>2, <1>2, FilloutClientAssumption DEF GiveUp, Due, Doing, ClientInv, ClientTypeOK
  <2> QED BY <2>1, <2>2
<1>8. Paced'
  BY <1>6, <1>7, PaceKeeps DEF GiveUp
<1> QED BY <1>3, <1>4, <1>5, <1>8 DEF ClientInv, GiveUp

(* Whoever arrives, ends or sleeps holds no slot any more, and the others      *)
(* keep theirs.                                                              *)
LEMMA SlotsStay ==
  ASSUME ClientInv, NEW c \in Callers, UNCHANGED ahead, call'[c].pc # "wait",
         \A d \in Callers : d # c => call'[d] = call[d]
  PROVE  Slots' /\ Due' \subseteq Due \ {c}
BY DEF ClientInv, Slots, Due, Doing

LEMMA ArriveKeeps == ASSUME ClientInv, NEW c \in Callers, Arrive(c) PROVE ClientInv'
<1> DEFINE r == <<0, Cardinality({q \in recent : q[1] = 0}) + 1>>
<1>1. /\ DOMAIN call' = Callers
      /\ call'[c] = [pc |-> "sent", wait |-> 0, attempt |-> call[c].attempt]
      /\ \A d \in Callers : d # c => call'[d] = call[d]
      /\ recent' = recent \cup {r} /\ UNCHANGED <<ahead, rest>>
  BY CallMoves DEF Arrive, ClientInv
<1>2. IsFiniteSet(recent) /\ ClientTypeOK /\ Paced
  BY DEF ClientInv
<1>3. Cardinality({q \in recent : q[1] = 0}) \in Nat
  BY <1>2, FS_Subset, FS_CardinalityType
<1>4. ClientTypeOK'
  <2>1. r \in (0..SecondTicks - 1) \X (Nat \ {0})
    BY <1>3, FilloutClientAssumption
  <2>2. call' \in [Callers -> [pc : {"idle", "wait", "sent", "sleep"},
                               wait : Int, attempt : 0..MaxRetries]]
    BY <1>1, <1>2 DEF ClientTypeOK, Arrive, Becomes
  <2> HIDE DEF r
  <2> QED BY <1>1, <1>2, <2>1, <2>2, FilloutClientAssumption DEF ClientTypeOK
<1>5. Slots' /\ Due' \subseteq Due \ {c}
  BY <1>1, SlotsStay
<1>6. Rested'
  BY <1>1 DEF Arrive, ClientInv, Rested, Doing
<1>7. Paced'
  <2>1. c \in Due
    BY DEF Arrive, Due
  <2>2. Cardinality(Due') <= Cardinality(Due) - 1 /\ Cardinality(Due') \in Nat
    BY <2>1, <1>5, FS_RemoveElement, FS_Subset, FS_CardinalityType, DueIsFinite
  <2>3. ASSUME NEW k \in 0..SecondTicks - 1
        PROVE  /\ Cardinality(Arrived(k)') <= Cardinality(Arrived(k)) + 1
               /\ Cardinality(Arrived(k)') \in Nat
    <3> HIDE DEF r
    <3>1. Arrived(k)' \subseteq Arrived(k) \cup {r}
      BY <1>1 DEF Arrived
    <3>2. /\ IsFiniteSet(Arrived(k) \cup {r})
          /\ Cardinality(Arrived(k) \cup {r}) <= Cardinality(Arrived(k)) + 1
      <4>1. IsFiniteSet(Arrived(k)) /\ Cardinality(Arrived(k)) \in Nat
        BY <1>2, ArrivedIsFinite
      <4> QED BY <4>1, FS_AddElement
    <3>3. /\ IsFiniteSet(Arrived(k)')
          /\ Cardinality(Arrived(k)') <= Cardinality(Arrived(k) \cup {r})
      BY <3>1, <3>2, FS_Subset
    <3>4. Cardinality(Arrived(k)') \in Nat /\ Cardinality(Arrived(k) \cup {r}) \in Nat
      BY <3>2, <3>3, FS_CardinalityType
    <3> QED BY <3>2, <3>3, <3>4, ArrivedIsFinite, <1>2
  <2>4. SlotNow' = SlotNow
    BY <1>1 DEF SlotNow
  <2> HIDE DEF r
  <2>5. \A k \in 0..SecondTicks - 1 :
          Cardinality(Arrived(k)') + Cardinality(Due') <= k + Jitter + SlotNow'
    BY <1>2, <2>2, <2>3, <2>4, ArrivedIsFinite, DueIsFinite, FilloutClientAssumption
       DEF Paced, SlotNow
  <2> QED BY <2>5 DEF Paced
<1>8. IsFiniteSet(recent')
  BY <1>1, <1>2, FS_AddElement
<1> QED BY <1>4, <1>5, <1>6, <1>7, <1>8 DEF ClientInv

LEMMA ReturnKeeps == ASSUME ClientInv, NEW c \in Callers, Return(c) PROVE ClientInv'
<1>1. /\ DOMAIN call' = Callers /\ rest' \in [Callers -> 0..SecondTicks]
      /\ call'[c] = NoCall
      /\ \A d \in Callers : d # c => call'[d] = call[d] /\ rest'[d] = rest[d]
      /\ UNCHANGED <<ahead, recent>>
  BY DoneMoves DEF Return, ClientInv
<1>2. ClientTypeOK'
  BY <1>1, FilloutClientAssumption, SMT DEF Return, Done, NoCall, ClientInv, ClientTypeOK
<1>3. Slots' /\ Due' \subseteq Due
  BY <1>1, SlotsStay DEF NoCall
<1>4. Rested'
  BY <1>1 DEF ClientInv, Rested, Doing, NoCall
<1>5. Paced'
  BY <1>1, <1>3, PaceKeeps
<1> QED BY <1>1, <1>2, <1>3, <1>4, <1>5 DEF ClientInv

(* A hint never makes the wait shorter than a second.                         *)
LEMMA WaitIsASecond ==
  ASSUME NEW hint \in Nat
  PROVE  retryAfter(hint) \in Nat /\ retryAfter(hint) >= SecondTicks
<1>1. \A n \in Nat \ {0} : SecondTicks * n \in Nat /\ SecondTicks * n >= SecondTicks
  BY FilloutClientAssumption
<1> QED BY <1>1, FilloutClientAssumption DEF retryAfter

LEMMA TooManyKeeps ==
  ASSUME ClientInv, NEW c \in Callers, NEW hint \in Hints, TooMany(c, hint)
  PROVE  ClientInv'
<1>1. CASE MayRetry(call[c].attempt)
  <2>1. /\ DOMAIN call' = Callers
        /\ call'[c] = [pc |-> "sleep", wait |-> retryAfter(hint), attempt |-> call[c].attempt]
        /\ \A d \in Callers : d # c => call'[d] = call[d]
        /\ rest' = [rest EXCEPT ![c] = 0] /\ UNCHANGED <<ahead, recent>>
    BY <1>1, CallMoves DEF TooMany, ClientInv
  <2>2. retryAfter(hint) \in Nat /\ retryAfter(hint) >= SecondTicks
    BY WaitIsASecond, FilloutClientAssumption
  <2>3. rest' \in [Callers -> 0..SecondTicks] /\ rest'[c] = 0
    BY <2>1, FilloutClientAssumption DEF ClientInv, ClientTypeOK
  <2>4. ClientTypeOK'
    <3>1. call' \in [Callers -> [pc : {"idle", "wait", "sent", "sleep"},
                                 wait : Int, attempt : 0..MaxRetries]]
      BY <1>1, <2>1, <2>2 DEF TooMany, Becomes, ClientInv, ClientTypeOK
    <3> QED BY <3>1, <2>1, <2>2, <2>3, FilloutClientAssumption DEF ClientInv, ClientTypeOK
  <2>5. Slots' /\ Due' \subseteq Due
    BY <2>1, SlotsStay
  <2>6. Rested'
    <3>1. ASSUME NEW d \in Callers, d # c PROVE rest'[d] = rest[d]
      BY <3>1, <2>1 DEF ClientInv, ClientTypeOK
    <3> QED BY <3>1, <1>1, <2>1, <2>2, <2>3, FilloutClientAssumption
            DEF ClientInv, Rested, Doing, MayRetry
  <2>7. Paced'
    BY <2>1, <2>5, PaceKeeps
  <2> QED BY <2>1, <2>4, <2>5, <2>6, <2>7 DEF ClientInv
<1>2. CASE ~MayRetry(call[c].attempt)
  BY <1>2, ReturnKeeps DEF TooMany, Return, Doing
<1> QED BY <1>1, <1>2

(* A tick later, requests are a tick older, and at most the one caller whose  *)
(* slot comes up joins those who may send.                                    *)
LEMMA TickAges ==
  ASSUME ClientInv, ClientTick, NEW k \in 0..SecondTicks - 1
  PROVE  /\ k = 0 => Arrived(k)' = {}
         /\ k > 0 => Cardinality(Arrived(k)') <= Cardinality(Arrived(k - 1))
<1>1. recent' = {<<r[1] + 1, r[2]>> : r \in {r \in recent : r[1] + 1 < SecondTicks}}
  BY DEF ClientTick
<1>2. /\ recent \subseteq (0..SecondTicks - 1) \X (Nat \ {0})
      /\ IsFiniteSet(recent)
  BY DEF ClientInv, ClientTypeOK
<1>3. CASE k = 0
  BY <1>1, <1>2, <1>3 DEF Arrived
<1>4. CASE k > 0
  <2> DEFINE older == [q \in Arrived(k)' |-> <<q[1] - 1, q[2]>>]
  <2>1. ASSUME NEW q \in Arrived(k)'
        PROVE  /\ q = <<q[1], q[2]>> /\ q[1] \in Int
               /\ <<q[1] - 1, q[2]>> \in Arrived(k - 1)
    <3>1. PICK r \in recent : q = <<r[1] + 1, r[2]>>
      BY <1>1, <2>1 DEF Arrived
    <3>2. r = <<r[1], r[2]>> /\ r[1] \in Int /\ q[1] <= k
      BY <1>2, <2>1, <3>1 DEF Arrived
    <3> QED BY <3>1, <3>2 DEF Arrived
  <2>2. older \in Injection(Arrived(k)', Arrived(k - 1))
    <3>1. older \in [Arrived(k)' -> Arrived(k - 1)]
      BY <2>1
    <3>2. ASSUME NEW p \in Arrived(k)', NEW q \in Arrived(k)', older[p] = older[q]
          PROVE  p = q
      BY <2>1, <3>2
    <3> HIDE DEF older
    <3> QED BY <3>1, <3>2 DEF Injection, IsInjective
  <2> HIDE DEF older
  <2> QED BY <1>2, <1>4, <2>2, ArrivedIsFinite, FS_Injection
<1> QED BY <1>3, <1>4, FilloutClientAssumption

LEMMA HoldersAreFew ==
  ASSUME ClientTypeOK, Slots, NEW low \in Int, NEW high \in Int, low <= high + 1,
         NEW S \in SUBSET {c \in Callers : Doing(c, "wait")},
         \A c \in S : call[c].wait \in low..high
  PROVE  Cardinality(S) <= high - low + 1
<1> DEFINE slot == [c \in S |-> call[c].wait]
<1>1. slot \in Injection(S, low..high)
  <2>1. slot \in [S -> low..high]
    OBVIOUS
  <2>2. ASSUME NEW c \in S, NEW d \in S, slot[c] = slot[d] PROVE c = d
    BY <2>2 DEF Slots
  <2> HIDE DEF slot
  <2> QED BY <2>1, <2>2 DEF Injection, IsInjective
<1>2. IsFiniteSet(low..high) /\ Cardinality(low..high) = high - low + 1
  BY FS_Interval
<1> HIDE DEF slot
<1> QED BY <1>1, <1>2, FS_Injection

LEMMA ClientTickKeeps == ASSUME ClientInv, ClientTick PROVE ClientInv'
<1>1. \A c \in Callers :
        /\ call[c].wait \in Int /\ call[c].wait >= -Jitter
        /\ Doing(c, "wait") => call[c].wait > -Jitter
        /\ call'[c].pc = call[c].pc /\ call'[c].attempt = call[c].attempt
        /\ call'[c].wait = IF Doing(c, "wait") \/ (Doing(c, "sleep") /\ call[c].wait > 0)
                             THEN call[c].wait - 1 ELSE call[c].wait
  BY DEF ClientTick, ClientInv, ClientTypeOK
<1>2. /\ ahead \in 0..MaxAhead /\ ahead' \in 0..MaxAhead
      /\ ahead' = IF ahead > 0 THEN ahead - 1 ELSE 0
  BY FilloutClientAssumption DEF ClientTick, ClientInv, ClientTypeOK
<1>3. ClientTypeOK'
  <2>1. call' \in [Callers -> [pc : {"idle", "wait", "sent", "sleep"},
                               wait : Int, attempt : 0..MaxRetries]]
    BY DEF ClientTick, ClientInv, ClientTypeOK
  <2>2. \A c \in Callers : call'[c].wait >= -Jitter
    BY <1>1, FilloutClientAssumption DEF Doing
  <2>3. rest' \in [Callers -> 0..SecondTicks]
    <3>1. rest' = [c \in Callers |->
                     IF Doing(c, "sent") \/ rest[c] = SecondTicks THEN rest[c] ELSE rest[c] + 1]
      BY DEF ClientTick
    <3>2. \A c \in Callers : rest[c] \in 0..SecondTicks
      BY DEF ClientInv, ClientTypeOK
    <3> QED BY <3>1, <3>2, FilloutClientAssumption
  <2>4. recent' \subseteq (0..SecondTicks - 1) \X (Nat \ {0})
    BY FilloutClientAssumption DEF ClientTick, ClientInv, ClientTypeOK
  <2> QED BY <1>2, <2>1, <2>2, <2>3, <2>4 DEF ClientTypeOK
<1>4. IsFiniteSet(recent')
  <2> DEFINE young == {r \in recent : r[1] + 1 < SecondTicks}
             older == [r \in young |-> <<r[1] + 1, r[2]>>]
  <2>1. IsFiniteSet(young)
    BY FS_Subset DEF ClientInv
  <2>2. older \in Surjection(young, recent')
    BY DEF ClientTick, Surjection
  <2> HIDE DEF young, older
  <2> QED BY <2>1, <2>2, FS_Surjection
<1>5. Slots'
  <2>1. \A c \in Callers : Doing(c, "wait")' => Doing(c, "wait") /\ call'[c].wait = call[c].wait - 1
    BY <1>1 DEF Doing
  <2>2. ASSUME NEW c \in Callers, Doing(c, "wait")' PROVE call'[c].wait < ahead'
    BY <1>1, <1>2, <2>1, <2>2 DEF ClientInv, Slots
  <2>3. ASSUME NEW c \in Callers, NEW d \in Callers, Doing(c, "wait")', Doing(d, "wait")',
               call'[c].wait = call'[d].wait
        PROVE  c = d
    BY <1>1, <2>1, <2>3 DEF ClientInv, Slots
  <2> QED BY <2>2, <2>3 DEF Slots
<1>6. Rested'
  <2>1. \A c \in Callers :
          /\ rest[c] \in 0..SecondTicks
          /\ rest'[c] = IF Doing(c, "sent") \/ rest[c] = SecondTicks THEN rest[c] ELSE rest[c] + 1
    BY DEF ClientTick, ClientInv, ClientTypeOK
  <2> QED BY <1>1, <2>1, FilloutClientAssumption DEF ClientInv, Rested, Doing
<1>7. Paced'
  <2>1. SlotNow' \in {0, 1} /\ SlotNow \in {0, 1}
    BY DEF SlotNow
  <2>2. Cardinality(Due') \in Nat /\ IsFiniteSet(Due')
    BY FS_Subset, FS_CardinalityType, FilloutClientAssumption DEF Due
  <2>3. Cardinality(Due') <= Cardinality(Due) + SlotNow'
    <3>1. CASE ahead' = 0
      <4>1. Due' \subseteq Due
        BY <1>1, <1>2, <3>1 DEF Due, Doing, ClientInv, Slots
      <4> QED BY <4>1, <3>1, FS_Subset, DueIsFinite DEF SlotNow
    <3>2. CASE ahead' # 0 /\ Due' \subseteq Due
      BY <3>2, <2>1, <2>2, FS_Subset, DueIsFinite
    <3>3. CASE ahead' # 0 /\ ~(Due' \subseteq Due)
      <4>1. PICK c \in Due' : c \notin Due
        BY <3>3
      <4>2. c \in Callers /\ Doing(c, "wait") /\ call[c].wait = 1
        BY <4>1, <1>1 DEF Due, Doing
      <4>3. Due' \subseteq Due \cup {c}
        BY <1>1, <4>2 DEF Due, Doing, ClientInv, Slots
      <4>4. IsFiniteSet(Due \cup {c}) /\ Cardinality(Due \cup {c}) = Cardinality(Due) + 1
        BY <4>1, FS_AddElement, DueIsFinite
      <4> QED BY <4>3, <4>4, <3>3, <1>2, FS_Subset DEF SlotNow
    <3> QED BY <3>1, <3>2, <3>3
  <2>4. Cardinality(Due') <= Jitter + SlotNow'
    <3>1. Due' \in SUBSET {c \in Callers : Doing(c, "wait")}
      BY <1>1 DEF Due, Doing
    <3>2. \A c \in Due' : call[c].wait \in 1 - Jitter..SlotNow'
      BY <1>1, <1>2, FilloutClientAssumption DEF Due, Doing, ClientInv, Slots, SlotNow
    <3>3. Cardinality(Due') <= SlotNow' - (1 - Jitter) + 1
      <4>1. SlotNow' \in Int /\ 1 - Jitter \in Int /\ 1 - Jitter <= SlotNow' + 1
        BY <2>1, FilloutClientAssumption
      <4>2. ASSUME NEW low \in Int, NEW high \in Int, low <= high + 1,
                   \A c \in Due' : call[c].wait \in low..high
            PROVE  Cardinality(Due') <= high - low + 1
        BY <3>1, <4>2, HoldersAreFew DEF ClientInv
      <4> QED BY ONLY <3>2, <4>1, <4>2
    <3> QED BY <3>3, <2>1, FilloutClientAssumption
  <2>5. ASSUME NEW k \in 0..SecondTicks - 1
        PROVE  Cardinality(Arrived(k)') + Cardinality(Due') <= k + Jitter + SlotNow'
    <3>1. CASE k = 0
      <4>1. Arrived(k)' = {}
        BY <3>1, TickAges
      <4>2. Cardinality(Arrived(k)') = 0
        BY <4>1, FS_EmptySet
      <4> QED BY <4>2, <3>1, <2>1, <2>2, <2>4, FilloutClientAssumption
    <3>2. CASE k > 0
      <4>1. k - 1 \in 0..SecondTicks - 1
        BY <3>2, FilloutClientAssumption
      <4>2. Cardinality(Arrived(k - 1)) + Cardinality(Due) <= k - 1 + Jitter + SlotNow
        BY <4>1 DEF ClientInv, Paced
      <4>3. Cardinality(Arrived(k)') <= Cardinality(Arrived(k - 1))
        BY <3>2, TickAges
      <4>4. /\ IsFiniteSet(Arrived(k)') /\ Cardinality(Arrived(k)') \in Nat
            /\ Cardinality(Arrived(k - 1)) \in Nat
        <5>1. Arrived(k)' \subseteq recent'
          BY DEF Arrived
        <5> QED BY <5>1, <1>4, FS_Subset, FS_CardinalityType, ArrivedIsFinite DEF ClientInv
      <4> QED BY <4>2, <4>3, <4>4, <2>1, <2>2, <2>3, DueIsFinite, FilloutClientAssumption
    <3> QED BY <3>1, <3>2, FilloutClientAssumption
  <2> QED BY <2>5 DEF Paced
<1> QED BY <1>3, <1>4, <1>5, <1>6, <1>7 DEF ClientInv

LEMMA ClientInductive == ClientInv /\ [ClientNext]_clientVars => ClientInv'
<1> SUFFICES ASSUME ClientInv, [ClientNext]_clientVars PROVE ClientInv'
  OBVIOUS
<1>1. CASE ClientTick
  BY <1>1, ClientTickKeeps
<1>2. ASSUME NEW c \in Callers, Start(c) \/ GiveUp(c) \/ Arrive(c) \/ Return(c) \/ Retry(c)
      PROVE  ClientInv'
  BY <1>2, StartKeeps, GiveUpKeeps, ArriveKeeps, ReturnKeeps, RetryKeeps
<1>3. ASSUME NEW c \in Callers, NEW hint \in Hints, TooMany(c, hint) PROVE ClientInv'
  BY <1>3, TooManyKeeps
<1>4. CASE UNCHANGED clientVars
  BY <1>4 DEF clientVars, ClientInv, ClientTypeOK, Slots, Paced, Rested, Due, Arrived, SlotNow,
              Doing
<1> QED BY <1>1, <1>2, <1>3, <1>4 DEF ClientNext

LEMMA ClientInvHolds == ClientSpec => []ClientInv
BY ClientStarts, ClientInductive, PTL DEF ClientSpec

(* The client's variables stay in their types.                                *)
THEOREM ClientTypes == ClientSpec => []ClientTypeOK
<1>1. ClientInv => ClientTypeOK
  BY DEF ClientInv
<1> QED BY <1>1, ClientInvHolds, PTL

(* The limit that the server takes leaves room for the lateness of a request: *)
(* "We pace just below that so brief scheduling jitter ... can't tip a single  *)
(* 1-second window over the limit" (client.go:33).                            *)
Headroom == SecondTicks + Jitter <= ServerLimit

(* With that much room, no second ever sees more requests than the server      *)
(* takes, whoever calls, retries, gives up or is late (client.go:31).          *)
THEOREM WindowIsRespected == ASSUME Headroom PROVE ClientSpec => []WindowRespected
<1>1. ClientInv => WindowRespected
  <2> SUFFICES ASSUME ClientInv PROVE WindowRespected
    OBVIOUS
  <2>1. Arrived(SecondTicks - 1) = recent
    BY FilloutClientAssumption DEF ClientInv, ClientTypeOK, Arrived
  <2>2. SecondTicks - 1 \in 0..SecondTicks - 1
    BY FilloutClientAssumption
  <2>3. Cardinality(recent) + Cardinality(Due) <= SecondTicks - 1 + Jitter + SlotNow
    BY <2>1, <2>2 DEF ClientInv, Paced
  <2>4. SlotNow \in {0, 1} /\ Cardinality(recent) \in Nat
    BY FS_CardinalityType DEF SlotNow, ClientInv
  <2> QED BY <2>3, <2>4, DueIsFinite, FilloutClientAssumption DEF Headroom, WindowRespected
<1> QED BY <1>1, ClientInvHolds, PTL

(* A retry is on the wire a full second after the 429 it answers, however      *)
(* short the server's hint (client.go:229).                                   *)
THEOREM RetriesAreSpaced == ClientSpec => []RetryWaitsOutTheSecond
<1>1. ClientInv => RetryWaitsOutTheSecond
  BY DEF ClientInv, Rested, RetryWaitsOutTheSecond, Doing
<1> QED BY <1>1, ClientInvHolds, PTL
-----------------------------------------------------------------------------
(* Paging by offset.  Pages and batches are in the order of the listing.  A   *)
(* full page divides into batches, so a page is fetched into an empty buffer. *)
Ascending(seq) == \A i, j \in 1..Len(seq) : i < j => seq[i] < seq[j]

Ordered ==
  /\ Ascending(buf) /\ Ascending(batch)
  /\ stage = "idle" => buf = <<>>
  /\ stage = "paging" => \E n \in 0..PageSize : Len(buf) = n * BatchSize

(* The cursor is at a submission; a pass starts the overlap before one.       *)
Anchored ==
  /\ passed \in posted \cup {0}
  /\ cursor > 0 => \E t \in posted : cursor = PostedAt[t]
  /\ after > 0 => \E t \in posted : after + Overlap <= PostedAt[t]

(* What has been listed and neither handed on nor late, and what of it the     *)
(* pass, or its successors, will not be handed any more.                      *)
Open == listed \ (written \cup ToSet(buf) \cup late)
Marks == {cursor} \cup {PostedAt[b] : b \in ToSet(buf)}
Lost ==
  IF stage = "paging"
    THEN {s \in Open : PostedAt[s] <= after \/ s <= passed}
    ELSE {s \in Open : \E end \in Marks : PostedAt[s] + Overlap <= end}

(* Every one of them is paid for by a deletion, and so is every place by which *)
(* the listing has moved up under the offset.                                 *)
Paid ==
  /\ Cardinality(Lost) <= holes
  /\ stage = "paging" => Cardinality(Lost) + offset - Place(passed) <= holes

PagingInv == PagingTypeOK /\ Ordered /\ Anchored /\ Paid

LEMMA TotalIsNat == Total \in Nat
BY PaginationAssumption

LEMMA PostedInOrder ==
  ASSUME NEW s \in Submissions, NEW t \in Submissions, s < t
  PROVE  PostedAt[s] <= PostedAt[t]
BY PaginationAssumption DEF Submissions

LEMMA PostingTimes ==
  /\ \A s \in Submissions : PostedAt[s] \in Nat /\ PostedAt[s] > 0
  /\ Overlap \in Nat
BY PaginationAssumption DEF Submissions

LEMMA Sizes ==
  /\ PageSize \in Nat /\ PageSize > 0 /\ BatchSize \in Nat /\ BatchSize > 0
  /\ \E n \in Nat : PageSize = n * BatchSize
BY PaginationAssumption

LEMMA PagingIsFinite ==
  ASSUME PagingTypeOK
  PROVE  /\ IsFiniteSet(Matching) /\ Matching \subseteq Int /\ Matching \subseteq Submissions
         /\ IsFiniteSet(Lost) /\ Lost \subseteq Open /\ Open \subseteq Submissions
         /\ Cardinality(Matching) \in Nat /\ Cardinality(Lost) \in Nat
         /\ \A s \in Int : /\ IsFiniteSet({t \in Matching : t <= s})
                           /\ Place(s) \in Nat
<1>1. IsFiniteSet(Submissions) /\ Submissions \subseteq Int
  BY FS_Interval, TotalIsNat DEF Submissions
<1>2. /\ Matching \subseteq Submissions /\ Lost \subseteq Open /\ Open \subseteq Submissions
  BY DEF PagingTypeOK, Matching, Lost, Open
<1>3. IsFiniteSet(Matching) /\ IsFiniteSet(Lost)
  BY <1>1, <1>2, FS_Subset
<1>4. \A s \in Int : IsFiniteSet({t \in Matching : t <= s}) /\ Place(s) \in Nat
  <2> TAKE s \in Int
  <2>1. {t \in Matching : t <= s} \subseteq Matching
    OBVIOUS
  <2> QED BY <1>3, <2>1, FS_Subset, FS_CardinalityType DEF Place
<1>5. Cardinality(Matching) \in Nat /\ Cardinality(Lost) \in Nat
  BY <1>3, FS_CardinalityType
<1> QED BY <1>1, <1>2, <1>3, <1>4, <1>5

LEMMA PagingNumbers ==
  ASSUME PagingTypeOK
  PROVE  /\ offset \in Nat /\ passed \in Nat /\ cursor \in Nat /\ holes \in Nat
         /\ after \in Int /\ Place(passed) \in Nat
         /\ posted \subseteq Submissions /\ ToSet(buf) \subseteq posted
<1>1. /\ offset \in Nat /\ passed \in Nat /\ cursor \in Nat /\ holes \in Nat
      /\ after \in Int
      /\ posted \subseteq Submissions /\ ToSet(buf) \subseteq posted
  BY DEF PagingTypeOK
<1>2. Place(passed) \in Nat
  <2>1. \A s \in Int : Place(s) \in Nat
    BY PagingIsFinite
  <2> QED BY <1>1, <2>1
<1> QED BY <1>1, <1>2

(* The place of a submission in the listing: places are in order, and every    *)
(* place up to the length of the listing is taken.                            *)
LEMMA PlacesAscend ==
  ASSUME PagingTypeOK, NEW s \in Matching, NEW t \in Matching, s < t
  PROVE  Place(s) < Place(t)
<1> DEFINE upTo(x) == {u \in Matching : u <= x}
<1>1. Matching \subseteq Int
  BY PagingIsFinite
<1>2. upTo(s) \subseteq upTo(t) /\ t \in upTo(t) /\ t \notin upTo(s)
  <2>1. s \in Int /\ t \in Int
    BY <1>1
  <2>2. \A u \in Matching : u <= s => u <= t
    BY <1>1, <2>1
  <2>3. t <= t /\ ~(t <= s)
    BY <2>1
  <2> QED BY <2>2, <2>3, Zenon
<1>3. /\ IsFiniteSet(upTo(t)) /\ Cardinality(upTo(t)) \in Nat
      /\ Cardinality(upTo(s)) \in Nat
  BY <1>1, PagingIsFinite DEF Place
<1>4. Cardinality(upTo(s)) <= Cardinality(upTo(t)) /\ Cardinality(upTo(s)) # Cardinality(upTo(t))
  <2> HIDE DEF upTo
  <2> QED BY <1>2, <1>3, FS_Subset
<1> QED BY <1>3, <1>4 DEF Place

LEMMA PlacesAreTaken ==
  ASSUME PagingTypeOK
  PROVE  /\ \A s \in Matching : Place(s) \in 1..Cardinality(Matching)
         /\ \A i \in 1..Cardinality(Matching) : \E s \in Matching : Place(s) = i
<1> DEFINE N == Cardinality(Matching)
           place == [s \in Matching |-> Place(s)]
<1>1. N \in Nat /\ IsFiniteSet(Matching) /\ Matching \subseteq Int
  BY PagingIsFinite
<1>2. ASSUME NEW s \in Matching PROVE Place(s) \in 1..N
  <2>1. s \in {t \in Matching : t <= s} /\ {t \in Matching : t <= s} \subseteq Matching
    BY <1>1
  <2>2. Place(s) <= N /\ Place(s) \in Nat
    BY <1>1, <2>1, FS_Subset, PagingIsFinite DEF Place
  <2>3. Place(s) # 0
    BY <1>1, <2>1, FS_EmptySet, PagingIsFinite DEF Place
  <2> QED BY <2>2, <2>3, <1>1
<1>3. place \in Injection(Matching, 1..N)
  <2>1. place \in [Matching -> 1..N]
    BY <1>2
  <2>2. ASSUME NEW s \in Matching, NEW t \in Matching, place[s] = place[t] PROVE s = t
    <3>1. ~(s < t) /\ ~(t < s)
      BY <2>2, <1>2, PlacesAscend, <1>1
    <3> QED BY <3>1, <1>1
  <2> HIDE DEF place, N
  <2> QED BY <2>1, <2>2 DEF Injection, IsInjective
<1>4. IsFiniteSet(1..N) /\ Cardinality(1..N) = N
  BY <1>1, FS_Interval
<1>5. place \in Surjection(Matching, 1..N)
  <2>1. Cardinality(Matching) = Cardinality(1..N)
    BY <1>4
  <2> HIDE DEF place, N
  <2> QED BY <1>3, <1>4, <2>1, FS_Injection
<1> QED BY <1>2, <1>5 DEF Surjection

(* The listing is what matches, in order.                                     *)
LEMMA ListingIsOrdered ==
  ASSUME PagingTypeOK
  PROVE  /\ Listing \in Seq(Matching) /\ Len(Listing) = Cardinality(Matching)
         /\ \A i \in 1..Len(Listing) : Listing[i] \in Matching /\ Place(Listing[i]) = i
         /\ \A s \in Matching : Place(s) \in 1..Len(Listing) /\ Listing[Place(s)] = s
         /\ Ascending(Listing)
<1> DEFINE N == Cardinality(Matching)
<1>1. N \in Nat /\ Matching \subseteq Int
  BY PagingIsFinite
<1>2. ASSUME NEW i \in 1..N PROVE Listing[i] \in Matching /\ Place(Listing[i]) = i
  BY PlacesAreTaken DEF Listing
<1>3. Listing \in Seq(Matching) /\ Len(Listing) = N
  BY <1>1, <1>2 DEF Listing
<1>4. \A s, t \in Matching : Place(s) = Place(t) => s = t
  <2> SUFFICES ASSUME NEW s \in Matching, NEW t \in Matching, Place(s) = Place(t) PROVE s = t
    OBVIOUS
  <2>1. ~(s < t) /\ ~(t < s)
    BY PlacesAscend, PlacesAreTaken
  <2> QED BY <1>1, <2>1
<1>5. ASSUME NEW s \in Matching PROVE Place(s) \in 1..N /\ Listing[Place(s)] = s
  BY <1>2, <1>4, PlacesAreTaken
<1>6. ASSUME NEW i \in 1..N, NEW j \in 1..N, i < j PROVE Listing[i] < Listing[j]
  <2>1. /\ Listing[i] \in Matching /\ Listing[j] \in Matching
        /\ Place(Listing[i]) = i /\ Place(Listing[j]) = j
    BY <1>2
  <2>2. ~(Place(Listing[j]) < Place(Listing[i])) /\ Listing[i] # Listing[j]
    BY <1>6, <2>1
  <2>3. ~(Listing[j] < Listing[i])
    BY <2>1, <2>2, PlacesAscend
  <2>4. Listing[i] \in Int /\ Listing[j] \in Int
    BY <1>1, <2>1
  <2> QED BY <2>2, <2>3, <2>4
<1> HIDE DEF N
<1> QED BY <1>1, <1>2, <1>3, <1>5, <1>6 DEF Ascending, N

LEMMA DisjointUnion ==
  ASSUME NEW A, NEW B, IsFiniteSet(A), IsFiniteSet(B), A \cap B = {}
  PROVE  /\ IsFiniteSet(A \cup B)
         /\ Cardinality(A \cup B) = Cardinality(A) + Cardinality(B)
<1>1. Cardinality(A) \in Nat /\ Cardinality(B) \in Nat
  BY FS_CardinalityType
<1>2. Cardinality(A \cap B) = 0
  BY FS_EmptySet
<1>3. /\ IsFiniteSet(A \cup B)
      /\ Cardinality(A \cup B) = Cardinality(A) + Cardinality(B) - Cardinality(A \cap B)
  BY FS_Union
<1> QED BY <1>1, <1>2, <1>3

(* What lies behind the offset without having been handed on was moved there    *)
(* by deletions: the places before the offset are only so many.                *)
LEMMA ShiftedAreFew ==
  ASSUME PagingTypeOK, NEW E \in SUBSET {s \in Matching : s > passed /\ Place(s) <= offset}
  PROVE  /\ IsFiniteSet(E) /\ Cardinality(E) \in Nat
         /\ Cardinality(E) = 0 \/ Cardinality(E) + Place(passed) <= offset
<1> DEFINE Before == {s \in Matching : s <= passed}
           Behind == {s \in Matching : Place(s) <= offset}
           place == [s \in Behind |-> Place(s)]
<1>1. passed \in Int /\ offset \in Nat /\ Matching \subseteq Int
  BY PagingIsFinite DEF PagingTypeOK
<1>2. /\ IsFiniteSet(E) /\ Cardinality(E) \in Nat
      /\ IsFiniteSet(Before) /\ Cardinality(Before) \in Nat
  BY PagingIsFinite, FS_Subset, FS_CardinalityType
<1>3. CASE E = {}
  BY <1>2, <1>3, FS_EmptySet
<1>4. CASE E # {}
  <2>1. PICK e \in E : e \in Matching /\ e > passed /\ Place(e) <= offset
    BY <1>4
  <2>2. ASSUME NEW s \in Before PROVE s \in Behind
    <3>1. s \in Matching /\ s < e
      BY <1>1, <2>1
    <3>2. Place(s) < Place(e)
      BY <2>1, <3>1, PlacesAscend
    <3> QED BY <1>1, <2>1, <3>1, <3>2, PlacesAreTaken, PagingIsFinite
  <2>3. E \cap Before = {}
    <3>1. \A s \in E : s \in Int /\ s > passed
      BY <1>1
    <3>2. \A s \in Before : s <= passed
      OBVIOUS
    <3>3. \A s \in E : ~(s <= passed)
      BY ONLY <1>1, <3>1
    <3> QED BY ONLY <3>2, <3>3, Zenon
  <2>4. place \in Injection(Behind, 1..offset)
    <3>1. \A s \in Behind : Place(s) \in 1..offset
      BY <1>1, PlacesAreTaken, PagingIsFinite
    <3>2. ASSUME NEW s \in Behind, NEW u \in Behind, Place(s) = Place(u) PROVE s = u
      BY <3>2, ListingIsOrdered
    <3> HIDE DEF Behind
    <3>3. place \in [Behind -> 1..offset]
      BY <3>1
    <3>4. \A s, u \in Behind : place[s] = place[u] => s = u
      BY <3>2
    <3> HIDE DEF place
    <3> QED BY <3>3, <3>4 DEF Injection, IsInjective
  <2>5. IsFiniteSet(Behind) /\ Cardinality(Behind) <= offset /\ Cardinality(Behind) \in Nat
    <3>1. IsFiniteSet(1..offset) /\ Cardinality(1..offset) = offset
      BY <1>1, FS_Interval
    <3> HIDE DEF place, Behind
    <3>2. IsFiniteSet(Behind) /\ Cardinality(Behind) <= offset
      BY <2>4, <3>1, FS_Injection
    <3> QED BY <3>2, FS_CardinalityType
  <2>6. E \cup Before \subseteq Behind
    BY <2>2
  <2> HIDE DEF Before, Behind
  <2>7. /\ IsFiniteSet(E \cup Before)
        /\ Cardinality(E \cup Before) = Cardinality(E) + Cardinality(Before)
    BY ONLY <1>2, <2>3, DisjointUnion
  <2>8. Cardinality(E \cup Before) <= Cardinality(Behind)
    BY <2>5, <2>6, FS_Subset
  <2>9. Cardinality(Before) = Place(passed)
    BY DEF Place, Before
  <2> QED BY <1>1, <1>2, <2>5, <2>7, <2>8, <2>9
<1> QED BY <1>3, <1>4

LEMMA PagingStarts == PagingInit => PagingInv
<1> SUFFICES ASSUME PagingInit PROVE PagingInv
  OBVIOUS
<1>1. PICK n \in 0..Total : posted = 1..n
  BY DEF PagingInit
<1>2. PagingTypeOK
  <2>1. posted \subseteq Submissions
    BY <1>1, TotalIsNat DEF Submissions
  <2>2. PageSize \in Nat /\ BatchSize \in Nat
    BY PaginationAssumption
  <2> QED BY <2>1, <2>2 DEF PagingInit, PagingTypeOK, ToSet
<1>3. Ordered /\ Anchored
  BY DEF PagingInit, Ordered, Anchored, Ascending
<1>4. Lost = {}
  <2>1. Marks = {0}
    BY DEF PagingInit, Marks, ToSet
  <2>2. \A s \in Submissions : ~(PostedAt[s] + Overlap <= 0)
    BY PaginationAssumption DEF Submissions
  <2>3. Open \subseteq Submissions
    BY <1>2, PagingIsFinite
  <2> QED BY <2>1, <2>2, <2>3 DEF Lost, PagingInit
<1>5. Paid
  BY <1>4, FS_EmptySet DEF Paid, PagingInit
<1> QED BY <1>2, <1>3, <1>5 DEF PagingInv

(* When nothing more is lost and the listing does not move up under the        *)
(* offset, what has been paid covers the rest.                                *)
LEMMA PaidStays ==
  ASSUME PagingTypeOK, Paid, Lost' \subseteq Lost, holes' >= holes, holes' \in Nat,
         stage' = "paging" =>
           /\ stage = "paging" /\ offset' = offset
           /\ Place(passed)' \in Nat /\ Place(passed)' + (holes' - holes) >= Place(passed)
  PROVE  Paid'
<1>1. Cardinality(Lost') <= Cardinality(Lost) /\ Cardinality(Lost') \in Nat
  BY PagingIsFinite, FS_Subset, FS_CardinalityType
<1>2. /\ Cardinality(Lost) \in Nat /\ holes \in Nat /\ offset \in Nat
      /\ Place(passed) \in Nat
  BY PagingIsFinite, PagingNumbers
<1>3. CASE stage' = "paging"
  BY <1>1, <1>2, <1>3 DEF Paid
<1>4. CASE stage' # "paging"
  BY <1>1, <1>2, <1>4 DEF Paid
<1> QED BY <1>3, <1>4

(* A submission that becomes visible is late, or the pass will come to it.     *)
LEMMA PostKeeps == ASSUME PagingInv, NEW s \in Submissions, Post(s) PROVE PagingInv'
<1>1. /\ s \notin posted /\ posted' = posted \cup {s} /\ listed' = listed \cup {s}
      /\ late \subseteq late' /\ late' \subseteq late \cup {s}
      /\ stage = "paging" /\ s < passed => s \in late'
      /\ Outrun(s, Overlap) => s \in late'
      /\ UNCHANGED <<pagePass, cursor, written, batch, holes>>
  BY DEF Post
<1>2. PagingTypeOK'
  BY <1>1 DEF PagingInv, PagingTypeOK, pagePass
<1>3. Ordered' /\ Anchored'
  BY <1>1 DEF PagingInv, Ordered, Anchored, pagePass, Ascending
<1>4. s \in Int /\ s > 0 /\ passed \in Int /\ s # passed
  <2>1. s \in Int /\ s > 0
    BY TotalIsNat DEF Submissions
  <2> QED BY <1>1, <2>1 DEF PagingInv, Anchored, PagingTypeOK
<1>5. Open' \subseteq Open \cup {s} /\ (s \in Open' => s \notin late')
  BY <1>1 DEF Open, pagePass
<1>6. Lost' \subseteq Lost
  <2> SUFFICES ASSUME NEW x \in Lost' PROVE x \in Lost
    OBVIOUS
  <2>1. Marks' = Marks /\ stage' = stage /\ after' = after /\ passed' = passed
    BY <1>1 DEF Marks, pagePass
  <2>2. CASE x # s
    BY <1>5, <2>1, <2>2 DEF Lost
  <2>3. CASE x = s
    <3>1. s \notin late'
      BY <1>5, <2>3 DEF Lost
    <3>2. CASE stage = "paging"
      <4>1. PostedAt[s] <= after
        BY <1>1, <1>4, <2>1, <2>3, <3>1, <3>2 DEF Lost
      <4>2. after > 0 /\ PostedAt[s] \in Nat
        BY <4>1, PostingTimes, PagingNumbers DEF PagingInv
      <4>3. PICK u \in posted : after + Overlap <= PostedAt[u]
        BY <4>2 DEF PagingInv, Anchored
      <4>4. PostedAt[s] + Overlap <= PostedAt[u]
        <5>1. PostedAt[u] \in Nat /\ after \in Int /\ Overlap \in Nat
          BY PostingTimes, PagingNumbers DEF PagingInv
        <5> QED BY <4>1, <4>2, <4>3, <5>1
      <4> QED BY <1>1, <3>1, <4>4 DEF Outrun
    <3>3. CASE stage # "paging"
      <4>1. PICK end \in Marks : PostedAt[s] + Overlap <= end
        BY <2>1, <2>3, <3>3 DEF Lost
      <4>2. \E u \in posted : end = PostedAt[u]
        <5>1. PostedAt[s] + Overlap > 0 /\ PostedAt[s] + Overlap \in Nat /\ cursor \in Nat
          BY PostingTimes, PagingNumbers DEF PagingInv
        <5>2. end = cursor \/ \E b \in ToSet(buf) : end = PostedAt[b]
          BY DEF Marks
        <5>3. CASE end = cursor
          <6>1. cursor > 0
            BY <4>1, <5>1, <5>3
          <6> QED BY <5>3, <6>1 DEF PagingInv, Anchored
        <5>4. CASE \E b \in ToSet(buf) : end = PostedAt[b]
          BY <5>4, PagingNumbers DEF PagingInv
        <5> QED BY <5>2, <5>3, <5>4
      <4> QED BY <1>1, <3>1, <4>1, <4>2 DEF Outrun
    <3> QED BY <3>2, <3>3
  <2> QED BY <2>2, <2>3
<1>7. Place(passed)' \in Nat /\ Place(passed)' >= Place(passed)
  <2>1. Matching \subseteq Matching' /\ Matching' \subseteq Submissions
    BY <1>1, <1>2 DEF Matching, pagePass, PagingTypeOK
  <2>2. IsFiniteSet({t \in Matching' : t <= passed})
    <3>1. IsFiniteSet(Submissions)
      BY FS_Interval, TotalIsNat DEF Submissions
    <3>2. {t \in Matching' : t <= passed} \subseteq Submissions
      BY <2>1
    <3> QED BY <3>1, <3>2, FS_Subset
  <2>3. {t \in Matching : t <= passed} \subseteq {t \in Matching' : t <= passed}
    BY <2>1
  <2>4. /\ Cardinality({t \in Matching : t <= passed}) <= Cardinality({t \in Matching' : t <= passed})
        /\ Cardinality({t \in Matching' : t <= passed}) \in Nat
    BY <2>2, <2>3, FS_Subset, FS_CardinalityType
  <2> QED BY <1>1, <2>4 DEF Place, pagePass
<1>8. Paid'
  <2>1. /\ PagingTypeOK /\ Paid /\ holes \in Nat /\ holes' = holes /\ stage' = stage
        /\ offset' = offset /\ Place(passed) \in Nat
    BY <1>1, <1>4, PagingIsFinite DEF PagingInv, PagingTypeOK, pagePass
  <2> QED BY <1>6, <1>7, <2>1, PaidStays
<1> QED BY <1>2, <1>3, <1>8 DEF PagingInv

(* A deletion in what the pass has passed moves the rest up by one, and is      *)
(* counted.                                                                   *)
LEMMA DeleteKeeps == ASSUME PagingInv, NEW s \in listed, Delete(s) PROVE PagingInv'
<1>1. /\ listed' = listed \ {s}
      /\ holes' = IF stage = "paging" /\ s <= passed /\ PostedAt[s] > after
                    THEN holes + 1 ELSE holes
      /\ UNCHANGED <<posted, pagePass, cursor, written, batch, late>>
  BY DEF Delete
<1>2. holes \in Nat /\ holes' \in Nat /\ holes' >= holes
  BY <1>1, PagingNumbers DEF PagingInv
<1>3. PagingTypeOK'
  BY <1>1, <1>2 DEF PagingInv, PagingTypeOK, pagePass
<1>4. Ordered' /\ Anchored'
  BY <1>1 DEF PagingInv, Ordered, Anchored, pagePass, Ascending
<1>5. Lost' \subseteq Lost
  BY <1>1 DEF Lost, Open, Marks, pagePass
<1>6. ASSUME stage = "paging"
      PROVE  Place(passed)' \in Nat /\ Place(passed)' + (holes' - holes) >= Place(passed)
  <2> DEFINE Before == {t \in Matching : t <= passed}
  <2>1. Matching' = Matching \ {s} /\ passed' = passed
    BY <1>1 DEF Matching, pagePass
  <2>2. {t \in Matching' : t <= passed'} = Before \ {s}
    BY <2>1
  <2>3. passed \in Int /\ IsFiniteSet(Before) /\ Cardinality(Before) \in Nat
    <3>1. passed \in Nat
      BY PagingNumbers DEF PagingInv
    <3>2. passed \in Int
      BY ONLY <3>1
    <3>3. IsFiniteSet(Before)
      BY <3>2, PagingIsFinite, Zenon DEF PagingInv
    <3> QED BY ONLY <3>2, <3>3, FS_CardinalityType
  <2>4. s \in Before => holes' = holes + 1
    BY <1>1, <1>6 DEF Matching
  <2> HIDE DEF Before
  <2>5. /\ Cardinality(Before \ {s}) \in Nat
        /\ Cardinality(Before \ {s}) = IF s \in Before THEN Cardinality(Before) - 1
                                                       ELSE Cardinality(Before)
    BY <2>3, FS_RemoveElement, FS_CardinalityType
  <2>6. Cardinality(Before \ {s}) + (holes' - holes) >= Cardinality(Before)
    BY <1>2, <2>3, <2>4, <2>5
  <2> QED BY <2>2, <2>5, <2>6 DEF Place, Before
<1>7. Paid'
  <2>1. stage' = stage /\ offset' = offset
    BY <1>1 DEF pagePass
  <2> QED BY <1>2, <1>5, <1>6, <2>1, PaidStays DEF PagingInv
<1> QED BY <1>3, <1>4, <1>7 DEF PagingInv

(* A pass begins where the last one left off, the overlap before its cursor.    *)
LEMMA BeginPassKeepsPaging == ASSUME PagingInv, BeginPass PROVE PagingInv'
<1>1. /\ stage = "idle" /\ stage' = "paging" /\ after' = AfterDate(cursor)
      /\ offset' = 0 /\ buf' = <<>> /\ passed' = 0
      /\ UNCHANGED <<posted, listed, cursor, written, batch, late, holes>>
  BY DEF BeginPass
<1>2. buf = <<>> /\ cursor \in Nat /\ Overlap \in Nat /\ holes \in Nat
  BY <1>1, PagingNumbers, PostingTimes DEF PagingInv, Ordered
<1>3. PagingTypeOK'
  <2>1. after' \in Int
    BY <1>1, <1>2 DEF AfterDate
  <2> QED BY <1>1, <1>2, <2>1 DEF PagingInv, PagingTypeOK
<1>4. Ordered'
  <2>1. Len(buf') = 0 * BatchSize /\ 0 \in 0..PageSize
    BY <1>1, Sizes
  <2> QED BY <1>1, <1>2, <2>1 DEF PagingInv, Ordered, Ascending
<1>5. Anchored'
  <2>1. cursor > 0 => \E t \in posted : cursor = PostedAt[t]
    BY DEF PagingInv, Anchored
  <2>2. after' > 0 => cursor > 0 /\ after' + Overlap = cursor
    BY <1>1, <1>2 DEF AfterDate
  <2>3. after' > 0 => \E t \in posted : after' + Overlap <= PostedAt[t]
    BY <1>2, <2>1, <2>2
  <2> QED BY <1>1, <2>1, <2>3 DEF Anchored
<1>6. Lost' \subseteq Lost
  <2> SUFFICES ASSUME NEW s \in Lost' PROVE s \in Lost
    OBVIOUS
  <2>1. s \in Open /\ (PostedAt[s] <= after' \/ s <= 0)
    BY <1>1, <1>2 DEF Lost, Open
  <2>2. s \in Int /\ s > 0 /\ PostedAt[s] \in Nat /\ PostedAt[s] > 0
    <3>1. s \in Submissions
      BY <2>1, PagingIsFinite DEF PagingInv
    <3> QED BY <3>1, PostingTimes, TotalIsNat DEF Submissions
  <2>3. PostedAt[s] + Overlap <= cursor
    BY <1>1, <1>2, <2>1, <2>2 DEF AfterDate
  <2> QED BY <1>1, <2>1, <2>3 DEF Lost, Marks
<1>7. Place(passed)' = 0
  <2>1. Matching' \subseteq Submissions /\ passed' = 0
    BY <1>1, <1>3 DEF Matching, PagingTypeOK
  <2>2. \A t \in Matching' : ~(t <= passed')
    BY <2>1, TotalIsNat DEF Submissions
  <2>3. {t \in Matching' : t <= passed'} = {}
    BY <2>2, Zenon
  <2> QED BY <2>3, FS_EmptySet DEF Place
<1>8. Paid'
  <2>1. Cardinality(Lost') <= Cardinality(Lost) /\ Cardinality(Lost') \in Nat
    BY <1>6, PagingIsFinite, FS_Subset, FS_CardinalityType DEF PagingInv
  <2>2. Cardinality(Lost) <= holes /\ Cardinality(Lost) \in Nat
    BY PagingIsFinite DEF PagingInv, Paid
  <2> QED BY <1>1, <1>2, <1>7, <2>1, <2>2 DEF Paid
<1> QED BY <1>3, <1>4, <1>5, <1>8 DEF PagingInv

LEMMA EndPassKeepsPaging == ASSUME PagingInv, EndPass PROVE PagingInv'
<1>1. /\ stage = "ended" /\ buf = <<>> /\ stage' = "idle"
      /\ after' = 0 /\ offset' = 0 /\ passed' = 0
      /\ UNCHANGED <<posted, listed, buf, cursor, written, batch, late, holes>>
  BY DEF EndPass
<1>2. PagingTypeOK'
  BY <1>1 DEF PagingInv, PagingTypeOK
<1>3. Ordered' /\ Anchored'
  BY <1>1 DEF PagingInv, Ordered, Anchored, Ascending
<1>4. Lost' = Lost
  BY <1>1 DEF Lost, Open, Marks
<1>5. Paid'
  BY <1>1, <1>4 DEF PagingInv, Paid
<1> QED BY <1>2, <1>3, <1>5 DEF PagingInv

(* A page is a slice of the listing; a short one ends it.                      *)
LEMMA PageIsASlice ==
  ASSUME PagingTypeOK
  PROVE  /\ Page \in Seq(Matching) /\ Len(Page) \in 0..PageSize
         /\ \A i \in 1..Len(Page) : /\ offset + i \in 1..Len(Listing)
                                    /\ Page[i] = Listing[offset + i]
         /\ Len(Page) = PageSize => offset + PageSize <= Len(Listing)
         /\ Len(Page) < PageSize =>
              \A i \in 1..Len(Listing) : i > offset => i - offset \in 1..Len(Page)
         /\ Ascending(Page)
<1> DEFINE end == IF offset + PageSize < Len(Listing) THEN offset + PageSize ELSE Len(Listing)
<1>1. /\ offset \in Nat /\ PageSize \in Nat /\ PageSize > 0
      /\ Listing \in Seq(Matching) /\ Len(Listing) \in Nat
      /\ \A i, j \in 1..Len(Listing) : i < j => Listing[i] < Listing[j]
  BY ListingIsOrdered, PagingIsFinite, PagingNumbers, Sizes DEF Ascending
<1>2. Page = SubSeq(Listing, offset + 1, end)
  BY DEF Page, Slice
<1>3. end \in Nat /\ end <= Len(Listing)
  BY <1>1
<1>4. /\ Page \in Seq(Matching)
      /\ Len(Page) = IF offset + 1 <= end THEN end - offset ELSE 0
      /\ \A i \in 1..Len(Page) : Page[i] = Listing[offset + i]
  <2> HIDE DEF end
  <2>1. CASE offset + 1 <= end
    BY <1>1, <1>2, <1>3, <2>1, SubSeqProperties
  <2>2. CASE ~(offset + 1 <= end)
    BY <1>1, <1>2, <1>3, <2>2
  <2> QED BY <2>1, <2>2
<1>5. /\ Len(Page) \in 0..PageSize
      /\ \A i \in 1..Len(Page) : offset + i \in 1..Len(Listing)
      /\ Len(Page) = PageSize => offset + PageSize <= Len(Listing)
      /\ Len(Page) < PageSize =>
           \A i \in 1..Len(Listing) : i > offset => i - offset \in 1..Len(Page)
  BY <1>1, <1>3, <1>4
<1>6. ASSUME NEW i \in 1..Len(Page), NEW j \in 1..Len(Page), i < j PROVE Page[i] < Page[j]
  <2>1. offset + i < offset + j
    BY <1>1, <1>5, <1>6
  <2> QED BY <1>1, <1>4, <1>5, <2>1
<1> QED BY <1>4, <1>5, <1>6 DEF Ascending

(* A page hands on what lies between its ends; what a deletion moved across     *)
(* its start is lost.                                                         *)
LEMMA FetchPageKeeps == ASSUME PagingInv, FetchPage PROVE PagingInv'
<1> DEFINE E == Lost' \ Lost
<1>1. /\ stage = "paging" /\ buf' = buf \o Page /\ Len(buf) < BatchSize
      /\ UNCHANGED <<posted, listed, after, cursor, written, batch, late, holes>>
      /\ \/ Len(Page) < PageSize /\ stage' = "ended" /\ UNCHANGED <<offset, passed>>
         \/ /\ ~(Len(Page) < PageSize) /\ stage' = "paging"
            /\ offset' = offset + Len(Page) /\ passed' = Page[Len(Page)]
  BY DEF FetchPage
<1>2. /\ PagingTypeOK /\ buf \in Seq(Submissions) /\ batch \in Seq(Submissions)
      /\ Page \in Seq(Matching) /\ Len(Page) \in 0..PageSize /\ PageSize \in Nat
      /\ offset \in Nat /\ passed \in Nat /\ holes \in Nat /\ PageSize > 0
  BY PageIsASlice, PagingNumbers, Sizes DEF PagingInv, PagingTypeOK
<1>3. buf = <<>>
  <2>1. PICK n \in 0..PageSize : Len(buf) = n * BatchSize
    BY <1>1 DEF PagingInv, Ordered
  <2>2. n \in Nat /\ BatchSize \in Nat
    BY <1>2, Sizes
  <2>3. n > 0 => n * BatchSize >= BatchSize
    BY ONLY <2>2
  <2>4. Len(buf) = 0
    BY <2>1, <2>2, <2>3, <1>1
  <2> QED BY <2>4, <1>2, EmptySeq
<1>4. /\ buf' = Page /\ ToSet(buf) = {}
      /\ \A s : s \in ToSet(buf') <=> \E i \in 1..Len(Page) : s = Page[i]
  <2>1. <<>> \o Page = Page
    BY <1>2
  <2>2. DOMAIN Page = 1..Len(Page)
    BY <1>2
  <2> QED BY <1>1, <1>3, <2>1, <2>2 DEF ToSet
<1>5. Matching' = Matching /\ Matching \subseteq listed /\ Matching \subseteq posted
      /\ Matching \subseteq Submissions /\ Matching \subseteq Int
  BY <1>1, <1>2, PagingIsFinite DEF Matching, PagingTypeOK
<1>6. ToSet(buf') \subseteq posted /\ buf' \in Seq(Submissions) /\ Len(buf') <= PageSize
  <2>1. \A i \in 1..Len(Page) : Page[i] \in Matching
    BY <1>2
  <2>2. ToSet(buf') \subseteq posted
    BY <1>4, <1>5, <2>1
  <2>3. \A i \in 1..Len(Page) : Page[i] \in Submissions
    BY <1>5, <2>1
  <2>4. Page \in Seq(Submissions)
    BY <1>2, <2>3, SeqDef
  <2> QED BY <1>2, <1>4, <2>2, <2>4
<1>7. ~(Len(Page) < PageSize) =>
        /\ Len(Page) = PageSize /\ passed' \in Matching
        /\ passed' = Listing[offset'] /\ Place(passed)' = offset' /\ offset' \in Nat
        /\ offset' = offset + PageSize
  <2> SUFFICES ASSUME ~(Len(Page) < PageSize)
               PROVE  /\ Len(Page) = PageSize /\ passed' \in Matching
                      /\ passed' = Listing[offset'] /\ Place(passed)' = offset'
                      /\ offset' \in Nat /\ offset' = offset + PageSize
    OBVIOUS
  <2>1. Len(Page) = PageSize /\ Len(Page) \in 1..Len(Page)
    BY <1>2
  <2>2. /\ offset' = offset + PageSize /\ passed' = Listing[offset']
        /\ offset' \in 1..Len(Listing)
    BY <1>1, <1>2, <2>1, PageIsASlice
  <2>3. passed' \in Matching /\ Place(passed') = offset'
    BY <1>2, <2>2, ListingIsOrdered
  <2>4. Place(passed)' = offset'
    BY <1>5, <2>3 DEF Place
  <2> QED BY <1>2, <2>1, <2>2, <2>3, <2>4
<1>8. PagingTypeOK'
  <2>1. stage' \in {"idle", "paging", "ended"} /\ offset' \in Nat /\ passed' \in Nat
    <3>1. \A s \in Matching : s \in Nat
      BY <1>5, TotalIsNat DEF Submissions
    <3>2. ~(Len(Page) < PageSize) => passed' \in Nat
      BY <1>7, <3>1
    <3> QED BY <1>1, <1>2, <1>7, <3>2
  <2> QED BY <1>1, <1>2, <1>6, <2>1 DEF PagingTypeOK
<1>9. Ordered' /\ Anchored'
  <2>1. Ascending(buf')
    BY <1>2, <1>4, PageIsASlice
  <2>2. stage' = "paging" => \E n \in 0..PageSize : Len(buf') = n * BatchSize
    <3>1. \E n \in 1..PageSize : PageSize = n * BatchSize
      BY PaginationAssumption
    <3>2. \E n \in 0..PageSize : PageSize = n * BatchSize
      BY <1>2, <3>1
    <3> QED BY <1>1, <1>4, <1>7, <3>2
  <2>3. Ordered'
    BY <1>1, <2>1, <2>2 DEF PagingInv, Ordered, Ascending
  <2>4. passed' \in posted \cup {0}
    BY <1>1, <1>5, <1>7 DEF PagingInv, Anchored
  <2> QED BY <1>1, <2>3, <2>4 DEF PagingInv, Anchored
<1>10. E \subseteq {s \in Matching : s > passed /\ Place(s) <= offset}
  <2> SUFFICES ASSUME NEW s \in Lost', s \notin Lost
               PROVE  s \in Matching /\ s > passed /\ Place(s) <= offset
    OBVIOUS
  <2>1. s \in Open' /\ s \in Open /\ s \notin ToSet(buf') /\ s \in listed /\ s \in Submissions
    BY <1>1, <1>2, <1>4, PagingIsFinite DEF Lost, Open
  <2>2. s \in Matching /\ s > passed
    <3>1. s \in Int /\ PostedAt[s] \in Int /\ after \in Int
      BY <2>1, TotalIsNat, PostingTimes, PagingNumbers, <1>2 DEF Submissions
    <3>2. ~(PostedAt[s] <= after) /\ ~(s <= passed)
      BY <1>1, <2>1 DEF Lost
    <3> QED BY <1>2, <2>1, <3>1, <3>2 DEF Matching
  <2>3. Place(s) \in 1..Len(Listing) /\ Listing[Place(s)] = s /\ Len(Listing) \in Nat
    BY <1>2, <2>2, ListingIsOrdered, PagingIsFinite
  <2>4. Place(s) <= offset \/ Place(s) - offset \in 1..Len(Page)
    <3>1. CASE Len(Page) < PageSize
      BY <1>2, <2>3, <3>1, PageIsASlice
    <3>2. CASE ~(Len(Page) < PageSize)
      <4>1. PostedAt[s] <= after' \/ s <= passed'
        BY <1>1, <3>2 DEF Lost
      <4>2. s <= passed'
        <5>1. s \in Int /\ PostedAt[s] \in Int /\ after \in Int
          BY <2>1, TotalIsNat, PostingTimes, PagingNumbers, <1>2 DEF Submissions
        <5>2. ~(PostedAt[s] <= after)
          BY <1>1, <2>1 DEF Lost
        <5> QED BY <1>1, <4>1, <5>2
      <4>3. Place(s) <= Place(passed')
        <5>1. passed' \in Matching
          BY <1>7, <3>2
        <5>2. s = passed' \/ s < passed'
          BY <1>5, <2>2, <4>2, <5>1
        <5>3. s < passed' => Place(s) < Place(passed')
          BY <1>2, <2>2, <5>1, PlacesAscend
        <5>4. \A u \in Matching : Place(u) \in Int
          <6>1. \A u \in Int : Place(u) \in Nat
            BY <1>2, PagingIsFinite
          <6> QED BY <1>5, <6>1
        <5>5. Place(s) \in Int /\ Place(passed') \in Int
          BY <2>2, <5>1, <5>4
        <5> QED BY <5>2, <5>3, <5>5
      <4>4. Place(passed') = offset + PageSize
        BY <1>5, <1>7, <3>2 DEF Place
      <4> QED BY <1>2, <1>7, <2>3, <3>2, <4>3, <4>4
    <3> QED BY <3>1, <3>2
  <2>5. Place(s) - offset \notin 1..Len(Page)
    <3> SUFFICES ASSUME Place(s) - offset \in 1..Len(Page) PROVE FALSE
      OBVIOUS
    <3>1. Page[Place(s) - offset] = Listing[offset + (Place(s) - offset)]
      BY <1>2, PageIsASlice
    <3>2. offset + (Place(s) - offset) = Place(s)
      BY <1>2, <2>3
    <3> QED BY <1>4, <2>1, <2>3, <3>1, <3>2
  <2> QED BY <2>2, <2>4, <2>5
<1>11. Cardinality(Lost') <= holes /\ Cardinality(Lost') \in Nat
  <2>1. /\ IsFiniteSet(E) /\ Cardinality(E) \in Nat
        /\ Cardinality(E) = 0 \/ Cardinality(E) + Place(passed) <= offset
    <3> HIDE DEF E
    <3> QED BY <1>2, <1>10, ShiftedAreFew
  <2>2. /\ IsFiniteSet(Lost) /\ Cardinality(Lost) \in Nat /\ Place(passed) \in Nat
        /\ Cardinality(Lost) <= holes
        /\ Cardinality(Lost) + offset - Place(passed) <= holes
    BY <1>1, <1>2, PagingIsFinite, PagingNumbers DEF PagingInv, Paid
  <2>3. Lost' \subseteq Lost \cup E
    OBVIOUS
  <2>4. Lost \cap E = {}
    OBVIOUS
  <2> HIDE DEF E
  <2>5. /\ IsFiniteSet(Lost \cup E)
        /\ Cardinality(Lost \cup E) = Cardinality(Lost) + Cardinality(E)
    BY ONLY <2>1, <2>2, <2>4, DisjointUnion
  <2>6. Cardinality(Lost') <= Cardinality(Lost \cup E) /\ Cardinality(Lost') \in Nat
    BY <2>3, <2>5, FS_Subset, FS_CardinalityType
  <2> QED BY <1>2, <2>1, <2>2, <2>5, <2>6
<1>12. Paid'
  <2>1. stage' = "paging" => Place(passed)' = offset' /\ offset' \in Nat
    BY <1>1, <1>7
  <2> QED BY <1>1, <1>2, <1>11, <2>1 DEF Paid
<1> QED BY <1>8, <1>9, <1>12 DEF PagingInv

(* The cursor moves to a submission of the batch, or stays.                    *)
LEMMA CursorIsWritten ==
  ASSUME PagingTypeOK, NEW b \in Seq(Submissions), Ascending(b), Write(b)
  PROVE  cursor' \in {cursor} \cup {PostedAt[s] : s \in ToSet(b)}
<1> DEFINE C == {cursor} \cup {PostedAt[s] : s \in ToSet(b)}
           Latest(c) == cursor <= c /\ \A s \in ToSet(b) : PostedAt[s] <= c
<1>1. /\ cursor \in Nat /\ Len(b) \in Nat /\ DOMAIN b = 1..Len(b)
      /\ \A i \in 1..Len(b) : b[i] \in Submissions /\ b[i] \in Int
      /\ \A s \in ToSet(b) : PostedAt[s] \in Nat
  <2>1. \A i \in 1..Len(b) : b[i] \in Submissions
    OBVIOUS
  <2>2. DOMAIN b = 1..Len(b)
    OBVIOUS
  <2>3. \A s \in ToSet(b) : s \in Submissions
    BY <2>1, <2>2 DEF ToSet
  <2> QED BY <2>1, <2>2, <2>3, PostingTimes, TotalIsNat, PagingNumbers DEF Submissions
<1>2. \E c \in C : Latest(c)
  <2>1. CASE Len(b) = 0
    <3>1. ToSet(b) = {}
      BY <1>1, <2>1 DEF ToSet
    <3>2. Latest(cursor)
      BY <1>1, <3>1
    <3> QED BY <3>2
  <2>2. CASE Len(b) > 0
    <3> DEFINE last == b[Len(b)]
    <3>0. Len(b) \in 1..Len(b) /\ \A i \in 1..Len(b) : i = Len(b) \/ i < Len(b)
      <4>1. Len(b) \in Nat
        BY <1>1
      <4>2. \A n \in Nat : n > 0 => n \in 1..n /\ \A i \in 1..n : i = n \/ i < n
        OBVIOUS
      <4> QED BY ONLY <2>2, <4>1, <4>2, Zenon
    <3>1. last \in Submissions /\ last \in ToSet(b) /\ PostedAt[last] \in Nat
      BY <1>1, <2>2 DEF ToSet
    <3>2. ASSUME NEW s \in ToSet(b) PROVE PostedAt[s] <= PostedAt[last]
      <4>1. PICK i \in 1..Len(b) : s = b[i]
        BY <1>1 DEF ToSet
      <4>2. i = Len(b) \/ b[i] < b[Len(b)]
        <5>1. Len(b) \in 1..Len(b) /\ (i = Len(b) \/ i < Len(b))
          BY ONLY <3>0
        <5>2. i < Len(b) => b[i] < b[Len(b)]
          BY <5>1, Zenon DEF Ascending
        <5> QED BY <5>1, <5>2
      <4>3. b[i] < b[Len(b)] => PostedAt[b[i]] <= PostedAt[b[Len(b)]]
        <5>1. b[i] \in Submissions /\ b[Len(b)] \in Submissions
          BY <1>1, <2>2
        <5> QED BY <5>1, PostedInOrder
      <4> QED BY <3>1, <4>1, <4>2, <4>3
    <3>3. CASE cursor <= PostedAt[last]
      BY <3>1, <3>2, <3>3
    <3>4. CASE ~(cursor <= PostedAt[last])
      <4>1. \A s \in ToSet(b) : PostedAt[s] <= cursor
        BY <1>1, <3>1, <3>2, <3>4
      <4> QED BY <1>1, <4>1
    <3> QED BY <3>3, <3>4
  <2> QED BY <1>1, <2>1, <2>2
<1>3. cursor' = CHOOSE c \in C : Latest(c)
  BY DEF Write
<1> HIDE DEF C, Latest
<1>4. cursor' \in C
  BY <1>2, <1>3
<1> QED BY <1>4 DEF C

(* Writing the first part of the buffer hands nothing on that was not in it.    *)
LEMMA WriteKeeps ==
  ASSUME PagingInv, NEW b \in Seq(Submissions), Write(b),
         buf' \in Seq(Submissions), ToSet(b) \cup ToSet(buf') = ToSet(buf),
         Len(b) <= BatchSize, Len(buf') <= PageSize, Ascending(b), Ascending(buf'),
         stage # "idle", stage = "paging" => \E n \in 0..PageSize : Len(buf') = n * BatchSize,
         UNCHANGED <<posted, listed, stage, after, offset, passed, late, holes>>
  PROVE  PagingInv'
<1>1. batch' = b /\ written' = written \cup ToSet(b)
  BY DEF Write
<1>2. PagingTypeOK /\ ToSet(buf) \subseteq posted /\ posted \subseteq Submissions
  BY DEF PagingInv, PagingTypeOK
<1>3. cursor' \in {cursor} \cup {PostedAt[s] : s \in ToSet(b)}
  BY <1>2, CursorIsWritten
<1>4. /\ cursor' \in Nat
      /\ cursor' > 0 => \E t \in posted : cursor' = PostedAt[t]
  <2>1. CASE cursor' = cursor
    BY <2>1, <1>2 DEF PagingInv, PagingTypeOK, Anchored
  <2>2. CASE \E s \in ToSet(b) : cursor' = PostedAt[s]
    <3>1. PICK s \in ToSet(b) : cursor' = PostedAt[s]
      BY <2>2
    <3>2. s \in posted /\ s \in Submissions
      BY <1>2
    <3> QED BY <3>1, <3>2, PostingTimes
  <2> QED BY <1>3, <2>1, <2>2
<1>5. PagingTypeOK'
  BY <1>1, <1>2, <1>4 DEF PagingTypeOK
<1>6. Ordered' /\ Anchored'
  BY <1>1, <1>4 DEF PagingInv, Ordered, Anchored
<1>7. Lost' \subseteq Lost
  <2>1. Open' = Open
    BY <1>1 DEF Open
  <2>2. Marks' \subseteq Marks
    BY <1>3 DEF Marks
  <2> QED BY <2>1, <2>2 DEF Lost
<1>8. Place(passed)' = Place(passed)
  BY DEF Place, Matching
<1>9. Paid'
  <2>1. holes \in Nat /\ Place(passed) \in Nat
    BY <1>2, PagingNumbers
  <2> QED BY <1>2, <1>7, <1>8, <2>1, PaidStays DEF PagingInv
<1> QED BY <1>5, <1>6, <1>9 DEF PagingInv

LEMMA FlushKeeps == ASSUME PagingInv, Flush PROVE PagingInv'
<1> DEFINE first == SubSeq(buf, 1, BatchSize)
<1>1. /\ Len(buf) >= BatchSize /\ Write(first) /\ buf' = SubSeq(buf, BatchSize + 1, Len(buf))
      /\ UNCHANGED <<posted, listed, stage, after, offset, passed, late, holes>>
  BY DEF Flush
<1>2. /\ buf \in Seq(Submissions) /\ BatchSize \in Nat /\ BatchSize > 0
      /\ Len(buf) \in Nat /\ PageSize \in Nat /\ Len(buf) <= PageSize
  BY Sizes DEF PagingInv, PagingTypeOK
<1>3. /\ first \in Seq(Submissions) /\ Len(first) = BatchSize
      /\ \A i \in 1..BatchSize : first[i] = buf[i]
  BY <1>1, <1>2, SubSeqProperties
<1>4. /\ buf' \in Seq(Submissions) /\ Len(buf') = Len(buf) - BatchSize
      /\ \A i \in 1..Len(buf') : buf'[i] = buf[BatchSize + i]
  <2>1. CASE BatchSize + 1 <= Len(buf)
    BY <1>1, <1>2, <2>1, SubSeqProperties
  <2>2. CASE ~(BatchSize + 1 <= Len(buf))
    BY <1>1, <1>2, <2>2, SubSeqProperties
  <2> QED BY <2>1, <2>2
<1>5. Ascending(buf)
  BY DEF PagingInv, Ordered
<1> HIDE DEF first
<1>6. Ascending(first)
  <2> SUFFICES ASSUME NEW i \in 1..Len(first), NEW j \in 1..Len(first), i < j
               PROVE  first[i] < first[j]
    BY DEF Ascending
  <2>1. first[i] = buf[i] /\ first[j] = buf[j]
    BY <1>3
  <2>2. i \in 1..Len(buf) /\ j \in 1..Len(buf)
    BY <1>1, <1>2, <1>3
  <2> QED BY <1>5, <2>1, <2>2 DEF Ascending
<1>7. Ascending(buf')
  <2> SUFFICES ASSUME NEW i \in 1..Len(buf'), NEW j \in 1..Len(buf'), i < j
               PROVE  buf'[i] < buf'[j]
    BY DEF Ascending
  <2>1. buf'[i] = buf[BatchSize + i] /\ buf'[j] = buf[BatchSize + j]
    BY <1>4
  <2>2. /\ BatchSize + i \in 1..Len(buf) /\ BatchSize + j \in 1..Len(buf)
        /\ BatchSize + i < BatchSize + j
    BY <1>2, <1>4
  <2> QED BY <1>5, <2>1, <2>2 DEF Ascending
<1>8. ToSet(first) \cup ToSet(buf') = ToSet(buf)
  <2>1. /\ DOMAIN buf = 1..Len(buf) /\ DOMAIN first = 1..BatchSize
        /\ DOMAIN buf' = 1..Len(buf) - BatchSize
    BY <1>2, <1>3, <1>4
  <2>2. ASSUME NEW s \in ToSet(buf) PROVE s \in ToSet(first) \cup ToSet(buf')
    <3>1. PICK i \in 1..Len(buf) : s = buf[i]
      BY <2>1 DEF ToSet
    <3>2. CASE i <= BatchSize
      <4>1. i \in 1..BatchSize
        BY <1>2, <3>2
      <4>2. s = first[i]
        BY <1>3, <3>1, <4>1
      <4> QED BY <2>1, <4>1, <4>2 DEF ToSet
    <3>3. CASE ~(i <= BatchSize)
      <4>1. i - BatchSize \in 1..Len(buf) - BatchSize /\ BatchSize + (i - BatchSize) = i
        BY <1>2, <3>3
      <4>2. s = buf'[i - BatchSize]
        BY <1>4, <3>1, <4>1
      <4> QED BY <2>1, <4>1, <4>2 DEF ToSet
    <3> QED BY <3>2, <3>3
  <2>3. \A i \in 1..BatchSize : i \in 1..Len(buf) /\ first[i] = buf[i]
    BY <1>1, <1>2, <1>3
  <2>4. \A i \in 1..Len(buf) - BatchSize : BatchSize + i \in 1..Len(buf)
                                           /\ buf'[i] = buf[BatchSize + i]
    BY <1>2, <1>4
  <2>5. ToSet(first) \subseteq ToSet(buf) /\ ToSet(buf') \subseteq ToSet(buf)
    BY <2>1, <2>3, <2>4 DEF ToSet
  <2> QED BY <2>2, <2>5
<1>9. stage # "idle"
  <2>1. Len(buf) # 0
    BY <1>1, <1>2
  <2> QED BY <2>1 DEF PagingInv, Ordered
<1>10. ASSUME stage = "paging" PROVE \E n \in 0..PageSize : Len(buf') = n * BatchSize
  <2>1. PICK n \in 0..PageSize : Len(buf) = n * BatchSize
    BY <1>10 DEF PagingInv, Ordered
  <2>2. n \in Nat /\ n # 0
    BY <1>1, <1>2, <2>1
  <2>3. n * BatchSize - BatchSize = (n - 1) * BatchSize
    BY ONLY <1>2, <2>2
  <2>4. n - 1 \in 0..PageSize
    BY <1>2, <2>1, <2>2
  <2> QED BY <1>4, <2>1, <2>3, <2>4
<1>11. Len(first) <= BatchSize /\ Len(buf') <= PageSize
  BY <1>2, <1>3, <1>4
<1> QED BY <1>1, <1>3, <1>4, <1>6, <1>7, <1>8, <1>9, <1>10, <1>11, WriteKeeps

LEMMA FlushRestKeeps == ASSUME PagingInv, FlushRest PROVE PagingInv'
<1>1. /\ stage = "ended" /\ Len(buf) \in 1..BatchSize - 1 /\ Write(buf) /\ buf' = <<>>
      /\ UNCHANGED <<posted, listed, stage, after, offset, passed, late, holes>>
  BY DEF FlushRest
<1>2. buf \in Seq(Submissions) /\ Ascending(buf) /\ Len(buf) <= BatchSize /\ PageSize \in Nat
  BY <1>1, Sizes DEF PagingInv, PagingTypeOK, Ordered
<1>3. buf' \in Seq(Submissions) /\ Ascending(buf') /\ Len(buf') <= PageSize
  BY <1>1, <1>2 DEF Ascending
<1>4. ToSet(buf) \cup ToSet(buf') = ToSet(buf)
  BY <1>1 DEF ToSet
<1> QED BY <1>1, <1>2, <1>3, <1>4, WriteKeeps

LEMMA PagingInductive == PagingInv /\ [PagingNext]_pagingVars => PagingInv'
<1> SUFFICES ASSUME PagingInv, [PagingNext]_pagingVars PROVE PagingInv'
  OBVIOUS
<1>1. ASSUME NEW s \in Submissions, Post(s) PROVE PagingInv'
  BY <1>1, PostKeeps
<1>2. ASSUME NEW s \in listed, Delete(s) PROVE PagingInv'
  BY <1>2, DeleteKeeps
<1>3. CASE BeginPass \/ FetchPage \/ EndPass
  BY <1>3, BeginPassKeepsPaging, FetchPageKeeps, EndPassKeepsPaging
<1>4. CASE Flush \/ FlushRest
  BY <1>4, FlushKeeps, FlushRestKeeps
<1>5. CASE UNCHANGED pagingVars
  BY <1>5 DEF pagingVars, pagePass, PagingInv, PagingTypeOK, Ordered, Anchored, Paid, Lost,
              Open, Marks, Place, Matching, Ascending
<1> QED BY <1>1, <1>2, <1>3, <1>4, <1>5 DEF PagingNext

LEMMA PagingInvHolds == PagingSpec => []PagingInv
BY PagingStarts, PagingInductive, PTL DEF PagingSpec

(* The variables of a pass stay in their types; nothing is handed on that was  *)
(* never listed, and no batch is longer than a batch (sync.go:96).             *)
THEOREM PagingTypes == PagingSpec => []PagingTypeOK
<1>1. PagingInv => PagingTypeOK
  BY DEF PagingInv
<1> QED BY <1>1, PagingInvHolds, PTL

(* No submission is twice in a batch, wherever pages end (sync.go:203).         *)
THEOREM BatchesHaveNoRepeats == PagingSpec => []BatchHasNoRepeats
<1>1. PagingInv => BatchHasNoRepeats
  <2> SUFFICES ASSUME PagingInv, NEW i \in DOMAIN batch, NEW j \in DOMAIN batch,
                      batch[i] = batch[j]
               PROVE  i = j
    BY DEF BatchHasNoRepeats, IsInjective
  <2>1. batch \in Seq(Submissions) /\ Ascending(batch)
    BY DEF PagingInv, PagingTypeOK, Ordered
  <2>2. /\ i \in 1..Len(batch) /\ j \in 1..Len(batch) /\ Len(batch) \in Nat
        /\ batch[i] \in Submissions
    BY <2>1
  <2>3. batch[i] \in Int
    BY <2>2, TotalIsNat DEF Submissions
  <2>4. ~(i < j) /\ ~(j < i)
    BY <2>1, <2>2, <2>3 DEF Ascending
  <2> QED BY <2>2, <2>4
<1> QED BY <1>1, PagingInvHolds, PTL

(* What no pass will be handed any more became visible too late, or a deletion *)
(* moved it across the end of a page (submissions.go:228).                     *)
THEOREM MissedIsAccountedFor == PagingSpec => []MissedWasLateOrShifted
<1>1. PagingInv => MissedWasLateOrShifted
  <2> SUFFICES ASSUME PagingInv PROVE Cardinality(Missed \ late) <= holes
    BY DEF MissedWasLateOrShifted
  <2>1. PagingTypeOK /\ cursor \in Nat /\ Overlap \in Nat
    BY PostingTimes, PagingNumbers DEF PagingInv
  <2>2. Missed \ late \subseteq Lost
    <3> SUFFICES ASSUME NEW s \in Missed, s \notin late PROVE s \in Lost
      OBVIOUS
    <3>1. s \in Open /\ stage = "idle" /\ PostedAt[s] <= AfterDate(cursor)
      BY DEF Missed, Open
    <3>2. PostedAt[s] \in Nat /\ PostedAt[s] > 0
      BY <2>1, <3>1, PagingIsFinite, PostingTimes
    <3>3. PostedAt[s] + Overlap <= cursor
      BY <2>1, <3>1, <3>2 DEF AfterDate
    <3> QED BY <3>1, <3>3 DEF Lost, Marks
  <2>3. /\ Cardinality(Missed \ late) <= Cardinality(Lost)
        /\ Cardinality(Missed \ late) \in Nat /\ Cardinality(Lost) \in Nat
    BY <2>1, <2>2, PagingIsFinite, FS_Subset, FS_CardinalityType
  <2> QED BY <2>1, <2>3, PagingNumbers DEF PagingInv, Paid
<1> QED BY <1>1, PagingInvHolds, PTL
-----------------------------------------------------------------------------
(* Records.  A form is linked after its preview, before its submissions; the    *)
(* entries of one question agree on its target; the fields are those of the    *)
(* submission under way; each record bears its own stamp, at the bottom.       *)
Linked == preview # <<>> => mapping = <<>> /\ sub = <<>>

Agreeing ==
  \A i, j \in DOMAIN mapping : mapping[i].q = mapping[j].q => mapping[i].target = mapping[j].target

Built ==
  sub # <<>> => /\ sub \in [id : Range(Subs), answers : AnswerSets] /\ mapping # <<>>
                /\ fields = BuildFields(sub.answers)

Quote == [id |-> Quoted, tail |-> ""]
Stamped == \A r \in DOMAIN nps : nps[r] \in {<<StampLine(r)>>, <<Quote, StampLine(r)>>}

TransformInv == TransformTypeOK /\ Linked /\ Agreeing /\ Built /\ Stamped

(* Of the entries that hit, one is the first.                                  *)
LEMMA FirstExists ==
  ASSUME NEW S \in SUBSET Nat, S # {}
  PROVE  \E i \in S : \A j \in S : i <= j
<1> DEFINE T == {0..n : n \in S}
           R == StrictSubsetOrdering(Nat)
<1>1. T \subseteq FiniteSubsetsOf(Nat) /\ T # {}
  <2>1. \A n \in S : 0..n \in SUBSET Nat /\ IsFiniteSet(0..n)
    BY FS_Interval
  <2>2. \A x \in T : x \in SUBSET Nat /\ IsFiniteSet(x)
    BY <2>1
  <2> HIDE DEF T
  <2>3. T \subseteq FiniteSubsetsOf(Nat)
    BY <2>2 DEF FiniteSubsetsOf
  <2> QED BY <2>3 DEF T
<1>2. IsWellFoundedOn(R, FiniteSubsetsOf(Nat))
  BY FS_StrictSubsetOrderingWellFounded
<1>3. \E x \in T : \A y \in T : ~(<<y, x>> \in R)
  <2> HIDE DEF T, R
  <2> QED BY <1>1, <1>2, WFMin
<1>4. PICK i \in S : \A j \in S : <<0..j, 0..i>> \notin R
  BY <1>3
<1>5. ASSUME NEW j \in S, j < i PROVE FALSE
  <2>1. 0..j \in SUBSET Nat /\ 0..i \in SUBSET Nat
    OBVIOUS
  <2>2. 0..j \subseteq 0..i /\ i \in 0..i /\ i \notin 0..j
    BY <1>5
  <2>3. <<0..j, 0..i>> \in R
    BY <2>1, <2>2 DEF StrictSubsetOrdering
  <2> QED BY <2>3, <1>4
<1> QED BY <1>5

LEMMA TransformStarts == TransformInit => TransformInv
BY DEF TransformInit, TransformInv, TransformTypeOK, Linked, Agreeing, Built, Stamped

(* Every entry has a target that exists, and goes to the catch-all if not.      *)
LEMMA EntriesFit ==
  ASSUME NEW q \in Range(Questions), NEW template \in Templates,
         NEW target \in {t \in Picks : isValidTarget(t)} \cup {CustomFields}
  PROVE  /\ Entry(q, target, template) \in Entries
         /\ Entry(q, target, template).q = q /\ Entry(q, target, template).target = target
BY DEF Entry, Entries, Templates

LEMMA SaneFits ==
  ASSUME NEW t \in Picks
  PROVE  Sane(t) \in {u \in Picks : isValidTarget(u)} \cup {CustomFields}
BY DEF Sane

LEMMA SuggestKeeps ==
  ASSUME TransformInv, NEW qs \in SUBSET Range(Questions), NEW chosen \in [qs -> Picks],
         NEW template \in Templates, Suggest(chosen, template)
  PROVE  TransformInv'
<1>1. /\ sub = <<>> /\ preview' = AIMapping(chosen, template) /\ mapping' = <<>>
      /\ UNCHANGED <<sub, fields, nps>>
  BY DEF Suggest
<1>2. preview' \in [DOMAIN Questions -> Entries] /\ \A i \in DOMAIN preview' : preview'[i].q = Questions[i]
  <2>1. \A i \in DOMAIN Questions : Questions[i] \in Range(Questions)
    BY DEF Range
  <2>2. \A i \in DOMAIN Questions :
          /\ preview'[i] \in Entries /\ preview'[i].q = Questions[i]
    <3> TAKE i \in DOMAIN Questions
    <3> DEFINE target == IF Questions[i] \in DOMAIN chosen THEN Sane(chosen[Questions[i]])
                                                           ELSE CustomFields
    <3>1. preview'[i] = Entry(Questions[i], target, template)
      BY <1>1 DEF AIMapping
    <3>2. target \in {t \in Picks : isValidTarget(t)} \cup {CustomFields}
      BY SaneFits
    <3> HIDE DEF target
    <3> QED BY <2>1, <3>1, <3>2, EntriesFit
  <2> QED BY <1>1, <2>2 DEF AIMapping
<1> QED BY <1>1, <1>2 DEF TransformInv, TransformTypeOK, Linked, Agreeing, Built, Stamped

LEMMA LinkKeeps ==
  ASSUME TransformInv, NEW targetFor \in [Range(Questions) -> Picks],
         NEW template \in Templates, Link(targetFor, template)
  PROVE  TransformInv'
<1>1. /\ sub = <<>> /\ preview' = <<>> /\ mapping' = BuildMapping(targetFor, template)
      /\ UNCHANGED <<sub, fields, nps>>
  BY DEF Link, TransformInv, Linked
<1>2. \A i \in DOMAIN Questions : Questions[i] \in Range(Questions)
  BY DEF Range
<1>3. /\ mapping' \in [DOMAIN Questions -> Entries]
      /\ \A i \in DOMAIN mapping' : /\ mapping'[i].q = Questions[i]
                                    /\ mapping'[i].target = Sane(targetFor[Questions[i]])
  <2>1. \A i \in DOMAIN Questions :
          /\ mapping'[i] \in Entries /\ mapping'[i].q = Questions[i]
          /\ mapping'[i].target = Sane(targetFor[Questions[i]])
    BY <1>1, <1>2, SaneFits, EntriesFit DEF BuildMapping
  <2> QED BY <1>1, <2>1 DEF BuildMapping
<1> QED BY <1>1, <1>3 DEF TransformInv, TransformTypeOK, Linked, Agreeing, Built, Stamped

LEMMA TransformKeeps ==
  ASSUME TransformInv, NEW s \in Range(Subs), NEW answers \in AnswerSets, Transform(s, answers)
  PROVE  TransformInv'
<1>1. /\ mapping # <<>> /\ sub' = [id |-> s, answers |-> answers]
      /\ fields' = BuildFields(answers) /\ UNCHANGED <<preview, mapping, nps>>
  BY DEF Transform
<1>2. Built'
  BY <1>1 DEF Built, BuildFields, FirstMapped, Feedback, Tags, Custom, Mapped, CatchAll
<1> QED BY <1>1, <1>2 DEF TransformInv, TransformTypeOK, Linked, Agreeing, Stamped

LEMMA BookKeeps == ASSUME TransformInv, Book PROVE TransformInv'
<1>1. /\ sub # <<>> /\ sub' = <<>> /\ UNCHANGED <<preview, mapping>>
      /\ nps' = [r \in DOMAIN nps \cup {sub.id} |->
                   IF r = sub.id THEN Stamps(r, sub.answers, fields[CustomFields]) ELSE nps[r]]
  BY DEF Book
<1>2. sub.id \in Range(Subs)
  BY <1>1 DEF TransformInv, Built
<1>3. \A r, answers, custom : Stamps(r, answers, custom) \in {<<StampLine(r)>>, <<Quote, StampLine(r)>>}
  BY DEF Stamps, Quote
<1>4. Stamped'
  BY <1>1, <1>3 DEF TransformInv, Stamped
<1> QED BY <1>1, <1>2, <1>4 DEF TransformInv, TransformTypeOK, Linked, Agreeing, Built

LEMMA TransformInductive == TransformInv /\ [TransformNext]_transformVars => TransformInv'
<1> SUFFICES ASSUME TransformInv, [TransformNext]_transformVars PROVE TransformInv'
  OBVIOUS
<1>1. ASSUME NEW qs \in SUBSET Range(Questions), NEW t \in Templates, NEW chosen \in [qs -> Picks],
             Suggest(chosen, t)
      PROVE  TransformInv'
  BY <1>1, SuggestKeeps
<1>2. ASSUME NEW targetFor \in [Range(Questions) -> Picks], NEW t \in Templates, Link(targetFor, t)
      PROVE  TransformInv'
  BY <1>2, LinkKeeps
<1>3. ASSUME NEW s \in Range(Subs), NEW a \in AnswerSets, Transform(s, a) PROVE TransformInv'
  BY <1>3, TransformKeeps
<1>4. CASE Book
  BY <1>4, BookKeeps
<1>5. CASE UNCHANGED transformVars
  BY <1>5 DEF transformVars, TransformInv, TransformTypeOK, Linked, Agreeing, Built, Stamped,
              BuildFields, FirstMapped, Feedback, Tags, Custom, Mapped, CatchAll
<1> QED BY <1>1, <1>2, <1>3, <1>4, <1>5 DEF TransformNext

LEMMA TransformInvHolds == TransformSpec => []TransformInv
BY TransformStarts, TransformInductive, PTL DEF TransformSpec

(* A mapping has an entry for every question of the form, with a target that    *)
(* exists (mapping.go:115).                                                   *)
THEOREM TransformTypes == TransformSpec => []TransformTypeOK
<1>1. TransformInv => TransformTypeOK
  BY DEF TransformInv
<1> QED BY <1>1, TransformInvHolds, PTL

(* The entries of a question all have the target that TargetOf reads.           *)
LEMMA TargetsAgree ==
  ASSUME TransformInv, mapping # <<>>, NEW q
  PROVE  /\ \A i \in DOMAIN mapping : mapping[i].q = q => mapping[i].target = TargetOf(q)
         /\ TargetOf(q) \in TargetFields \cup {CustomFields, "ignore"}
         /\ TargetOf(q) # CustomFields => \E i \in DOMAIN mapping : mapping[i].q = q
<1> DEFINE mine == {i \in DOMAIN mapping : mapping[i].q = q}
<1>1. mapping \in [DOMAIN Questions -> Entries]
  BY DEF TransformInv, TransformTypeOK
<1>2. \A i \in DOMAIN mapping : mapping[i].target \in TargetFields \cup {CustomFields, "ignore"}
  BY <1>1 DEF Entries, isValidTarget
<1>3. CASE \E i \in DOMAIN mapping : mapping[i].q = q
  <2>1. PICK k \in DOMAIN mapping : mapping[k].q = q /\ TargetOf(q) = mapping[k].target
    BY <1>3 DEF TargetOf
  <2> QED BY <1>2, <1>3, <2>1 DEF TransformInv, Agreeing
<1>4. CASE ~\E i \in DOMAIN mapping : mapping[i].q = q
  BY <1>4 DEF TargetOf
<1> QED BY <1>3, <1>4

(* What becomes of an answer, by the target of its question.                    *)
LEMMA AnswersArrive ==
  ASSUME TransformInv, sub # <<>>, NEW q \in Given
  PROVE  \/ Written(q) \/ TargetOf(q) = "ignore"
         \/ TargetOf(q) \in NumberTargets /\ ~IsNumber(sub.answers[q])
         \/ TargetOf(q) = "tags" /\ NormalizeTags(sub.answers[q]) = {}
         \/ /\ TargetOf(q) \in NumberTargets \cup {"email"}
            /\ fields[TargetOf(q)] \notin {{}, {q}}
<1> DEFINE a == sub.answers
           t == TargetOf(q)
<1>1. /\ mapping # <<>> /\ mapping \in [DOMAIN Questions -> Entries]
      /\ fields = BuildFields(a) /\ DOMAIN mapping \subseteq Nat
  BY TransformAssumption DEF TransformInv, TransformTypeOK, Built
<1>2. /\ \A i \in DOMAIN mapping : mapping[i].q = q => mapping[i].target = t
      /\ t \in TargetFields \cup {CustomFields, "ignore"}
      /\ t # CustomFields => \E i \in DOMAIN mapping : mapping[i].q = q
  BY <1>1, TargetsAgree
<1>3. Says(a[q]) /\ q \in Range(Questions) \cup {Stray}
  BY TransformAssumption DEF Given
<1>4. DOMAIN fields = TargetFields \cup {CustomFields}
  BY <1>1 DEF BuildFields
<1>5. ASSUME NEW c \in DOMAIN fields, c # "tags", t # "tags", q \in fields[c] PROVE Written(q)
  BY <1>5 DEF Written
<1>6. CASE t \in NumberTargets \cup {"email"}
  <2>1. fields[t] = FirstMapped(t, a) /\ t \in DOMAIN fields /\ t # "tags" /\ t # CustomFields
    BY <1>1, <1>4, <1>6
       DEF BuildFields, TargetFields, NumberTargets, FeedbackTargets, CustomFields
  <2>2. CASE Yields(t, a[q])
    <3>1. Mapped(t, a) # {} /\ Mapped(t, a) \in SUBSET Nat
      BY <1>1, <1>2, <2>1, <2>2 DEF Mapped
    <3>2. PICK i \in Mapped(t, a) : \A j \in Mapped(t, a) : i <= j
      BY <3>1, FirstExists
    <3>3. fields[t] # {}
      BY <2>1, <3>2 DEF FirstMapped
    <3>4. CASE fields[t] = {q}
      BY <1>5, <2>1, <3>4
    <3> QED BY <1>6, <3>3, <3>4
  <2>3. CASE ~Yields(t, a[q])
    BY <1>3, <1>6, <2>3 DEF Yields
  <2> QED BY <2>2, <2>3
<1>7. CASE t \in FeedbackTargets
  <2>1. /\ fields[t] = Feedback(t, a) /\ t \in DOMAIN fields /\ t # "tags" /\ t # CustomFields
        /\ t \notin NumberTargets
    BY <1>1, <1>4, <1>7
       DEF BuildFields, TargetFields, NumberTargets, FeedbackTargets, CustomFields
  <2>2. PICK i \in DOMAIN mapping : mapping[i].q = q
    BY <1>2, <2>1
  <2>3. i \in Mapped(t, a)
    BY <1>2, <1>3, <2>1, <2>2 DEF Mapped, Yields
  <2>4. q \in applyTemplate(mapping[i].template, mapping[i].q)
    BY <2>2 DEF applyTemplate
  <2>5. q \in Feedback(t, a)
    BY <2>3, <2>4 DEF Feedback
  <2> QED BY <1>5, <2>1, <2>5
<1>8. CASE t = "tags"
  <2>1. fields["tags"] = Tags(a) /\ t # CustomFields /\ t \notin NumberTargets
    BY <1>1, <1>4, <1>8
       DEF BuildFields, TargetFields, NumberTargets, FeedbackTargets, CustomFields
  <2>2. PICK i \in DOMAIN mapping : mapping[i].q = q
    BY <1>2, <2>1
  <2>3. i \in Mapped("tags", a)
    BY <1>2, <1>3, <1>8, <2>1, <2>2 DEF Mapped, Yields
  <2>4. NormalizeTags(a[q]) \subseteq Tags(a)
    BY <2>2, <2>3 DEF Tags
  <2> QED BY <1>8, <2>1, <2>4 DEF Written
<1>9. CASE t = CustomFields
  <2>1. fields[CustomFields] = Custom(a) /\ CustomFields \in DOMAIN fields /\ CustomFields # "tags"
    BY <1>1, <1>4
       DEF BuildFields, TargetFields, NumberTargets, FeedbackTargets, CustomFields
  <2>2. q \in Custom(a)
    BY <1>2, <1>3, <1>9 DEF Custom, CatchAll
  <2> QED BY <1>5, <1>9, <2>1, <2>2
<1> QED BY <1>2, <1>6, <1>7, <1>8, <1>9 DEF TargetFields

(* "Number/email columns take the first mapped answer that yields a value; ...  *)
(* everything else is preserved" (transform.go:32), for any form, mapping and   *)
(* answers.                                                                   *)
THEOREM AnswersAreKept == TransformSpec => []OnlyUnfitAnswersAreDropped
<1>1. TransformInv => OnlyUnfitAnswersAreDropped
  BY AnswersArrive DEF OnlyUnfitAnswersAreDropped
<1> QED BY <1>1, TransformInvHolds, PTL

(* The chunks of a lookup cover every place in the list.                        *)
LEMMA ChunksCover ==
  ASSUME NEW D \in Nat \ {0}, NEW i \in Nat \ {0}
  PROVE  \E k \in 0..i : k * D < i /\ i <= k * D + D
<1> DEFINE S == {k \in Nat : i <= k * D + D}
<1>1. i \in S
  <2>1. i * D >= i /\ i * D \in Nat
    OBVIOUS
  <2> QED BY <2>1
<1>2. PICK k \in S : \A j \in S : k <= j
  <2> HIDE DEF S
  <2>1. S \in SUBSET Nat
    BY DEF S
  <2> QED BY <1>1, <2>1, FirstExists
<1>3. k \in Nat /\ k <= i /\ i <= k * D + D
  BY <1>1, <1>2
<1>4. k * D < i
  <2>1. CASE k = 0
    BY <2>1
  <2>2. CASE k # 0
    <3>1. k - 1 \in Nat /\ k - 1 \notin S
      BY <1>2, <1>3, <2>2
    <3>2. ~(i <= (k - 1) * D + D)
      BY <3>1
    <3>3. (k - 1) * D + D = k * D /\ k * D \in Nat
      BY ONLY <1>3, D \in Nat
    <3> QED BY <3>2, <3>3
  <2> QED BY <2>1, <2>2
<1> QED BY <1>3, <1>4

(* A chunk finds those of its submissions that are booked, if no answer quotes   *)
(* a stamp.                                                                   *)
LEMMA ChunkFinds ==
  ASSUME TransformInv, \A r \in DOMAIN nps : Len(nps[r]) = 1, NEW ids
  PROVE  FoundInChunk(ids) = {<<r, r>> : r \in DOMAIN nps \cap ids}
<1>1. \A s : StampLine(s).id = s /\ Trimmed(StampLine(s)) = [id |-> s, tail |-> ""]
  BY DEF StampLine, Trimmed
<1>2. ASSUME NEW r \in DOMAIN nps PROVE nps[r] = <<StampLine(r)>>
  <2>1. nps[r] \in {<<StampLine(r)>>, <<Quote, StampLine(r)>>}
    BY DEF TransformInv, Stamped
  <2>2. Len(<<Quote, StampLine(r)>>) = 2
    OBVIOUS
  <2> QED BY <2>1, <2>2
<1>3. ASSUME NEW r \in DOMAIN nps
      PROVE  DOMAIN nps[r] = {1} /\ nps[r][1] = StampLine(r)
  <2>1. \A x, y : x = <<y>> => DOMAIN x = {1} /\ x[1] = y
    OBVIOUS
  <2>2. nps[r] = <<StampLine(r)>>
    BY ONLY <1>2, r \in DOMAIN nps, Zenon
  <2> QED BY ONLY <2>1, <2>2, Zenon
<1>4. ASSUME NEW r \in DOMAIN nps
      PROVE  nps[r][1].id = r /\ Trimmed(nps[r][1]) = [id |-> r, tail |-> ""]
  BY ONLY <1>1, <1>3, r \in DOMAIN nps, Zenon
<1>5. ASSUME NEW r \in DOMAIN nps PROVE Matches(r, ids) <=> r \in ids
  <2>1. DOMAIN nps[r] = {1} /\ nps[r][1].id = r
    BY <1>3, <1>4, Zenon
  <2> QED BY ONLY <2>1, Zenon DEF Matches
<1>6. ASSUME NEW r \in ids PROVE [id |-> r, tail |-> ""] \in {[id |-> s, tail |-> ""] : s \in ids}
  OBVIOUS
<1>7. FoundInChunk(ids) \subseteq {<<r, r>> : r \in DOMAIN nps \cap ids}
  BY ONLY <1>4, <1>5, Zenon DEF FoundInChunk
<1>8. ASSUME NEW r \in DOMAIN nps, r \in ids PROVE <<r, r>> \in FoundInChunk(ids)
  <2>1. nps[r][1].id = r /\ Trimmed(nps[r][1]) = [id |-> r, tail |-> ""] /\ Matches(r, ids)
    BY <1>4, <1>5, <1>8, Zenon
  <2>2. Trimmed(nps[r][1]) \in {[id |-> s, tail |-> ""] : s \in ids}
    BY <1>6, <1>8, <2>1, Zenon
  <2> QED BY ONLY <2>1, <2>2, r \in DOMAIN nps, Zenon DEF FoundInChunk
<1> QED BY <1>7, <1>8, Zenon

(* "It detects rows synced by us or by another instance" (dedup.go:39): whatever *)
(* the size of the chunks, a lookup recognises each record as that of its        *)
(* submission, unless an answer kept verbatim quotes a stamp.                   *)
THEOREM RecordsAreFound == TransformSpec => []StampsFindTheirRecords
<1>1. TransformInv => StampsFindTheirRecords
  <2> SUFFICES ASSUME TransformInv, \A r \in DOMAIN nps : Len(nps[r]) = 1
               PROVE  FindStampedRecords(Subs) = {<<s, s>> : s \in DOMAIN nps}
    BY DEF StampsFindTheirRecords
  <2>1. /\ DedupChunk \in Nat \ {0} /\ Len(Subs) \in Nat /\ DOMAIN Subs = 1..Len(Subs)
        /\ DOMAIN nps \subseteq Range(Subs)
    BY TransformAssumption DEF TransformInv, TransformTypeOK
  <2>2. \A ids : FoundInChunk(ids) = {<<r, r>> : r \in DOMAIN nps \cap ids}
    BY ChunkFinds
  <2>3. FindStampedRecords(Subs) \subseteq {<<s, s>> : s \in DOMAIN nps}
    BY <2>2 DEF FindStampedRecords
  <2>4. ASSUME NEW s \in DOMAIN nps PROVE <<s, s>> \in FindStampedRecords(Subs)
    <3>1. PICK i \in DOMAIN Subs : s = Subs[i]
      BY <2>1 DEF Range
    <3>2. PICK k \in 0..i : k * DedupChunk < i /\ i <= k * DedupChunk + DedupChunk
      <4>1. i \in Nat \ {0}
        BY <2>1
      <4> QED BY <2>1, <4>1, ChunksCover
    <3>3. s \in Chunk(Subs, k * DedupChunk)
      BY <3>1, <3>2 DEF Chunk
    <3>4. <<s, s>> \in FoundInChunk(Chunk(Subs, k * DedupChunk))
      BY <2>2, <3>3
    <3>5. k \in 0..Len(Subs)
      BY <2>1
    <3> QED BY <3>4, <3>5 DEF FindStampedRecords
  <2> QED BY <2>3, <2>4
<1> QED BY <1>1, TransformInvHolds, PTL
=============================================================================
