---------------------------- MODULE PipelineProofs ----------------------------
(***************************************************************************)
(* What a pass loses, skips and reports, for any sizes of batches and pages *)
(* and any length of the listing.  Every sequence the goroutines handle is  *)
(* a run of consecutive places of the listing; the proof follows where each *)
(* one begins and ends.                                                      *)
(***************************************************************************)
EXTENDS Pipeline, SequenceTheorems, TLAPS

(* The places after a, up to b *)
Run(a, b) == [i \in 1..(b - a) |-> a + i]

Shape ==
  /\ listing \in 0..MaxListing /\ offset \in Nat /\ yielded \in 0..listing
  /\ written \in Seq(Nat) /\ inHand \in Seq(Nat) /\ buf \in Seq(Nat)
  /\ batches \in Seq(Seq(Nat)) /\ Len(batches) <= 1
  /\ Len(Waiting) <= BatchSize /\ Len(buf) <= BatchSize
  /\ prod \in {"fetching", "yielding", "sending", "closing", "gone"}
  /\ cons \in {"receiving", "writing", "draining", "done"}
  /\ closed \in BOOLEAN /\ prodErr \in BOOLEAN /\ syncErr \in BOOLEAN
  /\ stopped \in BOOLEAN /\ cancelled \in BOOLEAN

(* Who has come how far, and what has been reported *)
Control ==
  /\ cons # "writing" => inHand = << >>
  /\ closed => prod = "gone"
  /\ cons = "draining" => stopped
  /\ stopped => cons \in {"draining", "done"} /\ syncErr
  /\ syncErr => cons \in {"draining", "done"}
  /\ cons = "done" => closed /\ (prodErr => syncErr)

W == Len(written)
H == W + Len(inHand)
Q == H + Len(Waiting)

(* The producer has not dropped anything of what it has in its batch. *)
Whole == prod \in {"fetching", "yielding", "sending"} \/ ~(ProdCtxDone \/ prodErr)

(* What is written, in hand, in the channel and in the batch follow each     *)
(* other without a gap.                                                      *)
Content ==
  /\ written = Run(0, W) /\ inHand = Run(W, H) /\ H <= yielded
  /\ ~stopped => Waiting = Run(H, Q) /\ Q <= yielded
  /\ ~stopped /\ Whole => buf = Run(Q, yielded)

(* Batches and pages end together. *)
Paging ==
  /\ \E j \in Nat : offset = j * BatchSize
  /\ prod = "fetching" => yielded = offset /\ buf = << >>
  /\ prod \in {"yielding", "sending"} =>
       /\ offset <= yielded /\ yielded <= PageEnd
       /\ \E k \in Nat : yielded = k * BatchSize + Len(buf)
  /\ prod = "yielding" => Len(buf) < BatchSize
  /\ prod = "sending" /\ Len(buf) < BatchSize => yielded = listing
  /\ prod \in {"closing", "gone"} /\ ~ProdCtxDone /\ ~prodErr => buf = << >> /\ yielded = listing

Inv == Shape /\ Control /\ Content /\ Paging /\ SuccessIsComplete

-----------------------------------------------------------------------------
(* Runs *)

LEMMA RunIsSeq ==
  ASSUME NEW a \in Nat, NEW b \in Nat, a <= b
  PROVE  Run(a, b) \in Seq(Nat) /\ Len(Run(a, b)) = b - a
<1>1. b - a \in Nat
  OBVIOUS
<1>2. \A i \in 1..(b - a) : a + i \in Nat
  OBVIOUS
<1> QED BY <1>1, <1>2 DEF Run

LEMMA EmptyRun == \A a \in Nat : Run(a, a) = << >>
<1> SUFFICES ASSUME NEW a \in Nat PROVE Run(a, a) = << >>
  OBVIOUS
<1>1. Run(a, a) \in Seq(Nat) /\ Len(Run(a, a)) = 0
  BY RunIsSeq
<1> QED BY <1>1

LEMMA RunsJoin ==
  ASSUME NEW a \in Nat, NEW b \in Nat, NEW c \in Nat, a <= b, b <= c
  PROVE  Run(a, b) \o Run(b, c) = Run(a, c)
<1> DEFINE s == Run(a, b)
           t == Run(b, c)
           u == Run(a, c)
<1>1. s \in Seq(Nat) /\ Len(s) = b - a
  BY RunIsSeq
<1>2. t \in Seq(Nat) /\ Len(t) = c - b
  BY RunIsSeq
<1>3. u \in Seq(Nat) /\ Len(u) = c - a
  <2>1. a <= c
    OBVIOUS
  <2> QED BY <2>1, RunIsSeq
<1>4. /\ \A i \in 1..(b - a) : s[i] = a + i
      /\ \A i \in 1..(c - b) : t[i] = b + i
      /\ \A i \in 1..(c - a) : u[i] = a + i
  BY DEF Run
<1> HIDE DEF s, t, u
<1>5. /\ s \o t \in Seq(Nat) /\ Len(s \o t) = Len(s) + Len(t)
      /\ \A i \in 1..(Len(s) + Len(t)) :
           (s \o t)[i] = IF i <= Len(s) THEN s[i] ELSE t[i - Len(s)]
  BY <1>1, <1>2, ConcatProperties
<1>6. Len(s \o t) = c - a
  BY <1>1, <1>2, <1>5
<1>7. ASSUME NEW i \in 1..(c - a) PROVE (s \o t)[i] = u[i]
  <2>1. (s \o t)[i] = IF i <= b - a THEN s[i] ELSE t[i - (b - a)]
    BY <1>1, <1>2, <1>5, SMTT(30)
  <2>2. CASE i <= b - a
    BY <1>4, <2>1, <2>2
  <2>3. CASE i > b - a
    <3>1. i - (b - a) \in 1..(c - b)
      BY <2>3
    <3> QED BY <1>4, <2>1, <2>3, <3>1
  <2>4. i <= b - a \/ i > b - a
    OBVIOUS
  <2> QED BY ONLY <2>2, <2>3, <2>4
<1>8. s \o t = u
  BY <1>3, <1>5, <1>6, <1>7, SeqEqual
<1> QED BY <1>8 DEF s, t, u

LEMMA RunsFromTheStart ==
  \A b, c \in Nat : b <= c => Run(0, b) \o Run(b, c) = Run(0, c)
<1> SUFFICES ASSUME NEW b \in Nat, NEW c \in Nat, b <= c
             PROVE  Run(0, b) \o Run(b, c) = Run(0, c)
  OBVIOUS
<1>1. 0 \in Nat /\ 0 <= b
  OBVIOUS
<1> QED BY ONLY <1>1, b \in Nat, c \in Nat, b <= c, RunsJoin

LEMMA RunGrows ==
  ASSUME NEW a \in Nat, NEW b \in Nat, a <= b
  PROVE  Append(Run(a, b), b + 1) = Run(a, b + 1)
<1> DEFINE s == Run(a, b)
           u == Run(a, b + 1)
<1>1. s \in Seq(Nat) /\ Len(s) = b - a
  BY RunIsSeq
<1>2. u \in Seq(Nat) /\ Len(u) = b + 1 - a
  <2>1. a <= b + 1 /\ b + 1 \in Nat
    OBVIOUS
  <2> QED BY <2>1, RunIsSeq
<1>3. /\ \A i \in 1..(b - a) : s[i] = a + i
      /\ \A i \in 1..(b + 1 - a) : u[i] = a + i
  BY DEF Run
<1> HIDE DEF s, u
<1>4. /\ Append(s, b + 1) \in Seq(Nat) /\ Len(Append(s, b + 1)) = Len(s) + 1
      /\ \A i \in 1..Len(s) : Append(s, b + 1)[i] = s[i]
      /\ Append(s, b + 1)[Len(s) + 1] = b + 1
  BY <1>1, AppendProperties
<1>5. ASSUME NEW i \in 1..(b + 1 - a) PROVE Append(s, b + 1)[i] = u[i]
  <2>1. CASE i <= b - a
    BY <1>1, <1>3, <1>4, <2>1
  <2>2. CASE i = b - a + 1
    BY <1>1, <1>3, <1>4, <2>2
  <2>3. i <= b - a \/ i = b - a + 1
    OBVIOUS
  <2> QED BY ONLY <2>1, <2>2, <2>3
<1>6. Append(s, b + 1) = u
  BY <1>1, <1>2, <1>4, <1>5, SeqEqual, SMTT(30)
<1> QED BY <1>6 DEF s, u

LEMMA NoRemainder ==
  ASSUME NEW b \in Nat \ {0}, NEW i \in Nat, NEW k \in Nat, NEW r \in Nat,
         r < b, i * b = k * b + r
  PROVE  r = 0
<1>1. (i - k) * b = r
  OBVIOUS
<1>2. CASE i - k <= 0
  <2>1. (i - k) * b <= 0
    BY <1>2
  <2> QED BY <1>1, <2>1
<1>3. CASE i - k >= 1
  <2>1. (i - k) * b >= b
    BY <1>3
  <2> QED BY <1>1, <2>1
<1> QED BY <1>2, <1>3

LEMMA Positions == ASSUME Shape PROVE W \in Nat /\ H \in Nat /\ Q \in Nat /\ Waiting \in Seq(Nat)
<1>1. Waiting \in Seq(Nat)
  <2>1. CASE batches = << >>
    BY <2>1 DEF Waiting
  <2>2. CASE batches # << >>
    BY <2>2 DEF Waiting, Shape
  <2> QED BY <2>1, <2>2
<1> QED BY <1>1 DEF W, H, Q, Shape

-----------------------------------------------------------------------------
LEMMA Initially == Init => Inv
<1> SUFFICES ASSUME Init PROVE Inv
  OBVIOUS
<1>0. << >> \in Seq(Nat) /\ << >> \in Seq(Seq(Nat)) /\ Len(<< >>) = 0
  OBVIOUS
<1>1. Waiting = << >>
  BY DEF Init, Waiting
<1>2. Shape
  <2>1. /\ listing \in 0..MaxListing /\ offset \in Nat /\ yielded \in 0..listing
        /\ Len(Waiting) <= BatchSize
    BY <1>0, <1>1, PipelineAssumption DEF Init
  <2>2. /\ written \in Seq(Nat) /\ inHand \in Seq(Nat) /\ buf \in Seq(Nat)
        /\ batches \in Seq(Seq(Nat)) /\ Len(batches) <= 1 /\ Len(buf) <= BatchSize
    BY <1>0, PipelineAssumption DEF Init
  <2> QED BY <2>1, <2>2 DEF Init, Shape
<1>3. W = 0 /\ H = 0 /\ Q = 0
  BY <1>0, <1>1 DEF Init, W, H, Q
<1>4. Content
  BY <1>1, <1>3, EmptyRun DEF Init, Content
<1>5. Paging
  <2>1. offset = 0 * BatchSize
    BY PipelineAssumption DEF Init
  <2> QED BY <2>1 DEF Init, Paging
<1>6. Control /\ SuccessIsComplete
  BY DEF Init, Control, SuccessIsComplete
<1> QED BY <1>2, <1>4, <1>5, <1>6 DEF Inv
-----------------------------------------------------------------------------
(* Steps that touch no sequence *)

LEMMA NothingHandled ==
  ASSUME Inv, UNCHANGED <<listing, yielded, buf, batches, written, inHand>>,
         stopped' \/ ~stopped, ~stopped' => (Whole' => Whole)
  PROVE  Content' /\ Waiting' = Waiting
<1>1. Waiting' = Waiting
  BY DEF Waiting
<1>2. W' = W /\ H' = H /\ Q' = Q
  BY <1>1 DEF W, H, Q
<1> QED BY <1>1, <1>2 DEF Inv, Content, Run

LEMMA CancelKeeps == ASSUME Inv, Cancel PROVE Inv'
<1> USE DEF Cancel, producer, channel, consumer
<1>1. Content' /\ Waiting' = Waiting
  BY NothingHandled DEF Whole, ProdCtxDone
<1>2. Shape' /\ Control'
  BY <1>1 DEF Inv, Shape, Control
<1>3. Paging'
  BY DEF Inv, Paging, ProdCtxDone, PageEnd
<1>4. SuccessIsComplete'
  BY DEF Inv, SuccessIsComplete
<1> QED BY <1>1, <1>2, <1>3, <1>4 DEF Inv

LEMMA FetchKeeps == ASSUME Inv, FetchPage \/ FetchFails PROVE Inv'
<1>1. Content' /\ Waiting' = Waiting
  BY NothingHandled DEF FetchPage, FetchFails, Whole, ProdCtxDone, channel, consumer
<1>2. Shape'
  BY <1>1 DEF Inv, Shape, FetchPage, FetchFails, channel, consumer
<1>3. Control'
  BY DEF Inv, Control, FetchPage, FetchFails, channel, consumer
<1>4. Paging'
  <2>1. CASE FetchPage
    <3>1. yielded <= PageEnd
      BY <2>1, PipelineAssumption DEF Inv, Paging, Shape, PageEnd, FetchPage
    <3>2. Len(<< >>) = 0
      OBVIOUS
    <3>3. /\ prod = "fetching" /\ prod' = "yielding" /\ yielded = offset /\ buf = << >>
          /\ UNCHANGED <<listing, offset, yielded, buf>> /\ PageEnd' = PageEnd
          /\ yielded \in Nat
      BY <2>1 DEF Inv, Shape, Paging, FetchPage, PageEnd
    <3>4. PICK j \in Nat : offset = j * BatchSize
      BY DEF Inv, Paging
    <3>5. Len(buf') < BatchSize /\ yielded' = j * BatchSize + Len(buf')
      BY <3>2, <3>3, <3>4, PipelineAssumption
    <3> QED BY <3>1, <3>3, <3>4, <3>5 DEF Paging
  <2>2. CASE FetchFails
    BY <2>2 DEF Inv, Paging, FetchFails, PageEnd
  <2> QED BY <2>1, <2>2
<1>5. SuccessIsComplete'
  BY DEF Inv, SuccessIsComplete, FetchPage, FetchFails, channel, consumer
<1> QED BY <1>1, <1>2, <1>3, <1>4, <1>5 DEF Inv

LEMMA CloseKeeps == ASSUME Inv, SendGivenUp \/ Close PROVE Inv'
<1> USE DEF channel, consumer
<1>1. Content' /\ Waiting' = Waiting
  BY NothingHandled DEF SendGivenUp, Close, Whole, ProdCtxDone
<1>2. Shape'
  BY <1>1 DEF Inv, Shape, SendGivenUp, Close
<1>3. Control'
  BY DEF Inv, Control, SendGivenUp, Close
<1>4. Paging'
  BY DEF Inv, Paging, SendGivenUp, Close, PageEnd, ProdCtxDone
<1>5. SuccessIsComplete'
  BY DEF Inv, SuccessIsComplete, SendGivenUp, Close
<1> QED BY <1>1, <1>2, <1>3, <1>4, <1>5 DEF Inv

LEMMA EndPageKeeps == ASSUME Inv, EndPage PROVE Inv'
<1> USE DEF channel, consumer
<1>1. Content' /\ Waiting' = Waiting
  BY NothingHandled DEF EndPage, Whole, ProdCtxDone
<1>2. Shape' /\ Control'
  <2>1. offset' \in Nat
    BY PipelineAssumption, SMTT(30) DEF Inv, Shape, EndPage
  <2>2. prod' \in {"fetching", "sending", "closing"} /\ prod = "yielding"
    BY DEF EndPage
  <2>3. UNCHANGED <<listing, yielded, buf, prodErr, batches, closed, cons, inHand, written,
                    syncErr, stopped, cancelled>>
    BY DEF EndPage
  <2> QED BY <1>1, <2>1, <2>2, <2>3 DEF Inv, Shape, Control
<1>3. Paging'
  <2>1. /\ prod = "yielding" /\ yielded = PageEnd /\ Len(buf) < BatchSize
        /\ UNCHANGED <<listing, yielded, buf, prodErr, stopped, cancelled>>
        /\ offset \in Nat /\ listing \in Nat /\ yielded \in Nat /\ buf \in Seq(Nat)
        /\ Len(buf) \in Nat
    BY DEF EndPage, Inv, Paging, Shape
  <2>2. PICK j \in Nat : offset = j * BatchSize
    BY DEF Inv, Paging
  <2>3. PICK k \in Nat : yielded = k * BatchSize + Len(buf)
    BY <2>1 DEF Inv, Paging
  <2>4. PICK n \in 1..PageSize : PageSize = n * BatchSize
    BY PipelineAssumption
  <2>5. CASE PageEnd - offset = PageSize /\ offset' = offset + PageSize /\ prod' = "fetching"
    <3>1. (j + n) * BatchSize = j * BatchSize + n * BatchSize
      BY PipelineAssumption
    <3>2. offset' = (j + n) * BatchSize /\ j + n \in Nat /\ yielded = offset'
      <4>1. PageSize \in Nat /\ n \in Nat
        BY PipelineAssumption
      <4>2. yielded = offset + PageSize
        BY <2>1, <2>5, <4>1 DEF PageEnd
      <4> QED BY ONLY <2>2, <2>4, <2>5, <3>1, <4>1, <4>2
    <3>3. Len(buf) = 0
      BY <2>1, <2>3, <3>2, NoRemainder, PipelineAssumption
    <3>4. buf' = << >>
      BY <2>1, <3>3
    <3> QED BY <2>1, <2>5, <3>2, <3>4 DEF Paging
  <2>6. CASE /\ PageEnd - offset < PageSize /\ UNCHANGED offset
             /\ prod' = IF buf = << >> THEN "closing" ELSE "sending"
    <3>1. yielded = listing
      BY <2>1, <2>6, PipelineAssumption, SMTT(30) DEF PageEnd
    <3>2. PageEnd' = PageEnd
      BY <2>1, <2>6 DEF PageEnd
    <3> QED BY <2>1, <2>6, <3>1, <3>2 DEF Inv, Paging
  <2> QED BY <2>5, <2>6 DEF EndPage
<1>4. SuccessIsComplete'
  BY DEF Inv, SuccessIsComplete, EndPage
<1> QED BY <1>1, <1>2, <1>3, <1>4 DEF Inv

-----------------------------------------------------------------------------
(* Steps that move submissions on *)

LEMMA YieldKeeps == ASSUME Inv, Yield PROVE Inv'
<1> USE DEF channel, consumer
<1>1. /\ prod = "yielding" /\ yielded < PageEnd /\ yielded' = yielded + 1
      /\ UNCHANGED <<listing, offset, prodErr, batches, closed, cons, inHand, written,
                     syncErr, stopped, cancelled>>
      /\ yielded \in Nat /\ listing \in Nat /\ offset \in Nat /\ yielded + 1 <= listing
  BY PipelineAssumption DEF Yield, Inv, Shape, PageEnd
<1>2. /\ Waiting' = Waiting /\ W' = W /\ H' = H /\ Q' = Q /\ PageEnd' = PageEnd
      /\ W \in Nat /\ H \in Nat /\ Q \in Nat
  BY <1>1, Positions DEF Waiting, W, H, Q, PageEnd, Inv
<1>3. buf \in Seq(Nat) /\ Len(buf) \in Nat /\ Len(buf) < BatchSize
  BY <1>1 DEF Inv, Shape, Paging
<1>4. CASE ProdCtxDone
  <2>1. prod' = "closing" /\ buf' = buf /\ ProdCtxDone'
    BY <1>1, <1>4 DEF Yield, ProdCtxDone
  <2>2. Shape'
    BY <1>1, <1>2, <2>1 DEF Inv, Shape
  <2>3. Content'
    BY <1>1, <1>2, <2>1 DEF Inv, Content, Whole, Run
  <2>4. Paging'
    BY <1>1, <2>1 DEF Inv, Paging
  <2>5. Control' /\ SuccessIsComplete'
    BY <1>1, <2>1 DEF Inv, Control, SuccessIsComplete
  <2> QED BY <2>2, <2>3, <2>4, <2>5 DEF Inv
<1>5. CASE ~ProdCtxDone
  <2>1. /\ buf' = Append(buf, yielded + 1)
        /\ prod' = IF Len(buf') >= BatchSize THEN "sending" ELSE "yielding"
    BY <1>5 DEF Yield
  <2>2. buf' \in Seq(Nat) /\ Len(buf') = Len(buf) + 1
    BY <1>1, <1>3, <2>1, AppendProperties
  <2>3. Shape'
    BY <1>1, <1>2, <1>3, <2>1, <2>2, PipelineAssumption DEF Inv, Shape
  <2>4. Content'
    <3>1. /\ written' = Run(0, W)' /\ inHand' = Run(W, H)' /\ H' <= yielded'
          /\ ~stopped' => Waiting' = Run(H, Q)' /\ Q' <= yielded'
      BY <1>1, <1>2 DEF Inv, Content, Run
    <3>2. ~stopped' => buf' = Run(Q, yielded)'
      <4> SUFFICES ASSUME ~stopped PROVE buf' = Run(Q, yielded + 1)
        BY <1>1, <1>2 DEF Run
      <4>1. buf = Run(Q, yielded) /\ Q <= yielded
        BY <1>1 DEF Inv, Content, Whole
      <4> QED BY <1>1, <1>2, <2>1, <4>1, RunGrows
    <3> QED BY <3>1, <3>2 DEF Content
  <2>5. Paging'
    <3>1. PICK k \in Nat : yielded = k * BatchSize + Len(buf)
      BY <1>1 DEF Inv, Paging
    <3>2. k * BatchSize \in Nat
      BY PipelineAssumption
    <3>3. yielded' = k * BatchSize + Len(buf')
      BY <1>1, <1>3, <2>2, <3>1, <3>2
    <3>4. offset <= yielded' /\ yielded' <= PageEnd
      <4>1. offset <= yielded
        BY <1>1 DEF Inv, Paging
      <4>2. PageEnd \in Nat
        BY <1>1, PipelineAssumption DEF PageEnd
      <4> QED BY ONLY <1>1, <4>1, <4>2
    <3>5. prod' = "sending" => ~(Len(buf') < BatchSize)
      BY <2>1, <2>2, <1>3, PipelineAssumption
    <3>6. prod' = "yielding" => Len(buf') < BatchSize
      BY <2>1, <2>2, <1>3, PipelineAssumption
    <3>7. prod' \in {"yielding", "sending"}
      BY <2>1
    <3>8. \E j \in Nat : offset' = j * BatchSize
      BY <1>1 DEF Inv, Paging
    <3> QED BY <1>1, <1>2, <3>3, <3>4, <3>5, <3>6, <3>7, <3>8 DEF Paging
  <2>6. Control' /\ SuccessIsComplete'
    BY <1>1, <2>1 DEF Inv, Control, SuccessIsComplete
  <2> QED BY <2>3, <2>4, <2>5, <2>6 DEF Inv
<1> QED BY <1>4, <1>5

LEMMA SendKeeps == ASSUME Inv, Send PROVE Inv'
<1> USE DEF consumer
<1>1. /\ prod = "sending" /\ batches = << >> /\ batches' = Append(batches, buf) /\ buf' = << >>
      /\ prod' = IF Len(buf) >= BatchSize THEN "yielding" ELSE "closing"
      /\ UNCHANGED <<listing, offset, yielded, prodErr, closed, cons, inHand, written,
                     syncErr, stopped, cancelled>>
      /\ yielded \in Nat /\ buf \in Seq(Nat) /\ Len(buf) \in Nat /\ Len(buf) <= BatchSize
  BY DEF Send, Inv, Shape
<1>2. /\ Waiting = << >> /\ Waiting' = buf /\ PageEnd' = PageEnd
      /\ batches' \in Seq(Seq(Nat)) /\ Len(batches') = 1
  <2>1. batches' = <<buf>>
    BY <1>1
  <2> QED BY <1>1, <2>1 DEF Waiting, PageEnd
<1>3. /\ W' = W /\ H' = H /\ Q = H /\ Q' = H + Len(buf)
      /\ W \in Nat /\ H \in Nat
  BY <1>1, <1>2, Positions DEF W, H, Q, Inv
<1>4. Shape'
  <2>1. buf' \in Seq(Nat) /\ Len(buf') <= BatchSize /\ Len(Waiting') <= BatchSize
    BY <1>1, <1>2, PipelineAssumption
  <2> QED BY <1>1, <1>2, <2>1 DEF Inv, Shape
<1>5. Content'
  <2>1. written' = Run(0, W') /\ inHand' = Run(W', H') /\ H' <= yielded'
    BY <1>1, <1>3 DEF Inv, Content
  <2>2. ASSUME ~stopped
        PROVE  /\ Waiting' = Run(H', Q') /\ Q' = yielded'
               /\ buf' = Run(Q', yielded')
    <3>1. buf = Run(H, yielded) /\ H <= yielded
      BY <1>1, <1>3, <2>2 DEF Inv, Content, Whole
    <3>2. Len(buf) = yielded - H
      BY <1>1, <1>3, <3>1, RunIsSeq
    <3>3. Q' = yielded
      BY <1>1, <1>3, <3>1, <3>2
    <3> QED BY <1>1, <1>2, <1>3, <3>1, <3>3, EmptyRun
  <2>3. Q' \in Nat /\ (~stopped => Q' <= yielded')
    BY <1>1, <1>3, <2>2
  <2>4. UNCHANGED stopped
    BY <1>1
  <2> QED BY <2>1, <2>2, <2>3, <2>4 DEF Content, Run
<1>6. Paging'
  <2>1. \E j \in Nat : offset' = j * BatchSize
    BY <1>1 DEF Inv, Paging
  <2>2. CASE Len(buf) >= BatchSize
    <3>1. prod' = "yielding" /\ Len(buf) = BatchSize /\ Len(buf') = 0
      BY <1>1, <2>2, PipelineAssumption
    <3>2. PICK k \in Nat : yielded = k * BatchSize + Len(buf)
      BY <1>1 DEF Inv, Paging
    <3>3. (k + 1) * BatchSize = k * BatchSize + BatchSize
      BY PipelineAssumption
    <3>4. yielded' = (k + 1) * BatchSize + Len(buf') /\ k + 1 \in Nat
      <4>1. (k + 1) * BatchSize \in Nat
        BY PipelineAssumption
      <4> QED BY <1>1, <3>1, <3>2, <3>3, <4>1
    <3>5. offset' <= yielded' /\ yielded' <= PageEnd'
      BY <1>1, <1>2 DEF Inv, Paging
    <3>6. Len(buf') < BatchSize
      BY <3>1, PipelineAssumption
    <3> QED BY <2>1, <3>1, <3>4, <3>5, <3>6 DEF Paging
  <2>3. CASE Len(buf) < BatchSize
    <3>1. yielded = listing
      BY <1>1, <2>3 DEF Inv, Paging
    <3>2. prod' = "closing"
      BY <1>1, <2>3, PipelineAssumption
    <3> QED BY <1>1, <2>1, <3>1, <3>2 DEF Paging
  <2>4. Len(buf) >= BatchSize \/ Len(buf) < BatchSize
    BY <1>1, PipelineAssumption
  <2> QED BY <2>2, <2>3, <2>4
<1>7. Control' /\ SuccessIsComplete'
  BY <1>1 DEF Inv, Control, SuccessIsComplete
<1> QED BY <1>4, <1>5, <1>6, <1>7 DEF Inv

(* Of a channel with at most one batch nothing is left. *)
LEMMA OneBatch ==
  ASSUME Shape, batches # << >>
  PROVE  Tail(batches) = << >> /\ Head(batches) = Waiting /\ Waiting \in Seq(Nat)
<1>1. Tail(batches) \in Seq(Seq(Nat)) /\ Len(Tail(batches)) = Len(batches) - 1
  BY HeadTailProperties DEF Shape
<1>2. Len(batches) = 1
  <2> DEFINE n == Len(batches)
  <2>1. n \in Nat \ {0}
    <3>1. batches \in Seq(Seq(Nat)) /\ batches # << >>
      BY DEF Shape
    <3> QED BY ONLY <3>1, EmptySeq
  <2>2. n <= 1
    BY DEF Shape
  <2> HIDE DEF n
  <2>3. n = 1
    BY <2>1, <2>2
  <2> QED BY <2>3 DEF n
<1>3. Tail(batches) = << >>
  <2>1. Len(Tail(batches)) = 0
    BY <1>1, <1>2
  <2> QED BY <1>1, <2>1, EmptySeq
<1> QED BY <1>3, Positions DEF Waiting

(* What the consumer leaves to the producer *)
LEMMA PagingStays ==
  ASSUME Inv, UNCHANGED <<listing, producer>>, ProdCtxDone => ProdCtxDone'
  PROVE  Paging'
<1>1. PageEnd' = PageEnd
  BY DEF PageEnd, producer
<1> QED BY <1>1 DEF Inv, Paging, producer

LEMMA ReceiveKeeps == ASSUME Inv, Receive PROVE Inv'
<1>1. /\ cons = "receiving" /\ batches # << >> /\ cons' = "writing" /\ ~stopped
      /\ inHand = << >> /\ inHand' = Waiting /\ batches' = << >>
      /\ UNCHANGED <<listing, producer, closed, written, syncErr, stopped, cancelled>>
  BY OneBatch DEF Receive, Inv, Control
<1>2. Waiting' = << >> /\ Waiting \in Seq(Nat) /\ << >> \in Seq(Seq(Nat)) /\ Len(<< >>) = 0
  BY <1>1, Positions DEF Waiting, Inv
<1>3. /\ W \in Nat /\ H \in Nat /\ Q \in Nat
      /\ W' = W /\ H = W /\ H' = Q /\ Q' = Q
  BY <1>1, <1>2, Positions DEF W, H, Q, Inv
<1>4. Shape'
  BY <1>1, <1>2, PipelineAssumption DEF Inv, Shape, producer
<1>5. Content'
  <2>1. written = Run(0, W) /\ Waiting = Run(H, Q) /\ Q <= yielded
    BY <1>1 DEF Inv, Content
  <2>2. written' = Run(0, W') /\ inHand' = Run(W', H') /\ H' <= yielded'
    BY <1>1, <1>3, <2>1 DEF producer
  <2>3. Waiting' = Run(H', Q') /\ Q' <= yielded'
    BY <1>1, <1>2, <1>3, <2>1, EmptyRun DEF producer
  <2>4. (Whole' <=> Whole) /\ (Whole => buf' = Run(Q', yielded'))
    BY <1>1, <1>3 DEF Inv, Content, Whole, ProdCtxDone, producer
  <2> QED BY <2>2, <2>3, <2>4 DEF Content, Run
<1>6. Paging'
  BY <1>1, PagingStays DEF ProdCtxDone
<1>7. Control' /\ SuccessIsComplete'
  BY <1>1 DEF Inv, Control, SuccessIsComplete, producer
<1> QED BY <1>4, <1>5, <1>6, <1>7 DEF Inv

LEMMA WriteBatchKeeps == ASSUME Inv, WriteBatch PROVE Inv'
<1>1. /\ cons = "writing" /\ cons' = "receiving" /\ ~stopped
      /\ written' = written \o inHand /\ inHand' = << >>
      /\ UNCHANGED <<listing, producer, channel, syncErr, stopped, cancelled>>
      /\ written \in Seq(Nat) /\ inHand \in Seq(Nat)
  BY DEF WriteBatch, Inv, Control, Shape
<1>2. /\ Waiting' = Waiting /\ written' \in Seq(Nat) /\ << >> \in Seq(Nat) /\ Len(<< >>) = 0
      /\ Len(written') = Len(written) + Len(inHand)
  BY <1>1, ConcatProperties DEF Waiting, channel
<1>3. /\ W \in Nat /\ H \in Nat /\ Q \in Nat
      /\ W' = H /\ H' = H /\ Q' = Q /\ W <= H
  BY <1>1, <1>2, Positions DEF W, H, Q, Inv
<1>4. Shape'
  BY <1>1, <1>2, PipelineAssumption DEF Inv, Shape, producer, channel
<1>5. Content'
  <2>1. written = Run(0, W) /\ inHand = Run(W, H) /\ H <= yielded
    BY DEF Inv, Content
  <2>2. written' = Run(0, W') /\ inHand' = Run(W', H') /\ H' <= yielded'
    <3>1. Run(0, W) \o Run(W, H) = Run(0, H)
      BY <1>3, RunsFromTheStart
    <3>2. written' = Run(0, H)
      BY <1>1, <2>1, <3>1
    <3> QED BY <1>1, <1>3, <2>1, <3>2, EmptyRun DEF producer
  <2>3. Waiting' = Run(H', Q') /\ Q' <= yielded'
    BY <1>1, <1>2, <1>3 DEF Inv, Content, producer
  <2>4. (Whole' <=> Whole) /\ (Whole => buf' = Run(Q', yielded'))
    BY <1>1, <1>3 DEF Inv, Content, Whole, ProdCtxDone, producer
  <2> QED BY <2>2, <2>3, <2>4 DEF Content, Run
<1>6. Paging'
  BY <1>1, PagingStays DEF ProdCtxDone
<1>7. Control' /\ SuccessIsComplete'
  BY <1>1 DEF Inv, Control, SuccessIsComplete, producer, channel
<1> QED BY <1>4, <1>5, <1>6, <1>7 DEF Inv

(* Once the producer is stopped, only what is written counts. *)
LEMMA WriteFailsKeeps == ASSUME Inv, WriteFails PROVE Inv'
<1>1. /\ cons = "writing" /\ cons' = "draining" /\ stopped' = TRUE /\ syncErr' = TRUE
      /\ inHand' = << >> /\ UNCHANGED <<listing, producer, channel, written, cancelled>>
  BY DEF WriteFails
<1>2. Waiting' = Waiting /\ << >> \in Seq(Nat) /\ Len(<< >>) = 0
  BY <1>1 DEF Waiting, channel
<1>3. W \in Nat /\ H \in Nat /\ W' = W /\ H' = W /\ W <= H
  BY <1>1, <1>2, Positions DEF W, H, Inv, Shape
<1>4. Shape'
  BY <1>1, <1>2 DEF Inv, Shape, producer, channel
<1>5. Content'
  <2>1. written' = Run(0, W') /\ inHand' = Run(W', H')
    BY <1>1, <1>3, EmptyRun DEF Inv, Content
  <2>2. H' <= yielded'
    BY <1>1, <1>3 DEF Inv, Content, Shape, producer
  <2> QED BY <1>1, <2>1, <2>2 DEF Content, Run
<1>6. Paging'
  BY <1>1, PagingStays DEF ProdCtxDone
<1>7. Control' /\ SuccessIsComplete'
  BY <1>1 DEF Inv, Control, SuccessIsComplete, producer, channel
<1> QED BY <1>4, <1>5, <1>6, <1>7 DEF Inv

LEMMA DrainKeeps == ASSUME Inv, Drain PROVE Inv'
<1>1. /\ cons = "draining" /\ batches' = << >> /\ stopped
      /\ UNCHANGED <<listing, producer, closed, consumer, cancelled>>
  BY OneBatch DEF Drain, Inv, Control
<1>2. Waiting' = << >> /\ << >> \in Seq(Seq(Nat)) /\ Len(<< >>) = 0
  BY <1>1 DEF Waiting
<1>3. W' = W /\ H' = H
  BY <1>1 DEF W, H, consumer
<1>4. Shape'
  BY <1>1, <1>2, PipelineAssumption DEF Inv, Shape, producer, consumer
<1>5. Content'
  BY <1>1, <1>3 DEF Inv, Content, Run, producer, consumer
<1>6. Paging'
  BY <1>1, PagingStays DEF ProdCtxDone, consumer
<1>7. Control' /\ SuccessIsComplete'
  BY <1>1 DEF Inv, Control, SuccessIsComplete, producer, consumer
<1> QED BY <1>4, <1>5, <1>6, <1>7 DEF Inv

LEMMA FinishKeeps == ASSUME Inv, Finish PROVE Inv'
<1>1. /\ cons \in {"receiving", "draining"} /\ closed /\ batches = << >> /\ cons' = "done"
      /\ syncErr' = (syncErr \/ prodErr)
      /\ UNCHANGED <<listing, producer, channel, inHand, written, stopped, cancelled>>
      /\ inHand = << >> /\ prod = "gone"
  BY DEF Finish, Inv, Control
<1>2. Waiting' = Waiting /\ Waiting = << >> /\ syncErr' \in BOOLEAN
  BY <1>1 DEF Waiting, channel
<1>3. W' = W /\ H' = H /\ Q' = Q /\ H = W /\ Q = W /\ W \in Nat
  BY <1>1, <1>2, Positions DEF W, H, Q, Inv
<1>4. Shape'
  BY <1>1, <1>2 DEF Inv, Shape, producer, channel
<1>5. Content'
  BY <1>1, <1>2, <1>3 DEF Inv, Content, Whole, ProdCtxDone, Run, producer, channel
<1>6. Paging'
  BY <1>1, PagingStays DEF ProdCtxDone
<1>7. Control'
  BY <1>1 DEF Inv, Control, producer, channel
<1>8. SuccessIsComplete'
  <2> SUFFICES ASSUME ~syncErr', ~cancelled' PROVE written' = FirstOnes(listing')
    BY DEF SuccessIsComplete
  <2>1. ~prodErr /\ ~stopped /\ ~cancelled /\ ~syncErr
    BY <1>1 DEF Inv, Control
  <2>2. buf = << >> /\ yielded = listing
    BY <1>1, <2>1 DEF Inv, Paging, ProdCtxDone
  <2>3. buf = Run(W, yielded) /\ W <= yielded /\ written = Run(0, W)
    BY <1>3, <2>1 DEF Inv, Content, Whole, ProdCtxDone
  <2>4. W = listing
    <3>1. Len(buf) = yielded - W
      <4>1. yielded \in Nat
        BY DEF Inv, Shape
      <4>2. Len(Run(W, yielded)) = yielded - W
        BY <1>3, <2>3, <4>1, RunIsSeq
      <4> QED BY <2>3, <4>2
    <3>2. Len(buf) = 0
      BY <2>2
    <3> QED BY <1>3, <2>2, <3>1, <3>2 DEF Inv, Shape
  <2>5. FirstOnes(listing) = Run(0, listing)
    BY DEF FirstOnes, Run, Inv, Shape
  <2> QED BY <1>1, <2>3, <2>4, <2>5
<1> QED BY <1>4, <1>5, <1>6, <1>7, <1>8 DEF Inv

-----------------------------------------------------------------------------
LEMMA InvHolds == Spec => []Inv
<1>1. Init => Inv
  BY Initially
<1>2. Inv /\ [Next]_vars => Inv'
  <2> SUFFICES ASSUME Inv, [Next]_vars PROVE Inv'
    OBVIOUS
  <2>1. CASE UNCHANGED vars
    <3>1. Content' /\ Waiting' = Waiting
      BY <2>1, NothingHandled DEF vars, producer, channel, consumer, Whole, ProdCtxDone
    <3>2. Paging'
      BY <2>1, PagingStays DEF vars, ProdCtxDone, consumer
    <3>3. Shape' /\ Control' /\ SuccessIsComplete'
      BY <2>1, <3>1 DEF vars, producer, channel, consumer, Inv, Shape, Control,
                        SuccessIsComplete
    <3> QED BY <3>1, <3>2, <3>3 DEF Inv
  <2>2. CASE Producer
    BY <2>2, FetchKeeps, YieldKeeps, EndPageKeeps, SendKeeps, CloseKeeps DEF Producer
  <2>3. CASE Consumer
    BY <2>3, ReceiveKeeps, WriteBatchKeeps, WriteFailsKeeps, DrainKeeps, FinishKeeps
       DEF Consumer
  <2>4. CASE Cancel
    BY <2>4, CancelKeeps
  <2> QED BY <2>1, <2>2, <2>3, <2>4 DEF Next
<1> QED BY <1>1, <1>2, PTL DEF Spec

(* Every variable stays in its type, and neither the channel nor a batch      *)
(* outgrows its capacity (sync.go:178).                                       *)
THEOREM TypesHold == Spec => []TypeOK
<1>1. Inv => TypeOK
  BY DEF Inv, Shape, TypeOK
<1> QED BY <1>1, InvHolds, PTL

(* Nothing is written behind a gap, whatever fails and whenever the pass is    *)
(* cancelled: the cursor, which moves from batch to batch, skips nothing.     *)
THEOREM NothingIsSkipped == Spec => []NoGap
<1>1. Inv => NoGap
  <2> SUFFICES ASSUME Inv PROVE NoGap
    OBVIOUS
  <2>1. /\ W \in Nat /\ H \in Nat /\ W <= H
        /\ written = Run(0, W) /\ inHand = Run(W, H) /\ H <= yielded
        /\ listing \in Nat /\ yielded \in 0..listing
    BY Positions DEF Inv, Content, Shape, H, W
  <2>2. Run(0, W) \o Run(W, H) = Run(0, H)
    BY <2>1, RunsFromTheStart
  <2>3. written \o inHand = FirstOnes(H) /\ H \in 0..listing
    BY <2>1, <2>2 DEF FirstOnes, Run
  <2> QED BY <2>3 DEF NoGap
<1> QED BY <1>1, InvHolds, PTL

(* The two goroutines and the channel between them lose nothing.              *)
THEOREM NothingGetsLost == Spec => []NothingLost
<1>1. Inv => NothingLost
  <2> SUFFICES ASSUME Inv, ~ProdCtxDone, ~prodErr PROVE InFlight = FirstOnes(yielded)
    BY DEF NothingLost
  <2>1. /\ W \in Nat /\ H \in Nat /\ Q \in Nat /\ yielded \in Nat
        /\ W <= H /\ H <= Q /\ Q <= yielded
        /\ written = Run(0, W) /\ inHand = Run(W, H) /\ Waiting = Run(H, Q)
        /\ buf = Run(Q, yielded)
    BY Positions DEF Inv, Content, Shape, H, W, Q, Whole, ProdCtxDone
  <2>2. Run(0, W) \o Run(W, H) = Run(0, H)
    BY <2>1, RunsFromTheStart
  <2>3. Run(0, H) \o Run(H, Q) = Run(0, Q)
    BY <2>1, RunsFromTheStart
  <2>4. Run(0, Q) \o Run(Q, yielded) = Run(0, yielded)
    BY <2>1, RunsFromTheStart
  <2>5. Run(0, yielded) = FirstOnes(yielded)
    BY <2>1 DEF Run, FirstOnes
  <2> QED BY <2>1, <2>2, <2>3, <2>4, <2>5 DEF InFlight
<1> QED BY <1>1, InvHolds, PTL

(* A pass that reports success has written the whole listing.                 *)
THEOREM SuccessMeansComplete == Spec => []SuccessIsComplete
<1>1. Inv => SuccessIsComplete
  BY DEF Inv
<1> QED BY <1>1, InvHolds, PTL

(* "Safe: producer has finished once batches is closed" (sync.go:224).        *)
THEOREM TheErrorIsFinal == Spec => []ErrorIsFinal
<1>1. Inv => ErrorIsFinal
  BY DEF Inv, Control, ErrorIsFinal
<1> QED BY <1>1, InvHolds, PTL

(* A page is requested with at most one batch waiting: a full page leaves no   *)
(* partial batch, since pages consist of whole batches.                        *)
THEOREM PrefetchStaysBounded == Spec => []PrefetchIsBounded
<1>1. Inv => PrefetchIsBounded
  <2>1. Len(<< >>) = 0
    OBVIOUS
  <2>2. ASSUME Inv PROVE Len(Waiting) \in Nat
    BY <2>2, Positions DEF Inv
  <2> QED BY <2>1, <2>2 DEF Inv, Shape, Paging, PrefetchIsBounded
<1> QED BY <1>1, InvHolds, PTL

-----------------------------------------------------------------------------
(* The pass as a loop *)

(* A batch that ends at a place is full, or ends the listing. *)
Fills(b, end) == Len(b) \in 1..BatchSize /\ (Len(b) = BatchSize \/ end = listing)

Batches ==
  /\ prod = "sending" => Len(buf) > 0
  /\ ~stopped /\ batches # << >> => Fills(Waiting, Q)
  /\ cons = "writing" => Fills(inHand, H)

LEMMA BatchesStay ==
  ASSUME Inv, Batches, UNCHANGED <<listing, batches, cons, inHand, written>>,
         stopped => stopped', prod' = "sending" => Len(buf') > 0
  PROVE  Batches'
<1>1. Waiting' = Waiting
  BY DEF Waiting
<1>2. H' = H /\ Q' = Q
  BY <1>1 DEF W, H, Q
<1> QED BY <1>1, <1>2 DEF Batches, Fills

LEMMA SendFills == ASSUME Inv, Batches, Send PROVE Batches'
<1>1. /\ prod = "sending" /\ batches = << >> /\ batches' = Append(batches, buf) /\ buf' = << >>
      /\ prod' # "sending"
      /\ UNCHANGED <<listing, yielded, cons, inHand, written, stopped>>
      /\ yielded \in Nat /\ buf \in Seq(Nat) /\ Len(buf) \in Nat /\ Len(buf) <= BatchSize
      /\ Len(buf) > 0 /\ (Len(buf) < BatchSize => yielded = listing)
  BY DEF Send, Inv, Shape, Paging, Batches, consumer
<1>2. batches' = <<buf>> /\ Waiting = << >> /\ Waiting' = buf
  BY <1>1 DEF Waiting
<1>3. W' = W /\ H' = H /\ Q = H /\ Q' = H + Len(buf) /\ H \in Nat
  BY <1>1, <1>2, Positions DEF W, H, Q, Inv
<1>4. ASSUME ~stopped PROVE Q' = yielded
  <2>1. buf = Run(H, yielded) /\ H <= yielded
    BY <1>1, <1>3, <1>4 DEF Inv, Content, Whole
  <2>2. Len(buf) = yielded - H
    BY <1>1, <1>3, <2>1, RunIsSeq
  <2> QED BY <1>1, <1>3, <2>1, <2>2
<1>5. Len(buf) \in 1..BatchSize /\ (Len(buf) = BatchSize \/ yielded = listing)
  BY <1>1, PipelineAssumption
<1> QED BY <1>1, <1>2, <1>3, <1>4, <1>5 DEF Batches, Fills

LEMMA BatchesHold == Spec => [](Inv /\ Batches)
<1>1. Init => Batches
  BY DEF Init, Batches
<1>2. Inv /\ Batches /\ [Next]_vars => Batches'
  <2> SUFFICES ASSUME Inv, Batches, [Next]_vars PROVE Batches'
    OBVIOUS
  <2>1. CASE UNCHANGED vars
    BY <2>1, BatchesStay DEF vars, producer, channel, consumer, Batches
  <2>2. CASE FetchPage \/ FetchFails \/ SendGivenUp \/ Close
    BY <2>2, BatchesStay DEF FetchPage, FetchFails, SendGivenUp, Close, channel, consumer
  <2>3. CASE Yield
    <3>1. buf \in Seq(Nat) /\ yielded + 1 \in Nat /\ prod = "yielding"
      BY <2>3 DEF Inv, Shape, Yield
    <3>2. Len(Append(buf, yielded + 1)) > 0
      BY <3>1
    <3>3. prod' = "sending" => Len(buf') > 0
      BY <2>3, <3>2 DEF Yield
    <3> QED BY <2>3, <3>3, BatchesStay DEF Yield, channel, consumer
  <2>4. CASE EndPage
    <3>1. prod' = "sending" => Len(buf') > 0
      <4>1. buf \in Seq(Nat)
        BY DEF Inv, Shape
      <4>2. buf # << >> => Len(buf) > 0
        BY <4>1
      <4> QED BY <2>4, <4>2 DEF EndPage
    <3> QED BY <2>4, <3>1, BatchesStay DEF EndPage, channel, consumer
  <2>5. CASE Send
    BY <2>5, SendFills
  <2>6. CASE Receive
    <3>1. /\ batches # << >> /\ batches' = << >> /\ ~stopped /\ cons = "receiving"
          /\ inHand = << >> /\ inHand' = Waiting
          /\ UNCHANGED <<listing, prod, buf, written>>
      BY <2>6, OneBatch DEF Receive, Inv, Control, producer
    <3>2. H' = Q
      BY <3>1, Positions DEF W, H, Q, Inv
    <3> QED BY <3>1, <3>2 DEF Batches, Fills
  <2>7. CASE WriteBatch
    <3>1. /\ written' = written \o inHand /\ inHand' = << >> /\ cons' # "writing"
          /\ UNCHANGED <<listing, prod, buf, batches, stopped>>
          /\ written \in Seq(Nat) /\ inHand \in Seq(Nat) /\ Len(<< >>) = 0
      BY <2>7 DEF WriteBatch, Inv, Shape, producer, channel
    <3>2. Waiting' = Waiting /\ Len(written') = Len(written) + Len(inHand)
      BY <3>1, ConcatProperties DEF Waiting
    <3>3. Q' = Q
      BY <3>1, <3>2, Positions DEF W, H, Q, Inv, Shape
    <3> QED BY <3>1, <3>2, <3>3 DEF Batches, Fills
  <2>8. CASE WriteFails \/ Drain
    BY <2>8 DEF WriteFails, Drain, Batches, Inv, Control, producer, consumer
  <2>9. CASE Finish
    BY <2>9 DEF Finish, Batches, Fills, producer, channel
  <2>10. CASE Cancel
    BY <2>10, BatchesStay DEF Cancel, producer, channel, consumer, Batches
  <2> QED BY <2>1, <2>2, <2>3, <2>4, <2>5, <2>6, <2>7, <2>8, <2>9, <2>10
          DEF Next, Producer, Consumer
<1> QED BY <1>1, <1>2, InvHolds, PTL DEF Spec

(* A write step of the consumer writes what the loop would write next. *)
LEMMA NextBatchIsInHand ==
  ASSUME Inv, Batches, cons = "writing"
  PROVE  Loop!Rest > 0 /\ inHand = Loop!NextBatch
<1>1. /\ W \in Nat /\ H \in Nat /\ listing \in Nat /\ H = W + Len(inHand) /\ H <= listing
      /\ inHand = Run(W, H) /\ Len(inHand) \in 1..BatchSize
      /\ Len(inHand) = BatchSize \/ H = listing
  BY Positions DEF Inv, Shape, Content, Batches, Fills, H
<1>2. Loop!Rest = listing - W /\ listing - W > 0
  BY <1>1 DEF Loop!Rest, W
<1>3. (IF Loop!Rest < BatchSize THEN Loop!Rest ELSE BatchSize) = H - W
  BY <1>1, <1>2, PipelineAssumption
<1>4. Loop!NextBatch = [i \in 1..(H - W) |-> W + i]
  BY <1>3 DEF Loop!NextBatch, W
<1> QED BY <1>1, <1>2, <1>4 DEF Run

LEMMA StepsAreOfTheLoop ==
  ASSUME Inv, Batches, [Next]_vars
  PROVE  [Loop!Next]_(Loop!vars)
<1> USE DEF Outcome
<1>1. CASE UNCHANGED vars \/ Producer \/ Receive \/ Drain
  <2>1. UNCHANGED <<listing, written, cancelled, syncErr>>
    BY <1>1 DEF vars, Producer, FetchPage, FetchFails, Yield, EndPage, Send, SendGivenUp,
                Close, Receive, Drain, channel, consumer
  <2>2. cons' = "done" <=> cons = "done"
    BY <1>1 DEF vars, Producer, FetchPage, FetchFails, Yield, EndPage, Send, SendGivenUp,
                Close, Receive, Drain, channel, consumer
  <2> QED BY <2>1, <2>2 DEF Loop!vars
<1>2. CASE WriteBatch
  <2>1. /\ cons = "writing" /\ ~cancelled /\ written' = written \o inHand /\ cons' = "receiving"
        /\ UNCHANGED <<listing, syncErr, cancelled>> /\ ~stopped
    BY <1>2 DEF WriteBatch, Inv, Control
  <2>2. Loop!Rest > 0 /\ inHand = Loop!NextBatch
    BY <2>1, NextBatchIsInHand
  <2>3. ~syncErr
    BY <2>1 DEF Inv, Control
  <2> QED BY <2>1, <2>2, <2>3 DEF Loop!Next, Loop!Write
<1>3. CASE WriteFails
  BY <1>3 DEF WriteFails, Inv, Control, Loop!Next, Loop!Fail
<1>4. CASE Finish
  <2>1. /\ cons \in {"receiving", "draining"} /\ cons' = "done"
        /\ syncErr' = (syncErr \/ prodErr)
        /\ UNCHANGED <<listing, written, cancelled>>
    BY <1>4 DEF Finish
  <2>2. CASE syncErr
    BY <2>1, <2>2 DEF Loop!vars
  <2>3. CASE ~syncErr /\ prodErr
    BY <2>1, <2>3 DEF Loop!Next, Loop!Fail
  <2>4. CASE ~syncErr /\ ~prodErr
    <3>1. ~cancelled => Loop!Rest = 0
      <4>1. SuccessIsComplete'
        BY <1>4, FinishKeeps DEF Inv
      <4>2. ~cancelled => written = FirstOnes(listing) /\ listing \in Nat
        BY <2>1, <2>4, <4>1 DEF SuccessIsComplete, Inv, Shape
      <4>3. listing \in Nat => Len(FirstOnes(listing)) = listing
        BY DEF FirstOnes
      <4> QED BY <4>2, <4>3 DEF Loop!Rest
    <3> QED BY <2>1, <2>4, <3>1 DEF Loop!Next, Loop!Succeed
  <2> QED BY <2>2, <2>3, <2>4
<1>5. CASE Cancel
  BY <1>5 DEF Cancel, Loop!Next, Loop!Cancel, consumer
<1> QED BY <1>1, <1>2, <1>3, <1>4, <1>5 DEF Next, Consumer

(* Prefetching changes when pages are asked for, and nothing else: what a      *)
(* pass writes and reports, a plain loop over the listing would (sync.go:153). *)
THEOREM PipelineActsAsLoop == Spec => ActsAsLoop
<1>1. Init => Loop!Init
  BY DEF Init, Loop!Init, Outcome
<1>2. Inv /\ Batches /\ [Next]_vars => [Loop!Next]_(Loop!vars)
  BY StepsAreOfTheLoop
<1> QED BY <1>1, <1>2, BatchesHold, PTL DEF Spec, ActsAsLoop, Loop!Spec
=============================================================================
