--------------------------- MODULE LLMClientProofs ---------------------------
(***************************************************************************)
(* Proofs about LLMClient, for any limits, any capacity of a stream's      *)
(* channel and replies of any length: an answer is the whole reply or a    *)
(* beginning of it that the LLM or an abort cut, what was streamed is the  *)
(* answer, and nothing is tried again behind streamed text.                *)
(***************************************************************************)
EXTENDS LLMClient, SequenceTheorems, TLAPS

Terminal == {End, Err}

\* How the places of the run, of the reader and of the body go together.
Places ==
  /\ pc \notin {"body", "done"} => reader \in {"none", "closed"}
  /\ ~setup.streaming => reader = "none"
  /\ pc = "body" /\ setup.streaming => reader # "none"
  /\ pc = "pause" => attempt < MaxRetries
  /\ pc \notin {"turn", "done"} => turn >= 1
  /\ result # "none" => pc = "done"
  /\ pc \in {"send", "wait", "pause"} => text = <<>>
  /\ body = "done" => written = reply

\* The pieces in the channel, and when the reader has seen all there is.
Pieces ==
  IF Len(chan) > 0 /\ chan[Len(chan)] \in Terminal THEN Len(chan) - 1 ELSE Len(chan)
Full == taken = reply \/ body = "eof"

\* A stream carries the pieces of the reply one by one, from the reader's hand
\* through the channel into the text.
InOrder ==
  /\ text = Whole(Len(text))
  /\ \A k \in 1..Len(chan) :
       \/ chan[k] = Len(text) + k
       \/ k = Len(chan) /\ chan[k] \in Terminal /\ reader = "closed"

InHand ==
  /\ reader = "scan" => taken = Len(text) + Len(chan)
  /\ reader = "deliver" /\ held \in Terminal => taken = Len(text) + Len(chan)
  /\ reader = "deliver" /\ held \notin Terminal =>
       held = taken /\ taken = Len(text) + Len(chan) + 1
  /\ reader = "deliver" /\ held = End => Full

\* A channel that was closed with no abort has its last event in it still, or
\* that was the end and everything is in the text.
AtClose ==
  reader = "closed" =>
    /\ Len(text) + Pieces <= taken
    /\ ~cancelled =>
         /\ held \in Terminal
         /\ held = Err => Len(chan) > 0 /\ chan[Len(chan)] = Err
         /\ held = End => Len(text) + Pieces = taken /\ Full

Stream == pc = "body" /\ setup.streaming => InOrder /\ InHand /\ AtClose

\* What the text of a reply, and the answer, may be.
WholeOrCut(s) ==
  /\ s = Whole(Len(s)) /\ Len(s) <= reply
  /\ Len(s) < reply => body = "eof" \/ cancelled

Replied ==
  /\ pc = "reply" => WholeOrCut(text)
  /\ result = "completed" => WholeOrCut(answer)

\* Text is streamed under the turn that answers and is its text.
Told ==
  /\ \A t \in 1..MaxTurns : notified[t] # <<>> =>
       t = turn /\ step = "chat" /\ pc \in {"body", "reply", "done"} /\ setup.streaming
  /\ setup.streaming /\ step = "chat" /\ pc \in {"body", "reply"} => notified[turn] = text
  /\ WrapperSawTheAnswer

Inv == TypeOK /\ Places /\ Stream /\ Replied /\ Told

----------------------------------------------------------------------------
(* Facts about the operators.                                              *)

LEMMA Limits == /\ MaxRetries \in Nat /\ MaxStepRetries \in Nat /\ MaxPieces \in Nat
                /\ MaxTurns \in Nat /\ MaxTurns >= 1 /\ ChanCap \in Nat /\ ChanCap >= 1
BY LimitsAssumption

LEMMA WholeType ==
  ASSUME NEW n \in 0..MaxPieces
  PROVE  Whole(n) \in Seq(1..MaxPieces) /\ Len(Whole(n)) = n
<1>1. \A i \in 1..n : Whole(n)[i] \in 1..MaxPieces
  BY Limits DEF Whole
<1> QED
  BY <1>1 DEF Whole

LEMMA WholeGrows ==
  ASSUME NEW s \in Seq(1..MaxPieces), s = Whole(Len(s))
  PROVE  Append(s, Len(s) + 1) = Whole(Len(s) + 1)
<1>1. Len(s) \in Nat /\ DOMAIN s = 1..Len(s) /\ \A i \in 1..Len(s) : s[i] = i
  BY DEF Whole
<1>2. Append(s, Len(s) + 1) = [i \in 1..(Len(s) + 1) |-> IF i = Len(s) + 1 THEN Len(s) + 1 ELSE s[i]]
  BY <1>1
<1> QED
  BY <1>1, <1>2 DEF Whole

\* A step that fails goes back to the loop only if it is transient.
LEMMA FailureLeads ==
  ASSUME TypeOK, NEW class, StepFails(class)
  PROVE  \/ /\ class = "transient" /\ pc' = "turn" /\ stepRetries' \in 0..MaxStepRetries
            /\ UNCHANGED <<step, turn, attempt, endVars>>
         \/ /\ pc' = "done" /\ result' \in {"error", "user_fixable"} /\ answer' = <<>>
            /\ UNCHANGED <<runVars, attempt>>
BY SMTT(30), Limits DEF StepFails, EndRun, TypeOK

----------------------------------------------------------------------------
LEMMA InitHolds ==
  ASSUME Init
  PROVE  Inv
<1>1. TypeOK
  BY SMTT(30), Limits DEF Init, TypeOK, End, Err
<1>2. Places /\ Stream /\ Replied
  BY DEF Init, Places, Stream, Replied
<1>3. Told
  BY DEF Init, Told, WrapperSawTheAnswer
<1> QED
  BY <1>1, <1>2, <1>3 DEF Inv

\* A step that fails keeps the invariant, whatever was streamed before a failure
\* for good, and where nothing can have been before one that is tried again.
LEMMA FailureKeeps ==
  ASSUME Inv, NEW class, StepFails(class), pc # "done",
         class # "transient" \/ (reader \in {"none", "closed"} /\ (~setup.streaming \/ step = "router")),
         UNCHANGED <<setup, cancelled, bodyVars, notified, reader, taken, held>>,
         chan' \in Seq(Err..MaxPieces), Len(chan') <= ChanCap,
         text' \in Seq(1..MaxPieces)
  PROVE  Inv'
<1>1. result = "none"
  BY DEF Inv, Places
<1>2. \/ /\ class = "transient" /\ pc' = "turn" /\ stepRetries' \in 0..MaxStepRetries
         /\ UNCHANGED <<step, turn, attempt, result, answer>>
      \/ /\ pc' = "done" /\ result' \in {"error", "user_fixable"} /\ answer' = <<>>
         /\ UNCHANGED <<step, turn, stepRetries, attempt>>
  BY FailureLeads DEF Inv, runVars, endVars
<1>3. TypeOK'
  <2>1. /\ stepRetries' \in 0..MaxStepRetries /\ UNCHANGED <<step, turn, attempt>>
        /\ pc' \in {"turn", "done"}
    BY <1>2 DEF Inv, TypeOK
  <2>2. answer' \in Seq(0..MaxPieces)
    <3>1. answer' = answer \/ answer' = <<>>
      BY <1>2
    <3>2. answer \in Seq(0..MaxPieces) /\ <<>> \in Seq(0..MaxPieces)
      BY EmptySeq DEF Inv, TypeOK
    <3> QED
      BY <3>1, <3>2
  <2>3. result' \in {"none", "error", "user_fixable"}
    BY <1>1, <1>2
  <2> QED
    BY <2>1, <2>2, <2>3 DEF Inv, TypeOK, bodyVars
<1>4. Places'
  BY <1>1, <1>2 DEF Inv, Places, bodyVars
<1>5. Stream' /\ Replied'
  BY <1>1, <1>2 DEF Stream, Replied
<1>6. Told'
  BY <1>1, <1>2 DEF Inv, Told, Places, WrapperSawTheAnswer
<1> QED
  BY <1>3, <1>4, <1>5, <1>6 DEF Inv

\* The same where the text and the stream stay as they are.
LEMMA FailureStays ==
  ASSUME Inv, NEW class, StepFails(class), pc # "done",
         class # "transient" \/ (reader \in {"none", "closed"} /\ (~setup.streaming \/ step = "router")),
         UNCHANGED <<setup, text, cancelled, bodyVars, notified, readerVars>>
  PROVE  Inv'
<1>1. chan' \in Seq(Err..MaxPieces) /\ Len(chan') <= ChanCap /\ text' \in Seq(1..MaxPieces)
  BY DEF Inv, TypeOK, readerVars
<1>2. UNCHANGED <<setup, cancelled, bodyVars, notified, reader, taken, held>>
  BY DEF readerVars
<1> QED
  BY <1>1, <1>2, FailureKeeps

\* A step of the run before the reply comes, which only moves on.
LEMMA GoKeeps ==
  ASSUME Inv, pc \in {"send", "wait"}, NEW label \in {"wait", "pause"}, Go(label),
         label = "pause" => attempt < MaxRetries,
         UNCHANGED <<setup, text, cancelled, notified, bodyVars, readerVars>>
  PROVE  Inv'
<1> USE DEF Go
<1>1. TypeOK'
  BY DEF Inv, TypeOK, runVars, endVars, bodyVars, readerVars
<1>2. Places'
  BY DEF Inv, Places, runVars, endVars, bodyVars, readerVars
<1>3. Stream' /\ Replied'
  BY DEF Inv, Stream, Replied, Places, endVars
<1>4. Told'
  BY DEF Inv, Told, Places, WrapperSawTheAnswer, runVars, endVars
<1> QED
  BY <1>1, <1>2, <1>3, <1>4 DEF Inv

LEMMA LoopHeadKeeps ==
  ASSUME Inv, LoopHead
  PROVE  Inv'
<1> USE DEF LoopHead
<1>1. result = "none" /\ pc = "turn" /\ turn \in 0..MaxTurns
  BY DEF Inv, Places, TypeOK
<1>2. ASSUME NEW r \in {"max_turns", "error"}, EndRun(r, <<>>), UNCHANGED text
      PROVE  Inv'
  <2>1. TypeOK'
    BY <1>2 DEF Inv, TypeOK, EndRun, runVars, bodyVars, readerVars
  <2>2. Places' /\ Stream' /\ Replied'
    BY <1>1, <1>2 DEF Inv, Places, Stream, Replied, EndRun, runVars, bodyVars, readerVars
  <2>3. Told'
    BY <1>1, <1>2 DEF Inv, Told, EndRun, WrapperSawTheAnswer, runVars
  <2> QED
    BY <2>1, <2>2, <2>3 DEF Inv
<1>3. ASSUME turn < MaxTurns, turn' = turn + 1, NEW s \in {"router", "chat"}, Ask(s)
      PROVE  Inv'
  <2>1. TypeOK'
    BY <1>1, <1>3, Limits DEF Inv, TypeOK, Ask, endVars, bodyVars, readerVars
  <2>2. Places' /\ Stream' /\ Replied'
    BY <1>1, <1>3 DEF Inv, Places, Stream, Replied, TypeOK, Ask, endVars, bodyVars, readerVars
  <2>3. Told'
    BY <1>1, <1>3 DEF Inv, Told, Ask, WrapperSawTheAnswer, endVars
  <2> QED
    BY <2>1, <2>2, <2>3 DEF Inv
<1> QED
  BY <1>2, <1>3

LEMMA RequestKeeps ==
  ASSUME Inv, Send \/ Busy \/ Refused \/ PauseCut
  PROVE  Inv'
<1>1. attempt \in 0..MaxRetries
  BY DEF Inv, TypeOK
<1>2. CASE Send
  <2>1. CASE cancelled
    BY <1>2, <2>1, FailureStays DEF Send
  <2>2. CASE ~cancelled
    BY <1>2, <2>2, GoKeeps DEF Send
  <2> QED
    BY <2>1, <2>2
<1>3. CASE Busy
  <2>1. CASE LastAttempt
    BY <1>3, <2>1, FailureStays DEF Busy
  <2>2. CASE ~LastAttempt
    <3>1. attempt < MaxRetries
      BY <1>1, <2>2, Limits DEF LastAttempt
    <3> QED
      BY <1>3, <2>2, <3>1, GoKeeps DEF Busy
  <2> QED
    BY <2>1, <2>2
<1>4. CASE Refused
  BY <1>4, FailureStays DEF Refused
<1>5. CASE PauseCut
  BY <1>5, FailureStays DEF PauseCut
<1> QED
  BY <1>2, <1>3, <1>4, <1>5

LEMMA PauseEndsKeeps ==
  ASSUME Inv, PauseEnds
  PROVE  Inv'
<1> USE DEF PauseEnds
<1>1. TypeOK'
  BY Limits DEF Inv, TypeOK, Places, runVars, endVars, bodyVars, readerVars
<1>2. Places'
  BY DEF Inv, Places, runVars, endVars, bodyVars, readerVars
<1>3. Stream' /\ Replied'
  BY DEF Inv, Stream, Replied, Places, endVars
<1>4. Told'
  BY DEF Inv, Told, Places, WrapperSawTheAnswer, runVars, endVars
<1> QED
  BY <1>1, <1>2, <1>3, <1>4 DEF Inv

LEMMA AcceptedKeeps ==
  ASSUME Inv, NEW n \in 0..MaxPieces, Accepted(n)
  PROVE  Inv'
<1> USE DEF Accepted, Go
<1>1. text = <<>> /\ turn >= 1 /\ result = "none" /\ turn \in 0..MaxTurns
  BY DEF Inv, Places, TypeOK
<1>2. TypeOK'
  BY Limits DEF Inv, TypeOK, runVars, endVars, End, Err
<1>3. Places'
  BY <1>1 DEF Inv, Places, runVars, endVars
<1>4. Stream'
  <2>1. text' = Whole(0) /\ Len(text') = 0
    BY <1>1 DEF Whole
  <2> QED
    BY <2>1 DEF Stream, InOrder, InHand, AtClose
<1>5. Replied'
  BY <1>1 DEF Replied, endVars
<1>6. Told'
  BY <1>1 DEF Inv, Told, WrapperSawTheAnswer, runVars, endVars
<1> QED
  BY <1>2, <1>3, <1>4, <1>5, <1>6 DEF Inv

----------------------------------------------------------------------------
(* The LLM and the abort, at any time.                                     *)

\* What the run and its stream are made of stays; the body only gets on, and
\* an abort stays.
LEMMA OutsideKeeps ==
  ASSUME Inv, TypeOK',
         UNCHANGED <<setup, pc, runVars, attempt, text, endVars, notified, reply, readerVars>>,
         body = "eof" => body' = "eof", body' = "done" => written' = reply,
         cancelled => cancelled'
  PROVE  Inv'
<1> USE DEF runVars, endVars, readerVars
<1>1. Places'
  BY DEF Inv, Places
<1>2. Stream'
  <2>1. InOrder' <=> InOrder
    BY DEF InOrder
  <2>2. Pieces' = Pieces /\ (Full => Full')
    BY DEF Pieces, Full
  <2>3. (InHand => InHand') /\ (AtClose => AtClose')
    BY <2>2 DEF InHand, AtClose
  <2> QED
    BY <2>1, <2>3 DEF Inv, Stream
<1>3. Replied'
  BY DEF Inv, Replied, WholeOrCut
<1>4. Told'
  BY DEF Inv, Told, WrapperSawTheAnswer
<1> QED
  BY <1>1, <1>2, <1>3, <1>4 DEF Inv

LEMMA BodyKeeps ==
  ASSUME Inv, Body
  PROVE  Inv'
<1>1. CASE Writes
  <2>1. TypeOK'
    BY <1>1, Limits DEF Inv, TypeOK, Writes, runVars, endVars, readerVars
  <2> QED
    BY <1>1, <2>1, OutsideKeeps DEF Writes
<1>2. ASSUME NEW how \in {"done", "eof", "broken", "garbage"}, BodyEnds(how) PROVE Inv'
  <2>1. TypeOK'
    BY <1>2 DEF Inv, TypeOK, BodyEnds, runVars, endVars, readerVars
  <2> QED
    BY <1>2, <2>1, OutsideKeeps DEF BodyEnds
<1> QED
  BY <1>1, <1>2 DEF Body

LEMMA AbortKeeps ==
  ASSUME Inv, Abort
  PROVE  Inv'
<1>1. TypeOK'
  BY DEF Inv, TypeOK, Abort, runVars, endVars, bodyVars, readerVars
<1>2. body = "done" => written = reply
  BY DEF Inv, Places
<1> QED
  BY <1>1, <1>2, OutsideKeeps DEF Abort, bodyVars

LEMMA StutterKeeps ==
  ASSUME Inv, UNCHANGED vars
  PROVE  Inv'
<1>1. TypeOK'
  BY DEF Inv, TypeOK, vars, runVars, endVars, bodyVars, readerVars
<1>2. body = "done" => written = reply
  BY DEF Inv, Places
<1> QED
  BY <1>1, <1>2, OutsideKeeps DEF vars, bodyVars

----------------------------------------------------------------------------
(* The reader of a stream.                                                 *)

\* Steps of the reader are none of the run's business but for the stream.
LEMMA ReaderLeaves ==
  ASSUME Inv, reader \in {"scan", "deliver"}, reader' \in {"scan", "deliver", "closed"},
         UNCHANGED <<setup, pc, runVars, attempt, text, endVars, cancelled, notified, bodyVars>>
  PROVE  Places' /\ Replied' /\ Told'
<1> USE DEF runVars, endVars, bodyVars
<1>1. Places'
  BY DEF Inv, Places
<1>2. Replied'
  BY DEF Inv, Replied, WholeOrCut
<1>3. Told'
  BY DEF Inv, Told, WrapperSawTheAnswer
<1> QED
  BY <1>1, <1>2, <1>3

LEMMA ScanKeeps ==
  ASSUME Inv, Scan
  PROVE  Inv'
<1> USE DEF Scan
<1>1. /\ taken \in Nat /\ written \in Nat /\ taken <= written /\ written <= reply
      /\ reply \in Nat /\ reply <= MaxPieces
  BY Limits DEF Inv, TypeOK
<1>2. \/ held' = End /\ taken' = taken /\ (taken = reply \/ body = "eof")
      \/ held' = Err /\ taken' = taken
      \/ held' = taken + 1 /\ taken' = taken + 1 /\ taken < written
  BY <1>1 DEF NextEvent, Inv, Places
<1>3. TypeOK'
  <2>1. taken' \in 0..written /\ held' \in Err..MaxPieces
    BY <1>1, <1>2, Limits DEF End, Err
  <2> QED
    BY <2>1 DEF Inv, TypeOK, runVars, endVars, bodyVars
<1>4. Places' /\ Replied' /\ Told'
  BY ReaderLeaves
<1>5. Stream'
  <2> SUFFICES ASSUME pc = "body", setup.streaming PROVE InOrder' /\ InHand' /\ AtClose'
    BY DEF Stream
  <2>1. InOrder /\ InHand /\ reader = "scan"
    BY DEF Inv, Stream
  <2>2. InOrder'
    BY <2>1 DEF InOrder
  <2>3. taken = Len(text) + Len(chan) /\ Len(text) \in Nat /\ Len(chan) \in Nat
    BY <2>1 DEF InHand, Inv, TypeOK
  <2>4. InHand'
    BY <1>1, <1>2, <2>3 DEF InHand, Terminal, End, Err, Full, bodyVars
  <2> QED
    BY <2>2, <2>4 DEF AtClose
<1> QED
  BY <1>3, <1>4, <1>5 DEF Inv

LEMMA DeliverKeeps ==
  ASSUME Inv, Deliver
  PROVE  Inv'
<1> USE DEF Deliver
<1>1. /\ chan \in Seq(Err..MaxPieces) /\ Len(chan) \in Nat /\ held \in Err..MaxPieces
      /\ text \in Seq(1..MaxPieces) /\ Len(text) \in Nat /\ taken \in Nat
  BY Limits DEF Inv, TypeOK
<1>2. CASE Len(chan) < ChanCap /\ chan' = Append(chan, held)
           /\ reader' = IF held \in {End, Err} THEN "closed" ELSE "scan"
  <2>1. /\ Len(chan') = Len(chan) + 1 /\ chan'[Len(chan) + 1] = held
        /\ \A k \in 1..Len(chan) : chan'[k] = chan[k]
        /\ chan' \in Seq(Err..MaxPieces) /\ Len(chan') <= ChanCap
    BY <1>1, <1>2, AppendProperties, Limits
  <2>2. TypeOK'
    BY <1>2, <2>1 DEF Inv, TypeOK, runVars, endVars, bodyVars
  <2>3. Stream'
    <3> SUFFICES ASSUME pc = "body", setup.streaming PROVE InOrder' /\ InHand' /\ AtClose'
      BY DEF Stream
    <3>1. InOrder /\ InHand /\ reader = "deliver"
      BY DEF Inv, Stream
    <3>2. \A k \in 1..Len(chan) : chan[k] = Len(text) + k
      BY <3>1 DEF InOrder
    <3>3. CASE held \in Terminal
      <4>1. reader' = "closed" /\ Pieces' = Len(chan)
        BY <1>1, <1>2, <2>1, <3>3 DEF Pieces, Terminal
      <4>2. InOrder'
        BY <1>1, <2>1, <3>1, <3>2, <3>3, <4>1 DEF InOrder, Terminal
      <4>3. AtClose'
        BY <1>1, <2>1, <3>1, <3>3, <4>1 DEF AtClose, InHand, Terminal, Full, End, Err, bodyVars
      <4> QED
        BY <4>1, <4>2, <4>3 DEF InHand
    <3>4. CASE held \notin Terminal
      <4>1. reader' = "scan"
        BY <1>2, <3>4 DEF Terminal
      <4>2. held = Len(text) + (Len(chan) + 1)
        BY <1>1, <3>1, <3>4 DEF InHand
      <4>3. ASSUME NEW k \in 1..Len(chan') PROVE chan'[k] = Len(text) + k
        <5>1. k \in 1..Len(chan) \/ k = Len(chan) + 1
          BY <1>1, <2>1
        <5>2. CASE k \in 1..Len(chan)
          <6>1. chan'[k] = chan[k]
            BY <2>1, <5>2
          <6> QED
            BY <3>2, <5>2, <6>1
        <5>3. CASE k = Len(chan) + 1
          BY <2>1, <4>2, <5>3
        <5> QED
          BY <5>1, <5>2, <5>3
      <4>4. InOrder'
        BY <3>1, <4>3 DEF InOrder
      <4>5. InHand'
        BY <1>1, <2>1, <3>1, <3>4, <4>1 DEF InHand
      <4> QED
        BY <4>1, <4>4, <4>5 DEF AtClose
    <3> QED
      BY <3>3, <3>4
  <2> QED
    BY <1>2, <2>2, <2>3, ReaderLeaves DEF Inv
<1>3. CASE cancelled /\ reader' = "closed" /\ UNCHANGED chan
  <2>1. TypeOK'
    BY <1>3 DEF Inv, TypeOK, runVars, endVars, bodyVars
  <2>2. Stream'
    <3> SUFFICES ASSUME pc = "body", setup.streaming PROVE InOrder' /\ InHand' /\ AtClose'
      BY DEF Stream
    <3>1. InOrder /\ InHand /\ reader = "deliver"
      BY DEF Inv, Stream
    <3>2. InOrder'
      BY <1>3, <3>1 DEF InOrder
    <3>3. Pieces' = Len(chan)
      <4>1. \A k \in 1..Len(chan) : chan[k] = Len(text) + k
        BY <3>1 DEF InOrder
      <4>2. Len(chan) > 0 => chan[Len(chan)] \notin Terminal
        BY <1>1, <4>1 DEF Terminal, End, Err
      <4> QED
        BY <1>3, <4>2 DEF Pieces
    <3>4. AtClose'
      BY <1>1, <1>3, <3>1, <3>3 DEF AtClose, InHand
    <3> QED
      BY <1>3, <3>2, <3>4 DEF InHand
  <2> QED
    BY <1>3, <2>1, <2>2, ReaderLeaves DEF Inv
<1> QED
  BY <1>2, <1>3

----------------------------------------------------------------------------
(* What the run makes of it.                                               *)

\* Of a closed channel, one event is taken.
LEMMA EventTypes ==
  ASSUME Inv, Event
  PROVE  /\ chan' \in Seq(Err..MaxPieces) /\ Len(chan) \in Nat /\ Len(chan) >= 1
         /\ Len(chan') = Len(chan) - 1 /\ Len(chan') <= ChanCap
         /\ Head(chan) = chan[1] /\ Head(chan) \in Err..MaxPieces
         /\ \A k \in 1..Len(chan') : chan'[k] = chan[k + 1]
<1>1. chan \in Seq(Err..MaxPieces) /\ Len(chan) <= ChanCap /\ chan # <<>> /\ chan' = Tail(chan)
  BY DEF Inv, TypeOK, Event
<1>2. /\ Len(chan) \in Nat /\ Len(chan) >= 1 /\ Head(chan) = chan[1]
      /\ Head(chan) \in Err..MaxPieces
  <2>1. Len(chan) \in Nat /\ Len(chan) # 0
    BY <1>1, EmptySeq
  <2>2. Len(chan) >= 1
    BY <2>1
  <2>3. Head(chan) = chan[1]
    BY <1>1
  <2>4. chan[1] \in Err..MaxPieces
    <3>1. 1 \in 1..Len(chan)
      BY <2>1, <2>2
    <3> QED
      BY <1>1, <3>1, ElementOfSeq, Zenon
  <2> QED
    BY <2>1, <2>2, <2>3, <2>4
<1>3. Tail(chan) \in Seq(Err..MaxPieces) /\ Len(Tail(chan)) = Len(chan) - 1
  BY <1>1, HeadTailProperties
<1>4. \A k \in 1..Len(Tail(chan)) : Tail(chan)[k] = chan[k + 1]
  BY <1>1, HeadTailProperties
<1> QED
  BY <1>1, <1>2, <1>3, <1>4, Limits

LEMMA EndKeeps ==
  ASSUME Inv, Event, Head(chan) = End, Go("body"), UNCHANGED <<text, notified>>
  PROVE  Inv'
<1> USE DEF Event, Go
<1>1. TypeOK'
  BY EventTypes DEF Inv, TypeOK, runVars, endVars, bodyVars
<1>2. Places' /\ Replied'
  BY DEF Inv, Places, Replied, runVars, endVars, bodyVars
<1>3. Told'
  BY DEF Inv, Told, WrapperSawTheAnswer, runVars, endVars
<1>4. InOrder /\ InHand /\ AtClose
  BY DEF Inv, Stream
<1>5. text \in Seq(1..MaxPieces) /\ Len(text) \in Nat
  BY DEF Inv, TypeOK
<1>6. Len(chan) = 1 /\ reader = "closed" /\ chan[1] = End
  <2>1. chan[1] = End /\ Len(chan) \in Nat /\ Len(chan) >= 1
    BY EventTypes
  <2>2. chan[1] # Len(text) + 1
    BY <1>5, <2>1 DEF End
  <2> QED
    BY SMTT(30), <1>4, <2>1, <2>2 DEF InOrder
<1>7. Len(chan') = 0 /\ Pieces = 0 /\ Pieces' = 0
  BY <1>6, EventTypes DEF Pieces, Terminal
<1>8. InOrder' /\ InHand'
  <2>1. reader' = "closed" /\ text' = text
    BY <1>6
  <2>4. 1..Len(chan') = {}
    <3>1. 1..0 = {}
      OBVIOUS
    <3>2. Len(chan') = 0
      BY <1>7
    <3> QED
      BY <3>1, <3>2, Zenon
  <2>3. text' = Whole(Len(text'))
    BY <1>4, <2>1 DEF InOrder
  <2> QED
    BY <2>1, <2>3, <2>4 DEF InOrder, InHand
<1>9. AtClose'
  BY <1>4, <1>6, <1>7 DEF AtClose, Full, End, Err, bodyVars
<1> QED
  BY <1>1, <1>2, <1>3, <1>8, <1>9 DEF Inv, Stream

LEMMA PieceKeeps ==
  ASSUME Inv, Event, NEW e, e = Head(chan), e \notin Terminal, text' = Append(text, e),
         notified' = [notified EXCEPT ![DeltaTurn] = Append(notified[DeltaTurn], e)], Go("body")
  PROVE  Inv'
<1> USE DEF Event, Go
<1>1. /\ InOrder /\ InHand /\ AtClose /\ turn >= 1 /\ turn \in 0..MaxTurns
      /\ result = "none" /\ setup.streaming
  BY DEF Inv, Stream, Places, TypeOK
<1>2. text \in Seq(1..MaxPieces) /\ Len(text) \in Nat /\ taken \in Nat
  BY Limits DEF Inv, TypeOK
<1>3. e = Len(text) + 1 /\ e \in 1..MaxPieces
  BY <1>1, <1>2, EventTypes, Limits DEF InOrder, Terminal, Err, End
<1>4. text' \in Seq(1..MaxPieces) /\ Len(text') = Len(text) + 1 /\ text' = Whole(Len(text'))
  BY <1>1, <1>2, <1>3, AppendProperties, WholeGrows DEF InOrder
<1>5. DeltaTurn \in 0..MaxTurns /\ (DeltaTurn = 0 \/ (step = "chat" /\ DeltaTurn = turn))
      /\ (step = "chat" => DeltaTurn = turn)
  <2>1. step \in {"router", "chat"} /\ MaxTurns \in Nat
    BY Limits DEF Inv, TypeOK
  <2>2. CASE step = "router"
    <3>1. DeltaTurn = 0
      BY <2>2 DEF DeltaTurn
    <3>2. 0 \in 0..MaxTurns
      BY <2>1
    <3>3. step # "chat"
      BY <2>2
    <3> QED
      BY <3>1, <3>2, <3>3, Zenon
  <2>3. CASE step = "chat"
    BY <1>1, <2>3 DEF DeltaTurn
  <2> QED
    BY <2>1, <2>2, <2>3
<1>6. notified \in [0..MaxTurns -> Seq(1..MaxPieces)]
  BY DEF Inv, TypeOK
<1>7. TypeOK'
  <2>1. Append(notified[DeltaTurn], e) \in Seq(1..MaxPieces)
    BY <1>3, <1>5, <1>6
  <2>2. notified' \in [0..MaxTurns -> Seq(1..MaxPieces)]
    BY <1>6, <2>1
  <2> QED
    BY <1>4, <2>2, EventTypes DEF Inv, TypeOK, runVars, endVars, bodyVars
<1>8. Places' /\ Replied'
  BY <1>1 DEF Inv, Places, Replied, runVars, endVars, bodyVars
<1>9. InOrder'
  BY <1>1, <1>2, <1>4, EventTypes DEF InOrder
<1>10. InHand'
  <2>1. Len(text') + Len(chan') = Len(text) + Len(chan)
    BY <1>2, <1>4, EventTypes
  <2>2. UNCHANGED <<reader, taken, held, reply, body>>
    BY DEF bodyVars
  <2> QED
    BY <1>1, <2>1, <2>2 DEF InHand, Full
<1>11. AtClose'
  <2>1. Pieces' = Pieces - 1
    <3>1. Len(chan) = 1 => chan[Len(chan)] \notin Terminal
      BY EventTypes
    <3>2. Len(chan) > 1 => chan'[Len(chan')] = chan[Len(chan)]
      BY EventTypes
    <3> QED
      BY <3>1, <3>2, EventTypes DEF Pieces
  <2>2. Pieces \in Int
    BY EventTypes DEF Pieces
  <2>3. Len(chan) = 1 => chan[Len(chan)] # Err
    BY EventTypes DEF Terminal
  <2>4. Len(chan) > 1 => chan'[Len(chan')] = chan[Len(chan)] /\ Len(chan') > 0
    BY EventTypes
  <2>5. Len(text') + Pieces' = Len(text) + Pieces
    BY <1>2, <1>4, <2>1, <2>2
  <2>6. UNCHANGED <<reader, taken, held, reply, body, cancelled>>
    BY DEF bodyVars
  <2>7. /\ Len(chan) \in Nat /\ Len(chan) >= 1
        /\ Len(chan) > 0 /\ chan[Len(chan)] = Err
             => Len(chan') > 0 /\ chan'[Len(chan')] = Err
    BY <2>3, <2>4, EventTypes
  <2> QED
    BY <1>1, <2>5, <2>6, <2>7 DEF AtClose, Full
<1>12. Told'
  <2>1. ASSUME NEW t \in 1..MaxTurns, notified'[t] # <<>>
        PROVE  t = turn /\ step = "chat"
    BY <1>5, <1>6, <2>1 DEF Inv, Told
  <2>2. step = "chat" => notified'[turn] = text'
    BY <1>1, <1>5, <1>6 DEF Inv, Told
  <2> QED
    BY <1>1, <2>1, <2>2 DEF Told, WrapperSawTheAnswer, runVars, endVars
<1> QED
  BY <1>7, <1>8, <1>9, <1>10, <1>11, <1>12 DEF Inv, Stream

LEMMA EventKeeps ==
  ASSUME Inv, Event
  PROVE  Inv'
<1> DEFINE e == Head(chan)
<1>1. CASE e = Err /\ StepFails("broken") /\ UNCHANGED <<text, notified>>
  <2>1. text' \in Seq(1..MaxPieces)
    BY <1>1 DEF Inv, TypeOK
  <2>2. pc # "done" /\ UNCHANGED <<setup, cancelled, bodyVars, notified, reader, taken, held>>
    BY <1>1 DEF Event
  <2> QED
    BY <1>1, <2>1, <2>2, EventTypes, FailureKeeps
<1>2. CASE e = End /\ Go("body") /\ UNCHANGED <<text, notified>>
  BY <1>2, EndKeeps
<1>3. CASE /\ e \notin {Err, End} /\ text' = Append(text, e)
           /\ notified' = [notified EXCEPT ![DeltaTurn] = Append(@, e)] /\ Go("body")
  BY <1>3, PieceKeeps DEF Terminal
<1> QED
  BY <1>1, <1>2, <1>3 DEF Event

LEMMA StreamReadKeeps ==
  ASSUME Inv, StreamRead
  PROVE  Inv'
<1> USE DEF StreamRead, Go
<1>1. InOrder /\ AtClose /\ result = "none" /\ Pieces = 0
  BY DEF Inv, Stream, Places, Pieces
<1>2. /\ Len(text) \in Nat /\ taken \in Nat /\ written \in Nat /\ reply \in Nat
      /\ taken <= written /\ written <= reply
  BY Limits DEF Inv, TypeOK
<1>3. WholeOrCut(text)
  BY <1>1, <1>2 DEF WholeOrCut, InOrder, AtClose, Terminal, Full
<1>4. TypeOK'
  BY DEF Inv, TypeOK, runVars, endVars, bodyVars, readerVars
<1>5. Places' /\ Stream'
  BY DEF Inv, Places, Stream, runVars, endVars, bodyVars, readerVars
<1>6. Replied'
  BY <1>1, <1>3 DEF Replied, WholeOrCut, endVars, bodyVars
<1>7. Told'
  BY DEF Inv, Told, WrapperSawTheAnswer, runVars, endVars
<1> QED
  BY <1>4, <1>5, <1>6, <1>7 DEF Inv

LEMMA BodyReadKeeps ==
  ASSUME Inv, BodyRead
  PROVE  Inv'
<1> USE DEF BodyRead
<1>1. reader = "none" /\ result = "none" /\ reply \in 0..MaxPieces /\ pc = "body"
      /\ ~setup.streaming /\ text \in Seq(1..MaxPieces)
  BY DEF Inv, Places, TypeOK
<1>2. CASE body = "done" /\ text' = Whole(reply) /\ Go("reply")
  <2>1. text' \in Seq(1..MaxPieces) /\ Len(text') = reply
    BY <1>1, <1>2, WholeType
  <2>2. TypeOK'
    BY <1>2, <2>1 DEF Inv, TypeOK, Go, runVars, endVars, bodyVars, readerVars
  <2>3. Places' /\ Stream'
    BY <1>1, <1>2 DEF Inv, Places, Stream, Go, runVars, endVars, bodyVars, readerVars
  <2>4. Replied'
    BY <1>1, <1>2, <2>1 DEF Replied, WholeOrCut, Go, endVars, bodyVars
  <2>5. Told'
    BY <1>1, <1>2 DEF Inv, Told, WrapperSawTheAnswer, Go, runVars, endVars
  <2> QED
    BY <2>2, <2>3, <2>4, <2>5 DEF Inv
<1>3. CASE body = "done" /\ reply = 0 /\ StepFails("transient") /\ UNCHANGED text
  BY <1>1, <1>3, FailureStays
<1>4. CASE body # "done" /\ StepFails("broken") /\ UNCHANGED text
  BY <1>1, <1>4, FailureStays
<1> QED
  BY <1>2, <1>3, <1>4

LEMMA RoutedKeeps ==
  ASSUME Inv, NEW choice, Routed(choice)
  PROVE  Inv'
<1> USE DEF Routed
<1>1. /\ reader \in {"none", "closed"} /\ result = "none" /\ pc = "reply" /\ step = "router"
      /\ text \in Seq(1..MaxPieces) /\ turn >= 1
  BY DEF Inv, Places, TypeOK
<1>2. CASE choice = "unreadable" /\ StepFails("transient") /\ UNCHANGED text
  BY <1>1, <1>2, FailureStays
<1>3. CASE choice = "none" /\ Ask("chat") /\ UNCHANGED turn
  <2>1. TypeOK'
    BY <1>3, Limits DEF Inv, TypeOK, Ask, endVars, bodyVars, readerVars
  <2>2. Places' /\ Stream' /\ Replied'
    BY <1>1, <1>3 DEF Inv, Places, Stream, Replied, Ask, endVars, bodyVars, readerVars
  <2>3. Told'
    BY <1>1, <1>3 DEF Inv, Told, WrapperSawTheAnswer, Ask, endVars
  <2> QED
    BY <2>1, <2>2, <2>3 DEF Inv
<1>4. CASE choice = "tool" /\ pc' = "turn" /\ stepRetries' = 0
           /\ UNCHANGED <<step, turn, attempt, endVars, text>>
  <2>1. TypeOK'
    BY <1>4, Limits DEF Inv, TypeOK, endVars, bodyVars, readerVars
  <2>2. Places' /\ Stream' /\ Replied'
    BY <1>1, <1>4 DEF Inv, Places, Stream, Replied, endVars, bodyVars, readerVars
  <2>3. Told'
    BY <1>1, <1>4 DEF Inv, Told, WrapperSawTheAnswer, endVars
  <2> QED
    BY <2>1, <2>2, <2>3 DEF Inv
<1> QED
  BY <1>2, <1>3, <1>4

LEMMA AnsweredKeeps ==
  ASSUME Inv, NEW verdict, Answered(verdict)
  PROVE  Inv'
<1> USE DEF Answered, EndRun
<1>1. /\ result = "none" /\ pc = "reply" /\ step = "chat" /\ text \in Seq(1..MaxPieces)
      /\ WholeOrCut(text) /\ pc' = "done"
      /\ UNCHANGED <<setup, runVars, attempt, text, cancelled, notified, bodyVars, readerVars>>
  BY DEF Inv, Places, TypeOK, Replied
<1>2. \/ result' = "completed" /\ answer' = text
      \/ result' \in {"output_blocked", "error"} /\ answer' \in {Safe, <<>>}
  OBVIOUS
<1>3. answer' \in Seq(0..MaxPieces)
  <2>1. Safe \in Seq(0..MaxPieces) /\ <<>> \in Seq(0..MaxPieces)
    BY Limits DEF Safe
  <2>2. text \in Seq(0..MaxPieces)
    <3>1. text \in [1..Len(text) -> 1..MaxPieces] /\ Len(text) \in Nat
      BY <1>1, LenProperties
    <3>2. text \in [1..Len(text) -> 0..MaxPieces]
      BY <3>1, Limits
    <3> QED
      BY <3>1, <3>2, SeqDef
  <2> QED
    BY <1>2, <2>1, <2>2
<1>4. TypeOK'
  BY <1>1, <1>2, <1>3 DEF Inv, TypeOK, runVars, bodyVars, readerVars
<1>5. Places' /\ Stream'
  BY <1>1 DEF Inv, Places, Stream, runVars, bodyVars, readerVars
<1>6. Replied'
  BY <1>1, <1>2 DEF Replied, WholeOrCut, bodyVars
<1>7. Told'
  BY <1>1, <1>2 DEF Inv, Told, WrapperSawTheAnswer, runVars
<1> QED
  BY <1>4, <1>5, <1>6, <1>7 DEF Inv

\* The invariant behind every other theorem here.
THEOREM Invariant == Spec => []Inv
<1>1. Init => Inv
  BY InitHolds
<1>2. Inv /\ [Next]_vars => Inv'
  <2> SUFFICES ASSUME Inv, [Next]_vars PROVE Inv'
    OBVIOUS
  <2>1. CASE LLM
    BY <2>1, RequestKeeps, AcceptedKeeps DEF LLM
  <2>2. CASE Engine
    BY <2>2, LoopHeadKeeps, RequestKeeps, PauseEndsKeeps, EventKeeps, StreamReadKeeps,
       BodyReadKeeps, RoutedKeeps, AnsweredKeeps DEF Engine
  <2>3. CASE Reader
    BY <2>3, ScanKeeps, DeliverKeeps DEF Reader
  <2>4. CASE Body
    BY <2>4, BodyKeeps
  <2>5. CASE Abort
    BY <2>5, AbortKeeps
  <2>6. CASE Done \/ UNCHANGED vars
    BY <2>6, StutterKeeps DEF Done
  <2> QED
    BY <2>1, <2>2, <2>3, <2>4, <2>5, <2>6 DEF Next
<1> QED
  BY <1>1, <1>2, PTL DEF Spec

----------------------------------------------------------------------------

\* No request is sent more than MaxRetries + 1 times, no step tried again more
\* than MaxStepRetries times, and every other variable keeps its type.
THEOREM TypeCorrect == Spec => []TypeOK
<1>1. Inv => TypeOK
  BY DEF Inv
<1> QED
  BY <1>1, Invariant, PTL

\* The answer of a completed run is the LLM's reply, cut only by a stream that
\* ended without [DONE] or an abort (stream.go:113-148).
THEOREM AnswersAreWholeOrCut == Spec => []AnswerWholeOrCut
<1>1. Inv => AnswerWholeOrCut
  BY DEF Inv, Replied, WholeOrCut, AnswerWholeOrCut
<1> QED
  BY <1>1, Invariant, PTL

\* What the wrapper was streamed under the turn of an answer is that answer
\* (engine.go:664-676).
THEOREM AnswersAreTold == Spec => []WrapperSawTheAnswer
<1>1. Inv => WrapperSawTheAnswer
  BY DEF Inv, Told
<1> QED
  BY <1>1, Invariant, PTL

\* Neither doWithRetry nor the loop begins anew behind streamed text
\* (retry.go:28, errors.go:48).
THEOREM NothingIsToldTwice == Spec => []NoRetryBehindText
<1>1. Inv => NoRetryBehindText
  BY DEF Inv, Told, NoRetryBehindText
<1> QED
  BY <1>1, Invariant, PTL

----------------------------------------------------------------------------
(* The goroutine of a stream.                                              *)

\* It is there only while the run reads what it sends.
NoReaderLeft == pc # "body" => reader \in {"none", "closed"}

LEMMA ReaderEnds ==
  ASSUME Inv, NoReaderLeft, Next
  PROVE  NoReaderLeft'
<1>1. CASE pc # "body" /\ ~(\E n \in 0..MaxPieces : Accepted(n))
  <2>1. reader \in {"none", "closed"}
    BY <1>1 DEF NoReaderLeft
  <2>2. reader' = reader
    BY <1>1, <2>1 DEF Next, LLM, Engine, Reader, Body, Done, Busy, Refused, LoopHead, Send,
       PauseEnds, PauseCut, Event, StreamRead, BodyRead, Routed, Answered, Scan, Deliver,
       Writes, BodyEnds, Abort, readerVars, vars
  <2> QED
    BY <2>1, <2>2 DEF NoReaderLeft
<1>2. CASE \E n \in 0..MaxPieces : Accepted(n)
  BY <1>2 DEF Accepted, Go, NoReaderLeft
<1>3. CASE pc = "body" /\ Event
  <2>1. CASE Head(chan) = Err
    <3>1. chan \in Seq(Err..MaxPieces) /\ Len(chan) \in Nat \ {0} /\ Len(text) \in Nat
          /\ setup.streaming /\ InOrder
      BY <1>3 DEF Event, Inv, TypeOK, Stream
    <3>2. chan[1] = Err /\ chan[1] # Len(text) + 1
      BY <2>1, <3>1 DEF Err
    <3>3. reader = "closed"
      BY <3>1, <3>2 DEF InOrder
    <3> QED
      BY <1>3, <3>3 DEF Event, NoReaderLeft
  <2>2. CASE Head(chan) # Err
    BY <1>3, <2>2 DEF Event, Go, NoReaderLeft
  <2> QED
    BY <2>1, <2>2
<1>4. CASE pc = "body" /\ (StreamRead \/ BodyRead)
  <2>1. reader \in {"none", "closed"}
    BY <1>4 DEF StreamRead, BodyRead, Inv, Places
  <2>2. reader' = reader
    BY <1>4 DEF StreamRead, BodyRead, readerVars
  <2> QED
    BY <2>1, <2>2 DEF NoReaderLeft
<1>5. CASE Reader \/ Body \/ Abort \/ Done
  <2>1. pc' = pc
    BY <1>5 DEF Reader, Body, Scan, Deliver, Writes, BodyEnds, Abort, Done, vars
  <2>2. pc # "body" => reader' = reader
    BY <1>5 DEF NoReaderLeft, Reader, Body, Scan, Deliver, Writes, BodyEnds, Abort, Done, vars,
       readerVars
  <2> QED
    BY <2>1, <2>2 DEF NoReaderLeft
<1>6. pc = "body" =>
        Event \/ StreamRead \/ BodyRead \/ Reader \/ Body \/ Abort \/ Done
  BY DEF Next, LLM, Engine, Busy, Refused, Accepted, LoopHead, Send, PauseEnds, PauseCut, Routed,
     Answered
<1> QED
  BY <1>1, <1>2, <1>3, <1>4, <1>5, <1>6

\* A run that goes on to its next step, or ends, leaves no goroutine of a stream
\* behind that is still to send: whoever reads a stream reads it to the end,
\* be it an error (stream.go: sendEvent; Engine.complete).
THEOREM NoReaderIsLeft == Spec => []NoReaderLeft
<1>1. Init => NoReaderLeft
  BY DEF Init, NoReaderLeft
<1>2. Inv /\ NoReaderLeft /\ [Next]_vars => NoReaderLeft'
  <2>1. UNCHANGED vars /\ NoReaderLeft => NoReaderLeft'
    BY DEF vars, readerVars, NoReaderLeft
  <2> QED
    BY <2>1, ReaderEnds
<1> QED
  BY <1>1, <1>2, Invariant, PTL DEF Spec
=============================================================================
