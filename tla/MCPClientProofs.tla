-------------------------- MODULE MCPClientProofs --------------------------
(***************************************************************************)
(* Proofs about MCPClient, for any callers, calls, queue and server: the   *)
(* handshake comes first, a failed registration leaves no child, an answer *)
(* vanishes only where another caller or a full queue can have taken it,   *)
(* and Client.call implements RpcCalls.                                    *)
(***************************************************************************)
EXTENDS MCPClient, SequenceTheorems, TLAPS

(* Calls: ids, the place of each process, and who was beside whom.         *)
Numbering ==
  /\ nextID = calls
  /\ \A c \in 1..calls : idOf[c] = c
  /\ \A c \in Calls : c > calls => result[c] = "none" /\ c \notin asked
  /\ \A c \in Calls : result[c] = "answer" => c \in answered

Phases ==
  \A p \in Procs :
    /\ pc[p] = "idle" <=> call[p] = 0
    /\ call[p] # 0 => call[p] <= calls /\ result[call[p]] = "none"
    /\ pc[p] = "send" => call[p] \notin asked

Crowd ==
  \A p, q \in Procs : p # q /\ InFlight(p) /\ InFlight(q) =>
    call[p] # call[q] /\ call[p] \in crowded

Core ==
  /\ CallTypes /\ asked \subseteq Calls /\ answered \subseteq asked
  /\ Numbering /\ Phases /\ Crowd

(* Lines: one that has an id is the answer the server gave to that call.   *)
GoodLine(l) == l \in Lines /\ l.id = l.answers /\ (l.answers # 0 => l.answers \in answered)
Sound(s) == s \in Seq(Lines) /\ \A k \in 1..Len(s) : GoodLine(s[k])

Pipes ==
  /\ Sound(wire) /\ Sound(messages) /\ Len(messages) <= QueueCap /\ dropped \subseteq Calls
  /\ postURL \in BOOLEAN /\ readerDone \in BOOLEAN /\ stdinClosed \in BOOLEAN

(* The registration and what the server has seen of it.                    *)
Early == {"connect", "unconnected", "endpoint", "first"}

Stages ==
  /\ stage \in {"endpoint", "first"} => transport = "sse"
  /\ stage \in Early => calls = 0
  /\ stage \in {"initialize", "notify"} => calls <= 1
  /\ call[Registrar] # 0 =>
       stage \in {"initialize", "tools/list"} /\ call[Registrar] = CallOf(stage)
  /\ ~tools => \A p \in Callers : call[p] = 0
  /\ tools => stage \in {"register", "ready", "close", "wait", "closed"}
  /\ FailedLeavesNoServer

Sent ==
  /\ stage \in Early => inbox = <<>>
  /\ stage = "initialize" =>
       (1 \in asked /\ inbox = <<"initialize">>) \/ (1 \notin asked /\ inbox = <<>>)
  /\ stage = "notify" => inbox = <<"initialize">>
  /\ stage = "tools/list" =>
       \/ 2 \in asked /\ inbox = Handshake
       \/ 2 \notin asked /\ inbox = <<"initialize", "initialized">>
  /\ tools => Len(inbox) >= 3
  /\ HandshakeFirst

Rest ==
  /\ aborted \subseteq Procs /\ shutdown \in BOOLEAN
  /\ inbox \in Seq({"initialize", "initialized", "tools/list", "tools/call"})
  /\ noise \in 0..MaxNoise /\ ended \in BOOLEAN

Course == RegTypes /\ Rest /\ Stages /\ Sent

Inv == Core /\ Pipes /\ Course /\ NoAnswerVanishes

----------------------------------------------------------------------------
(* Calls.                                                                  *)

LEMMA Bounds == /\ MaxCalls \in Nat /\ MaxCalls >= 2 /\ Calls = 1..MaxCalls
                /\ QueueCap \in Nat /\ QueueCap >= 1 /\ MaxNoise \in Nat
BY BoundsAssumption DEF Calls

LEMMA CallIs ==
  ASSUME Core, NEW p \in Procs, InFlight(p)
  PROVE  /\ call[p] \in Calls /\ call[p] <= calls /\ idOf[call[p]] = call[p]
         /\ result[call[p]] = "none" /\ pc[p] # "idle"
BY Bounds DEF Core, CallTypes, Numbering, Phases, InFlight

LEMMA BeginCore ==
  ASSUME Core, NEW p \in Procs, Begin(p), UNCHANGED <<asked, answered>>
  PROVE  Core' /\ (\A q \in Procs : q # p => call'[q] = call[q])
         /\ call'[p] = calls + 1 /\ call'[p] \notin answered' /\ crowded \subseteq crowded'
<1> USE Bounds DEF Core, Begin, nextRequestID
<1>1. calls \in Nat /\ calls + 1 \in Calls /\ nextID = calls
  BY DEF CallTypes, Numbering
<1>2. call[p] = 0 /\ ~InFlight(p)
  BY DEF Phases, InFlight
<1>3. /\ call' = [call EXCEPT ![p] = calls + 1] /\ call \in [Procs -> 0..MaxCalls]
      /\ call'[p] = calls + 1 /\ \A q \in Procs : q # p => call'[q] = call[q]
  BY DEF CallTypes
<1>4. DEFINE others == {call[q] : q \in {q \in Procs : InFlight(q)}}
<1>5. /\ crowded \subseteq crowded' /\ crowded' \subseteq Calls
      /\ \A q \in Procs : InFlight(q) => call[q] \in crowded' /\ calls + 1 \in crowded'
  <2>1. crowded' = IF others = {} THEN crowded ELSE crowded \cup others \cup {calls + 1}
    OBVIOUS
  <2>2. others \subseteq Calls /\ crowded \subseteq Calls
    <3>1. ASSUME NEW q \in Procs, InFlight(q) PROVE call[q] \in Calls
      BY <3>1, CallIs
    <3>2. crowded \subseteq Calls
      BY DEF CallTypes
    <3> QED
      BY <3>1, <3>2
  <2>3. \A q \in Procs : InFlight(q) => call[q] \in others
    OBVIOUS
  <2> QED
    BY <1>1, <2>1, <2>2, <2>3
<1>6. CallTypes'
  <2>1. pc' \in [Procs -> {"idle", "send", "posted", "check", "receive"}]
        /\ call' \in [Procs -> 0..MaxCalls]
    BY <1>1, <1>3 DEF CallTypes
  <2>2. calls' \in 0..MaxCalls /\ nextID' \in 0..MaxCalls /\ idOf' \in [Calls -> 0..MaxCalls]
    BY <1>1 DEF CallTypes
  <2> QED
    BY <1>5, <2>1, <2>2 DEF CallTypes
<1>7. Numbering'
  BY <1>1 DEF CallTypes, Numbering
<1>8. Phases'
  <2> SUFFICES ASSUME NEW q \in Procs
               PROVE  /\ pc'[q] = "idle" <=> call'[q] = 0
                      /\ call'[q] # 0 => call'[q] <= calls' /\ result'[call'[q]] = "none"
                      /\ pc'[q] = "send" => call'[q] \notin asked'
    BY DEF Phases
  <2>1. CASE q = p
    BY <1>1, <1>3, <2>1 DEF CallTypes, Numbering
  <2>2. CASE q # p
    BY <1>1, <1>3, <2>2 DEF CallTypes, Phases
  <2> QED
    BY <2>1, <2>2
<1>9. Crowd'
  <2> SUFFICES ASSUME NEW q \in Procs, NEW r \in Procs, q # r, call'[q] # 0, call'[r] # 0
               PROVE  call'[q] # call'[r] /\ call'[q] \in crowded'
    BY DEF Crowd, InFlight
  <2>1. CASE q # p /\ r # p
    BY <1>3, <1>5, <2>1 DEF Crowd, InFlight
  <2>2. CASE q = p
    <3>1. InFlight(r) /\ call'[r] = call[r] /\ call[r] <= calls /\ call[r] \in Calls
      BY <1>3, <2>2, CallIs DEF InFlight
    <3>2. call'[q] = calls + 1 /\ calls + 1 \in crowded'
      BY <1>3, <1>5, <2>2, <3>1
    <3>3. calls + 1 # call[r]
      BY <1>1, <3>1
    <3> QED
      BY <3>1, <3>2, <3>3
  <2>3. CASE r = p
    <3>1. InFlight(q) /\ call'[q] = call[q] /\ call[q] <= calls /\ call[q] \in Calls
      BY <1>3, <2>3, CallIs DEF InFlight
    <3>2. call'[r] = calls + 1 /\ call'[q] \in crowded'
      BY <1>3, <1>5, <2>3, <3>1
    <3>3. calls + 1 # call[q]
      BY <1>1, <3>1
    <3> QED
      BY <3>1, <3>2, <3>3
  <2> QED
    BY <2>1, <2>2, <2>3
<1>10. calls + 1 \notin answered'
  BY <1>1 DEF Numbering
<1> QED
  BY <1>3, <1>5, <1>6, <1>7, <1>8, <1>9, <1>10

LEMMA GotoCore ==
  ASSUME Core, NEW p \in Procs, InFlight(p), NEW label \in {"posted", "check", "receive"},
         Goto(p, label), answered' = answered,
         asked' = asked \/ asked' = asked \cup {call[p]}
  PROVE  Core'
<1> USE Bounds DEF Core, Goto
<1>1. call[p] \in Calls /\ call[p] <= calls /\ result[call[p]] = "none"
  BY CallIs
<1>2. CallTypes' /\ asked' \subseteq Calls /\ answered' \subseteq asked'
  BY <1>1 DEF CallTypes
<1>3. Numbering'
  BY <1>1 DEF CallTypes, Numbering
<1>4. Phases'
  <2> SUFFICES ASSUME NEW q \in Procs
               PROVE  /\ pc'[q] = "idle" <=> call[q] = 0
                      /\ call[q] # 0 => call[q] <= calls /\ result[call[q]] = "none"
                      /\ pc'[q] = "send" => call[q] \notin asked'
    BY DEF Phases
  <2>1. CASE q = p
    BY <1>1, <2>1 DEF CallTypes, InFlight
  <2>2. CASE q # p
    <3>1. call[q] # 0 => call[q] # call[p]
      BY <2>2 DEF Crowd, InFlight
    <3>2. pc'[q] = pc[q]
      BY <2>2 DEF CallTypes
    <3> QED
      BY <1>1, <3>1, <3>2 DEF Phases
  <2> QED
    BY <2>1, <2>2
<1>5. Crowd'
  BY DEF Crowd, InFlight
<1> QED
  BY <1>2, <1>3, <1>4, <1>5

LEMMA ReturnCore ==
  ASSUME Core, NEW p \in Procs, InFlight(p), NEW how \in {"answer", "failed"},
         NEW from \in 0..MaxCalls, Return(p, how, from),
         how = "answer" => call[p] \in answered, UNCHANGED <<asked, answered>>
  PROVE  /\ Core' /\ call'[p] = 0 /\ crowded' = crowded
         /\ \A q \in Procs : q # p => call'[q] = call[q]
<1> USE Bounds DEF Core, Return
<1>1. call[p] \in Calls /\ call[p] <= calls /\ result[call[p]] = "none"
  BY CallIs
<1>2. call'[p] = 0 /\ pc'[p] = "idle"
      /\ \A q \in Procs : q # p => call'[q] = call[q] /\ pc'[q] = pc[q]
  BY DEF CallTypes
<1>3. result'[call[p]] = how /\ \A c \in Calls : c # call[p] => result'[c] = result[c]
  BY <1>1 DEF CallTypes
<1>4. CallTypes'
  <2>1. pc' \in [Procs -> {"idle", "send", "posted", "check", "receive"}]
        /\ call' \in [Procs -> 0..MaxCalls]
    BY DEF CallTypes
  <2>2. result' \in [Calls -> {"none", "answer", "failed"}] /\ value' \in [Calls -> 0..MaxCalls]
    BY <1>1 DEF CallTypes
  <2> QED
    BY <2>1, <2>2 DEF CallTypes
<1>5. Numbering'
  <2>1. \A c \in Calls : c > calls' => result'[c] = "none" /\ c \notin asked'
    BY <1>1, <1>3 DEF Numbering, CallTypes
  <2>2. \A c \in Calls : result'[c] = "answer" => c \in answered'
    BY <1>1, <1>3 DEF Numbering
  <2> QED
    BY <2>1, <2>2 DEF Numbering
<1>6. Phases'
  <2> SUFFICES ASSUME NEW q \in Procs
               PROVE  /\ pc'[q] = "idle" <=> call'[q] = 0
                      /\ call'[q] # 0 => call'[q] <= calls /\ result'[call'[q]] = "none"
                      /\ pc'[q] = "send" => call'[q] \notin asked
    BY DEF Phases
  <2>1. CASE q = p
    BY <1>2, <2>1
  <2>2. CASE q # p
    <3>1. call[q] # 0 => call[q] # call[p] /\ call[q] \in Calls
      BY <2>2, CallIs DEF Crowd, InFlight
    <3>2. call[q] # 0 => result'[call[q]] = result[call[q]]
      BY <1>3, <3>1
    <3> QED
      BY <1>2, <2>2, <3>2 DEF Phases
  <2> QED
    BY <2>1, <2>2
<1>7. Crowd'
  BY <1>2 DEF Crowd, InFlight
<1> QED
  BY <1>2, <1>4, <1>5, <1>6, <1>7

LEMMA OtherCore ==
  ASSUME Core, UNCHANGED <<pc, call, calls, nextID, idOf, result, value, crowded, asked>>,
         answered \subseteq answered', answered' \subseteq asked
  PROVE  Core'
<1>1. CallTypes' /\ Numbering'
  BY DEF Core, CallTypes, Numbering
<1>2. Phases' /\ Crowd'
  BY DEF Core, Phases, Crowd, InFlight
<1> QED
  BY <1>1, <1>2 DEF Core

----------------------------------------------------------------------------
(* Lines.                                                                  *)

LEMMA LineTypes ==
  /\ Noise \in Lines /\ Noise.id = 0 /\ Noise.answers = 0
  /\ Endpoint \in Lines /\ Endpoint.id = 0 /\ Endpoint.answers = 0
  /\ \A l \in Lines : l.answers \in 0..MaxCalls
  /\ \A c \in Calls, kind \in {"result", "error"} :
       /\ Line(c, c, kind) \in Lines
       /\ Line(c, c, kind).id = c /\ Line(c, c, kind).answers = c
BY Bounds DEF Noise, Endpoint, Line, Lines

LEMMA LinesTail ==
  ASSUME NEW s \in Seq(Lines), s # <<>>
  PROVE  /\ Len(s) \in Nat /\ 1 \in 1..Len(s) /\ Head(s) = s[1] /\ Head(s) \in Lines
         /\ Tail(s) \in Seq(Lines) /\ Len(Tail(s)) = Len(s) - 1
         /\ \A k \in 1..Len(Tail(s)) : k + 1 \in 1..Len(s) /\ Tail(s)[k] = s[k + 1]
         /\ \A k \in 2..Len(s) : k - 1 \in 1..Len(Tail(s)) /\ Tail(s)[k - 1] = s[k]
<1>1. Len(s) \in Nat /\ Len(s) # 0
  BY EmptySeq
<1>2. 1 \in 1..Len(s) /\ Head(s) = s[1]
  BY <1>1
<1>3. Head(s) \in Lines
  BY <1>2, ElementOfSeq, Zenon
<1>4. Tail(s) \in Seq(Lines) /\ Len(Tail(s)) = Len(s) - 1
  BY HeadTailProperties
<1>5. \A k \in 1..Len(Tail(s)) : k + 1 \in 1..Len(s) /\ Tail(s)[k] = s[k + 1]
  BY <1>1, <1>4, HeadTailProperties
<1>6. ASSUME NEW k \in 2..Len(s)
      PROVE  k - 1 \in 1..Len(Tail(s)) /\ Tail(s)[k - 1] = s[k]
  <2>1. k - 1 \in 1..Len(Tail(s)) /\ (k - 1) + 1 = k
    BY <1>1, <1>4
  <2> QED
    BY <1>5, <2>1
<1> QED
  BY <1>1, <1>2, <1>3, <1>4, <1>5, <1>6

LEMMA LinesAppend ==
  ASSUME NEW s \in Seq(Lines), NEW l \in Lines
  PROVE  /\ Append(s, l) \in Seq(Lines) /\ Len(s) \in Nat /\ Len(Append(s, l)) = Len(s) + 1
         /\ Append(s, l)[Len(s) + 1] = l
         /\ \A k \in 1..Len(s) : Append(s, l)[k] = s[k]
BY AppendProperties, LenProperties

LEMMA HoldsAt ==
  ASSUME NEW s \in Seq(Lines), NEW c
  PROVE  Holds(s, c) <=> \E k \in 1..Len(s) : s[k].answers = c
<1>1. DOMAIN s = 1..Len(s)
  BY LenProperties
<1> QED
  BY <1>1 DEF Holds

\* A line that answers another call can be taken away.
LEMMA HoldsTail ==
  ASSUME NEW s \in Seq(Lines), s # <<>>, NEW c, Head(s).answers # c, Holds(s, c)
  PROVE  Holds(Tail(s), c)
<1>1. PICK k \in 1..Len(s) : s[k].answers = c
  BY HoldsAt
<1>2. k \in 2..Len(s)
  BY <1>1, LinesTail
<1>3. k - 1 \in 1..Len(Tail(s)) /\ Tail(s)[k - 1].answers = c
  BY <1>1, <1>2, LinesTail
<1> QED
  BY <1>3, LinesTail, HoldsAt

LEMMA HoldsAppend ==
  ASSUME NEW s \in Seq(Lines), NEW l \in Lines, NEW c, Holds(s, c) \/ l.answers = c
  PROVE  Holds(Append(s, l), c)
<1>1. CASE Holds(s, c)
  <2>1. PICK k \in 1..Len(s) : s[k].answers = c
    BY <1>1, HoldsAt
  <2>2. k \in 1..Len(Append(s, l)) /\ Append(s, l)[k].answers = c
    BY <2>1, LinesAppend
  <2> QED
    BY <2>2, LinesAppend, HoldsAt
<1>2. CASE l.answers = c
  <2>1. Len(s) + 1 \in 1..Len(Append(s, l)) /\ Append(s, l)[Len(s) + 1].answers = c
    BY <1>2, LinesAppend
  <2> QED
    BY <2>1, LinesAppend, HoldsAt
<1> QED
  BY <1>1, <1>2

\* A sound sequence is so still with a line taken or a good one added.
LEMMA SoundTail ==
  ASSUME NEW s, Sound(s), s # <<>>
  PROVE  Sound(Tail(s)) /\ GoodLine(Head(s)) /\ Head(s) \in Lines
BY LinesTail DEF Sound

LEMMA SoundAppend ==
  ASSUME NEW s, Sound(s), NEW l \in Lines, GoodLine(l)
  PROVE  Sound(Append(s, l))
<1>1. s \in Seq(Lines) /\ Append(s, l) \in Seq(Lines) /\ Len(s) \in Nat
      /\ Len(Append(s, l)) = Len(s) + 1
  BY LinesAppend DEF Sound
<1>2. ASSUME NEW k \in 1..Len(Append(s, l)) PROVE GoodLine(Append(s, l)[k])
  <2>1. k \in 1..Len(s) \/ k = Len(s) + 1
    BY <1>1
  <2>2. CASE k \in 1..Len(s)
    BY <1>1, <2>2, LinesAppend DEF Sound
  <2>3. CASE k = Len(s) + 1
    BY <1>1, <2>3, LinesAppend
  <2> QED
    BY <2>1, <2>2, <2>3
<1> QED
  BY <1>1, <1>2 DEF Sound

\* Lines stay good when more is answered; what is in the pipe may be lost.
LEMMA PipesStay ==
  ASSUME Pipes, NEW w, NEW m, Sound(w), Sound(m), Len(m) <= QueueCap,
         wire' = w, messages' = m, dropped' \subseteq Calls,
         postURL' \in BOOLEAN, readerDone' \in BOOLEAN, stdinClosed' \in BOOLEAN,
         answered \subseteq answered'
  PROVE  Pipes'
<1>1. w \in Seq(Lines) /\ m \in Seq(Lines)
  BY DEF Sound
<1>2. \A k \in 1..Len(w) : /\ w[k] \in Lines /\ w[k].id = w[k].answers
                           /\ w[k].answers # 0 => w[k].answers \in answered'
  BY DEF Sound, GoodLine
<1>3. \A k \in 1..Len(m) : /\ m[k] \in Lines /\ m[k].id = m[k].answers
                           /\ m[k].answers # 0 => m[k].answers \in answered'
  BY DEF Sound, GoodLine
<1> QED
  BY <1>1, <1>2, <1>3 DEF Pipes, Sound, GoodLine

LEMMA PipesSame ==
  ASSUME Pipes, UNCHANGED <<wire, messages, dropped, postURL, readerDone, stdinClosed>>,
         answered \subseteq answered'
  PROVE  Pipes'
BY PipesStay DEF Pipes

\* A line is the answer to the call in hand exactly when it has its id.
LEMMA MineIsTheAnswer ==
  ASSUME Core, NEW p \in Procs, InFlight(p), NEW line, GoodLine(line)
  PROVE  /\ Mine(p, line) => line.answers = call[p] /\ call[p] \in answered
         /\ ~Mine(p, line) => line.answers # call[p]
<1>1. idOf[call[p]] = call[p] /\ call[p] # 0
  BY CallIs DEF InFlight
<1> QED
  BY <1>1 DEF Mine, GoodLine

----------------------------------------------------------------------------
(* No answer vanishes.                                                     *)

\* Where no line is lost.
LEMMA KeptStays ==
  ASSUME NoAnswerVanishes, \A p \in Procs : call'[p] \in {call[p], 0},
         answered' = answered, crowded \subseteq crowded', dropped \subseteq dropped',
         stage = "closed" => stage' = "closed", UNCHANGED <<wire, messages>>
  PROVE  NoAnswerVanishes'
BY DEF NoAnswerVanishes, InFlight, Holds

\* Where one process reads: no other call under way counts on its line.
LEMMA KeptByOne ==
  ASSUME Core, NoAnswerVanishes, NEW p \in Procs, InFlight(p),
         \A q \in Procs : q # p => call'[q] = call[q],
         UNCHANGED <<answered, crowded, dropped, stage>>,
         \/ call'[p] = 0
         \/ /\ call'[p] = call[p]
            /\ Holds(wire, call[p]) \/ Holds(messages, call[p]) =>
                 Holds(wire, call[p])' \/ Holds(messages, call[p])' \/ call[p] \in crowded
  PROVE  NoAnswerVanishes'
<1> SUFFICES ASSUME NEW q \in Procs, InFlight(q)', call'[q] \in answered'
             PROVE  \/ Holds(wire, call[q])' \/ Holds(messages, call[q])'
                    \/ call'[q] \in crowded' \cup dropped' \/ stage' = "closed"
  BY DEF NoAnswerVanishes
<1>1. CASE q # p
  BY <1>1 DEF Core, Crowd, InFlight
<1>2. CASE q = p
  <2>1. call'[p] = call[p] /\ InFlight(p)
    BY <1>2 DEF InFlight
  <2>2. \/ Holds(wire, call[p]) \/ Holds(messages, call[p])
        \/ call[p] \in crowded \cup dropped \/ stage = "closed"
    BY <1>2, <2>1 DEF NoAnswerVanishes
  <2>3. call'[p] # 0
    BY <1>2 DEF InFlight
  <2>4. \/ Holds(wire, call[p])' \/ Holds(messages, call[p])'
        \/ call[p] \in crowded \cup dropped \/ stage = "closed"
    BY <2>2, <2>3
  <2> QED
    BY <1>2, <2>1, <2>4
<1> QED
  BY <1>1, <1>2

----------------------------------------------------------------------------
(* The registration.                                                       *)

\* Where it does not move and no call begins.
LEMMA CourseStays ==
  ASSUME Course, UNCHANGED <<transport, stage, tools, inbox, calls, asked>>,
         \A p \in Procs : call'[p] \in {call[p], 0}, ended => ended', Rest'
  PROVE  Course'
<1>1. RegTypes'
  BY DEF Course, RegTypes
<1>2. Stages'
  BY DEF Course, Stages, FailedLeavesNoServer, Procs, CallOf
<1>3. Sent'
  BY DEF Course, Sent, HandshakeFirst
<1> QED
  BY <1>1, <1>2, <1>3 DEF Course

LEMMA ReturnKeeps ==
  ASSUME Inv, NEW p \in Procs, InFlight(p), NEW how \in {"answer", "failed"},
         NEW from \in 0..MaxCalls, Return(p, how, from),
         how = "answer" => call[p] \in answered,
         Pipes', UNCHANGED <<regVars, dropped, shutdown, serverVars>>
  PROVE  Inv'
<1> USE DEF regVars, serverVars
<1>1. /\ Core' /\ call'[p] = 0 /\ crowded' = crowded
      /\ \A q \in Procs : q # p => call'[q] = call[q]
  BY ReturnCore DEF Inv
<1>2. Course'
  <2>1. \A q \in Procs : call'[q] \in {call[q], 0}
    BY <1>1
  <2>2. Rest' /\ calls' = calls
    BY DEF Inv, Course, Rest, Return
  <2> QED
    BY <2>1, <2>2, CourseStays DEF Inv
<1>3. NoAnswerVanishes'
  BY <1>1, KeptByOne DEF Inv
<1> QED
  BY <1>1, <1>2, <1>3 DEF Inv

LEMMA GotoKeeps ==
  ASSUME Inv, NEW p \in Procs, InFlight(p), NEW label \in {"posted", "check", "receive"},
         Goto(p, label), Pipes', UNCHANGED <<regVars, dropped, shutdown, serverVars>>,
         Holds(wire, call[p]) \/ Holds(messages, call[p]) =>
           Holds(wire, call[p])' \/ Holds(messages, call[p])' \/ call[p] \in crowded
  PROVE  Inv'
<1> USE DEF regVars, serverVars
<1>1. Core' /\ UNCHANGED <<call, crowded, calls>>
  BY GotoCore DEF Inv, Goto
<1>2. Course'
  <2>1. Rest'
    BY DEF Inv, Course, Rest, Goto
  <2> QED
    BY <1>1, <2>1, CourseStays DEF Inv
<1>3. NoAnswerVanishes'
  BY <1>1, KeptByOne DEF Inv
<1> QED
  BY <1>1, <1>2, <1>3 DEF Inv

LEMMA HandshakeGrows ==
  /\ Append(<<>>, "initialize") = <<"initialize">>
  /\ Append(<<"initialize">>, "initialized") = <<"initialize", "initialized">>
  /\ Append(<<"initialize", "initialized">>, "tools/list") = Handshake
<1> DEFINE S == {"initialize", "initialized", "tools/list"}
<1>1. Append(<<>>, "initialize") = <<"initialize">>
  OBVIOUS
<1>2. Append(<<"initialize">>, "initialized") = <<"initialize", "initialized">>
  <2> DEFINE s == Append(<<"initialize">>, "initialized")
             t == <<"initialize", "initialized">>
  <2>1. s \in Seq(S) /\ t \in Seq(S) /\ Len(s) = 2 /\ Len(t) = 2
    OBVIOUS
  <2>2. s[1] = t[1] /\ s[2] = t[2]
    OBVIOUS
  <2>3. \A i \in 1..Len(s) : s[i] = t[i]
    <3> HIDE DEF s, t, S
    <3> QED
      BY <2>1, <2>2
  <2> HIDE DEF s, t, S
  <2>4. s = t
    BY <2>1, <2>3, SeqEqual
  <2> QED
    BY <2>4 DEF s, t
<1>3. Append(<<"initialize", "initialized">>, "tools/list") = Handshake
  <2> DEFINE s == Append(<<"initialize", "initialized">>, "tools/list")
             t == <<"initialize", "initialized", "tools/list">>
  <2>1. s \in Seq(S) /\ t \in Seq(S) /\ Len(s) = 3 /\ Len(t) = 3
    OBVIOUS
  <2>2. s[1] = t[1] /\ s[2] = t[2] /\ s[3] = t[3]
    OBVIOUS
  <2>3. \A i \in 1..Len(s) : s[i] = t[i]
    <3> HIDE DEF s, t, S
    <3> QED
      BY <2>1, <2>2
  <2> HIDE DEF s, t, S
  <2>4. s = t
    BY <2>1, <2>3, SeqEqual
  <2> QED
    BY <2>4 DEF s, t, Handshake
<1> QED
  BY <1>1, <1>2, <1>3

\* The beginnings of the handshake.
InTurn(seq) ==
  \A k \in DOMAIN seq : seq[k] = (IF k <= 3 THEN Handshake[k] ELSE "tools/call")

LEMMA HandshakeBegins ==
  /\ InTurn(<<>>) /\ InTurn(<<"initialize">>) /\ InTurn(<<"initialize", "initialized">>)
  /\ InTurn(Handshake)
<1>1. InTurn(<<>>) /\ InTurn(<<"initialize">>)
  BY DEF InTurn, Handshake
<1>2. InTurn(<<"initialize", "initialized">>)
  BY DEF InTurn, Handshake
<1>3. InTurn(Handshake)
  <2>1. DOMAIN Handshake = 1..3
    BY DEF Handshake
  <2> QED
    BY <2>1 DEF InTurn
<1> QED
  BY <1>1, <1>2, <1>3

LEMMA HandshakeFirstAfter ==
  ASSUME inbox' \in {<<>>, <<"initialize">>, <<"initialize", "initialized">>, Handshake}
  PROVE  HandshakeFirst'
<1>1. InTurn(inbox')
  BY HandshakeBegins
<1> QED
  BY <1>1 DEF HandshakeFirst, InTurn

\* The server has a request: of the handshake in its turn, or of a tool.
LEMMA DeliveredKeeps ==
  ASSUME Inv, NEW p \in Procs, pc[p] = "send", NEW label \in {"posted", "check"},
         Goto(p, label), Delivered(p), UNCHANGED <<regVars, pipeVars, shutdown>>
  PROVE  Inv'
<1> USE DEF regVars, pipeVars, Delivered
<1>1. InFlight(p) /\ call[p] \notin asked
  BY DEF Inv, Core, Phases, InFlight
<1>2. Core' /\ UNCHANGED <<call, crowded, calls>>
  BY <1>1, GotoCore DEF Inv, Goto
<1>3. Pipes' /\ NoAnswerVanishes'
  BY <1>2, PipesSame, KeptStays DEF Inv
<1>4. /\ inbox \in Seq({"initialize", "initialized", "tools/list", "tools/call"})
      /\ inbox' = Append(inbox, Method(p)) /\ asked' = asked \cup {call[p]}
  BY DEF Inv, Course, Rest
<1>5. CASE p = Registrar
  <2>1. stage \in {"initialize", "tools/list"} /\ call[p] = CallOf(stage) /\ ~tools
        /\ inbox' = Append(inbox, stage) /\ CallOf("initialize") = 1 /\ CallOf("tools/list") = 2
    BY <1>1, <1>4, <1>5 DEF Inv, Course, Stages, InFlight, Method, CallOf
  <2>2. CASE stage = "initialize"
    <3>1. inbox' = <<"initialize">> /\ 1 \in asked'
      <4>1. call[p] = 1 /\ 1 \notin asked
        BY <1>1, <2>1, <2>2
      <4>2. inbox = <<>>
        BY <2>2, <4>1 DEF Inv, Course, Sent
      <4>3. inbox' = Append(<<>>, "initialize") /\ 1 \in asked'
        BY <1>4, <2>1, <2>2, <4>1, <4>2
      <4> QED
        BY <4>3, HandshakeGrows
    <3>2. Sent'
      <4>1. HandshakeFirst'
        BY <3>1, HandshakeFirstAfter
      <4> QED
        BY <2>1, <2>2, <3>1, <4>1 DEF Sent, Early
    <3>3. RegTypes' /\ Rest'
      BY <3>1 DEF Inv, Course, RegTypes, Rest, Goto
    <3>4. Stages'
      BY <1>2 DEF Inv, Course, Stages, FailedLeavesNoServer
    <3> QED
      BY <1>2, <1>3, <3>2, <3>3, <3>4 DEF Inv, Course
  <2>3. CASE stage = "tools/list"
    <3>1. inbox' = Handshake /\ 2 \in asked'
      <4>1. call[p] = 2 /\ 2 \notin asked
        BY <1>1, <2>1, <2>3
      <4>2. inbox = <<"initialize", "initialized">>
        BY <2>3, <4>1 DEF Inv, Course, Sent
      <4>3. inbox' = Append(<<"initialize", "initialized">>, "tools/list") /\ 2 \in asked'
        BY <1>4, <2>1, <2>3, <4>1, <4>2
      <4> QED
        BY <4>3, HandshakeGrows
    <3>2. Sent'
      <4>1. HandshakeFirst'
        BY <3>1, HandshakeFirstAfter
      <4> QED
        BY <2>1, <2>3, <3>1, <4>1 DEF Sent, Early
    <3>3. RegTypes' /\ Rest'
      BY <3>1 DEF Inv, Course, RegTypes, Rest, Goto, Handshake
    <3>4. Stages'
      BY <1>2 DEF Inv, Course, Stages, FailedLeavesNoServer
    <3> QED
      BY <1>2, <1>3, <3>2, <3>3, <3>4 DEF Inv, Course
  <2> QED
    BY <2>1, <2>2, <2>3
<1>6. CASE p # Registrar
  <2>1. p \in Callers /\ tools /\ inbox' = Append(inbox, "tools/call")
        /\ stage \in {"register", "ready", "close", "wait", "closed"} /\ Len(inbox) >= 3
    BY <1>1, <1>4, <1>6 DEF Inv, Course, Stages, Sent, InFlight, Method, Procs
  <2>2. /\ Len(inbox) \in Nat /\ Len(inbox') = Len(inbox) + 1
        /\ inbox'[Len(inbox) + 1] = "tools/call"
        /\ \A k \in 1..Len(inbox) : inbox'[k] = inbox[k]
        /\ inbox' \in Seq({"initialize", "initialized", "tools/list", "tools/call"})
        /\ DOMAIN inbox = 1..Len(inbox) /\ DOMAIN inbox' = 1..Len(inbox')
    BY <1>4, <2>1, AppendProperties, LenProperties
  <2>3. HandshakeFirst'
    <3> SUFFICES ASSUME NEW k \in 1..Len(inbox')
                 PROVE  inbox'[k] = IF k <= 3 THEN Handshake[k] ELSE "tools/call"
      BY <2>2 DEF HandshakeFirst
    <3>1. k \in 1..Len(inbox) \/ k = Len(inbox) + 1
      BY <2>2
    <3>2. CASE k \in 1..Len(inbox)
      BY <2>2, <3>2 DEF Inv, Course, Sent, HandshakeFirst
    <3>3. CASE k = Len(inbox) + 1
      BY <2>1, <2>2, <3>3
    <3> QED
      BY <3>1, <3>2, <3>3
  <2>4. Sent'
    BY <2>1, <2>2, <2>3 DEF Sent, Early
  <2>5. RegTypes' /\ Rest'
    BY <2>2 DEF Inv, Course, RegTypes, Rest, Goto
  <2>6. Stages'
    BY <1>2 DEF Inv, Course, Stages, FailedLeavesNoServer
  <2> QED
    BY <1>2, <1>3, <2>4, <2>5, <2>6 DEF Inv, Course
<1> QED
  BY <1>5, <1>6

\* A call begins: nothing has answered it, and it crowds those under way.
LEMMA BeginKeeps ==
  ASSUME Inv, NEW p \in Procs, Begin(p), UNCHANGED <<regVars, pipeVars, shutdown, serverVars>>,
         Stages'
  PROVE  Inv'
<1> USE DEF regVars, pipeVars, serverVars
<1>1. /\ Core' /\ \A q \in Procs : q # p => call'[q] = call[q]
      /\ call'[p] = calls + 1 /\ call'[p] \notin answered' /\ crowded \subseteq crowded'
  BY BeginCore DEF Inv
<1>2. Pipes'
  BY PipesSame DEF Inv
<1>3. NoAnswerVanishes'
  <2> SUFFICES ASSUME NEW q \in Procs, InFlight(q)', call'[q] \in answered'
               PROVE  \/ Holds(wire, call[q])' \/ Holds(messages, call[q])'
                      \/ call'[q] \in crowded' \cup dropped' \/ stage' = "closed"
    BY DEF NoAnswerVanishes
  <2>1. q # p /\ call'[q] = call[q] /\ InFlight(q)
    BY <1>1 DEF InFlight
  <2>2. Holds(wire, call[q]) \/ Holds(messages, call[q])
        \/ call[q] \in crowded \cup dropped \/ stage = "closed"
    BY <2>1 DEF Inv, NoAnswerVanishes
  <2> QED
    BY <1>1, <2>1, <2>2
<1>4. RegTypes' /\ Rest' /\ Sent'
  BY DEF Inv, Course, RegTypes, Rest, Sent, HandshakeFirst, Begin
<1> QED
  BY <1>1, <1>2, <1>3, <1>4 DEF Inv, Course

LEMMA RegistrarCallsKeeps ==
  ASSUME Inv, RegistrarCalls
  PROVE  Inv'
<1> USE DEF RegistrarCalls
<1>1. Registrar \in Procs /\ calls \in Nat /\ Registrar \notin Callers
  BY CallersAssumption DEF Inv, Core, CallTypes, Procs
<1>2. /\ call'[Registrar] = calls + 1
      /\ \A q \in Procs : q # Registrar => call'[q] = call[q]
  BY <1>1, BeginCore DEF Inv, serverVars
<1>3. calls' = calls + 1 /\ UNCHANGED <<transport, stage, tools, ended>>
  BY DEF Begin, regVars, serverVars
<1>4. CallOf(stage) = calls + 1 /\ (stage = "initialize" => calls = 0)
  BY <1>1 DEF CallOf
<1>5. ~tools /\ stage \notin Early
  BY DEF Inv, Course, Stages, Early
<1>6. Stages'
  <2>1. FailedLeavesNoServer' /\ CallOf(stage)' = CallOf(stage)
    BY <1>3 DEF Inv, Course, Stages, FailedLeavesNoServer, CallOf
  <2>2. \A q \in Callers : call'[q] = 0
    BY <1>1, <1>2, <1>5 DEF Inv, Course, Stages, Procs
  <2> QED
    BY <1>1, <1>2, <1>3, <1>4, <1>5, <2>1, <2>2 DEF Stages, Early
<1> QED
  BY <1>1, <1>6, BeginKeeps

LEMMA CallToolKeeps ==
  ASSUME Inv, NEW p \in Callers, CallTool(p)
  PROVE  Inv'
<1> USE DEF CallTool
<1>1. p \in Procs /\ p # Registrar /\ Registrar \in Procs
  BY CallersAssumption DEF Procs
<1>2. call'[Registrar] = call[Registrar]
  BY <1>1, BeginCore DEF Inv, serverVars
<1>3. UNCHANGED <<transport, stage, tools, ended>> /\ tools
      /\ stage \in {"register", "ready", "close", "wait", "closed"}
  BY DEF Inv, Course, Stages, regVars, serverVars
<1>4. Stages'
  BY <1>2, <1>3 DEF Inv, Course, Stages, FailedLeavesNoServer, Early, CallOf
<1> QED
  BY <1>1, <1>4, BeginKeeps

\* A step of the registration that makes no call.
LEMMA MoveKeeps ==
  ASSUME Inv, UNCHANGED <<callVars, asked, answered, dropped>>,
         \A p \in Procs : InFlight(p) => UNCHANGED <<wire, messages>> \/ stage' = "closed",
         stage = "closed" => stage' = "closed", Pipes', RegTypes', Rest', Stages', Sent'
  PROVE  Inv'
<1>1. Core'
  BY OtherCore DEF Inv, Core, callVars
<1>2. NoAnswerVanishes'
  BY DEF Inv, NoAnswerVanishes, InFlight, Holds, callVars
<1> QED
  BY <1>1, <1>2 DEF Inv, Course

LEMMA RegistrationKeeps ==
  ASSUME Inv, Registration
  PROVE  Inv'
<1> USE DEF At, pipeVars, serverVars
<1>1. /\ transport \in {"stdio", "sse"} /\ tools \in BOOLEAN /\ Rest /\ Stages /\ Sent
      /\ calls \in Nat /\ RegTypes /\ Registrar \in Procs /\ Callers \subseteq Procs
      /\ \A c \in Calls : c > calls => c \notin asked
      /\ \A c \in Calls : result[c] = "answer" => c \in asked
      /\ \A p \in Procs : InFlight(p) => result[call[p]] = "none"
      /\ 1 \in Calls /\ 2 \in Calls
  <2>1. /\ transport \in {"stdio", "sse"} /\ tools \in BOOLEAN /\ Rest /\ Stages /\ Sent
        /\ calls \in Nat /\ RegTypes
    BY Bounds DEF Inv, Course, RegTypes, Core, CallTypes
  <2>2. Registrar \in Procs /\ Callers \subseteq Procs /\ 1 \in Calls /\ 2 \in Calls
    BY Bounds DEF Procs
  <2>3. /\ \A c \in Calls : c > calls => c \notin asked
        /\ \A c \in Calls : result[c] = "answer" => c \in asked
    BY DEF Inv, Core, Numbering
  <2>4. \A p \in Procs : InFlight(p) => result[call[p]] = "none"
    BY CallIs DEF Inv
  <2> QED
    BY <2>1, <2>2, <2>3, <2>4
<1>2. calls = 0 => \A p \in Procs : ~InFlight(p)
  BY Bounds, CallIs DEF Inv
<1>3. UNCHANGED <<transport, wire, messages, dropped, postURL, readerDone, stdinClosed>>
        => Pipes' \/ answered' # answered
  BY PipesSame DEF Inv
<1>4. CASE Connect
  <2> USE <1>4 DEF Connect
  <2>1. calls = 0 /\ call[Registrar] = 0 /\ ~tools /\ inbox = <<>> /\ 1 \notin asked
    BY <1>1, <1>2 DEF Stages, Sent, Early, InFlight
  <2>2. RegTypes' /\ Rest' /\ UNCHANGED callVars
    BY <1>1 DEF RegTypes, Rest, callVars
  <2>3. Stages'
    BY <1>1, <2>1 DEF Stages, Early, FailedLeavesNoServer, callVars
  <2>4. Sent'
    BY <1>1, <2>1 DEF Sent, Early, HandshakeFirst
  <2>5. Pipes'
    BY <1>3
  <2> QED
    BY <2>2, <2>3, <2>4, <2>5, MoveKeeps
<1>5. CASE FirstMessage
  <2> USE <1>5 DEF FirstMessage
  <2>1. calls = 0 /\ call[Registrar] = 0 /\ ~tools /\ inbox = <<>>
    BY <1>1, <1>2 DEF Stages, Sent, Early, InFlight
  <2>2. RegTypes' /\ Rest' /\ UNCHANGED callVars
    BY <1>1 DEF RegTypes, Rest, callVars
  <2>3. Stages'
    BY <1>1, <2>1 DEF Stages, Early, FailedLeavesNoServer, callVars
  <2>4. Sent'
    BY <1>1, <2>1 DEF Sent, Early, HandshakeFirst
  <2>5. Pipes'
    <3>1. Sound(Tail(messages)) /\ Len(Tail(messages)) <= QueueCap
      BY SoundTail, LinesTail, Bounds DEF Inv, Pipes, Sound
    <3> QED
      BY <3>1, PipesStay DEF Inv, Pipes
  <2> QED
    BY <1>2, <2>1, <2>2, <2>3, <2>4, <2>5, MoveKeeps
<1>6. CASE EndpointKnown \/ ConnectCancelled
  <2> USE <1>6 DEF EndpointKnown, ConnectCancelled
  <2>1. /\ calls = 0 /\ call[Registrar] = 0 /\ ~tools /\ inbox = <<>> /\ 1 \notin asked
        /\ transport = "sse"
    BY <1>1, <1>2 DEF Stages, Sent, Early, InFlight
  <2>2. RegTypes' /\ Rest' /\ UNCHANGED callVars
    BY <1>1 DEF RegTypes, Rest, callVars
  <2>3. Stages'
    BY <1>1, <2>1 DEF Stages, Early, FailedLeavesNoServer, callVars
  <2>4. Sent'
    BY <1>1, <2>1 DEF Sent, Early, HandshakeFirst
  <2>5. Pipes'
    BY <1>3
  <2> QED
    BY <2>2, <2>3, <2>4, <2>5, MoveKeeps
<1>7. CASE Initialized
  <2> USE <1>7 DEF Initialized, RegistrarReturned
  <2>1. call[Registrar] = 0 /\ ~tools /\ result[1] # "none" /\ (result[1] = "answer" => 1 \in asked)
    BY <1>1 DEF Stages, InFlight, CallOf
  <2>2. RegTypes' /\ Rest' /\ UNCHANGED callVars
    BY <1>1 DEF RegTypes, Rest, callVars
  <2>3. Stages'
    BY <1>1, <2>1 DEF Stages, Early, FailedLeavesNoServer, callVars
  <2>4. Sent'
    BY <1>1, <2>1 DEF Sent, Early, HandshakeFirst, CallOf
  <2>5. Pipes'
    BY <1>3
  <2> QED
    BY <2>2, <2>3, <2>4, <2>5, MoveKeeps
<1>8. CASE Notify
  <2> USE <1>8 DEF Notify
  <2>1. /\ call[Registrar] = 0 /\ ~tools /\ calls <= 1 /\ 2 \notin asked
        /\ inbox = <<"initialize">>
    BY <1>1 DEF Inv, Core, Stages, Sent, InFlight
  <2>2. inbox' = <<"initialize", "initialized">> \/ inbox' = inbox
    BY <2>1, HandshakeGrows
  <2>3. RegTypes' /\ Rest' /\ UNCHANGED callVars
    BY <1>1, <2>2 DEF RegTypes, Rest, callVars
  <2>4. Stages'
    BY <1>1, <2>1 DEF Stages, Early, FailedLeavesNoServer, callVars
  <2>5. Sent'
    <3>1. HandshakeFirst'
      BY <2>1, <2>2, HandshakeFirstAfter
    <3> QED
      BY <1>1, <2>1, <2>2, <3>1, HandshakeGrows DEF Sent, Early
  <2>6. Pipes'
    BY <1>3
  <2> QED
    BY <2>3, <2>4, <2>5, <2>6, MoveKeeps
<1>9. CASE Listed
  <2> USE <1>9 DEF Listed, RegistrarReturned
  <2>1. /\ call[Registrar] = 0 /\ ~tools /\ result[2] # "none"
        /\ result[2] = "answer" => tools' /\ stage' = "register"
        /\ result[2] # "answer" => ~tools' /\ stage' = "close"
    BY <1>1 DEF Stages, InFlight, CallOf
  <2>2. RegTypes' /\ Rest' /\ UNCHANGED callVars
    BY <1>1, <2>1 DEF RegTypes, Rest, callVars
  <2>3. Stages'
    BY <1>1, <2>1 DEF Stages, Early, FailedLeavesNoServer, callVars
  <2>4. Sent'
    <3>1. tools' => Len(inbox) = 3
      <4>1. tools' => 2 \in asked
        BY <1>1, <2>1
      <4>2. tools' => inbox = Handshake
        BY <1>1, <4>1 DEF Sent
      <4> QED
        BY <4>2 DEF Handshake
    <3>2. inbox' = inbox /\ stage' \in {"register", "close"} /\ HandshakeFirst
      BY <1>1 DEF Sent
    <3> QED
      BY <3>1, <3>2 DEF Sent, Early, HandshakeFirst
  <2>5. Pipes'
    BY <1>3
  <2> QED
    BY <2>2, <2>3, <2>4, <2>5, MoveKeeps
<1>10. CASE RegisterTools
  <2> USE <1>10 DEF RegisterTools
  <2>1. RegTypes' /\ Rest' /\ UNCHANGED callVars
    BY <1>1 DEF RegTypes, Rest, callVars
  <2>2. Stages'
    BY <1>1 DEF Stages, Early, FailedLeavesNoServer, callVars
  <2>3. Sent'
    BY <1>1 DEF Sent, Early, HandshakeFirst
  <2>4. Pipes'
    BY <1>3
  <2> QED
    BY <2>1, <2>2, <2>3, <2>4, MoveKeeps
<1>11. CASE Close
  <2> USE <1>11 DEF Close
  <2>1. RegTypes' /\ Rest' /\ UNCHANGED callVars
    BY <1>1 DEF RegTypes, Rest, callVars
  <2>2. Stages'
    BY <1>1 DEF Stages, Early, FailedLeavesNoServer, callVars
  <2>3. Sent'
    BY <1>1 DEF Sent, Early, HandshakeFirst
  <2>4. Pipes'
    BY PipesStay DEF Inv, Pipes
  <2> QED
    BY <2>1, <2>2, <2>3, <2>4, MoveKeeps
<1>12. CASE Waited
  <2> USE <1>12 DEF Waited
  <2>1. RegTypes' /\ Rest' /\ UNCHANGED callVars
    BY <1>1 DEF RegTypes, Rest, callVars
  <2>2. Stages'
    BY <1>1 DEF Stages, Early, FailedLeavesNoServer, callVars
  <2>3. Sent'
    BY <1>1 DEF Sent, Early, HandshakeFirst
  <2>4. Pipes'
    <3>1. Sound(<<>>)
      BY EmptySeq DEF Sound
    <3> QED
      BY <3>1, PipesStay DEF Inv, Pipes
  <2> QED
    BY <2>1, <2>2, <2>3, <2>4, MoveKeeps
<1> QED
  BY <1>4, <1>5, <1>6, <1>7, <1>8, <1>9, <1>10, <1>11, <1>12, RegistrarCallsKeeps DEF Registration

----------------------------------------------------------------------------
(* Client.call.                                                            *)

LEMMA SendKeeps ==
  ASSUME Inv, NEW p \in Procs, SendStdio(p) \/ PostReaches(p) \/ PostReturns(p) \/ Check(p)
  PROVE  Inv'
<1> USE Bounds DEF regVars, pipeVars, serverVars
<1>1. pc[p] # "idle" => InFlight(p)
  BY DEF Inv, Core, Phases, InFlight
<1>2. answered' = answered /\ UNCHANGED pipeVars => Pipes'
  BY PipesSame DEF Inv
<1>3. ASSUME pc[p] # "idle", Return(p, "failed", 0), UNCHANGED <<regVars, pipeVars, shutdown, serverVars>>
      PROVE  Inv'
  BY <1>1, <1>2, <1>3, ReturnKeeps
<1>4. ASSUME pc[p] # "idle", NEW label \in {"check", "receive"}, Goto(p, label),
             UNCHANGED <<regVars, pipeVars, shutdown, serverVars>>
      PROVE  Inv'
  <2>1. Holds(wire, call[p])' = Holds(wire, call[p])
        /\ Holds(messages, call[p])' = Holds(messages, call[p])
    BY <1>4 DEF Goto
  <2> QED
    BY <1>1, <1>2, <1>4, <2>1, GotoKeeps
<1>5. CASE SendStdio(p)
  <2>1. CASE stdinClosed \/ ended
    BY <1>3, <1>5, <2>1 DEF SendStdio
  <2>2. CASE ~(stdinClosed \/ ended)
    BY <1>5, <2>2, DeliveredKeeps DEF SendStdio
  <2> QED
    BY <2>1, <2>2
<1>6. CASE PostReaches(p)
  BY <1>6, DeliveredKeeps DEF PostReaches
<1>7. CASE PostReturns(p)
  BY <1>3, <1>4, <1>7 DEF PostReturns
<1>8. CASE Check(p)
  <2>1. CASE Done(p)
    BY <1>3, <1>8, <2>1 DEF Check
  <2>2. CASE ~Done(p)
    BY <1>4, <1>8, <2>2 DEF Check
  <2> QED
    BY <2>1, <2>2
<1> QED
  BY <1>5, <1>6, <1>7, <1>8

\* A line is taken from the pipe or from the queue.
LEMMA TakeKeeps ==
  ASSUME Inv, NEW p \in Procs, InFlight(p), NEW line, GoodLine(line), Take(p, line),
         Pipes', UNCHANGED <<regVars, dropped, shutdown, serverVars>>,
         line.answers # call[p] =>
           (Holds(wire, call[p]) \/ Holds(messages, call[p]) =>
              Holds(wire, call[p])' \/ Holds(messages, call[p])' \/ call[p] \in crowded)
  PROVE  Inv'
<1>1. line.answers \in 0..MaxCalls
  BY LineTypes DEF GoodLine
<1>2. CASE Mine(p, line) /\ Return(p, IF line.kind = "error" THEN "failed" ELSE "answer", line.answers)
  <2>1. call[p] \in answered
    BY <1>2, MineIsTheAnswer DEF Inv
  <2>2. CASE line.kind = "error"
    BY <1>1, <1>2, <2>2, ReturnKeeps
  <2>3. CASE line.kind # "error"
    BY <1>1, <1>2, <2>1, <2>3, ReturnKeeps
  <2> QED
    BY <2>2, <2>3
<1>3. CASE ~Mine(p, line) /\ Goto(p, "check")
  <2>1. line.answers # call[p]
    BY <1>3, MineIsTheAnswer DEF Inv
  <2> QED
    BY <1>3, <2>1, GotoKeeps
<1> QED
  BY <1>2, <1>3 DEF Take

LEMMA ReceiveStdioKeeps ==
  ASSUME Inv, NEW p \in Procs, ReceiveStdio(p)
  PROVE  Inv'
<1> USE DEF ReceiveStdio
<1>1. InFlight(p)
  BY DEF Inv, Core, Phases, InFlight
<1>2. UNCHANGED <<postURL, messages, readerDone, stdinClosed, dropped, answered>>
  BY DEF serverVars
<1>3. CASE wire # <<>> /\ Take(p, Head(wire)) /\ wire' = Tail(wire)
  <2>1. Sound(Tail(wire)) /\ GoodLine(Head(wire)) /\ wire \in Seq(Lines)
    BY <1>3, SoundTail DEF Inv, Pipes, Sound
  <2>2. Pipes'
    BY <1>2, <1>3, <2>1, PipesStay DEF Inv, Pipes
  <2>3. Head(wire).answers # call[p] /\ (Holds(wire, call[p]) \/ Holds(messages, call[p])) =>
          Holds(Tail(wire), call[p]) \/ Holds(messages, call[p])
    BY <1>3, <2>1, HoldsTail
  <2>4. CASE Mine(p, Head(wire))
    <3>1. Head(wire).answers = call[p]
      BY <1>1, <2>1, <2>4, MineIsTheAnswer DEF Inv
    <3> QED
      BY <1>1, <1>3, <2>1, <2>2, <3>1, TakeKeeps
  <2>5. CASE ~Mine(p, Head(wire))
    <3>1. call' = call
      BY <1>3, <2>5 DEF Take, Goto
    <3>2. Holds(wire, call[p])' = Holds(Tail(wire), call[p])
          /\ Holds(messages, call[p])' = Holds(messages, call[p])
      BY <1>2, <1>3, <3>1
    <3> QED
      BY <1>1, <1>3, <2>1, <2>2, <2>3, <3>2, TakeKeeps
  <2> QED
    BY <2>4, <2>5
<1>4. CASE wire = <<>> /\ ended /\ Return(p, "failed", 0) /\ UNCHANGED wire
  <2>1. Pipes'
    BY <1>2, <1>4, PipesSame DEF Inv
  <2> QED
    BY <1>1, <1>4, <2>1, Bounds, ReturnKeeps
<1> QED
  BY <1>3, <1>4

LEMMA ReceiveSSEKeeps ==
  ASSUME Inv, NEW p \in Procs, ReceiveSSE(p)
  PROVE  Inv'
<1> USE DEF ReceiveSSE
<1>1. InFlight(p)
  BY DEF Inv, Core, Phases, InFlight
<1>2. UNCHANGED <<postURL, wire, readerDone, stdinClosed, dropped, answered>>
  BY DEF serverVars
<1>3. CASE messages # <<>> /\ Take(p, Head(messages)) /\ messages' = Tail(messages)
  <2>1. Sound(Tail(messages)) /\ GoodLine(Head(messages)) /\ messages \in Seq(Lines)
        /\ Len(Tail(messages)) <= QueueCap
    BY <1>3, SoundTail, LinesTail, Bounds DEF Inv, Pipes, Sound
  <2>2. Pipes'
    BY <1>2, <1>3, <2>1, PipesStay DEF Inv, Pipes
  <2>3. Head(messages).answers # call[p] /\ (Holds(wire, call[p]) \/ Holds(messages, call[p])) =>
          Holds(wire, call[p]) \/ Holds(Tail(messages), call[p])
    BY <1>3, <2>1, HoldsTail
  <2>4. CASE Mine(p, Head(messages))
    <3>1. Head(messages).answers = call[p]
      BY <1>1, <2>1, <2>4, MineIsTheAnswer DEF Inv
    <3> QED
      BY <1>1, <1>3, <2>1, <2>2, <3>1, TakeKeeps
  <2>5. CASE ~Mine(p, Head(messages))
    <3>1. call' = call
      BY <1>3, <2>5 DEF Take, Goto
    <3>2. Holds(messages, call[p])' = Holds(Tail(messages), call[p])
          /\ Holds(wire, call[p])' = Holds(wire, call[p])
      BY <1>2, <1>3, <3>1
    <3> QED
      BY <1>1, <1>3, <2>1, <2>2, <2>3, <3>2, TakeKeeps
  <2> QED
    BY <2>4, <2>5
<1>4. CASE readerDone /\ Return(p, "failed", 0) /\ UNCHANGED messages
  <2>1. Pipes'
    BY <1>2, <1>4, PipesSame DEF Inv
  <2> QED
    BY <1>1, <1>4, <2>1, Bounds, ReturnKeeps
<1> QED
  BY <1>3, <1>4

\* A torn line is lost where two calls are under way.
LEMMA ReceiveRacedKeeps ==
  ASSUME Inv, NEW p \in Procs, ReceiveRaced(p)
  PROVE  Inv'
<1> USE DEF ReceiveRaced
<1>1. PICK q \in Procs \ {p} : pc[q] = "receive"
  OBVIOUS
<1>2. InFlight(p) /\ InFlight(q) /\ call[p] \in crowded
  BY <1>1 DEF Inv, Core, Phases, Crowd, InFlight
<1>3. Sound(Tail(wire))
  BY SoundTail DEF Inv, Pipes
<1>4. Pipes'
  BY <1>3, PipesStay DEF Inv, Pipes, serverVars
<1> QED
  BY <1>2, <1>4, GotoKeeps

----------------------------------------------------------------------------
(* The reader, the contexts and the server.                                *)

\* A step of none of the calls.
LEMMA OutsideKeeps ==
  ASSUME Inv, UNCHANGED <<regVars, pc, call, calls, nextID, idOf, result, value, crowded>>,
         UNCHANGED <<inbox, asked>>, answered \subseteq answered', answered' \subseteq asked,
         ended => ended', Rest', Pipes', NoAnswerVanishes'
  PROVE  Inv'
<1>1. Core'
  BY OtherCore DEF Inv
<1>2. Course'
  BY CourseStays DEF Inv, regVars
<1> QED
  BY <1>1, <1>2 DEF Inv

LEMMA ReadEventKeeps ==
  ASSUME Inv, ReadEvent
  PROVE  Inv'
<1> USE Bounds DEF ReadEvent, regVars, callVars, serverVars
<1> DEFINE line == IF Head(wire) = Endpoint THEN Noise ELSE Head(wire)
<1>1. Sound(Tail(wire)) /\ GoodLine(Head(wire)) /\ wire \in Seq(Lines) /\ wire # <<>>
      /\ Sound(messages) /\ messages \in Seq(Lines) /\ Len(messages) <= QueueCap
      /\ dropped \subseteq Calls
  BY SoundTail DEF Inv, Pipes, Sound
<1>2. GoodLine(line) /\ line \in Lines /\ line.answers \in 0..MaxCalls
      /\ line.answers = Head(wire).answers
  BY <1>1, LineTypes DEF GoodLine
<1> HIDE DEF line
<1>3. Enqueue(line) /\ wire' = Tail(wire) /\ UNCHANGED <<readerDone, stdinClosed, answered>>
      /\ postURL' \in BOOLEAN
  BY DEF line, Inv, Pipes
<1>4. \/ /\ Len(messages) < QueueCap
         /\ messages' = Append(messages, line) /\ dropped' = dropped
      \/ messages' = messages /\ dropped' = dropped \cup ({line.answers} \ {0})
  BY <1>3 DEF Enqueue
<1>5. Pipes'
  <2>1. CASE Len(messages) < QueueCap /\ messages' = Append(messages, line) /\ dropped' = dropped
    <3>1. Sound(Append(messages, line)) /\ Len(Append(messages, line)) <= QueueCap
      BY <1>1, <1>2, <2>1, SoundAppend, LinesAppend
    <3> QED
      BY <1>1, <1>3, <2>1, <3>1, PipesStay DEF Inv, Pipes
  <2>2. CASE messages' = messages /\ dropped' = dropped \cup ({line.answers} \ {0})
    <3>1. dropped' \subseteq Calls
      <4>1. line.answers = 0 \/ line.answers \in Calls
        BY <1>2
      <4>2. {line.answers} \ {0} \subseteq Calls
        BY <4>1
      <4> QED
        BY <1>1, <2>2, <4>2
    <3> QED
      BY <1>1, <1>3, <2>2, <3>1, PipesStay DEF Inv, Pipes
  <2> QED
    BY <1>4, <2>1, <2>2
<1>6. NoAnswerVanishes'
  <2> SUFFICES ASSUME NEW p \in Procs, call[p] # 0, call[p] \in answered
               PROVE  \/ Holds(wire, call[p])' \/ Holds(messages, call[p])'
                      \/ call[p] \in crowded' \cup dropped' \/ stage' = "closed"
    BY DEF NoAnswerVanishes, InFlight
  <2>1. \/ Holds(wire, call[p]) \/ Holds(messages, call[p])
        \/ call[p] \in crowded \cup dropped \/ stage = "closed"
    BY DEF Inv, NoAnswerVanishes, InFlight
  <2>2. ASSUME Holds(messages, call[p]) PROVE Holds(messages', call[p])
    BY <1>1, <1>2, <1>4, <2>2, HoldsAppend
  <2>3. ASSUME Holds(wire, call[p])
        PROVE  Holds(wire', call[p]) \/ Holds(messages', call[p]) \/ call[p] \in dropped'
    <3>1. CASE Head(wire).answers # call[p]
      BY <1>1, <1>3, <2>3, <3>1, HoldsTail
    <3>2. CASE Head(wire).answers = call[p]
      BY <1>1, <1>2, <1>4, <3>2, HoldsAppend
    <3> QED
      BY <3>1, <3>2
  <2>4. call' = call /\ crowded' = crowded /\ stage' = stage /\ dropped \subseteq dropped'
    BY <1>4
  <2> QED
    BY <2>1, <2>2, <2>3, <2>4
<1>7. Rest'
  BY DEF Inv, Course, Rest
<1> QED
  BY <1>5, <1>6, <1>7, OutsideKeeps DEF Inv, Core

LEMMA QuietKeeps ==
  ASSUME Inv, ReadEnds \/ Shutdown \/ (\E p \in Callers : Abort(p)) \/ UNCHANGED vars
  PROVE  Inv'
<1> USE DEF ReadEnds, Shutdown, Abort, vars, regVars, callVars, pipeVars, serverVars
<1>1. Pipes'
  <2>1. UNCHANGED <<postURL, wire, messages, stdinClosed, dropped, answered>>
        /\ readerDone' \in {readerDone, TRUE}
    OBVIOUS
  <2> QED
    BY <2>1, PipesStay DEF Inv, Pipes
<1>2. NoAnswerVanishes'
  BY KeptStays DEF Inv
<1>3. Rest'
  BY DEF Inv, Course, Rest, Procs
<1> QED
  BY <1>1, <1>2, <1>3, OutsideKeeps DEF Inv, Core

LEMMA ServerKeeps ==
  ASSUME Inv, Server
  PROVE  Inv'
<1> USE DEF regVars, callVars, pipeVars, serverVars
<1>1. Sound(wire) /\ wire \in Seq(Lines) /\ noise \in 0..MaxNoise
  BY DEF Inv, Pipes, Course, Rest, Sound
<1>2. ASSUME NEW line \in Lines, ServerWrites(line), answered \subseteq answered', answered' \subseteq asked,
             line.id = line.answers, line.answers # 0 => line.answers \in answered',
             answered' \subseteq answered \cup {line.answers}, noise' \in 0..MaxNoise
      PROVE  Inv'
  <2> USE <1>2 DEF ServerWrites
  <2>1. Pipes'
    <3>1. /\ wire' \in Seq(Lines) /\ Len(wire) \in Nat /\ Len(wire') = Len(wire) + 1
          /\ wire'[Len(wire) + 1] = line /\ \A k \in 1..Len(wire) : wire'[k] = wire[k]
      BY <1>1, LinesAppend
    <3>2. ASSUME NEW k \in 1..Len(wire')
          PROVE  wire'[k] \in Lines /\ wire'[k].id = wire'[k].answers
                 /\ (wire'[k].answers # 0 => wire'[k].answers \in answered')
      <4>1. k \in 1..Len(wire) \/ k = Len(wire) + 1
        BY <3>1
      <4>2. CASE k \in 1..Len(wire)
        BY <1>1, <3>1, <4>2 DEF Sound, GoodLine
      <4>3. CASE k = Len(wire) + 1
        BY <3>1, <4>3
      <4> QED
        BY <4>1, <4>2, <4>3
    <3>3. \A k \in 1..Len(messages) :
            /\ messages[k] \in Lines /\ messages[k].id = messages[k].answers
            /\ messages[k].answers # 0 => messages[k].answers \in answered'
      BY DEF Inv, Pipes, Sound, GoodLine
    <3> QED
      BY <3>1, <3>2, <3>3 DEF Inv, Pipes, Sound, GoodLine
  <2>2. NoAnswerVanishes'
    <3> SUFFICES ASSUME NEW p \in Procs, call[p] # 0, call[p] \in answered'
                 PROVE  \/ Holds(wire, call[p])' \/ Holds(messages, call[p])'
                        \/ call[p] \in crowded' \cup dropped' \/ stage' = "closed"
      BY DEF NoAnswerVanishes, InFlight
    <3>1. call' = call /\ wire' = Append(wire, line)
          /\ UNCHANGED <<messages, crowded, dropped, stage>>
      OBVIOUS
    <3>2. Holds(wire, call[p]) \/ line.answers = call[p] => Holds(Append(wire, line), call[p])
      BY <1>1, HoldsAppend
    <3>3. CASE line.answers = call[p]
      BY <3>1, <3>2, <3>3
    <3>4. CASE call[p] \in answered
      <4>1. \/ Holds(wire, call[p]) \/ Holds(messages, call[p])
            \/ call[p] \in crowded \cup dropped \/ stage = "closed"
        BY <3>4 DEF Inv, NoAnswerVanishes, InFlight
      <4> QED
        BY <3>1, <3>2, <4>1
    <3> QED
      BY <3>3, <3>4
  <2>3. Rest'
    BY DEF Inv, Course, Rest
  <2> QED
    BY <2>1, <2>2, <2>3, OutsideKeeps
<1>3. ASSUME NEW c \in Calls, ServerAnswers(c) PROVE Inv'
  <2>1. idOf[c] = c /\ answered \subseteq asked
    BY <1>3, Bounds DEF Inv, Core, CallTypes, Numbering, ServerAnswers
  <2>2. PICK kind \in {"result", "error"} : ServerWrites(Line(c, c, kind))
    BY <1>3, <2>1 DEF ServerAnswers
  <2>3. Line(c, c, kind) \in Lines /\ Line(c, c, kind).id = c /\ Line(c, c, kind).answers = c
    BY LineTypes
  <2>4. answered' = answered \cup {c} /\ answered' \subseteq asked /\ noise' = noise
    BY <1>3, <2>1 DEF ServerAnswers
  <2> QED
    BY <1>1, <1>2, <2>2, <2>3, <2>4
<1>4. CASE ServerTalks
  <2>1. noise' \in 0..MaxNoise /\ answered' = answered /\ answered \subseteq asked
    BY <1>1, <1>4, Bounds DEF ServerTalks, Inv, Core
  <2>2. ServerWrites(Noise) \/ ServerWrites(Endpoint)
    BY <1>4 DEF ServerTalks
  <2> QED
    BY <1>2, <2>1, <2>2, LineTypes
<1>5. CASE ServerEnds
  <2> USE <1>5 DEF ServerEnds
  <2>1. Pipes'
    BY PipesSame DEF Inv
  <2>2. NoAnswerVanishes'
    BY KeptStays DEF Inv
  <2>3. Rest'
    BY DEF Inv, Course, Rest
  <2> QED
    BY <2>1, <2>2, <2>3, OutsideKeeps DEF Inv, Core
<1> QED
  BY <1>3, <1>4, <1>5 DEF Server

LEMMA InitHolds ==
  ASSUME Init
  PROVE  Inv
<1>1. Core
  BY Bounds DEF Init, Core, CallTypes, Numbering, Phases, Crowd, InFlight
<1>2. Pipes
  <2>1. /\ wire = <<>> /\ messages = <<>> /\ dropped = {}
        /\ postURL = FALSE /\ readerDone = FALSE /\ stdinClosed = FALSE
    BY DEF Init
  <2>2. <<>> \in Seq(Lines) /\ Len(<<>>) = 0
    BY EmptySeq
  <2>3. Sound(<<>>)
    BY <2>2 DEF Sound
  <2>4. Len(<<>>) <= QueueCap
    BY <2>2, Bounds
  <2>5. Sound(wire) /\ Sound(messages) /\ Len(messages) <= QueueCap
    BY <2>1, <2>3, <2>4
  <2> QED
    BY <2>1, <2>5 DEF Pipes
<1>3. RegTypes
  BY TransportsAssumption DEF Init, RegTypes
<1>4. Rest
  <2>1. inbox \in Seq({"initialize", "initialized", "tools/list", "tools/call"})
    BY EmptySeq DEF Init
  <2>2. aborted = {} /\ shutdown = FALSE /\ ended = FALSE /\ noise \in 0..MaxNoise
    BY Bounds DEF Init
  <2> QED
    BY <2>1, <2>2 DEF Rest
<1>5. Stages
  BY DEF Init, Stages, FailedLeavesNoServer, Procs
<1>6. Sent
  BY HandshakeBegins DEF Init, Sent, HandshakeFirst, InTurn
<1>7. NoAnswerVanishes
  BY DEF Init, NoAnswerVanishes, InFlight
<1> QED
  BY <1>1, <1>2, <1>3, <1>4, <1>5, <1>6, <1>7 DEF Inv, Course

LEMMA NextKeeps ==
  ASSUME Inv, [Next]_vars
  PROVE  Inv'
<1>1. CASE Registration
  BY <1>1, RegistrationKeeps
<1>2. CASE ReadEvent
  BY <1>2, ReadEventKeeps
<1>3. CASE ReadEnds \/ Shutdown \/ UNCHANGED vars
  BY <1>3, QuietKeeps
<1>4. CASE Server
  BY <1>4, ServerKeeps
<1>5. ASSUME NEW p \in Procs, Client(p) PROVE Inv'
  BY <1>5, SendKeeps, ReceiveStdioKeeps, ReceiveRacedKeeps, ReceiveSSEKeeps DEF Client
<1>6. ASSUME NEW p \in Callers, CallTool(p) \/ Abort(p) PROVE Inv'
  BY <1>6, CallToolKeeps, QuietKeeps
<1> QED
  BY <1>1, <1>2, <1>3, <1>4, <1>5, <1>6 DEF Next

\* The invariant behind every other theorem here.
THEOREM Invariant == Spec => []Inv
<1>1. Init => Inv
  BY InitHolds
<1>2. Inv /\ [Next]_vars => Inv'
  BY NextKeeps
<1> QED
  BY <1>1, <1>2, PTL DEF Spec

----------------------------------------------------------------------------

\* Every variable keeps its type, and the queue its capacity.
THEOREM TypeCorrect == Spec => []TypeOK
<1>1. Inv => TypeOK
  BY DEF Inv, Core, Pipes, Sound, Course, Rest, TypeOK, PipeTypes, ServerTypes
<1> QED
  BY <1>1, Invariant, PTL

\* However many callers share the client, the answer to a call that waits for
\* it is in the pipe or the queue, unless another call was under way beside
\* it, the queue was full or the client was closed (client.go:190-215,
\* transport.go:203).
THEOREM AnswersAreKept == Spec => []NoAnswerVanishes
<1>1. Inv => NoAnswerVanishes
  BY DEF Inv
<1> QED
  BY <1>1, Invariant, PTL

\* No server sees a tool call before the handshake (tool.go:59-82).
THEOREM HandshakeComesFirst == Spec => []HandshakeFirst
<1>1. Inv => HandshakeFirst
  BY DEF Inv, Course, Sent
<1> QED
  BY <1>1, Invariant, PTL

\* No failed registration leaves its child process behind (tool.go:65-74,
\* transport.go:88-91).
THEOREM FailedLeaveNoServer == Spec => []FailedLeavesNoServer
<1>1. Inv => FailedLeavesNoServer
  BY DEF Inv, Course, Stages
<1> QED
  BY <1>1, Invariant, PTL

----------------------------------------------------------------------------
(* Client.call implements RpcCalls.                                        *)

StatusOf(c) ==
  IF c > calls THEN "new"
  ELSE IF result[c] = "none" THEN "open"
  ELSE IF result[c] = "answer" THEN "answered" ELSE "failed"
ValueOf(c) == IF result[c] = "answer" THEN value[c] ELSE 0

AStatus == [c \in Calls |-> StatusOf(c)]
AValue == [c \in Calls |-> ValueOf(c)]

LEMMA Mapped ==
  /\ Abstract!vars = <<AStatus, asked, answered, AValue>>
  /\ \A c \in Calls : AStatus[c] = StatusOf(c) /\ AValue[c] = ValueOf(c)
BY DEF Abstract!vars, AStatus, AValue, StatusOf, ValueOf

LEMMA StutterImplements ==
  ASSUME UNCHANGED <<calls, result, value, asked, answered>>
  PROVE  UNCHANGED Abstract!vars
BY DEF Abstract!vars

LEMMA BeginImplements ==
  ASSUME Inv, NEW p \in Procs, Begin(p), UNCHANGED <<asked, answered>>
  PROVE  Abstract!Next
<1> USE Bounds DEF Begin
<1>1. calls + 1 \in Calls /\ calls \in Nat /\ result[calls + 1] = "none"
  BY DEF Inv, Core, CallTypes, Numbering
<1>2. PICK c \in Calls : c = calls + 1
  BY <1>1
<1>3. \A d \in Calls : StatusOf(d)' = IF d = c THEN "open" ELSE StatusOf(d)
  BY <1>1, <1>2 DEF StatusOf
<1>4. StatusOf(c) = "new"
  BY <1>1, <1>2 DEF StatusOf
<1>5. AStatus' = [AStatus EXCEPT ![c] = "open"] /\ AStatus[c] = "new"
  BY <1>3, <1>4 DEF AStatus
<1>6. AValue' = AValue
  BY DEF AValue, ValueOf
<1>7. Abstract!Begin(c)
  BY <1>5, <1>6 DEF Abstract!Begin, AStatus, AValue, StatusOf, ValueOf
<1> QED
  BY <1>7 DEF Abstract!Next

LEMMA DeliveredImplements ==
  ASSUME Inv, NEW p \in Procs, pc[p] = "send", NEW label \in {"posted", "check"},
         Goto(p, label), Delivered(p)
  PROVE  Abstract!Next
<1>1. InFlight(p)
  BY DEF Inv, Core, Phases, InFlight
<1>2. PICK c \in Calls : c = call[p] /\ c <= calls /\ result[c] = "none"
  BY <1>1, CallIs DEF Inv
<1>3. StatusOf(c) = "open"
  BY <1>2, Bounds DEF StatusOf, Inv, Core, CallTypes
<1>4. AStatus[c] = "open" /\ AStatus' = AStatus /\ AValue' = AValue
  BY <1>3 DEF AStatus, AValue, StatusOf, ValueOf, Goto
<1>5. asked' = asked \cup {c} /\ answered' = answered
  BY <1>2 DEF Delivered
<1>6. Abstract!Ask(c)
  BY <1>4, <1>5 DEF Abstract!Ask, AStatus, AValue, StatusOf, ValueOf
<1> QED
  BY <1>6 DEF Abstract!Next

LEMMA ReturnImplements ==
  ASSUME Inv, NEW p \in Procs, InFlight(p), NEW how \in {"answer", "failed"},
         NEW from, Return(p, how, from), how = "answer" => from = call[p] /\ from \in answered,
         UNCHANGED <<asked, answered>>
  PROVE  Abstract!Next
<1> USE DEF Return
<1>1. PICK c \in Calls : c = call[p] /\ c <= calls /\ result[c] = "none"
  BY CallIs DEF Inv
<1>2. calls \in Nat /\ c \in Nat /\ DOMAIN result = Calls /\ DOMAIN value = Calls
  BY Bounds DEF Inv, Core, CallTypes
<1>3. /\ result'[c] = how /\ value'[c] = from
      /\ \A d \in Calls : d # c => result'[d] = result[d] /\ value'[d] = value[d]
  BY <1>1, <1>2
<1>4. StatusOf(c) = "open" /\ AStatus[c] = "open"
  BY <1>1, <1>2 DEF StatusOf, AStatus
<1>5. StatusOf(c)' = IF how = "answer" THEN "answered" ELSE "failed"
  BY <1>1, <1>2, <1>3 DEF StatusOf
<1>6. \A d \in Calls : d # c => StatusOf(d)' = StatusOf(d) /\ ValueOf(d)' = ValueOf(d)
  BY <1>3 DEF StatusOf, ValueOf
<1>7. CASE how = "answer"
  <2>1. AStatus' = [AStatus EXCEPT ![c] = "answered"]
    BY <1>5, <1>6, <1>7 DEF AStatus
  <2>2. ValueOf(c)' = c
    BY <1>1, <1>3, <1>7 DEF ValueOf
  <2>3. AValue' = [AValue EXCEPT ![c] = c]
    BY <1>6, <2>2 DEF AValue
  <2>4. Abstract!Succeed(c)
    BY <1>1, <1>4, <1>7, <2>1, <2>3 DEF Abstract!Succeed, AStatus, AValue, StatusOf, ValueOf
  <2> QED
    BY <2>4 DEF Abstract!Next
<1>8. CASE how = "failed"
  <2>1. AStatus' = [AStatus EXCEPT ![c] = "failed"]
    BY <1>5, <1>6, <1>8 DEF AStatus
  <2>2. ValueOf(c)' = ValueOf(c)
    BY <1>1, <1>3, <1>8 DEF ValueOf
  <2>3. AValue' = AValue
    BY <1>6, <2>2 DEF AValue
  <2>4. Abstract!Fail(c)
    BY <1>4, <2>1, <2>3 DEF Abstract!Fail, AStatus, AValue, StatusOf, ValueOf
  <2> QED
    BY <2>4 DEF Abstract!Next
<1> QED
  BY <1>7, <1>8

LEMMA GotoImplements ==
  ASSUME NEW p \in Procs, NEW label, Goto(p, label), UNCHANGED <<asked, answered>>
  PROVE  UNCHANGED Abstract!vars
BY StutterImplements DEF Goto

LEMMA TakeImplements ==
  ASSUME Inv, NEW p \in Procs, InFlight(p), NEW line, GoodLine(line), Take(p, line),
         UNCHANGED <<asked, answered>>
  PROVE  Abstract!Next \/ UNCHANGED Abstract!vars
<1>1. CASE Mine(p, line) /\ Return(p, IF line.kind = "error" THEN "failed" ELSE "answer", line.answers)
  <2>1. line.answers = call[p] /\ call[p] \in answered
    BY <1>1, MineIsTheAnswer DEF Inv
  <2>2. CASE line.kind = "error"
    BY <1>1, <2>2, ReturnImplements
  <2>3. CASE line.kind # "error"
    BY <1>1, <2>1, <2>3, ReturnImplements
  <2> QED
    BY <2>2, <2>3
<1>2. CASE ~Mine(p, line) /\ Goto(p, "check")
  BY <1>2, GotoImplements
<1> QED
  BY <1>1, <1>2 DEF Take

LEMMA ClientImplements ==
  ASSUME Inv, NEW p \in Procs, Client(p)
  PROVE  Abstract!Next \/ UNCHANGED Abstract!vars
<1> USE DEF serverVars
<1>1. pc[p] # "idle" => InFlight(p)
  BY DEF Inv, Core, Phases, InFlight
<1>2. ASSUME pc[p] # "idle", Return(p, "failed", 0), UNCHANGED <<asked, answered>>
      PROVE  Abstract!Next
  BY <1>1, <1>2, ReturnImplements
<1>3. CASE SendStdio(p)
  <2>1. CASE stdinClosed \/ ended
    BY <1>2, <1>3, <2>1 DEF SendStdio
  <2>2. CASE ~(stdinClosed \/ ended)
    BY <1>3, <2>2, DeliveredImplements DEF SendStdio
  <2> QED
    BY <2>1, <2>2
<1>4. CASE PostReaches(p)
  BY <1>4, DeliveredImplements DEF PostReaches
<1>5. CASE PostReturns(p)
  BY <1>2, <1>5, GotoImplements DEF PostReturns
<1>6. CASE Check(p)
  <2>1. CASE Done(p)
    BY <1>2, <1>6, <2>1 DEF Check
  <2>2. CASE ~Done(p)
    BY <1>6, <2>2, GotoImplements DEF Check
  <2> QED
    BY <2>1, <2>2
<1>7. CASE ReceiveStdio(p)
  <2>1. InFlight(p) /\ UNCHANGED <<asked, answered>>
    BY <1>1, <1>7 DEF ReceiveStdio
  <2>2. CASE wire # <<>> /\ Take(p, Head(wire))
    <3>1. GoodLine(Head(wire))
      BY <2>2, SoundTail DEF Inv, Pipes
    <3> QED
      BY <2>1, <2>2, <3>1, TakeImplements
  <2>3. CASE Return(p, "failed", 0)
    BY <1>2, <1>7, <2>1, <2>3 DEF ReceiveStdio
  <2> QED
    BY <1>7, <2>2, <2>3 DEF ReceiveStdio
<1>8. CASE ReceiveSSE(p)
  <2>1. InFlight(p) /\ UNCHANGED <<asked, answered>>
    BY <1>1, <1>8 DEF ReceiveSSE
  <2>2. CASE messages # <<>> /\ Take(p, Head(messages))
    <3>1. GoodLine(Head(messages))
      BY <2>2, SoundTail DEF Inv, Pipes
    <3> QED
      BY <2>1, <2>2, <3>1, TakeImplements
  <2>3. CASE Return(p, "failed", 0)
    BY <1>2, <1>8, <2>1, <2>3 DEF ReceiveSSE
  <2> QED
    BY <1>8, <2>2, <2>3 DEF ReceiveSSE
<1>9. CASE ReceiveRaced(p)
  BY <1>9, GotoImplements DEF ReceiveRaced
<1> QED
  BY <1>3, <1>4, <1>5, <1>6, <1>7, <1>8, <1>9 DEF Client

LEMMA ServerImplements ==
  ASSUME Inv, Server
  PROVE  Abstract!Next \/ UNCHANGED Abstract!vars
<1> USE DEF callVars, ServerWrites
<1>1. ASSUME NEW c \in Calls, ServerAnswers(c) PROVE Abstract!Next
  <2>1. c \in asked /\ answered' = answered \cup {c} /\ UNCHANGED <<calls, result, value, asked>>
    BY <1>1 DEF ServerAnswers
  <2>2. AStatus' = AStatus /\ AValue' = AValue
    BY <2>1 DEF AStatus, AValue, StatusOf, ValueOf
  <2>3. Abstract!Give(c)
    BY <2>1, <2>2 DEF Abstract!Give, AStatus, AValue, StatusOf, ValueOf
  <2> QED
    BY <2>3 DEF Abstract!Next
<1>2. CASE ServerTalks \/ ServerEnds
  BY <1>2, StutterImplements DEF ServerTalks, ServerEnds
<1> QED
  BY <1>1, <1>2 DEF Server

LEMMA RegistrationImplements ==
  ASSUME Inv, Registration
  PROVE  Abstract!Next \/ UNCHANGED Abstract!vars
<1>1. CASE RegistrarCalls
  BY <1>1, BeginImplements DEF RegistrarCalls, Procs, serverVars
<1>2. CASE ~RegistrarCalls
  <2>1. UNCHANGED <<calls, result, value, asked, answered>>
    BY <1>2 DEF Registration, Connect, FirstMessage, EndpointKnown, ConnectCancelled,
       Initialized, RegistrarReturned, Notify, Listed, RegisterTools, Close, Waited,
       At, callVars, serverVars
  <2> QED
    BY <2>1, StutterImplements
<1> QED
  BY <1>1, <1>2

LEMMA StepImplements ==
  ASSUME Inv, [Next]_vars
  PROVE  [Abstract!Next]_Abstract!vars
<1>1. CASE ReadEvent \/ ReadEnds \/ Shutdown \/ UNCHANGED vars
  BY <1>1, StutterImplements DEF ReadEvent, ReadEnds, Shutdown, vars, callVars, serverVars
<1>2. ASSUME NEW p \in Callers, Abort(p) PROVE UNCHANGED Abstract!vars
  BY <1>2, StutterImplements DEF Abort, serverVars
<1>3. ASSUME NEW p \in Callers, CallTool(p) PROVE Abstract!Next
  BY <1>3, BeginImplements DEF CallTool, Procs, serverVars
<1> QED
  BY <1>1, <1>2, <1>3, RegistrationImplements, ServerImplements, ClientImplements DEF Next

LEMMA InitImplements == Init => Abstract!Init
BY Bounds DEF Init, Abstract!Init

\* No call returns the answer that the server gave to another, whichever
\* caller read it (client.go:161-223).
THEOREM Implementation == Spec => ImplementsCalls
<1>1. Spec => []Inv
  BY Invariant
<1>2. Inv /\ [Next]_vars => [Abstract!Next]_Abstract!vars
  BY StepImplements
<1> QED
  BY <1>1, <1>2, InitImplements, PTL DEF Spec, ImplementsCalls, Abstract!Spec
=============================================================================
