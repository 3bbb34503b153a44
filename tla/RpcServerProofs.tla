-------------------------- MODULE RpcServerProofs --------------------------
(***************************************************************************)
(* Proofs about RpcServer, for every number of requests, calls and lines.  *)
(*                                                                         *)
(* Inv is inductive.  ReaderNeverBlocks and OwnResponse are not inductive  *)
(* alone: that the channel in the reader's hand is empty needs the map to  *)
(* hold only empty channels (Map), and that needs a call to be registered  *)
(* once, under its own id (Numbering, HandlerCalls).  NoLostResponse needs *)
(* an open call to be in the map, in the reader's hand or resolved (Held). *)
(***************************************************************************)
EXTENDS RpcServer, TLAPS

InCall == {"numbered", "registered", "waiting"}

Numbering ==
  /\ nextID = calls
  /\ \A c \in Calls : c <= calls => idOf[c] = c
  /\ \A c \in Calls : c > calls =>
                       chan[c] = "none" /\ result[c] = "none" /\ c \notin asked

Phase(r) ==
  /\ handler[r] \in InCall => call[r] \in 1..calls /\ result[call[r]] = "none"
  /\ handler[r] \notin InCall => call[r] = 0
  /\ handler[r] = "numbered" => chan[call[r]] = "none"
  /\ handler[r] \in {"numbered", "registered"} => call[r] \notin asked
  /\ handler[r] = "done" => replies[r] = IF r \in Notifications THEN 0 ELSE 1
  /\ handler[r] # "done" => replies[r] = 0

Phases == \A r \in Requests : Phase(r)

Distinct == \A r, s \in Requests : r # s /\ call[r] = call[s] => call[r] = 0

Map == \A i \in Calls : pending[i] # 0 =>
          pending[i] = i /\ chan[i] = "empty" /\ i \notin heard

Hand == reader = "deliver" =>
          /\ inHand.ch \in heard \cap Calls /\ inHand.answers = inHand.ch
          /\ pending[inHand.ch] = 0 /\ chan[inHand.ch] = "empty"

Slots == \A c \in Calls :
          /\ chan[c] \in {"full", "taken"} => slot[c] = c /\ c \in heard
          /\ result[c] = "answered" => chan[c] = "taken"

Heard == \A c \in heard : c = 0 \/ c \in asked

Responses == \A k \in 1..Len(stdin) :
       stdin[k].kind = "response" =>
         \/ stdin[k].id = 0 /\ stdin[k].answers = 0
         \/ stdin[k].answers \in asked /\ stdin[k].id = stdin[k].answers

NewRequests == \A k \in 1..Len(stdin) :
       stdin[k].kind = "request" =>
         /\ handler[stdin[k].req] = "new"
         /\ \A j \in 1..Len(stdin) : stdin[j] = stdin[k] => j = k

Held == \A r \in Requests : handler[r] \in {"registered", "waiting"} =>
          \/ pending[call[r]] = call[r]
          \/ chan[call[r]] \in {"full", "closed"}
          \/ reader = "deliver" /\ inHand.ch = call[r]

Exit == reader = "returned" =>
          \A r \in Requests : handler[r] \in {"new", "done"}

Inv == /\ TypeOK /\ Numbering /\ Phases /\ Distinct /\ Map /\ Hand /\ Slots
       /\ Heard /\ Responses /\ NewRequests /\ Held /\ Exit

Core == /\ CallTypes /\ ChanTypes /\ ReaderTypes /\ Numbering /\ Phases
        /\ Distinct /\ Map /\ Hand /\ Slots /\ Heard /\ Held /\ Exit

LEMMA FrameCore ==
  ASSUME Core, UNCHANGED <<callVars, chanVars, readerVars>>
  PROVE  Core'
<1> USE DEF Core, callVars, chanVars, readerVars
<1>1. CallTypes' /\ ChanTypes' /\ ReaderTypes'
  BY DEF CallTypes, ChanTypes, ReaderTypes
<1>2. Numbering' /\ Phases' /\ Distinct'
  BY DEF Numbering, Phases, Phase, Distinct
<1>3. Map' /\ Hand' /\ Slots'
  BY DEF Map, Hand, Slots
<1>4. Heard' /\ Held' /\ Exit'
  BY DEF Heard, Held, Exit
<1> QED BY <1>1, <1>2, <1>3, <1>4

LEMMA RequestLineIsLine == \A r \in Requests : RequestLine(r) \in Lines
BY DEF RequestLine, Lines

LEMMA ResponseLineIsLine ==
  \A i, c \in 0..MaxCalls : ResponseLine(i, c) \in Lines
BY DEF ResponseLine, Lines

LEMMA NoiseIsLine == JunkLine \in Lines /\ HugeLine \in Lines
BY DEF Lines

LEMMA HeadIsLine ==
  ASSUME WrapTypes, stdin # <<>>
  PROVE  /\ Head(stdin) \in Lines /\ Head(stdin) = stdin[1]
         /\ Tail(stdin) \in Seq(Lines)
         /\ Len(Tail(stdin)) = Len(stdin) - 1 /\ Len(stdin) \in Nat \ {0}
         /\ \A k \in 1..Len(Tail(stdin)) : Tail(stdin)[k] = stdin[k + 1]
BY DEF WrapTypes

LEMMA KindOfLine == \A l \in Lines :
  /\ l.kind = "response" => l.id \in 0..MaxCalls /\ l.answers \in 0..MaxCalls
  /\ l.kind = "request" => l.req \in Requests /\ l = RequestLine(l.req)
BY DEF Lines, JunkLine, HugeLine, RequestLine

\* A handler inside SendRequest has a call of its own, sent under its own id.
LEMMA CallOfHandler ==
  ASSUME TypeOK, Numbering, Phases, NEW r \in Requests, handler[r] \in InCall
  PROVE  /\ call[r] \in Calls /\ call[r] <= calls
         /\ idOf[call[r]] = call[r] /\ result[call[r]] = "none"
BY BoundsAssumption DEF TypeOK, CallTypes, Calls, Numbering, Phases, Phase

\* A response read from stdin answers nothing, or a call that was asked.
LEMMA ResponseRead ==
  ASSUME TypeOK, Responses, stdin # <<>>, Head(stdin).kind = "response"
  PROVE  \/ Head(stdin).id = 0 /\ Head(stdin).answers = 0
         \/ /\ Head(stdin).answers \in asked /\ asked \subseteq Calls
            /\ Head(stdin).id = Head(stdin).answers
BY HeadIsLine DEF TypeOK, CallTypes, Responses

LEMMA AppendLine ==
  ASSUME WrapTypes, NEW l \in Lines, stdin' = Append(stdin, l)
  PROVE  /\ stdin' \in Seq(Lines)
         /\ Len(stdin') = Len(stdin) + 1 /\ Len(stdin) \in Nat
         /\ \A k \in 1..Len(stdin) : stdin'[k] = stdin[k]
         /\ stdin'[Len(stdin) + 1] = l
BY DEF WrapTypes

\* Whatever line the wrapper appends, the rest of the peer is not touched.
LEMMA WrapperWritesLine ==
  ASSUME Inv, NEW l \in Lines, WrapperWrites(l),
         l.kind = "response" => \/ l.id = 0 /\ l.answers = 0
                                \/ l.answers \in asked /\ l.id = l.answers,
         l.kind = "request" => /\ handler[l.req] = "new"
                               /\ \A k \in 1..Len(stdin) : stdin[k] # l
  PROVE  Inv'
<1> USE DEF Inv, TypeOK, WrapperWrites
<1>1. Core'
  BY FrameCore DEF Core
<1>2. CtxTypes'
  BY DEF CtxTypes, ctxVars
<1>3. WrapTypes'
  BY BoundsAssumption, AppendLine DEF WrapTypes
<1>4. asked' = asked /\ handler' = handler
  BY DEF callVars
<1>5. Responses'
  BY <1>4, AppendLine DEF Responses
<1>6. NewRequests'
  BY <1>4, AppendLine DEF NewRequests
<1> QED BY <1>1, <1>2, <1>3, <1>5, <1>6 DEF Core

LEMMA Step_WrapperRequests ==
  ASSUME Inv, NEW r \in Requests, WrapperRequests(r)
  PROVE  Inv'
<1>1. RequestLine(r) \in Lines
  BY RequestLineIsLine
<1>2. /\ RequestLine(r).kind = "request" /\ RequestLine(r).req = r
      /\ handler[r] = "new" /\ WrapperWrites(RequestLine(r))
      /\ \A k \in 1..Len(stdin) : stdin[k] # RequestLine(r)
  BY DEF WrapperRequests, RequestLine
<1> QED BY <1>1, <1>2, WrapperWritesLine

LEMMA Step_WrapperResponds ==
  ASSUME Inv, NEW c \in Calls, WrapperResponds(c)
  PROVE  Inv'
<1>1. idOf[c] = c /\ c \in asked
  BY DEF Inv, TypeOK, CallTypes, Numbering, WrapperResponds, Calls
<1>2. ResponseLine(c, c) \in Lines
  BY ResponseLineIsLine DEF Calls
<1>3. ResponseLine(c, c).kind = "response" /\ ResponseLine(c, c).id = c
      /\ ResponseLine(c, c).answers = c
  BY DEF ResponseLine
<1>4. WrapperWrites(ResponseLine(c, c))
  BY <1>1 DEF WrapperResponds
<1> QED BY <1>1, <1>2, <1>3, <1>4, WrapperWritesLine

LEMMA Step_WrapperMisspeaks ==
  ASSUME Inv, WrapperMisspeaks
  PROVE  Inv'
<1>1. CASE WrapperWrites(ResponseLine(0, 0))
  <2>1. ResponseLine(0, 0) \in Lines
    BY ResponseLineIsLine, BoundsAssumption
  <2>2. ResponseLine(0, 0).kind = "response" /\ ResponseLine(0, 0).id = 0
        /\ ResponseLine(0, 0).answers = 0
    BY DEF ResponseLine
  <2> QED BY <1>1, <2>1, <2>2, WrapperWritesLine
<1>2. CASE WrapperWrites(JunkLine)
  <2>1. JunkLine.kind = "junk"
    BY DEF JunkLine
  <2> QED BY <1>2, <2>1, NoiseIsLine, WrapperWritesLine
<1>3. CASE WrapperWrites(HugeLine)
  <2>1. HugeLine.kind = "huge"
    BY DEF HugeLine
  <2> QED BY <1>3, <2>1, NoiseIsLine, WrapperWritesLine
<1> QED BY <1>1, <1>2, <1>3 DEF WrapperMisspeaks

LEMMA Step_WrapperCloses ==
  ASSUME Inv, reader # "returned", WrapperCloses
  PROVE  Inv'
<1> USE BoundsAssumption DEF Inv, TypeOK, Calls, WrapperCloses,
         callVars, chanVars, wrapVars, readerVars, ctxVars
<1>1. Core'
  BY FrameCore DEF Core
<1>2. CtxTypes' /\ Responses' /\ NewRequests'
  BY DEF CtxTypes, Responses, NewRequests
<1>3. WrapTypes'
  BY DEF WrapTypes
<1> QED BY <1>1, <1>2, <1>3 DEF Core

LEMMA Step_TakeId ==
  ASSUME Inv, reader # "returned", NEW r \in Requests, TakeId(r)
  PROVE  Inv'
<1> USE BoundsAssumption DEF Inv, TypeOK, Calls, TakeId, nextRequestID,
         callVars, chanVars, wrapVars, readerVars, ctxVars
<1>1. ChanTypes' /\ WrapTypes' /\ ReaderTypes'
  BY DEF ChanTypes, WrapTypes, ReaderTypes
<1>2. CtxTypes' /\ Map' /\ Hand'
  BY DEF CtxTypes, Map, Hand
<1>3. Slots' /\ Heard' /\ Responses'
  BY DEF Slots, Heard, Responses
<1>4. CallTypes'
  BY DEF CallTypes, InCall, Numbering, Phase, Phases
<1>5. Numbering'
  BY DEF CallTypes, ChanTypes, Numbering
<1>6. Phases'
  BY SMTT(30) DEF CallTypes, ChanTypes, Distinct, Hand, InCall, Map, Numbering, Phase,
     Phases
<1>7. Distinct'
  <2>1. \A s \in Requests : call[s] <= calls
    BY DEF CallTypes, Phases, Phase, InCall
  <2> QED BY <2>1 DEF CallTypes, Distinct
<1>8. NewRequests'
  BY DEF CallTypes, NewRequests, WrapTypes
<1>9. Held'
  BY DEF CallTypes, ChanTypes, Held, ReaderTypes
<1>10. Exit'
  BY DEF CallTypes, Exit, ReaderTypes
<1> QED BY <1>1, <1>2, <1>3, <1>4, <1>5, <1>6, <1>7, <1>8, <1>9, <1>10 DEF
     Core

LEMMA Step_Register ==
  ASSUME Inv, reader # "returned", NEW r \in Requests, Register(r)
  PROVE  Inv'
<1> USE BoundsAssumption DEF Inv, TypeOK, Calls, Register,
         callVars, chanVars, wrapVars, readerVars, ctxVars
<1>1. /\ call[r] \in Calls /\ call[r] <= calls
      /\ idOf[call[r]] = call[r] /\ result[call[r]] = "none"
  BY CallOfHandler DEF InCall
<1>2. WrapTypes' /\ ReaderTypes' /\ CtxTypes'
  BY DEF WrapTypes, ReaderTypes, CtxTypes
<1>3. Distinct' /\ Heard' /\ Responses'
  BY DEF Distinct, Heard, Responses
<1>4. CallTypes'
  BY <1>1 DEF CallTypes
<1>5. ChanTypes'
  BY <1>1 DEF ChanTypes
<1>6. Numbering'
  BY <1>1 DEF CallTypes, ChanTypes, Numbering
<1>7. Phases'
  BY SMTT(30), <1>1 DEF CallTypes, ChanTypes, Distinct, Hand, InCall, Map, Numbering,
     Phase, Phases
<1>8. Map'
  BY SMTT(30), <1>1 DEF CallTypes, ChanTypes, Heard, InCall, Map, Numbering, Phase,
     Phases, ReaderTypes, Responses
<1>9. Hand'
  BY <1>1 DEF CallTypes, ChanTypes, Hand, InCall, Map, Numbering, Phase,
     Phases, ReaderTypes, Responses
<1>10. Slots'
  BY <1>1 DEF CallTypes, ChanTypes, ReaderTypes, Slots
<1>11. NewRequests'
  BY <1>1 DEF CallTypes, NewRequests, WrapTypes
<1>12. Held'
  BY SMTT(30), <1>1 DEF CallTypes, ChanTypes, Held, ReaderTypes
<1>13. Exit'
  BY <1>1 DEF CallTypes, Exit, ReaderTypes
<1> QED BY <1>1, <1>2, <1>3, <1>4, <1>5, <1>6, <1>7, <1>8, <1>9, <1>10,
     <1>11, <1>12, <1>13 DEF Core

LEMMA Step_WriteRequest ==
  ASSUME Inv, reader # "returned", NEW r \in Requests, WriteRequest(r)
  PROVE  Inv'
<1> USE BoundsAssumption DEF Inv, TypeOK, Calls, WriteRequest,
         callVars, chanVars, wrapVars, readerVars, ctxVars
<1>1. /\ call[r] \in Calls /\ call[r] <= calls
      /\ idOf[call[r]] = call[r] /\ result[call[r]] = "none"
  BY CallOfHandler DEF InCall
<1>2. ChanTypes' /\ WrapTypes' /\ ReaderTypes'
  BY DEF ChanTypes, WrapTypes, ReaderTypes
<1>3. CtxTypes' /\ Distinct' /\ Map'
  BY DEF CtxTypes, Distinct, Map
<1>4. Hand' /\ Slots'
  BY DEF Hand, Slots
<1>5. CallTypes'
  BY <1>1 DEF CallTypes
<1>6. Numbering'
  BY <1>1 DEF CallTypes, ChanTypes, Numbering
<1>7. Phases'
  BY SMTT(30), <1>1 DEF CallTypes, ChanTypes, Distinct, Hand, InCall, Map, Numbering,
     Phase, Phases
<1>8. Heard'
  BY <1>1 DEF CallTypes, Heard, ReaderTypes
<1>9. Responses'
  BY <1>1 DEF CallTypes, Responses, WrapTypes
<1>10. NewRequests'
  BY <1>1 DEF CallTypes, InCall, NewRequests, Phase, Phases, WrapTypes
<1>11. Held'
  BY <1>1 DEF CallTypes, ChanTypes, Held, ReaderTypes
<1>12. Exit'
  BY <1>1 DEF CallTypes, Exit, ReaderTypes
<1> QED BY <1>1, <1>2, <1>3, <1>4, <1>5, <1>6, <1>7, <1>8, <1>9, <1>10,
     <1>11, <1>12 DEF Core

LEMMA Step_WriteFails ==
  ASSUME Inv, reader # "returned", NEW r \in Requests, WriteFails(r)
  PROVE  Inv'
<1> USE BoundsAssumption DEF Inv, TypeOK, Calls, WriteFails, Return,
         callVars, chanVars, wrapVars, readerVars, ctxVars
<1>1. /\ call[r] \in Calls /\ call[r] <= calls
      /\ idOf[call[r]] = call[r] /\ result[call[r]] = "none"
  BY CallOfHandler DEF InCall
<1>2. ChanTypes' /\ WrapTypes' /\ ReaderTypes'
  BY DEF ChanTypes, WrapTypes, ReaderTypes
<1>3. CtxTypes' /\ Map' /\ Hand'
  BY DEF CtxTypes, Map, Hand
<1>4. Heard' /\ Responses'
  BY DEF Heard, Responses
<1>5. CallTypes'
  BY <1>1 DEF CallTypes
<1>6. Numbering'
  BY <1>1 DEF CallTypes, ChanTypes, Numbering
<1>7. Phases'
  BY SMTT(30), <1>1 DEF CallTypes, ChanTypes, Distinct, Hand, InCall, Map, Numbering,
     Phase, Phases
<1>8. Distinct'
  BY <1>1 DEF CallTypes, Distinct
<1>9. Slots'
  BY <1>1 DEF CallTypes, ChanTypes, ReaderTypes, Slots
<1>10. NewRequests'
  BY <1>1 DEF CallTypes, NewRequests, WrapTypes
<1>11. Held'
  BY <1>1 DEF CallTypes, ChanTypes, Held, ReaderTypes
<1>12. Exit'
  BY <1>1 DEF CallTypes, Exit, ReaderTypes
<1> QED BY <1>1, <1>2, <1>3, <1>4, <1>5, <1>6, <1>7, <1>8, <1>9, <1>10,
     <1>11, <1>12 DEF Core

LEMMA Step_ReceiveResponse ==
  ASSUME Inv, reader # "returned", NEW r \in Requests, ReceiveResponse(r)
  PROVE  Inv'
<1> USE BoundsAssumption DEF Inv, TypeOK, Calls, ReceiveResponse, Return,
         callVars, chanVars, wrapVars, readerVars, ctxVars
<1>1. /\ call[r] \in Calls /\ call[r] <= calls
      /\ idOf[call[r]] = call[r] /\ result[call[r]] = "none"
  BY CallOfHandler DEF InCall
<1>2. WrapTypes' /\ ReaderTypes' /\ CtxTypes'
  BY DEF WrapTypes, ReaderTypes, CtxTypes
<1>3. Heard' /\ Responses'
  BY DEF Heard, Responses
<1>4. CallTypes'
  BY <1>1 DEF CallTypes
<1>5. ChanTypes'
  BY <1>1 DEF ChanTypes
<1>6. Numbering'
  BY <1>1 DEF CallTypes, ChanTypes, Numbering
<1>7. Phases'
  <2> SUFFICES ASSUME NEW s \in Requests PROVE Phase(s)'
    BY DEF Phases
  <2>1. CASE s = r
    BY <1>1, <2>1 DEF CallTypes, InCall, Phase, Phases
  <2>2. CASE s # r
    <3>1. call[s] = call[r] => call[s] = 0
      BY <2>2 DEF Distinct
    <3> QED
      BY SMTT(30), <1>1, <2>2, <3>1 DEF CallTypes, ChanTypes, InCall, Phase, Phases
  <2> QED
    BY <2>1, <2>2
<1>8. Distinct'
  BY <1>1 DEF CallTypes, Distinct
<1>9. Map'
  BY <1>1 DEF ChanTypes, Map, ReaderTypes
<1>10. Hand'
  BY <1>1 DEF ChanTypes, Hand, ReaderTypes
<1>11. Slots'
  BY SMTT(30), <1>1 DEF CallTypes, ChanTypes, ReaderTypes, Slots
<1>12. NewRequests'
  BY <1>1 DEF CallTypes, NewRequests, WrapTypes
<1>13. Held'
  BY SMTT(30), <1>1 DEF CallTypes, ChanTypes, Distinct, Hand, Held, InCall, Map,
     Numbering, Phase, Phases, ReaderTypes, Responses
<1>14. Exit'
  BY <1>1 DEF CallTypes, Exit, ReaderTypes
<1> QED BY <1>1, <1>2, <1>3, <1>4, <1>5, <1>6, <1>7, <1>8, <1>9, <1>10,
     <1>11, <1>12, <1>13, <1>14 DEF Core

LEMMA Step_ReceiveClosed ==
  ASSUME Inv, reader # "returned", NEW r \in Requests, ReceiveClosed(r)
  PROVE  Inv'
<1> USE BoundsAssumption DEF Inv, TypeOK, Calls, ReceiveClosed, Return,
         callVars, chanVars, wrapVars, readerVars, ctxVars
<1>1. /\ call[r] \in Calls /\ call[r] <= calls
      /\ idOf[call[r]] = call[r] /\ result[call[r]] = "none"
  BY CallOfHandler DEF InCall
<1>2. ChanTypes' /\ WrapTypes' /\ ReaderTypes'
  BY DEF ChanTypes, WrapTypes, ReaderTypes
<1>3. CtxTypes' /\ Map' /\ Hand'
  BY DEF CtxTypes, Map, Hand
<1>4. Heard' /\ Responses'
  BY DEF Heard, Responses
<1>5. CallTypes'
  BY <1>1 DEF CallTypes
<1>6. Numbering'
  BY <1>1 DEF CallTypes, ChanTypes, Numbering
<1>7. Phases'
  BY SMTT(30), <1>1 DEF CallTypes, ChanTypes, Distinct, Hand, InCall, Map, Numbering,
     Phase, Phases
<1>8. Distinct'
  BY <1>1 DEF CallTypes, Distinct
<1>9. Slots'
  BY <1>1 DEF CallTypes, ChanTypes, ReaderTypes, Slots
<1>10. NewRequests'
  BY <1>1 DEF CallTypes, NewRequests, WrapTypes
<1>11. Held'
  BY <1>1 DEF CallTypes, ChanTypes, Held, ReaderTypes
<1>12. Exit'
  BY <1>1 DEF CallTypes, Exit, ReaderTypes
<1> QED BY <1>1, <1>2, <1>3, <1>4, <1>5, <1>6, <1>7, <1>8, <1>9, <1>10,
     <1>11, <1>12 DEF Core

LEMMA Step_ContextDone ==
  ASSUME Inv, reader # "returned", NEW r \in Requests, ContextDone(r)
  PROVE  Inv'
<1> USE BoundsAssumption DEF Inv, TypeOK, Calls, ContextDone, Return,
         callVars, chanVars, wrapVars, readerVars, ctxVars
<1>1. /\ call[r] \in Calls /\ call[r] <= calls
      /\ idOf[call[r]] = call[r] /\ result[call[r]] = "none"
  BY CallOfHandler DEF InCall
<1>2. ChanTypes' /\ WrapTypes' /\ ReaderTypes'
  BY DEF ChanTypes, WrapTypes, ReaderTypes
<1>3. CtxTypes' /\ Map' /\ Hand'
  BY DEF CtxTypes, Map, Hand
<1>4. Heard' /\ Responses'
  BY DEF Heard, Responses
<1>5. CallTypes'
  BY <1>1 DEF CallTypes
<1>6. Numbering'
  BY <1>1 DEF CallTypes, ChanTypes, Numbering
<1>7. Phases'
  BY SMTT(30), <1>1 DEF CallTypes, ChanTypes, Distinct, Hand, InCall, Map, Numbering,
     Phase, Phases
<1>8. Distinct'
  BY <1>1 DEF CallTypes, Distinct
<1>9. Slots'
  BY <1>1 DEF CallTypes, ChanTypes, ReaderTypes, Slots
<1>10. NewRequests'
  BY <1>1 DEF CallTypes, NewRequests, WrapTypes
<1>11. Held'
  BY <1>1 DEF CallTypes, ChanTypes, Held, ReaderTypes
<1>12. Exit'
  BY <1>1 DEF CallTypes, Exit, ReaderTypes
<1> QED BY <1>1, <1>2, <1>3, <1>4, <1>5, <1>6, <1>7, <1>8, <1>9, <1>10,
     <1>11, <1>12 DEF Core

LEMMA Step_Finish ==
  ASSUME Inv, reader # "returned", NEW r \in Requests, Finish(r)
  PROVE  Inv'
<1> USE BoundsAssumption DEF Inv, TypeOK, Calls, Finish,
         callVars, chanVars, wrapVars, readerVars, ctxVars
<1>1. ChanTypes' /\ WrapTypes' /\ ReaderTypes'
  BY DEF ChanTypes, WrapTypes, ReaderTypes
<1>2. CtxTypes' /\ Numbering' /\ Distinct'
  BY DEF CtxTypes, Numbering, Distinct
<1>3. Map' /\ Hand' /\ Slots'
  BY DEF Map, Hand, Slots
<1>4. Heard' /\ Responses'
  BY DEF Heard, Responses
<1>5. CallTypes'
  BY DEF CallTypes
<1>6. Phases'
  BY SMTT(30) DEF CallTypes, ChanTypes, InCall, Phase, Phases
<1>7. NewRequests'
  BY DEF CallTypes, InCall, NewRequests, Phase, Phases, WrapTypes
<1>8. Held'
  BY DEF CallTypes, ChanTypes, Held, ReaderTypes
<1>9. Exit'
  BY DEF CallTypes, Exit, ReaderTypes
<1> QED BY <1>1, <1>2, <1>3, <1>4, <1>5, <1>6, <1>7, <1>8, <1>9 DEF Core

LEMMA Step_DispatchRequest ==
  ASSUME Inv, reader # "returned", DispatchRequest
  PROVE  Inv'
<1> USE BoundsAssumption DEF Inv, TypeOK, Calls, DispatchRequest, ReadLine,
         callVars, chanVars, wrapVars, readerVars, ctxVars
<1>1. Head(stdin).req \in Requests /\ handler[Head(stdin).req] = "new"
  BY HeadIsLine, KindOfLine DEF WrapTypes, NewRequests
<1>2. ChanTypes' /\ ReaderTypes' /\ CtxTypes'
  BY DEF ChanTypes, ReaderTypes, CtxTypes
<1>3. Numbering' /\ Distinct' /\ Map'
  BY DEF Numbering, Distinct, Map
<1>4. Hand' /\ Slots' /\ Heard'
  BY DEF Hand, Slots, Heard
<1>5. CallTypes'
  BY <1>1, HeadIsLine, KindOfLine DEF CallTypes
<1>6. WrapTypes'
  BY <1>1, HeadIsLine, KindOfLine DEF WrapTypes
<1>7. Phases'
  BY <1>1, HeadIsLine, KindOfLine DEF CallTypes, ChanTypes, InCall, Phase,
     Phases
<1>8. Responses'
  BY <1>1, HeadIsLine, KindOfLine DEF CallTypes, Responses, WrapTypes
<1>9. NewRequests'
  <2> DEFINE h == Head(stdin)
  <2>1. \A k \in 2..Len(stdin) : stdin[k].kind = "request" => stdin[k].req # h.req
    <3> SUFFICES ASSUME NEW k \in 2..Len(stdin), stdin[k].kind = "request",
                        stdin[k].req = h.req
                 PROVE  FALSE
      OBVIOUS
    <3>1. stdin[k] \in Lines /\ h \in Lines /\ h = stdin[1] /\ h.kind = "request"
      BY HeadIsLine DEF WrapTypes
    <3>2. stdin[k] = stdin[1]
      BY <3>1, KindOfLine
    <3> QED BY <3>1, <3>2 DEF NewRequests, WrapTypes
  <2>2. \A k \in 1..Len(stdin') :
          stdin'[k] = stdin[k + 1] /\ k + 1 \in 2..Len(stdin)
    BY HeadIsLine DEF WrapTypes
  <2>3. ASSUME NEW k \in 1..Len(stdin'), stdin'[k].kind = "request"
        PROVE  handler'[stdin'[k].req] = "new"
    <3>1. stdin[k + 1] \in Lines /\ stdin[k + 1].kind = "request"
      BY <2>2, <2>3 DEF WrapTypes
    <3>2. stdin[k + 1].req \in Requests /\ stdin[k + 1].req # h.req
      BY <2>1, <2>2, <3>1, KindOfLine
    <3>3. handler[stdin[k + 1].req] = "new"
      BY <2>2, <3>1 DEF NewRequests, WrapTypes
    <3> QED BY <2>2, <3>2, <3>3 DEF CallTypes
  <2>4. ASSUME NEW k \in 1..Len(stdin'), stdin'[k].kind = "request",
               NEW j \in 1..Len(stdin'), stdin'[j] = stdin'[k]
        PROVE  j = k
    BY <2>2, <2>4 DEF NewRequests, WrapTypes
  <2> QED BY <2>3, <2>4 DEF NewRequests
<1>10. Held'
  BY <1>1, HeadIsLine, KindOfLine DEF CallTypes, ChanTypes, Held, ReaderTypes
<1>11. Exit'
  BY <1>1 DEF CallTypes, Exit, ReaderTypes
<1> QED BY <1>1, <1>2, <1>3, <1>4, <1>5, <1>6, <1>7, <1>8, <1>9, <1>10,
     <1>11 DEF Core

LEMMA Step_DispatchResponse ==
  ASSUME Inv, DispatchResponse
  PROVE  Inv'
<1> DEFINE a == Head(stdin).answers
           known == ResolveKnown(Head(stdin).id)
<1> USE BoundsAssumption DEF Inv, TypeOK, Calls
<1>1. \/ Head(stdin).id = 0 /\ a = 0
      \/ a \in asked \cap Calls /\ Head(stdin).id = a
  BY ResponseRead DEF DispatchResponse, ReadLine
<1>2. /\ stdin # <<>> /\ stdin' = Tail(stdin) /\ heard' = heard \cup {a}
      /\ UNCHANGED <<chan, slot, callVars, stdinOpen, lines, ctxVars>>
      /\ reader = "scan"
  BY DEF DispatchResponse, ReadLine
<1>3. ASSUME known
      PROVE  /\ a \in Calls /\ pending[a] = a /\ chan[a] = "empty"
             /\ inHand' = [ch |-> a, answers |-> a] /\ reader' = "deliver"
             /\ pending' = [pending EXCEPT ![a] = 0]
  BY <1>1, <1>3 DEF Map, DispatchResponse, ResolveKnown, ResolveEntry
<1>4. ASSUME ~known
      PROVE  /\ UNCHANGED <<pending, inHand, reader>>
             /\ a \in Calls => pending[a] = 0
  BY <1>1, <1>4 DEF DispatchResponse, ResolveKnown
<1> HIDE DEF known
<1> USE DEF callVars, ctxVars
<1>5. CallTypes' /\ CtxTypes' /\ Numbering'
  BY <1>2 DEF CallTypes, CtxTypes, Numbering
<1>6. Phases' /\ Distinct'
  BY <1>2 DEF Phases, Phase, Distinct
<1>7. ChanTypes'
  <2>1. pending' \in [Calls -> 0..MaxCalls]
    <3>1. CASE known
      <4> HIDE DEF Inv, TypeOK
      <4>1. pending \in [Calls -> 0..MaxCalls] /\ 0 \in 0..MaxCalls
        BY DEF Inv, TypeOK, ChanTypes
      <4>2. pending' = [pending EXCEPT ![a] = 0]
        BY <1>3, <3>1
      <4> HIDE DEF a
      <4> QED BY <4>1, <4>2
    <3>2. CASE ~known
      BY <1>4, <3>2 DEF ChanTypes
    <3> QED BY <3>1, <3>2
  <2> QED BY <1>2, <2>1 DEF ChanTypes
<1>8. WrapTypes'
  BY <1>2, HeadIsLine DEF WrapTypes
<1>9. ReaderTypes'
  <2>1. heard' \subseteq 0..MaxCalls
    <3>1. heard \subseteq 0..MaxCalls
      BY DEF ReaderTypes
    <3>2. a \in 0..MaxCalls
      BY <1>1
    <3> QED BY <1>2, <3>1, <3>2, Zenon
  <2> QED BY <1>3, <1>4, <2>1 DEF ReaderTypes
<1>10. Map'
  BY <1>2, <1>3, <1>4 DEF Map, ChanTypes
<1>11. Hand'
  BY <1>2, <1>3, <1>4 DEF Hand, ChanTypes
<1>12. Slots' /\ Heard'
  BY <1>1, <1>2 DEF Slots, Heard
<1>13. Responses'
  BY <1>2, HeadIsLine DEF Responses, WrapTypes
<1>14. NewRequests'
  BY <1>2, HeadIsLine DEF NewRequests, WrapTypes
<1>15. Held'
  <2>1. CASE known
    <3>1. \A i \in Calls : i # a => pending'[i] = pending[i]
      BY <1>3, <2>1 DEF ChanTypes
    <3> SUFFICES ASSUME NEW r \in Requests, handler[r] \in {"registered", "waiting"}
                 PROVE  \/ pending'[call[r]] = call[r]
                        \/ chan[call[r]] \in {"full", "closed"}
                        \/ reader' = "deliver" /\ inHand'.ch = call[r]
      BY <1>2 DEF Held
    <3>2. call[r] \in Calls
      BY CallOfHandler DEF InCall
    <3>3. pending[call[r]] = call[r] \/ chan[call[r]] \in {"full", "closed"}
      BY <1>2 DEF Held
    <3> QED BY <1>3, <2>1, <3>1, <3>2, <3>3
  <2>2. CASE ~known
    BY <1>2, <1>4, <2>2 DEF Held
  <2> QED BY <2>1, <2>2
<1>16. Exit'
  BY <1>2, <1>3, <1>4 DEF Exit
<1> QED BY <1>5, <1>6, <1>7, <1>8, <1>9, <1>10, <1>11, <1>12, <1>13, <1>14,
           <1>15, <1>16

LEMMA Step_DispatchJunk ==
  ASSUME Inv, reader # "returned", DispatchJunk
  PROVE  Inv'
<1> USE BoundsAssumption DEF Inv, TypeOK, Calls, DispatchJunk, ReadLine,
         callVars, chanVars, wrapVars, readerVars, ctxVars
<1>1. Core'
  BY FrameCore DEF Core
<1>2. CtxTypes'
  BY DEF CtxTypes
<1>3. WrapTypes'
  BY HeadIsLine, KindOfLine DEF WrapTypes
<1>4. Responses'
  BY HeadIsLine, KindOfLine DEF CallTypes, Responses, WrapTypes
<1>5. NewRequests'
  BY HeadIsLine, KindOfLine DEF CallTypes, NewRequests, WrapTypes
<1> QED BY <1>1, <1>2, <1>3, <1>4, <1>5 DEF Core

LEMMA Step_Deliver ==
  ASSUME Inv, reader # "returned", Deliver
  PROVE  Inv'
<1> USE BoundsAssumption DEF Inv, TypeOK, Calls, Deliver, NoHand,
         callVars, chanVars, wrapVars, readerVars, ctxVars
<1>1. /\ inHand.ch \in heard \cap Calls /\ inHand.answers = inHand.ch
      /\ pending[inHand.ch] = 0 /\ chan[inHand.ch] = "empty"
  BY DEF Hand
<1>2. CallTypes' /\ WrapTypes' /\ CtxTypes'
  BY DEF CallTypes, WrapTypes, CtxTypes
<1>3. Distinct' /\ Heard' /\ Responses'
  BY DEF Distinct, Heard, Responses
<1>4. NewRequests'
  BY DEF NewRequests
<1>5. ChanTypes'
  BY <1>1 DEF ChanTypes, ReaderTypes
<1>6. ReaderTypes'
  BY <1>1 DEF ReaderTypes
<1>7. Numbering'
  BY <1>1 DEF CallTypes, ChanTypes, Numbering, ReaderTypes
<1>8. Phases'
  BY <1>1 DEF CallTypes, ChanTypes, InCall, Phase, Phases, ReaderTypes
<1>9. Map'
  BY <1>1 DEF ChanTypes, Map, ReaderTypes
<1>10. Hand'
  BY <1>1 DEF ChanTypes, Hand, ReaderTypes
<1>11. Slots'
  BY <1>1 DEF CallTypes, ChanTypes, ReaderTypes, Slots
<1>12. Held'
  BY <1>1 DEF CallTypes, ChanTypes, Held, ReaderTypes
<1>13. Exit'
  BY <1>1 DEF CallTypes, Exit, ReaderTypes
<1> QED BY <1>1, <1>2, <1>3, <1>4, <1>5, <1>6, <1>7, <1>8, <1>9, <1>10,
     <1>11, <1>12, <1>13 DEF Core

LEMMA Step_ScanCancelled ==
  ASSUME Inv, reader # "returned", ScanCancelled
  PROVE  Inv'
<1> USE BoundsAssumption DEF Inv, TypeOK, Calls, ScanCancelled,
         callVars, chanVars, wrapVars, readerVars, ctxVars
<1>1. CallTypes' /\ ChanTypes' /\ CtxTypes'
  BY DEF CallTypes, ChanTypes, CtxTypes
<1>2. Numbering' /\ Phases' /\ Distinct'
  BY DEF Numbering, Phases, Phase, Distinct
<1>3. Map' /\ Slots' /\ Heard'
  BY DEF Map, Slots, Heard
<1>4. WrapTypes'
  BY HeadIsLine, KindOfLine DEF WrapTypes
<1>5. ReaderTypes'
  BY HeadIsLine, KindOfLine DEF ReaderTypes
<1>6. Hand'
  BY HeadIsLine, KindOfLine DEF ChanTypes, Hand, ReaderTypes
<1>7. Responses'
  BY HeadIsLine, KindOfLine DEF CallTypes, Responses, WrapTypes
<1>8. NewRequests'
  BY HeadIsLine, KindOfLine DEF CallTypes, NewRequests, WrapTypes
<1>9. Held'
  BY HeadIsLine, KindOfLine DEF CallTypes, ChanTypes, Held, ReaderTypes
<1>10. Exit'
  BY DEF CallTypes, Exit, ReaderTypes
<1> QED BY <1>1, <1>2, <1>3, <1>4, <1>5, <1>6, <1>7, <1>8, <1>9, <1>10 DEF
     Core

LEMMA Step_ScanEOF ==
  ASSUME Inv, reader # "returned", ScanEOF
  PROVE  Inv'
<1> USE BoundsAssumption DEF Inv, TypeOK, Calls, ScanEOF,
         callVars, chanVars, wrapVars, readerVars, ctxVars
<1>1. CallTypes' /\ ChanTypes' /\ WrapTypes'
  BY DEF CallTypes, ChanTypes, WrapTypes
<1>2. CtxTypes' /\ Numbering' /\ Phases'
  BY DEF CtxTypes, Numbering, Phases, Phase
<1>3. Distinct' /\ Map' /\ Slots'
  BY DEF Distinct, Map, Slots
<1>4. Heard' /\ Responses' /\ NewRequests'
  BY DEF Heard, Responses, NewRequests
<1>5. ReaderTypes'
  BY DEF ReaderTypes
<1>6. Hand'
  BY DEF ChanTypes, Hand, ReaderTypes
<1>7. Held'
  BY DEF CallTypes, ChanTypes, Held, ReaderTypes
<1>8. Exit'
  BY DEF CallTypes, Exit, ReaderTypes
<1> QED BY <1>1, <1>2, <1>3, <1>4, <1>5, <1>6, <1>7, <1>8 DEF Core

LEMMA Step_ScanFails ==
  ASSUME Inv, reader # "returned", ScanFails
  PROVE  Inv'
<1> USE BoundsAssumption DEF Inv, TypeOK, Calls, ScanFails,
         callVars, chanVars, wrapVars, readerVars, ctxVars
<1>1. CallTypes' /\ ChanTypes' /\ WrapTypes'
  BY DEF CallTypes, ChanTypes, WrapTypes
<1>2. CtxTypes' /\ Numbering' /\ Phases'
  BY DEF CtxTypes, Numbering, Phases, Phase
<1>3. Distinct' /\ Map' /\ Slots'
  BY DEF Distinct, Map, Slots
<1>4. Heard' /\ Responses' /\ NewRequests'
  BY DEF Heard, Responses, NewRequests
<1>5. ReaderTypes'
  BY DEF ReaderTypes
<1>6. Hand'
  BY DEF ChanTypes, Hand, ReaderTypes
<1>7. Held'
  BY DEF CallTypes, ChanTypes, Held, ReaderTypes
<1>8. Exit'
  BY DEF CallTypes, Exit, ReaderTypes
<1> QED BY <1>1, <1>2, <1>3, <1>4, <1>5, <1>6, <1>7, <1>8 DEF Core

LEMMA Step_ServeReturns ==
  ASSUME Inv, reader # "returned", ServeReturns
  PROVE  Inv'
<1> USE BoundsAssumption DEF Inv, TypeOK, Calls, ServeReturns,
         callVars, chanVars, wrapVars, readerVars, ctxVars
<1>1. CallTypes' /\ ChanTypes' /\ WrapTypes'
  BY DEF CallTypes, ChanTypes, WrapTypes
<1>2. CtxTypes' /\ Numbering' /\ Phases'
  BY DEF CtxTypes, Numbering, Phases, Phase
<1>3. Distinct' /\ Map' /\ Slots'
  BY DEF Distinct, Map, Slots
<1>4. Heard' /\ Responses' /\ NewRequests'
  BY DEF Heard, Responses, NewRequests
<1>5. ReaderTypes'
  BY DEF ReaderTypes
<1>6. Hand'
  BY DEF ChanTypes, Hand, ReaderTypes
<1>7. Held'
  BY DEF CallTypes, ChanTypes, Held, ReaderTypes
<1>8. Exit'
  BY DEF CallTypes, Exit, ReaderTypes
<1> QED BY <1>1, <1>2, <1>3, <1>4, <1>5, <1>6, <1>7, <1>8 DEF Core

LEMMA Step_Signal ==
  ASSUME Inv, reader # "returned", Signal
  PROVE  Inv'
<1> USE BoundsAssumption DEF Inv, TypeOK, Calls, Signal,
         callVars, chanVars, wrapVars, readerVars, ctxVars
<1>1. Core'
  BY FrameCore DEF Core
<1>2. WrapTypes' /\ Responses' /\ NewRequests'
  BY DEF WrapTypes, Responses, NewRequests
<1>3. CtxTypes'
  BY DEF CtxTypes
<1> QED BY <1>1, <1>2, <1>3 DEF Core

LEMMA Step_CancelAll ==
  ASSUME Inv, reader # "returned", CancelAll
  PROVE  Inv'
<1> USE BoundsAssumption DEF Inv, TypeOK, Calls, CancelAll,
         callVars, chanVars, wrapVars, readerVars, ctxVars
<1>1. \A c \in Calls : \/ chan'[c] = chan[c] /\ pending[c] = 0
                       \/ chan'[c] = "closed" /\ pending[c] = c /\ chan[c] = "empty"
  <2> TAKE c \in Calls
  <2>1. CASE pending[c] = 0
    <3>1. ~ \E i \in Calls : pending[i] = c
      <4> SUFFICES ASSUME NEW i \in Calls, pending[i] = c PROVE FALSE
        OBVIOUS
      <4>1. pending[i] = i
        BY DEF Map
      <4> QED BY <2>1, <4>1
    <3> QED BY <2>1, <3>1
  <2>2. CASE pending[c] # 0
    BY <2>2 DEF ChanTypes, Map
  <2> QED BY <2>1, <2>2
<1>2. CallTypes' /\ WrapTypes' /\ ReaderTypes'
  BY DEF CallTypes, WrapTypes, ReaderTypes
<1>3. Distinct' /\ Heard' /\ Responses'
  BY DEF Distinct, Heard, Responses
<1>4. NewRequests' /\ Exit'
  BY DEF NewRequests, Exit
<1>5. ChanTypes'
  BY <1>1 DEF ChanTypes
<1>6. CtxTypes'
  BY <1>1 DEF CtxTypes
<1>7. Numbering'
  BY <1>1 DEF CallTypes, ChanTypes, Numbering
<1>8. Phases'
  <2> SUFFICES ASSUME NEW r \in Requests PROVE Phase(r)'
    BY DEF Phases
  <2> QED BY SMTT(30), <1>1 DEF CallTypes, InCall, Phase, Phases
<1>9. Map'
  BY <1>1 DEF ChanTypes, Map, ReaderTypes
<1>10. Hand'
  <2> SUFFICES ASSUME reader = "deliver"
               PROVE  chan'[inHand.ch] = "empty" /\ pending'[inHand.ch] = 0
    BY DEF Hand
  <2>1. /\ inHand.ch \in Calls /\ pending[inHand.ch] = 0
        /\ chan[inHand.ch] = "empty"
    BY DEF Hand
  <2> QED BY <1>1, <2>1
<1>11. Slots'
  BY <1>1 DEF CallTypes, ChanTypes, ReaderTypes, Slots
<1>12. Held'
  BY <1>1 DEF CallTypes, ChanTypes, Distinct, Hand, Held, InCall, Map,
     Numbering, Phase, Phases, ReaderTypes, Responses
<1> QED BY <1>1, <1>2, <1>3, <1>4, <1>5, <1>6, <1>7, <1>8, <1>9, <1>10,
     <1>11, <1>12 DEF Core

----------------------------------------------------------------------------
LEMMA InitInv == Init => Inv
<1> SUFFICES ASSUME Init PROVE Inv
  OBVIOUS
<1> USE BoundsAssumption DEF Init, Calls
<1>1. TypeOK
  <2>1. CallTypes /\ ChanTypes
    BY DEF CallTypes, ChanTypes
  <2>2. WrapTypes /\ CtxTypes
    <3>1. stdin \in Seq(Lines)
      OBVIOUS
    <3>2. stdinOpen \in BOOLEAN /\ cancelled \in BOOLEAN /\ swept \in BOOLEAN
      BY Zenon
    <3>3. lines \in 0..MaxLines
      OBVIOUS
    <3> QED BY <3>1, <3>2, <3>3 DEF WrapTypes, CtxTypes
  <2>3. ReaderTypes
    BY DEF ReaderTypes, NoHand
  <2> QED BY <2>1, <2>2, <2>3 DEF TypeOK
<1>2. Numbering /\ Phases /\ Distinct
  BY DEF Numbering, Phases, Phase, Distinct, InCall
<1>3. Map /\ Hand /\ Slots /\ Heard
  BY DEF Map, Hand, Slots, Heard
<1>4. Responses /\ NewRequests /\ Held /\ Exit
  BY DEF Responses, NewRequests, Held, Exit
<1> QED BY <1>1, <1>2, <1>3, <1>4 DEF Inv

LEMMA StutterInv == Inv /\ UNCHANGED vars => Inv'
<1> SUFFICES ASSUME Inv, UNCHANGED vars PROVE Inv'
  OBVIOUS
<1> USE DEF vars, Inv, TypeOK
<1>1. Core'
  BY FrameCore DEF Core
<1>2. WrapTypes' /\ CtxTypes'
  BY DEF WrapTypes, CtxTypes, wrapVars, ctxVars
<1>3. Responses' /\ NewRequests'
  BY DEF Responses, NewRequests, wrapVars, callVars
<1> QED BY <1>1, <1>2, <1>3 DEF Core

LEMMA NextInv == Inv /\ [Next]_vars => Inv'
<1> SUFFICES ASSUME Inv, [Next]_vars PROVE Inv'
  OBVIOUS
<1>1. CASE UNCHANGED vars
  BY <1>1, StutterInv
<1>2. CASE reader # "returned" /\ Wrapper
  BY <1>2, Step_WrapperRequests, Step_WrapperResponds, Step_WrapperMisspeaks,
     Step_WrapperCloses DEF Wrapper
<1>3. CASE reader # "returned" /\ Serve
  BY <1>3, Step_DispatchRequest, Step_DispatchResponse, Step_DispatchJunk,
     Step_Deliver, Step_ScanCancelled, Step_ScanEOF, Step_ScanFails, Step_ServeReturns DEF Serve
<1>4. CASE reader # "returned" /\ (Signal \/ CancelAll)
  BY <1>4, Step_Signal, Step_CancelAll
<1>5. CASE reader # "returned" /\ \E r \in Requests : Handler(r)
  BY <1>5, Step_TakeId, Step_Register, Step_WriteRequest, Step_WriteFails,
     Step_ReceiveResponse, Step_ReceiveClosed, Step_ContextDone, Step_Finish
     DEF Handler, SendRequest
<1> QED BY <1>1, <1>2, <1>3, <1>4, <1>5 DEF Next, Exited

\* Inv, and with it every type, holds in every state the peer reaches.
THEOREM Invariant == Spec => []Inv
BY InitInv, NextInv, PTL DEF Spec

\* The types of the peer's variables.
THEOREM TypeCorrect == Spec => []TypeOK
<1>1. Inv => TypeOK
  BY DEF Inv
<1> QED BY <1>1, Invariant, PTL

\* Resolve's channel send, made outside the lock, finds an empty open channel:
\* duplicates, late responses and CancelAll can neither block nor crash Serve.
THEOREM ReaderIsNeverBlocked == Spec => []ReaderNeverBlocks
<1>1. Inv => ReaderNeverBlocks
  BY DEF Inv, Hand, ReaderNeverBlocks
<1> QED BY <1>1, Invariant, PTL

\* SendRequest returns only a response to its own call.
THEOREM ResponsesGoHome == Spec => []OwnResponse
<1>1. Inv => OwnResponse
  BY DEF Inv, Slots, OwnResponse
<1> QED BY <1>1, Invariant, PTL

\* A response read while its caller waits is on its way to that caller.
THEOREM ResponsesAreNotLost == Spec => []NoLostResponse
<1>1. Inv => NoLostResponse
  <2> SUFFICES ASSUME Inv, NEW r \in Requests,
                      handler[r] = "waiting", call[r] \in heard
               PROVE  \/ chan[call[r]] \in {"full", "closed"}
                      \/ reader = "deliver" /\ inHand.ch = call[r]
    BY DEF NoLostResponse
  <2>1. call[r] \in Calls
    BY CallOfHandler DEF Inv, InCall
  <2>2. pending[call[r]] = 0
    BY <2>1 DEF Inv, Map
  <2> QED BY <2>1, <2>2 DEF Inv, Held, Calls
<1> QED BY <1>1, Invariant, PTL

\* When Serve returns, every handler has finished and replied exactly once,
\* notifications not at all.
THEOREM ExitIsQuiet == Spec => []QuietExit
<1>1. Inv => QuietExit
  BY DEF Inv, Exit, Phases, Phase, QuietExit
<1> QED BY <1>1, Invariant, PTL

----------------------------------------------------------------------------
\* The abstract state, as the refinement mapping of RpcServer defines it.
StatusOf(c) == IF c > calls THEN "new"
               ELSE IF result[c] = "none" THEN "open"
               ELSE IF result[c] = "answered" THEN "answered" ELSE "failed"
ValueOf(c) == IF result[c] = "answered" THEN slot[c] ELSE 0

AStatus == [c \in Calls |-> StatusOf(c)]
AValue == [c \in Calls |-> ValueOf(c)]
AGiven == heard \ {0}

AStutter == /\ AStatus' = AStatus /\ AValue' = AValue
            /\ AGiven' = AGiven /\ asked' = asked

LEMMA AbstractStutter == AStutter => UNCHANGED Abstract!vars
BY DEF AStutter, AStatus, AValue, AGiven, StatusOf, ValueOf, Abstract!vars

\* Taking an id begins the call.
LEMMA TakeIdBegins ==
  ASSUME Inv, NEW r \in Requests, TakeId(r)
  PROVE  Abstract!Next
<1> USE BoundsAssumption DEF Inv, TypeOK, Calls, TakeId, chanVars, readerVars
<1>1. calls + 1 \in Calls /\ result[calls + 1] = "none"
  BY DEF Numbering, CallTypes
<1>2. AStatus[calls + 1] = "new"
  BY <1>1 DEF AStatus, StatusOf, CallTypes
<1>3. AStatus' = [AStatus EXCEPT ![calls + 1] = "open"]
  <2>1. \A c \in Calls : StatusOf(c)' = IF c = calls + 1 THEN "open" ELSE StatusOf(c)
    BY <1>1 DEF StatusOf, CallTypes
  <2> QED BY <2>1 DEF AStatus
<1>4. AValue' = AValue /\ AGiven' = AGiven /\ asked' = asked
  BY DEF AValue, ValueOf, AGiven
<1>5. PICK c \in Calls : c = calls + 1
  BY <1>1
<1>6. Abstract!Begin(c)
  BY <1>2, <1>3, <1>4, <1>5
     DEF Abstract!Begin, AStatus, AValue, AGiven, StatusOf, ValueOf
<1> QED BY <1>6 DEF Abstract!Next

\* Writing the request line asks the wrapper.
LEMMA WriteRequestAsks ==
  ASSUME Inv, NEW r \in Requests, WriteRequest(r)
  PROVE  Abstract!Next
<1> USE DEF Inv, WriteRequest, chanVars, readerVars
<1>1. call[r] \in Calls /\ call[r] <= calls /\ result[call[r]] = "none"
  BY CallOfHandler DEF InCall
<1>2. AStatus[call[r]] = "open"
  BY <1>1 DEF AStatus, StatusOf, TypeOK, CallTypes, Calls
<1>3. AStatus' = AStatus /\ AValue' = AValue /\ AGiven' = AGiven
  BY DEF AStatus, StatusOf, AValue, ValueOf, AGiven
<1>4. Abstract!Ask(call[r])
  BY <1>2, <1>3 DEF Abstract!Ask, AStatus, AValue, AGiven, StatusOf, ValueOf
<1> QED BY <1>1, <1>4 DEF Abstract!Next

\* A call whose SendRequest returns an error fails.
LEMMA ReturnFails ==
  ASSUME Inv, NEW r \in Requests, handler[r] \in InCall,
         NEW how \in {"failed", "closed", "ctx"}, Return(r, how)
  PROVE  Abstract!Next
<1> USE DEF Inv, Return, readerVars
<1>1. call[r] \in Calls /\ call[r] <= calls /\ result[call[r]] = "none"
  BY CallOfHandler
<1>2. AStatus[call[r]] = "open"
  BY <1>1 DEF AStatus, StatusOf, TypeOK, CallTypes, Calls
<1>3. AStatus' = [AStatus EXCEPT ![call[r]] = "failed"]
  <2>1. \A c \in Calls : StatusOf(c)' = IF c = call[r] THEN "failed" ELSE StatusOf(c)
    BY <1>1 DEF StatusOf, TypeOK, CallTypes, Calls
  <2> QED BY <2>1 DEF AStatus
<1>4. AValue' = AValue /\ AGiven' = AGiven /\ asked' = asked
  BY <1>1 DEF AValue, ValueOf, AGiven, TypeOK, CallTypes
<1>5. PICK c \in Calls : c = call[r]
  BY <1>1
<1>6. Abstract!Fail(c)
  BY <1>2, <1>3, <1>4, <1>5
     DEF Abstract!Fail, AStatus, AValue, AGiven, StatusOf, ValueOf
<1> QED BY <1>6 DEF Abstract!Next

\* Taking the response out of the channel answers the call.
LEMMA ReceiveSucceeds ==
  ASSUME Inv, NEW r \in Requests, ReceiveResponse(r)
  PROVE  Abstract!Next
<1> USE DEF Inv, ReceiveResponse, Return, readerVars
<1>1. call[r] \in Calls /\ call[r] <= calls /\ result[call[r]] = "none"
  BY CallOfHandler DEF InCall
<1>2. slot[call[r]] = call[r] /\ call[r] \in AGiven
  BY <1>1 DEF Slots, AGiven, Calls
<1>3. AStatus[call[r]] = "open"
  BY <1>1 DEF AStatus, StatusOf, TypeOK, CallTypes, Calls
<1>4. AStatus' = [AStatus EXCEPT ![call[r]] = "answered"]
  <2>1. \A c \in Calls : StatusOf(c)' = IF c = call[r] THEN "answered" ELSE StatusOf(c)
    BY <1>1 DEF StatusOf, TypeOK, CallTypes, Calls
  <2> QED BY <2>1 DEF AStatus
<1>5. AValue' = [AValue EXCEPT ![call[r]] = call[r]]
  BY <1>1, <1>2 DEF AValue, ValueOf, TypeOK, CallTypes, ChanTypes
<1>6. AGiven' = AGiven /\ asked' = asked
  BY DEF AGiven
<1>7. PICK c \in Calls : c = call[r]
  BY <1>1
<1>8. Abstract!Succeed(c)
  BY <1>2, <1>3, <1>4, <1>5, <1>6, <1>7
     DEF Abstract!Succeed, AStatus, AValue, AGiven, StatusOf, ValueOf
<1> QED BY <1>8 DEF Abstract!Next

\* Reading a response line gives an answer, or nothing when it answers no call.
LEMMA DispatchGives ==
  ASSUME Inv, DispatchResponse
  PROVE  Abstract!Next \/ AStutter
<1> USE DEF Inv, DispatchResponse, ReadLine, callVars
<1>1. heard' = heard \cup {Head(stdin).answers}
  OBVIOUS
<1>2. AStatus' = AStatus /\ AValue' = AValue /\ asked' = asked
  BY DEF AStatus, StatusOf, AValue, ValueOf
<1>3. CASE Head(stdin).answers = 0
  BY <1>1, <1>2, <1>3 DEF AStutter, AGiven
<1>4. CASE Head(stdin).answers # 0
  <2>1. Head(stdin).answers \in asked /\ asked \subseteq Calls
    BY <1>4, ResponseRead
  <2>2. AGiven' = AGiven \cup {Head(stdin).answers}
    BY <1>1, <1>4 DEF AGiven
  <2>3. Abstract!Give(Head(stdin).answers)
    BY <1>2, <2>1, <2>2
       DEF Abstract!Give, AStatus, AValue, AGiven, StatusOf, ValueOf
  <2> QED BY <2>1, <2>3 DEF Abstract!Next
<1> QED BY <1>3, <1>4

\* Delivery fills the channel of a call that is still open.
LEMMA DeliverStutters ==
  ASSUME Inv, Deliver
  PROVE  AStutter
<1> USE DEF Inv, Deliver, callVars
<1>1. inHand.ch \in Calls /\ chan[inHand.ch] = "empty"
  BY DEF Hand
<1>2. result[inHand.ch] # "answered"
  BY <1>1 DEF Slots
<1>3. AValue' = AValue
  BY <1>1, <1>2 DEF AValue, ValueOf, TypeOK, ChanTypes
<1> QED BY <1>3 DEF AStutter, AStatus, StatusOf, AGiven

LEMMA OthersStutter ==
  ASSUME UNCHANGED <<calls, result, slot, heard, asked>>
  PROVE  AStutter
BY DEF AStutter, AStatus, StatusOf, AValue, ValueOf, AGiven

LEMMA StepImplements == Inv /\ [Next]_vars => [Abstract!Next]_Abstract!vars
<1> SUFFICES ASSUME Inv, [Next]_vars PROVE Abstract!Next \/ UNCHANGED Abstract!vars
  OBVIOUS
<1> USE DEF vars, callVars, chanVars, wrapVars, readerVars, ctxVars
<1>1. CASE UNCHANGED vars
  BY <1>1, OthersStutter, AbstractStutter
<1>2. CASE Wrapper
  BY <1>2, OthersStutter, AbstractStutter DEF Wrapper, WrapperRequests,
     WrapperResponds, WrapperMisspeaks, WrapperWrites, WrapperCloses
<1>3. CASE Serve
  <2>1. CASE DispatchRequest \/ DispatchJunk \/ ScanCancelled \/ ScanEOF
             \/ ScanFails \/ ServeReturns
    BY <2>1, OthersStutter, AbstractStutter DEF DispatchRequest, DispatchJunk,
       ScanCancelled, ScanEOF, ScanFails, ServeReturns, ReadLine
  <2> QED BY <1>3, <2>1, DispatchGives, DeliverStutters, AbstractStutter DEF Serve
<1>4. CASE Signal \/ CancelAll
  BY <1>4, OthersStutter, AbstractStutter DEF Signal, CancelAll
<1>5. ASSUME NEW r \in Requests, Handler(r)
      PROVE  Abstract!Next \/ UNCHANGED Abstract!vars
  <2>1. CASE Register(r) \/ Finish(r)
    BY <2>1, OthersStutter, AbstractStutter DEF Register, Finish
  <2>2. CASE WriteFails(r) \/ ReceiveClosed(r) \/ ContextDone(r)
    BY <2>2, ReturnFails DEF WriteFails, ReceiveClosed, ContextDone, InCall
  <2> QED BY <1>5, <2>1, <2>2, TakeIdBegins, WriteRequestAsks, ReceiveSucceeds
          DEF Handler, SendRequest
<1> QED BY <1>1, <1>2, <1>3, <1>4, <1>5 DEF Next, Exited

LEMMA InitImplements == Init => Abstract!Init
BY BoundsAssumption DEF Init, Abstract!Init, Calls

\* The peer implements the abstract calls: every SendRequest ends at most
\* once, in failure or with an answer given to it after it was asked.
THEOREM Implementation == Spec => ImplementsCalls
<1>1. Spec => []Inv
  BY Invariant
<1> QED BY <1>1, InitImplements, StepImplements, PTL
        DEF Spec, ImplementsCalls, Abstract!Spec
=============================================================================
