----------------------------- MODULE MCPClient -----------------------------
(***************************************************************************)
(* A client of one MCP server: internal/mcp/client.go, transport.go and    *)
(* tool.go.                                                                *)
(*                                                                         *)
(* mcp.register (the Registrar) connects over stdio (a child process) or   *)
(* SSE (a stream of events to read, a POST for every request), shakes      *)
(* hands and lists the tools.  From then on any number of callers may be   *)
(* in Client.call at a time: the children of coordinate_tasks share the    *)
(* tools of their parent.  Every caller sends its request and then reads   *)
(* lines itself until one carries its own id; a line it does not want is   *)
(* dropped.  Nothing hands it to the caller that does.                     *)
(*                                                                         *)
(* The server is external: it answers a request once, late or never, sends *)
(* lines that answer nothing, and ends at any moment.                      *)
(***************************************************************************)
EXTENDS Integers, Sequences, FiniteSets

CONSTANTS
  Callers,     \* goroutines that execute tools of this server
  Registrar,   \* the handler of mcp.register
  Transports,  \* the transports configured: a subset of {"stdio", "sse"}
  QueueCap,    \* capacity of SSETransport.messages (64 in the code)
  MaxCalls,    \* bound: calls in one behaviour, the two of registration included
  MaxNoise     \* bound: lines of the server that answer nothing

ASSUME CallersAssumption == Registrar \notin Callers
ASSUME TransportsAssumption == Transports \subseteq {"stdio", "sse"}
ASSUME BoundsAssumption ==
  QueueCap \in Nat \ {0} /\ MaxCalls \in Nat \ {0, 1} /\ MaxNoise \in Nat

VARIABLES
  transport, \* the transport of this client
  stage,     \* how far RegisterMCPServer and its handler have come
  tools,     \* the engine has tools of this server
  pc,        \* where each process is in Client.call
  call,      \* the call it is in, 0 when in none
  calls,     \* number of calls begun so far
  nextID,    \* Client.nextID
  idOf,      \* the id a call was sent under
  result,    \* how a call ended
  value,     \* the call that the answer it returned was given to
  postURL,   \* SSE: the endpoint event has been read
  wire,      \* lines the server has written and nobody has read
  messages,  \* SSETransport.messages
  readerDone,\* SSE: readSSE has returned
  stdinClosed,
  aborted,   \* processes whose own context is done
  shutdown,  \* the process context is done
  inbox,     \* methods in the order the server has received them
  asked,     \* calls whose request the server has received
  answered,  \* calls it has answered
  noise,     \* number of its lines that answer nothing
  ended,     \* the server's output has ended
  crowded,   \* history: calls that were under way beside another
  dropped    \* history: calls whose answer found the queue full

regVars    == <<transport, stage, tools>>
callVars   == <<pc, call, calls, nextID, idOf, result, value, crowded, aborted>>
pipeVars   == <<postURL, wire, messages, readerDone, stdinClosed, dropped>>
serverVars == <<inbox, asked, answered, noise, ended>>
vars == <<regVars, callVars, pipeVars, serverVars, shutdown>>

Procs == Callers \cup {Registrar}
Calls == 1..MaxCalls

\* A line by what Client.call makes of it: id 0 stands for a notification, a
\* line that does not parse and the dummy of the endpoint event alike.
Line(id, c, kind) == [id |-> id, answers |-> c, kind |-> kind]
Noise == Line(0, 0, "noise")
Endpoint == Line(0, 0, "endpoint")
Lines == [id : 0..MaxCalls, answers : 0..MaxCalls,
          kind : {"noise", "endpoint", "result", "error"}]

Done(p) == shutdown \/ p \in aborted
InFlight(p) == call[p] # 0

Init ==
  /\ transport \in Transports
  /\ stage = "connect" /\ tools = FALSE
  /\ pc = [p \in Procs |-> "idle"]
  /\ call = [p \in Procs |-> 0]
  /\ calls = 0 /\ nextID = 0
  /\ idOf = [c \in Calls |-> 0]
  /\ result = [c \in Calls |-> "none"]
  /\ value = [c \in Calls |-> 0]
  /\ postURL = FALSE /\ wire = <<>> /\ messages = <<>>
  /\ readerDone = FALSE /\ stdinClosed = FALSE
  /\ aborted = {} /\ shutdown = FALSE
  /\ inbox = <<>> /\ asked = {} /\ answered = {} /\ noise = 0 /\ ended = FALSE
  /\ crowded = {} /\ dropped = {}

----------------------------------------------------------------------------
(* Client.call, by any process.                                            *)

\* Slip: the id counts the calls under way instead of all calls.
Slip_IdOfOpenCalls == Cardinality({p \in Procs : InFlight(p)}) + 1

nextRequestID == nextID + 1

Begin(p) ==
  /\ pc[p] = "idle" /\ calls < MaxCalls
  /\ calls' = calls + 1
  /\ nextID' = nextRequestID
  /\ idOf' = [idOf EXCEPT ![calls + 1] = nextRequestID]
  /\ call' = [call EXCEPT ![p] = calls + 1]
  /\ pc' = [pc EXCEPT ![p] = "send"]
  /\ crowded' = LET others == {call[q] : q \in {q \in Procs : InFlight(q)}}
                IN IF others = {} THEN crowded
                   ELSE crowded \cup others \cup {calls + 1}
  /\ UNCHANGED <<result, value, aborted>>

\* call returns, with an answer or with an error of whatever kind, and the
\* process leaves it; its next call is under a context of its own.
Return(p, how, from) ==
  /\ result' = [result EXCEPT ![call[p]] = how]
  /\ value' = [value EXCEPT ![call[p]] = from]
  /\ call' = [call EXCEPT ![p] = 0]
  /\ pc' = [pc EXCEPT ![p] = "idle"]
  /\ aborted' = aborted \ {p}
  /\ UNCHANGED <<calls, nextID, idOf, crowded>>

Goto(p, label) ==
  pc' = [pc EXCEPT ![p] = label]
  /\ UNCHANGED <<call, calls, nextID, idOf, result, value, crowded, aborted>>

\* The method a call of this process has, as the server sees it.
Method(p) == IF p = Registrar THEN stage ELSE "tools/call"

Delivered(p) ==
  /\ asked' = asked \cup {call[p]}
  /\ inbox' = Append(inbox, Method(p))
  /\ UNCHANGED <<answered, noise, ended>>

\* StdioTransport.Send: one write under mu.
SendStdio(p) ==
  /\ pc[p] = "send" /\ transport = "stdio"
  /\ IF stdinClosed \/ ended
     THEN Return(p, "failed", 0) /\ UNCHANGED serverVars
     ELSE Goto(p, "check") /\ Delivered(p)
  /\ UNCHANGED <<regVars, pipeVars, shutdown>>

\* SSETransport.Send: the server has the request while the POST is still
\* waiting for its status, which no context and no time limit bounds; so it has
\* one that is posted behind the end of its event stream.
PostReaches(p) ==
  /\ pc[p] = "send" /\ transport = "sse"
  /\ Goto(p, "posted") /\ Delivered(p)
  /\ UNCHANGED <<regVars, pipeVars, shutdown>>

PostReturns(p) ==
  /\ transport = "sse"
  /\ \/ pc[p] = "posted" /\ Goto(p, "check")
     \/ pc[p] \in {"send", "posted"} /\ Return(p, "failed", 0)
  /\ UNCHANGED <<regVars, pipeVars, shutdown, serverVars>>

\* Slip: the loop does not look at the context.
Slip_NoCheck(p) ==
  /\ pc[p] = "check" /\ Goto(p, "receive")
  /\ UNCHANGED <<regVars, pipeVars, shutdown, serverVars>>

\* The context is looked at between lines only.
Check(p) ==
  /\ pc[p] = "check"
  /\ IF Done(p) THEN Return(p, "failed", 0) ELSE Goto(p, "receive")
  /\ UNCHANGED <<regVars, pipeVars, shutdown, serverVars>>

Mine(p, line) == line.id = idOf[call[p]]

\* What call does with a line: keep reading unless it carries the id.
Take(p, line) ==
  \/ /\ Mine(p, line)
     /\ Return(p, IF line.kind = "error" THEN "failed" ELSE "answer", line.answers)
  \/ ~Mine(p, line) /\ Goto(p, "check")

ReceiveStdio(p) ==
  /\ pc[p] = "receive" /\ transport = "stdio"
  /\ \/ /\ wire # <<>> /\ Take(p, Head(wire)) /\ wire' = Tail(wire)
     \/ /\ wire = <<>> /\ ended /\ Return(p, "failed", 0) /\ UNCHANGED wire
  /\ UNCHANGED <<regVars, postURL, messages, readerDone, stdinClosed, dropped,
                 shutdown, serverVars>>

\* Two goroutines in one bufio.Scanner: a line may come out torn, and then
\* does not parse.  (That both see it whole is no different from the one it
\* answers seeing it.)
ReceiveRaced(p) ==
  /\ pc[p] = "receive" /\ transport = "stdio" /\ wire # <<>>
  /\ \E q \in Procs \ {p} : pc[q] = "receive"
  /\ Goto(p, "check") /\ wire' = Tail(wire)
  /\ UNCHANGED <<regVars, postURL, messages, readerDone, stdinClosed, dropped,
                 shutdown, serverVars>>

\* The select of SSETransport.Receive takes either branch when both are ready.
ReceiveSSE(p) ==
  /\ pc[p] = "receive" /\ transport = "sse"
  /\ \/ /\ messages # <<>> /\ Take(p, Head(messages))
        /\ messages' = Tail(messages)
     \/ readerDone /\ Return(p, "failed", 0) /\ UNCHANGED messages
  /\ UNCHANGED <<regVars, postURL, wire, readerDone, stdinClosed, dropped,
                 shutdown, serverVars>>

Client(p) ==
  \/ SendStdio(p) \/ PostReaches(p) \/ PostReturns(p) \/ Check(p)
  \/ ReceiveStdio(p) \/ ReceiveRaced(p) \/ ReceiveSSE(p)

----------------------------------------------------------------------------
(* The reader goroutine of an SSE stream.                                  *)

Reading == transport = "sse" /\ stage # "connect" /\ ~readerDone

\* Slips: the oldest message makes room for the new one; the queue is a slice.
Slip_DropOldest(line) ==
  /\ messages' = IF Len(messages) < QueueCap THEN Append(messages, line)
                 ELSE Append(Tail(messages), line)
  /\ UNCHANGED dropped

\* A message for which there is no room is dropped.
Enqueue(line) ==
  IF Len(messages) < QueueCap
  THEN messages' = Append(messages, line) /\ UNCHANGED dropped
  ELSE dropped' = dropped \cup ({line.answers} \ {0}) /\ UNCHANGED messages

ReadEvent ==
  /\ Reading /\ wire # <<>>
  /\ wire' = Tail(wire)
  /\ postURL' = (postURL \/ Head(wire) = Endpoint)
  /\ Enqueue(IF Head(wire) = Endpoint THEN Noise ELSE Head(wire))
  /\ UNCHANGED <<regVars, callVars, readerDone, stdinClosed, shutdown, serverVars>>

\* Slip: done is not closed.
Slip_DoneNotClosed ==
  Reading /\ ((wire = <<>> /\ ended) \/ shutdown) /\ UNCHANGED vars

\* The stream has ended, or the process context has cut it.
ReadEnds ==
  /\ Reading /\ ((wire = <<>> /\ ended) \/ shutdown)
  /\ readerDone' = TRUE
  /\ UNCHANGED <<regVars, callVars, postURL, wire, messages, stdinClosed,
                 dropped, shutdown, serverVars>>

----------------------------------------------------------------------------
(* RegisterMCPServer and the handler around it.                            *)

At(from, to) == stage = from /\ stage' = to /\ UNCHANGED transport

\* The child process starts, or the GET of the stream is accepted; or not.
Connect ==
  /\ \/ At("connect", "unconnected")
     \/ At("connect", IF transport = "stdio" THEN "initialize" ELSE "endpoint")
  /\ UNCHANGED <<tools, callVars, pipeVars, shutdown, serverVars>>

\* NewSSETransport waits for a message or for the context, not for the end
\* of the reader.
FirstMessage ==
  /\ At("endpoint", "first") /\ messages # <<>>
  /\ messages' = Tail(messages)
  /\ UNCHANGED <<tools, callVars, postURL, wire, readerDone, stdinClosed,
                 dropped, shutdown, serverVars>>

EndpointKnown ==
  /\ At("first", IF postURL THEN "initialize" ELSE "closed")
  /\ UNCHANGED <<tools, callVars, pipeVars, shutdown, serverVars>>

ConnectCancelled ==
  /\ At("endpoint", "closed") /\ shutdown
  /\ UNCHANGED <<tools, callVars, pipeVars, shutdown, serverVars>>

\* Initialize and ListTools are the first two calls of the client.
CallOf(s) == IF s = "initialize" THEN 1 ELSE 2

RegistrarCalls ==
  /\ stage \in {"initialize", "tools/list"} /\ calls = CallOf(stage) - 1
  /\ Begin(Registrar)
  /\ UNCHANGED <<regVars, pipeVars, shutdown, serverVars>>

RegistrarReturned(s, next) ==
  /\ At(s, IF result[CallOf(s)] = "answer" THEN next ELSE "close")
  /\ result[CallOf(s)] # "none"
  /\ UNCHANGED <<callVars, pipeVars, shutdown, serverVars>>

Initialized == RegistrarReturned("initialize", "notify") /\ UNCHANGED tools

\* Slip: the notification is left to the first use of a tool.
Slip_NoNotify ==
  /\ At("notify", "tools/list")
  /\ UNCHANGED <<tools, callVars, pipeVars, shutdown, serverVars>>

Notify ==
  /\ \/ /\ At("notify", "tools/list") /\ ~stdinClosed /\ (transport = "sse" \/ ~ended)
        /\ inbox' = Append(inbox, "initialized")
        /\ UNCHANGED <<asked, answered, noise, ended>>
     \/ /\ At("notify", "close") /\ (transport = "sse" \/ ended)
        /\ UNCHANGED serverVars
  /\ UNCHANGED <<tools, callVars, pipeVars, shutdown>>

\* The handler then registers the tools one by one; callers may have the
\* first of them before the last is refused.
Listed ==
  /\ RegistrarReturned("tools/list", "register")
  /\ tools' = (result[2] = "answer")

\* Slip: the handler leaves the client of refused tools open.
Slip_LeftOpen ==
  /\ At("register", "ready") \/ At("register", "closed")
  /\ UNCHANGED <<tools, callVars, pipeVars, shutdown, serverVars>>

RegisterTools ==
  /\ At("register", "ready") \/ At("register", "close")
  /\ UNCHANGED <<tools, callVars, pipeVars, shutdown, serverVars>>

\* StdioTransport.Close closes stdin and waits for the child, however long
\* it takes; SSETransport.Close does nothing.
Close ==
  /\ At("close", IF transport = "stdio" THEN "wait" ELSE "closed")
  /\ stdinClosed' = (transport = "stdio")
  /\ UNCHANGED <<tools, callVars, postURL, wire, messages, readerDone, dropped,
                 shutdown, serverVars>>

\* cmd.Wait closes the pipe, with what is still in it.
Waited ==
  /\ At("wait", "closed") /\ ended
  /\ wire' \in {wire, <<>>}
  /\ UNCHANGED <<tools, callVars, postURL, messages, readerDone, stdinClosed,
                 dropped, shutdown, serverVars>>

Registration ==
  \/ Connect \/ FirstMessage \/ EndpointKnown \/ ConnectCancelled
  \/ RegistrarCalls \/ Initialized \/ Notify \/ Listed \/ RegisterTools
  \/ Close \/ Waited

\* A run executes a tool of the server, under the context of that run.
CallTool(p) == tools /\ Begin(p) /\ UNCHANGED <<regVars, pipeVars, shutdown, serverVars>>

----------------------------------------------------------------------------
(* Contexts.                                                               *)

Abort(p) ==
  /\ InFlight(p) /\ p \notin aborted
  /\ aborted' = aborted \cup {p}
  /\ UNCHANGED <<pc, call, calls, nextID, idOf, result, value, crowded,
                 regVars, pipeVars, shutdown, serverVars>>

Shutdown ==
  /\ ~shutdown /\ shutdown' = TRUE
  /\ UNCHANGED <<regVars, callVars, pipeVars, serverVars>>

----------------------------------------------------------------------------
(* The server.                                                             *)

Serving == stage \notin {"connect", "unconnected"} /\ ~ended

ServerWrites(line) ==
  /\ Serving /\ wire' = Append(wire, line)
  /\ UNCHANGED <<regVars, callVars, postURL, messages, readerDone, stdinClosed,
                 dropped, shutdown, inbox, asked, ended>>

ServerAnswers(c) ==
  /\ c \in asked \ answered
  /\ answered' = answered \cup {c}
  /\ \E kind \in {"result", "error"} : ServerWrites(Line(idOf[c], c, kind))
  /\ UNCHANGED noise

ServerTalks ==
  /\ noise < MaxNoise /\ noise' = noise + 1
  /\ ServerWrites(Noise) \/ (transport = "sse" /\ ServerWrites(Endpoint))
  /\ UNCHANGED answered

\* The server ends, or CommandContext kills it at the shutdown.
ServerEnds ==
  /\ Serving /\ ended' = TRUE
  /\ UNCHANGED <<regVars, callVars, pipeVars, shutdown, inbox, asked, answered, noise>>

Server == (\E c \in Calls : ServerAnswers(c)) \/ ServerTalks \/ ServerEnds

----------------------------------------------------------------------------
Next ==
  \/ Registration \/ ReadEvent \/ ReadEnds \/ Shutdown \/ Server
  \/ \E p \in Procs : Client(p)
  \/ \E p \in Callers : CallTool(p) \/ Abort(p)

Spec == Init /\ [][Next]_vars

\* Goroutines that can run are run.  The server owes nothing, not even the
\* status of a POST.
Fairness ==
  /\ WF_vars(ReadEvent) /\ WF_vars(ReadEnds)
  /\ \A p \in Procs :
       WF_vars(SendStdio(p) \/ Check(p) \/ ReceiveStdio(p) \/ ReceiveSSE(p))

FairSpec == Spec /\ Fairness

----------------------------------------------------------------------------
RegTypes ==
  /\ transport \in {"stdio", "sse"} /\ tools \in BOOLEAN
  /\ stage \in {"connect", "unconnected", "endpoint", "first", "initialize",
                "notify", "tools/list", "register", "ready", "close", "wait",
                "closed"}

CallTypes ==
  /\ pc \in [Procs -> {"idle", "send", "posted", "check", "receive"}]
  /\ call \in [Procs -> 0..MaxCalls]
  /\ calls \in 0..MaxCalls /\ nextID \in 0..MaxCalls
  /\ idOf \in [Calls -> 0..MaxCalls]
  /\ result \in [Calls -> {"none", "answer", "failed"}]
  /\ value \in [Calls -> 0..MaxCalls]
  /\ crowded \subseteq Calls

PipeTypes ==
  /\ wire \in Seq(Lines) /\ messages \in Seq(Lines) /\ Len(messages) <= QueueCap
  /\ dropped \subseteq Calls
  /\ postURL \in BOOLEAN /\ readerDone \in BOOLEAN /\ stdinClosed \in BOOLEAN

ServerTypes ==
  /\ aborted \subseteq Procs /\ shutdown \in BOOLEAN
  /\ inbox \in Seq({"initialize", "initialized", "tools/list", "tools/call"})
  /\ asked \subseteq Calls /\ answered \subseteq asked
  /\ noise \in 0..MaxNoise /\ ended \in BOOLEAN

\* The values every variable of the client may take; the queue never grows
\* beyond its capacity.
TypeOK == RegTypes /\ CallTypes /\ PipeTypes /\ ServerTypes

Holds(lines, c) == \E k \in DOMAIN lines : lines[k].answers = c

\* The answer to a call that is still waiting is on its way to it: in the
\* pipe or in the queue.  It is gone only when another call was under way
\* beside it (whose reader drops lines that are not its own, client.go:210),
\* when it found the queue full (transport.go:203), or when the client was
\* closed meanwhile.
NoAnswerVanishes ==
  \A p \in Procs :
    InFlight(p) /\ call[p] \in answered =>
      \/ Holds(wire, call[p]) \/ Holds(messages, call[p])
      \/ call[p] \in crowded \cup dropped
      \/ stage = "closed"

Handshake == <<"initialize", "initialized", "tools/list">>

\* The server sees the handshake in its order and no tool call before it,
\* whoever calls and whatever failed (tool.go:59-82, client.go:112-128).
HandshakeFirst ==
  \A k \in DOMAIN inbox :
    inbox[k] = (IF k <= 3 THEN Handshake[k] ELSE "tools/call")

\* A registration that failed after its child was started leaves no child
\* behind, nor does one whose tools the engine refused (tool.go:65-74,
\* handlers.go:309, transport.go:88-91).
FailedLeavesNoServer == stage = "closed" /\ transport = "stdio" => ended

Open(c) == \E p \in Procs : call[p] = c
Waiting(c, ps) == \E p \in ps : call[p] = c /\ pc[p] \in {"check", "receive"}
Undisturbed(c) == c \notin crowded \cup dropped

\* A call is due to return when the server has answered it and neither another
\* call nor a full queue can have taken the answer, or when the server's output
\* has ended.
Due(c) == Waiting(c, Procs) /\ (ended \/ (c \in answered /\ Undisturbed(c)))

\* No call stays due: an answer is found behind whatever noise, and once the
\* output has ended every call returns, also those whose answer went to
\* another (client.go:190-222, transport.go:73, 249).
DueCallsReturn == \A c \in Calls : Due(c) ~> ~Due(c)

LineReady == IF transport = "stdio" THEN wire # <<>> ELSE messages # <<>>

\* An aborted call returns at the next line of the server at the latest, be
\* it one that answers nothing (client.go:190-194).  (Calls 1 and 2 are those
\* of the registration, which no abort reaches.)
AbortSeenAtNextLine ==
  \A c \in Calls \ {1, 2} :
    (Waiting(c, aborted) /\ LineReady /\ c \notin crowded)
      ~> (~Open(c) \/ c \in crowded)

\* The calls that SendRequest implements at the other end of the agent too:
\* an answer counts as given once the server has written it.
Abstract ==
  INSTANCE RpcCalls WITH
    status <- [c \in Calls |->
                 IF c > calls THEN "new"
                 ELSE IF result[c] = "none" THEN "open"
                 ELSE IF result[c] = "answer" THEN "answered" ELSE "failed"],
    given <- answered,
    value <- [c \in Calls |-> IF result[c] = "answer" THEN value[c] ELSE 0]

\* Client.call, with every caller reading the lines itself and late answers
\* to calls that were given up, implements RpcCalls: no call returns the
\* answer that the server gave to another (client.go:161-223).
ImplementsCalls == Abstract!Spec
=============================================================================
