----------------------------- MODULE RpcServer -----------------------------
(***************************************************************************)
(* The JSON-RPC peer of the agent process: internal/rpc/server.go and      *)
(* internal/rpc/pending.go.                                                *)
(*                                                                         *)
(* One goroutine (Serve) scans stdin line by line and dispatches: a        *)
(* request starts a handler goroutine, a response is resolved against the  *)
(* map of pending calls.  A handler goroutine may call the wrapper back    *)
(* any number of times (SendRequest: tool.execute, guard.execute,          *)
(* llm.execute, ...), each call under a timeout of its own, and at the     *)
(* end writes one reply unless the request was a notification.  A watcher  *)
(* goroutine closes every pending channel when the process context is      *)
(* cancelled.                                                              *)
(*                                                                         *)
(* The wrapper is external: it may answer a call late, more than once or   *)
(* never, answer with an id nobody registered, write lines that do not     *)
(* parse, and close stdin at any moment.                                   *)
(***************************************************************************)
EXTENDS Naturals, Sequences, FiniteSets

CONSTANTS
  Requests,       \* requests the wrapper may send, one handler goroutine each
  Notifications,  \* those that carry no id and therefore get no reply
  MaxCalls,       \* bound: calls to the wrapper in one behaviour
  MaxLines        \* bound: lines the wrapper writes in one behaviour

ASSUME RequestsAssumption == Notifications \subseteq Requests
ASSUME BoundsAssumption == MaxCalls \in Nat \ {0} /\ MaxLines \in Nat

VARIABLES
  handler,   \* phase of each request's handler goroutine
  call,      \* the call each handler is in, 0 when it is in none
  calls,     \* number of calls begun so far
  nextID,    \* Server.nextID
  idOf,      \* the id a call was sent under
  pending,   \* PendingRequests.pending: id -> call whose channel is stored, 0 if absent
  chan,      \* state of the channel Register made for a call (capacity 1)
  slot,      \* the call that the response put in that channel answers
  result,    \* how SendRequest returned
  asked,     \* calls whose request line reached the wrapper
  stdin,     \* lines written by the wrapper and not read yet
  stdinOpen,
  lines,     \* number of lines written by the wrapper
  reader,    \* phase of the Serve goroutine
  inHand,    \* in phase "deliver": the channel and the response Resolve holds
  cancelled, \* the process context is done
  swept,     \* CancelAll has run
  replies,   \* replies written for each request
  heard      \* history: calls whose response has been read from stdin

callVars   == <<handler, call, calls, nextID, idOf, result, asked, replies>>
chanVars   == <<pending, chan, slot>>
wrapVars   == <<stdin, stdinOpen, lines>>
readerVars == <<reader, inHand, heard>>
ctxVars    == <<cancelled, swept>>
vars       == <<callVars, chanVars, wrapVars, readerVars, ctxVars>>

Calls == 1..MaxCalls
NoHand == [ch |-> 0, answers |-> 0]

RequestLine(r)      == [kind |-> "request", req |-> r]
ResponseLine(id, c) == [kind |-> "response", id |-> id, answers |-> c]
JunkLine            == [kind |-> "junk"]
HugeLine            == [kind |-> "huge"] \* longer than MaxMessageSize
Lines == [kind : {"request"}, req : Requests] \cup {JunkLine, HugeLine}
         \cup [kind : {"response"}, id : 0..MaxCalls, answers : 0..MaxCalls]

Init ==
  /\ handler = [r \in Requests |-> "new"]
  /\ call = [r \in Requests |-> 0]
  /\ calls = 0 /\ nextID = 0
  /\ idOf = [c \in Calls |-> 0]
  /\ result = [c \in Calls |-> "none"]
  /\ asked = {}
  /\ replies = [r \in Requests |-> 0]
  /\ pending = [i \in Calls |-> 0]
  /\ chan = [c \in Calls |-> "none"]
  /\ slot = [c \in Calls |-> 0]
  /\ stdin = <<>> /\ stdinOpen = TRUE /\ lines = 0
  /\ reader = "scan" /\ inHand = NoHand /\ heard = {}
  /\ cancelled = FALSE /\ swept = FALSE

----------------------------------------------------------------------------
(* The wrapper.                                                            *)

WrapperWrites(line) ==
  /\ stdinOpen /\ lines < MaxLines
  /\ stdin' = Append(stdin, line)
  /\ lines' = lines + 1
  /\ UNCHANGED <<stdinOpen, callVars, chanVars, readerVars, ctxVars>>

\* Each request is sent once: its slot stands for one line.
WrapperRequests(r) ==
  /\ handler[r] = "new"
  /\ \A k \in 1..Len(stdin) : stdin[k] # RequestLine(r)
  /\ WrapperWrites(RequestLine(r))

\* Any number of responses to a call it was asked, at any time.
WrapperResponds(c) == c \in asked /\ WrapperWrites(ResponseLine(idOf[c], c))

WrapperMisspeaks == \E l \in {ResponseLine(0, 0), JunkLine, HugeLine} : WrapperWrites(l)

WrapperCloses ==
  /\ stdinOpen /\ stdinOpen' = FALSE
  /\ UNCHANGED <<stdin, lines, callVars, chanVars, readerVars, ctxVars>>

----------------------------------------------------------------------------
(* A handler goroutine in SendRequest.                                     *)

\* Slip: an id is drawn from the size of the pending map.
Slip_IdFromMapSize ==
  Cardinality({i \in Calls : pending[i] # 0}) + 1

nextRequestID == nextID + 1

\* Slip: the request line is written before the channel is registered.
Slip_SendBeforeRegister(r) ==
  /\ handler[r] = "running" /\ calls < MaxCalls
  /\ calls' = calls + 1
  /\ nextID' = nextRequestID
  /\ idOf' = [idOf EXCEPT ![calls + 1] = nextRequestID]
  /\ call' = [call EXCEPT ![r] = calls + 1]
  /\ asked' = asked \cup {calls + 1}
  /\ handler' = [handler EXCEPT ![r] = "numbered"]
  /\ UNCHANGED <<result, replies, chanVars, wrapVars, readerVars, ctxVars>>

TakeId(r) ==
  /\ handler[r] = "running" /\ calls < MaxCalls
  /\ calls' = calls + 1
  /\ nextID' = nextRequestID
  /\ idOf' = [idOf EXCEPT ![calls + 1] = nextRequestID]
  /\ call' = [call EXCEPT ![r] = calls + 1]
  /\ handler' = [handler EXCEPT ![r] = "numbered"]
  /\ UNCHANGED <<result, asked, replies, chanVars, wrapVars, readerVars, ctxVars>>

Register(r) ==
  LET c == call[r] IN
  /\ handler[r] = "numbered"
  /\ chan' = [chan EXCEPT ![c] = "empty"]
  /\ pending' = [pending EXCEPT ![idOf[c]] = c]
  /\ handler' = [handler EXCEPT ![r] = "registered"]
  /\ UNCHANGED <<slot, call, calls, nextID, idOf, result, asked, replies,
                 wrapVars, readerVars, ctxVars>>

WriteRequest(r) ==
  /\ handler[r] = "registered"
  /\ asked' = asked \cup {call[r]}
  /\ handler' = [handler EXCEPT ![r] = "waiting"]
  /\ UNCHANGED <<call, calls, nextID, idOf, result, replies, chanVars,
                 wrapVars, readerVars, ctxVars>>

\* SendRequest returns to the handler; nothing removes the entry of a call
\* that was not resolved.
Return(r, how) ==
  /\ result' = [result EXCEPT ![call[r]] = how]
  /\ call' = [call EXCEPT ![r] = 0]
  /\ handler' = [handler EXCEPT ![r] = "running"]
  /\ UNCHANGED <<calls, nextID, idOf, asked, replies, pending, slot,
                 wrapVars, readerVars, ctxVars>>

WriteFails(r) ==
  handler[r] = "registered" /\ Return(r, "failed") /\ UNCHANGED chan

ReceiveResponse(r) ==
  /\ handler[r] = "waiting" /\ chan[call[r]] = "full"
  /\ Return(r, "answered")
  /\ chan' = [chan EXCEPT ![call[r]] = "taken"]

ReceiveClosed(r) ==
  /\ handler[r] = "waiting" /\ chan[call[r]] = "closed"
  /\ Return(r, "closed") /\ UNCHANGED chan

\* Slip: a caller without a timeout of its own.
Slip_NoTimeout(r) ==
  handler[r] = "waiting" /\ cancelled /\ Return(r, "ctx") /\ UNCHANGED chan

\* Every caller derives its context with a timeout, so ctx.Done may fire
\* at any moment, also when the response is already in the channel.
ContextDone(r) ==
  handler[r] = "waiting" /\ Return(r, "ctx") /\ UNCHANGED chan

Finish(r) ==
  /\ handler[r] = "running"
  /\ handler' = [handler EXCEPT ![r] = "done"]
  /\ replies' = IF r \in Notifications THEN replies
                ELSE [replies EXCEPT ![r] = @ + 1]
  /\ UNCHANGED <<call, calls, nextID, idOf, result, asked, chanVars, wrapVars,
                 readerVars, ctxVars>>

----------------------------------------------------------------------------
(* The Serve goroutine.                                                    *)

ReadLine(kind) ==
  /\ reader = "scan" /\ stdin # <<>> /\ ~cancelled
  /\ Head(stdin).kind = kind
  /\ stdin' = Tail(stdin)
  /\ UNCHANGED <<stdinOpen, lines, ctxVars>>

DispatchRequest ==
  /\ ReadLine("request")
  /\ handler' = [handler EXCEPT ![Head(stdin).req] = "running"]
  /\ UNCHANGED <<call, calls, nextID, idOf, result, asked, replies, chanVars,
                 readerVars>>

\* Slip: the entry outlives its response.
Slip_EntryKept(id) == pending

\* Lookup and delete, both under p.mu.
ResolveKnown(id) == id \in Calls /\ pending[id] # 0
ResolveEntry(id) == [pending EXCEPT ![id] = 0]

DispatchResponse ==
  LET l == Head(stdin) IN
  /\ ReadLine("response")
  /\ heard' = heard \cup {l.answers}
  /\ IF ResolveKnown(l.id)
     THEN /\ pending' = ResolveEntry(l.id)
          /\ inHand' = [ch |-> pending[l.id], answers |-> l.answers]
          /\ reader' = "deliver"
     ELSE UNCHANGED <<pending, inHand, reader>>
  /\ UNCHANGED <<chan, slot, callVars>>

DispatchJunk == ReadLine("junk") /\ UNCHANGED <<callVars, chanVars, readerVars>>

\* ch <- resp, after p.mu is released: blocks while the channel is full.
Deliver ==
  /\ reader = "deliver" /\ chan[inHand.ch] # "full"
  /\ chan' = [chan EXCEPT ![inHand.ch] = "full"]
  /\ slot' = [slot EXCEPT ![inHand.ch] = inHand.answers]
  /\ reader' = "scan" /\ inHand' = NoHand
  /\ UNCHANGED <<heard, pending, callVars, wrapVars, ctxVars>>

\* Cancellation is noticed only once a further line has been scanned.
ScanCancelled ==
  /\ reader = "scan" /\ stdin # <<>> /\ Head(stdin).kind # "huge" /\ cancelled
  /\ stdin' = Tail(stdin) /\ reader' = "drain"
  /\ UNCHANGED <<stdinOpen, lines, inHand, heard, callVars, chanVars, ctxVars>>

ScanEOF ==
  /\ reader = "scan" /\ stdin = <<>> /\ ~stdinOpen
  /\ reader' = "drain"
  /\ UNCHANGED <<inHand, heard, callVars, chanVars, wrapVars, ctxVars>>

\* scanner.Err: the line does not fit the buffer.
ScanFails ==
  /\ reader = "scan" /\ stdin # <<>> /\ Head(stdin).kind = "huge"
  /\ reader' = "drain"
  /\ UNCHANGED <<inHand, heard, callVars, chanVars, wrapVars, ctxVars>>

\* wg.Wait, then Serve returns and the process exits.
ServeReturns ==
  /\ reader = "drain" /\ \A r \in Requests : handler[r] \in {"new", "done"}
  /\ reader' = "returned"
  /\ UNCHANGED <<inHand, heard, callVars, chanVars, wrapVars, ctxVars>>

----------------------------------------------------------------------------
(* The process context (SIGINT, SIGTERM) and the watcher goroutine.        *)

Signal ==
  /\ ~cancelled /\ cancelled' = TRUE
  /\ UNCHANGED <<swept, callVars, chanVars, wrapVars, readerVars>>

CancelAll ==
  /\ cancelled /\ ~swept /\ swept' = TRUE
  /\ chan' = [c \in Calls |-> IF \E i \in Calls : pending[i] = c
                              THEN "closed" ELSE chan[c]]
  /\ pending' = [i \in Calls |-> 0]
  /\ UNCHANGED <<cancelled, slot, callVars, wrapVars, readerVars>>

----------------------------------------------------------------------------
\* What SendRequest still has to do once it has taken an id.
SendRequest(r) ==
  \/ Register(r) \/ WriteRequest(r) \/ WriteFails(r)
  \/ ReceiveResponse(r) \/ ReceiveClosed(r) \/ ContextDone(r)

Handler(r) == TakeId(r) \/ SendRequest(r) \/ Finish(r)

Serve ==
  \/ DispatchRequest \/ DispatchResponse \/ DispatchJunk \/ Deliver
  \/ ScanCancelled \/ ScanEOF \/ ScanFails \/ ServeReturns

Wrapper ==
  \/ \E r \in Requests : WrapperRequests(r)
  \/ \E c \in Calls : WrapperResponds(c)
  \/ WrapperMisspeaks \/ WrapperCloses

Exited == reader = "returned" /\ UNCHANGED vars

Next ==
  \/ reader # "returned" /\ (Wrapper \/ Serve \/ Signal \/ CancelAll
                              \/ \E r \in Requests : Handler(r))
  \/ Exited

Spec == Init /\ [][Next]_vars

(***************************************************************************)
(* Goroutines that can run are run, and a write to stdout ends; the        *)
(* wrapper and the user owe nothing.  Of a handler only SendRequest is     *)
(* fair: what it does before, between and after its calls has no limit in  *)
(* general (mcp.register and MCP tools wait without one, mcp/client.go:196 *)
(* and transport.go:88, 146), so neither TakeId nor Finish is.             *)
(***************************************************************************)
Fairness ==
  /\ WF_vars(Serve) /\ WF_vars(CancelAll)
  /\ \A r \in Requests : WF_vars(SendRequest(r))

FairSpec == Spec /\ Fairness

----------------------------------------------------------------------------
CallTypes ==
  /\ handler \in [Requests -> {"new", "running", "numbered", "registered",
                               "waiting", "done"}]
  /\ call \in [Requests -> 0..MaxCalls]
  /\ calls \in 0..MaxCalls /\ nextID \in Nat
  /\ idOf \in [Calls -> 0..MaxCalls]
  /\ result \in [Calls -> {"none", "answered", "closed", "ctx", "failed"}]
  /\ asked \subseteq Calls
  /\ replies \in [Requests -> Nat]

ChanTypes ==
  /\ pending \in [Calls -> 0..MaxCalls]
  /\ chan \in [Calls -> {"none", "empty", "full", "closed", "taken"}]
  /\ slot \in [Calls -> 0..MaxCalls]

WrapTypes ==
  stdin \in Seq(Lines) /\ stdinOpen \in BOOLEAN /\ lines \in 0..MaxLines

ReaderTypes ==
  /\ reader \in {"scan", "deliver", "drain", "returned"}
  /\ inHand \in [ch : 0..MaxCalls, answers : 0..MaxCalls]
  /\ heard \subseteq 0..MaxCalls

CtxTypes == cancelled \in BOOLEAN /\ swept \in BOOLEAN

\* The values every variable of the peer may take.
TypeOK ==
  /\ CallTypes /\ ChanTypes /\ WrapTypes /\ ReaderTypes /\ CtxTypes

\* The scanning goroutine never blocks on, and never panics at, the channel
\* send that Resolve makes after releasing its lock: the channel it took out
\* of the map is empty and not closed, whatever duplicates the wrapper sends
\* and whenever CancelAll runs (pending.go:33-58).
ReaderNeverBlocks == reader = "deliver" => chan[inHand.ch] = "empty"

\* SendRequest returns to its caller only a response the wrapper wrote to
\* that very call, never a late one to an earlier call (server.go:162-191).
OwnResponse == \A c \in Calls : result[c] = "answered" => slot[c] = c

\* A response that was read while its caller is still waiting is in the
\* caller's channel, or in the reader's hand, or the channel was closed by
\* the shutdown: it is not lost because it came faster than the caller
\* expected (registration precedes the write, server.go:177-178).
NoLostResponse ==
  \A r \in Requests :
    (handler[r] = "waiting" /\ call[r] \in heard) =>
       \/ chan[call[r]] \in {"full", "closed"}
       \/ reader = "deliver" /\ inHand.ch = call[r]

\* When Serve returns no handler goroutine is left running, and every request
\* read has exactly one reply, every notification none (server.go:94, 148-158).
QuietExit ==
  reader = "returned" =>
    \A r \in Requests :
      /\ handler[r] \in {"new", "done"}
      /\ replies[r] = IF handler[r] = "done" /\ r \notin Notifications THEN 1 ELSE 0

\* The abstract calls this peer implements: an id, a channel and the reader's
\* hand are gone, an answer counts as given once its line has been read.
Abstract ==
  INSTANCE RpcCalls WITH
    status <- [c \in Calls |->
                 IF c > calls THEN "new"
                 ELSE IF result[c] = "none" THEN "open"
                 ELSE IF result[c] = "answered" THEN "answered" ELSE "failed"],
    given <- heard \ {0},
    value <- [c \in Calls |-> IF result[c] = "answered" THEN slot[c] ELSE 0]

\* SendRequest, with its ids, channels and the scanning goroutine, implements
\* RpcCalls: a call ends once, with an answer given to that call or in failure.
ImplementsCalls == Abstract!Spec

\* Once the wrapper has closed stdin the process ends, whatever calls were in
\* flight and whatever the wrapper wrote before, unless a handler for ever does
\* work of its own: neither the scanning goroutine nor a call to the wrapper
\* is what keeps it alive (server.go:94-98, 182-190).
EOFEndsProcess ==
  [](~stdinOpen =>
       \/ <>(reader = "returned")
       \/ \E r \in Requests : <>[](handler[r] = "running"))
=============================================================================
