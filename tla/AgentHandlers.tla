--------------------------- MODULE AgentHandlers ---------------------------
(***************************************************************************)
(* The method handlers of the agent process (internal/rpc/handlers.go) and *)
(* the three things they share: the run slot (runCancel under runMu), the  *)
(* engine agent.configure replaces (eng under engMu), and the history of   *)
(* each engine (the mutex of its context manager).                         *)
(*                                                                         *)
(* The server runs every request in a goroutine of its own, so handlers    *)
(* interleave at every lock.  An action is what a handler does between two *)
(* lock operations.  runMu is never held across another operation: each of *)
(* its regions is one action and the mutex itself is left out.             *)
(*                                                                         *)
(* What a history says is left out too: wrote[e] is the set of requests    *)
(* whose messages went into engine e or came into it from the engine it    *)
(* was rebuilt from, even where a later injection replaced them.           *)
(***************************************************************************)
EXTENDS Naturals, Sequences

CONSTANTS
  Requests,       \* requests the wrapper may send, one goroutine each
  Methods,        \* the methods it may call
  Tools,          \* tool names
  NoRun           \* runCancel is nil

ASSUME NoRunAssumption == NoRun \notin Requests
ASSUME MethodsAssumption ==
  Methods \subseteq {"run", "configure", "abort", "tool.register", "mcp.register",
                     "history", "inject", "summarize"}

VARIABLES
  method,     \* the method each request calls
  params,     \* whether its params decode, and name what exists
  pc,         \* where its handler is
  bound,      \* the engine the handler holds on to
  batch,      \* tools a register handler has still to register
  wanted,     \* tools its request named
  draft,      \* what a handler has read and will write back changed
  target,     \* the run whose cancel function agent.abort holds
  outcome,    \* the reply, once it is decided
  runCancel,  \* the run in the run slot
  eng,        \* Handlers.eng
  engMu,      \* the handler that holds engMu
  tools,      \* the registry of each engine
  wrote,      \* whose messages each engine's history has taken
  ctxMu,      \* the handler that holds an engine's context manager over an LLM call
  cancelled,  \* runs whose context is done
  stream,     \* runs in the order of their notifications, repeats collapsed
  spawned,    \* MCP clients connected, named by their request
  mcpClients, \* Handlers.mcpClients
  closed,     \* MCP clients closed
  lateTools,  \* history variable: tools registered behind a rebuild's back
  lateRuns    \* history variable: runs that wrote behind a rebuild's back

reqVars  == <<method, params, pc, bound, batch, wanted, draft, target, outcome>>
late     == <<lateTools, lateRuns>>
engVars  == <<eng, engMu, tools, wrote, ctxMu, late>>
runVars  == <<runCancel, cancelled, stream>>
mcpVars  == <<spawned, mcpClients, closed>>
vars     == <<reqVars, engVars, runVars, mcpVars>>

\* An engine is named by the agent.configure that built it, the first one by none.
FirstEngine == NoRun
Engines == Requests \cup {FirstEngine}

EmptyDraft == [tools |-> {}, wrote |-> {}, clients |-> {}]

Outcomes == {"none", "ok", "busy", "invalid", "error", "denied", "aborted", "idle"}

InRun == {"admitted", "running", "compacting", "ended"}
HoldsEngMu == {"rebuilding", "copied", "injecting", "counting"}
Phases == InRun \cup HoldsEngMu
          \cup {"unsent", "received", "checked", "aborting", "connected", "appending",
                "binding", "bound", "reserving", "reading", "summarizing",
                "replying", "replied"}

Init ==
  /\ method = [q \in Requests |-> "none"]
  /\ params = [q \in Requests |-> "good"]
  /\ pc = [q \in Requests |-> "unsent"]
  /\ bound = [q \in Requests |-> FirstEngine]
  /\ batch = [q \in Requests |-> {}]
  /\ wanted = [q \in Requests |-> {}]
  /\ draft = [q \in Requests |-> EmptyDraft]
  /\ target = [q \in Requests |-> NoRun]
  /\ outcome = [q \in Requests |-> "none"]
  /\ runCancel = NoRun /\ cancelled = {} /\ stream = <<>>
  /\ eng = FirstEngine /\ engMu = NoRun
  /\ tools = [e \in Engines |-> {}]
  /\ wrote = [e \in Engines |-> {}]
  /\ ctxMu = [e \in Engines |-> NoRun]
  /\ spawned = {} /\ mcpClients = {} /\ closed = {}
  /\ lateTools = {} /\ lateRuns = {}

Step(q, from, to) == pc[q] = from /\ pc' = [pc EXCEPT ![q] = to]

\* The handler returns: the server goroutine has the reply still to write.
Answer(q, from, o) ==
  /\ Step(q, from, "replying")
  /\ outcome' = [outcome EXCEPT ![q] = o]

InFlight(q) == pc[q] \notin {"unsent", "replied"}

----------------------------------------------------------------------------
(* The wrapper sends a request; the server writes a reply.                 *)

\* session.history, context.summarize and agent.abort look at no params.
ParamsOf(m) ==
  CASE m = "configure" -> {"good", "undecodable", "unknown name"}
    [] m \in {"run", "inject", "tool.register", "mcp.register"} -> {"good", "undecodable"}
    [] OTHER -> {"good"}

Send(q, m) ==
  /\ Step(q, "unsent", "received")
  /\ \E p \in ParamsOf(m) : params' = [params EXCEPT ![q] = p]
  /\ method' = [method EXCEPT ![q] = m]
  /\ \E named \in IF m \in {"tool.register", "mcp.register"} THEN SUBSET Tools ELSE {{}} :
        batch' = [batch EXCEPT ![q] = named] /\ wanted' = [wanted EXCEPT ![q] = named]
  /\ UNCHANGED <<bound, draft, target, outcome, engVars, runVars, mcpVars>>

\* Slip: stream.end goes out with the reply.
Slip_StreamsWithReply(q) ==
  /\ Step(q, "replying", "replied")
  /\ stream' = IF method[q] = "run" /\ q \in wrote[bound[q]]
                 THEN Append(stream, q) ELSE stream
  /\ UNCHANGED <<method, params, bound, batch, wanted, draft, target, outcome,
                 engVars, runCancel, cancelled, mcpVars>>

Reply(q) ==
  /\ Step(q, "replying", "replied")
  /\ UNCHANGED <<method, params, bound, batch, wanted, draft, target, outcome,
                 engVars, runVars, mcpVars>>

\* Params that do not decode, found before anything else is done.
BadParams(q) ==
  /\ method[q] \in {"tool.register", "mcp.register", "inject"}
  /\ params[q] = "undecodable"
  /\ Answer(q, "received", "invalid")
  /\ UNCHANGED <<method, params, bound, batch, wanted, draft, target, engVars, runVars, mcpVars>>

----------------------------------------------------------------------------
(* agent.run                                                               *)

RunArrives(q) ==
  /\ method[q] = "run"
  /\ IF runCancel # NoRun
       THEN Answer(q, "received", "busy") /\ UNCHANGED runCancel
       ELSE Step(q, "received", "admitted") /\ runCancel' = q /\ UNCHANGED outcome
  /\ UNCHANGED <<method, params, bound, batch, wanted, draft, target, cancelled, stream,
                 engVars, mcpVars>>

\* Slip: the params are decoded before the deferred cleanup is installed.
Slip_ParamsBeforeDefer(q) ==
  /\ params[q] = "undecodable"
  /\ Answer(q, "admitted", "invalid")
  /\ UNCHANGED <<method, params, bound, batch, wanted, draft, target, engVars, runVars, mcpVars>>

RunBadParams(q) ==
  /\ params[q] = "undecodable"
  /\ Step(q, "admitted", "ended")
  /\ outcome' = [outcome EXCEPT ![q] = "invalid"]
  /\ UNCHANGED <<method, params, bound, batch, wanted, draft, target, engVars, runVars, mcpVars>>

\* h.Engine(): engMu is taken and released.
RunBinds(q) ==
  /\ params[q] = "good" /\ engMu = NoRun
  /\ Step(q, "admitted", "running")
  /\ bound' = [bound EXCEPT ![q] = eng]
  /\ UNCHANGED <<method, params, batch, wanted, draft, target, outcome, engVars, runVars, mcpVars>>

Free(e) == ctxMu[e] = NoRun

\* agent.configure has read the tools of engine e, or its history: what is put
\* there now does not come into the engine that replaces it.
ToolsRead(e)   == e # eng \/ \E p \in Requests : pc[p] \in {"rebuilding", "copied"}
HistoryRead(e) == e # eng \/ \E p \in Requests : pc[p] = "copied"

\* Run adds a message to the history of the engine it was started on.
RunWrites(q) ==
  /\ pc[q] = "running" /\ Free(bound[q])
  /\ wrote' = [wrote EXCEPT ![bound[q]] = @ \cup {q}]
  /\ lateRuns' = IF HistoryRead(bound[q]) THEN lateRuns \cup {q} ELSE lateRuns
  /\ UNCHANGED <<reqVars, eng, engMu, tools, ctxMu, runVars, mcpVars, lateTools>>

Notify(q) ==
  stream' = IF stream # <<>> /\ stream[Len(stream)] = q THEN stream ELSE Append(stream, q)

RunStreams(q) ==
  /\ pc[q] = "running" /\ q \in wrote[bound[q]]
  /\ Notify(q)
  /\ UNCHANGED <<reqVars, engVars, runCancel, cancelled, mcpVars>>

\* Compaction asks the LLM for a summary with the history locked.
RunCompacts(q) ==
  /\ q \in wrote[bound[q]] /\ Free(bound[q])
  /\ Step(q, "running", "compacting")
  /\ ctxMu' = [ctxMu EXCEPT ![bound[q]] = q]
  /\ UNCHANGED <<method, params, bound, batch, wanted, draft, target, outcome,
                 eng, engMu, tools, wrote, runVars, mcpVars, late>>

SummaryArrives(q) ==
  /\ Step(q, "compacting", "running")
  /\ ctxMu' = [ctxMu EXCEPT ![bound[q]] = NoRun]
  /\ UNCHANGED <<method, params, bound, batch, wanted, draft, target, outcome,
                 eng, engMu, tools, wrote, runVars, mcpVars, late>>

\* Run returns and stream.end goes out.  An input guard refuses a prompt
\* before the history has taken it; a result of any other kind comes after.
RunEnds(q, o) ==
  /\ o = "ok" => q \in wrote[bound[q]]
  /\ o = "denied" => q \notin wrote[bound[q]]
  /\ Step(q, "running", "ended")
  /\ outcome' = [outcome EXCEPT ![q] = o]
  /\ Notify(q)
  /\ UNCHANGED <<method, params, bound, batch, wanted, draft, target, engVars,
                 runCancel, cancelled, mcpVars>>

\* Slip: the reply is written first and the slot freed after it.
Slip_RepliesFirst(q) ==
  /\ \/ Step(q, "ended", "replied") /\ UNCHANGED runCancel
     \/ pc[q] = "replied" /\ runCancel = q /\ runCancel' = NoRun /\ UNCHANGED pc
  /\ UNCHANGED <<method, params, bound, batch, wanted, draft, target, outcome, cancelled,
                 stream, engVars, mcpVars>>

\* The deferred function of the handler.
RunLeaves(q) ==
  /\ Step(q, "ended", "replying")
  /\ runCancel' = NoRun
  /\ UNCHANGED <<method, params, bound, batch, wanted, draft, target, outcome, cancelled,
                 stream, engVars, mcpVars>>

Run(q) ==
  \/ RunArrives(q) \/ RunBadParams(q) \/ RunBinds(q) \/ RunWrites(q) \/ RunStreams(q)
  \/ RunCompacts(q) \/ SummaryArrives(q) \/ RunLeaves(q)
  \/ \E o \in {"ok", "denied", "error"} : RunEnds(q, o)

----------------------------------------------------------------------------
(* agent.configure                                                         *)

\* runMu is released before the engine is rebuilt.
ConfigureArrives(q) ==
  /\ method[q] = "configure"
  /\ IF runCancel # NoRun
       THEN Answer(q, "received", "busy")
       ELSE Step(q, "received", "checked") /\ UNCHANGED outcome
  /\ UNCHANGED <<method, params, bound, batch, wanted, draft, target, engVars, runVars, mcpVars>>

ConfigureBadParams(q) ==
  /\ params[q] = "undecodable"
  /\ Answer(q, "checked", "invalid")
  /\ UNCHANGED <<method, params, bound, batch, wanted, draft, target, engVars, runVars, mcpVars>>

ConfigureLocks(q) ==
  /\ params[q] # "undecodable" /\ engMu = NoRun /\ engMu' = q
  /\ Step(q, "checked", "rebuilding")
  /\ draft' = [draft EXCEPT ![q].tools = tools[eng]]
  /\ UNCHANGED <<method, params, bound, batch, wanted, target, outcome,
                 eng, tools, wrote, ctxMu, runVars, mcpVars, late>>

\* Slip: the error path returns without unlocking.
Slip_FailKeepsLock(q) ==
  /\ params[q] = "unknown name"
  /\ Answer(q, "rebuilding", "invalid")
  /\ UNCHANGED <<method, params, bound, batch, wanted, draft, target, engVars, runVars, mcpVars>>

\* An unknown guard, judge, verifier, summarizer, loop type or llm mode.
ConfigureFails(q) ==
  /\ params[q] = "unknown name"
  /\ Answer(q, "rebuilding", "invalid")
  /\ engMu' = NoRun
  /\ UNCHANGED <<method, params, bound, batch, wanted, draft, target,
                 eng, tools, wrote, ctxMu, runVars, mcpVars, late>>

ConfigureCopiesHistory(q) ==
  /\ params[q] = "good" /\ Free(eng)
  /\ Step(q, "rebuilding", "copied")
  /\ draft' = [draft EXCEPT ![q].wrote = wrote[eng]]
  /\ UNCHANGED <<method, params, bound, batch, wanted, target, outcome, engVars, runVars, mcpVars>>

ConfigureSwaps(q) ==
  /\ Answer(q, "copied", "ok")
  /\ eng' = q
  /\ tools' = [tools EXCEPT ![q] = draft[q].tools]
  /\ wrote' = [wrote EXCEPT ![q] = draft[q].wrote]
  /\ engMu' = NoRun
  /\ UNCHANGED <<method, params, bound, batch, wanted, draft, target, ctxMu, runVars, mcpVars, late>>

Configure(q) ==
  \/ ConfigureArrives(q) \/ ConfigureBadParams(q) \/ ConfigureLocks(q)
  \/ ConfigureFails(q) \/ ConfigureCopiesHistory(q) \/ ConfigureSwaps(q)

----------------------------------------------------------------------------
(* agent.abort                                                             *)

AbortReads(q) ==
  /\ method[q] = "abort"
  /\ IF runCancel = NoRun
       THEN Answer(q, "received", "idle") /\ UNCHANGED target
       ELSE /\ Step(q, "received", "aborting")
            /\ target' = [target EXCEPT ![q] = runCancel]
            /\ UNCHANGED outcome
  /\ UNCHANGED <<method, params, bound, batch, wanted, draft, engVars, runVars, mcpVars>>

AbortCancels(q) ==
  /\ Answer(q, "aborting", "aborted")
  /\ cancelled' = cancelled \cup {target[q]}
  /\ UNCHANGED <<method, params, bound, batch, wanted, draft, target, runCancel, stream,
                 engVars, mcpVars>>

Abort(q) == AbortReads(q) \/ AbortCancels(q)

----------------------------------------------------------------------------
(* tool.register and mcp.register: one tool at a time, each on whatever    *)
(* engine is current when its turn comes.                                  *)

RegisterStarts(q) ==
  /\ method[q] = "tool.register" /\ params[q] = "good"
  /\ Step(q, "received", "binding")
  /\ UNCHANGED <<method, params, bound, batch, wanted, draft, target, outcome,
                 engVars, runVars, mcpVars>>

MCPFails(q) ==
  /\ method[q] = "mcp.register" /\ params[q] = "good"
  /\ Answer(q, "received", "error")
  /\ UNCHANGED <<method, params, bound, batch, wanted, draft, target, engVars, runVars, mcpVars>>

MCPConnects(q) ==
  /\ method[q] = "mcp.register" /\ params[q] = "good"
  /\ Step(q, "received", "connected")
  /\ spawned' = spawned \cup {q}
  /\ UNCHANGED <<method, params, bound, batch, wanted, draft, target, outcome,
                 engVars, runVars, mcpClients, closed>>

\* append on a slice that no mutex guards: a read and a write.
MCPReadsClients(q) ==
  /\ Step(q, "connected", "appending")
  /\ draft' = [draft EXCEPT ![q].clients = mcpClients]
  /\ UNCHANGED <<method, params, bound, batch, wanted, target, outcome,
                 engVars, runVars, mcpVars>>

MCPWritesClients(q) ==
  /\ Step(q, "appending", "binding")
  /\ mcpClients' = draft[q].clients \cup {q}
  /\ UNCHANGED <<method, params, bound, batch, wanted, draft, target, outcome,
                 engVars, runVars, spawned, closed>>

RegisterBinds(q) ==
  /\ batch[q] # {} /\ engMu = NoRun
  /\ Step(q, "binding", "bound")
  /\ bound' = [bound EXCEPT ![q] = eng]
  /\ UNCHANGED <<method, params, batch, wanted, draft, target, outcome, engVars, runVars, mcpVars>>

RegisterTool(q, t) ==
  /\ t \in batch[q] \ tools[bound[q]]
  /\ Step(q, "bound", "reserving")
  /\ batch' = [batch EXCEPT ![q] = @ \ {t}]
  /\ tools' = [tools EXCEPT ![bound[q]] = @ \cup {t}]
  /\ lateTools' = IF ToolsRead(bound[q]) THEN lateTools \cup {<<q, t>>} ELSE lateTools
  /\ UNCHANGED <<method, params, bound, wanted, draft, target, outcome,
                 eng, engMu, wrote, ctxMu, runVars, mcpVars, lateRuns>>

\* A name that is taken ends the request; what it registered stays.
RegisterRefused(q, t) ==
  /\ t \in batch[q] \cap tools[bound[q]]
  /\ Answer(q, "bound", "invalid")
  /\ closed' = IF method[q] = "mcp.register" THEN closed \cup {q} ELSE closed
  /\ UNCHANGED <<method, params, bound, batch, wanted, draft, target, engVars, runVars,
                 spawned, mcpClients>>

\* updateReservedTokens goes through the context manager.
RegisterReserves(q) ==
  /\ Free(bound[q])
  /\ Step(q, "reserving", "binding")
  /\ UNCHANGED <<method, params, bound, batch, wanted, draft, target, outcome,
                 engVars, runVars, mcpVars>>

RegisterDone(q) ==
  /\ batch[q] = {}
  /\ Answer(q, "binding", "ok")
  /\ UNCHANGED <<method, params, bound, batch, wanted, draft, target, engVars, runVars, mcpVars>>

Register(q) ==
  \/ RegisterStarts(q) \/ RegisterBinds(q) \/ RegisterReserves(q) \/ RegisterDone(q)
  \/ \E t \in Tools : RegisterTool(q, t) \/ RegisterRefused(q, t)
  \/ MCPFails(q) \/ MCPConnects(q) \/ MCPReadsClients(q) \/ MCPWritesClients(q)

----------------------------------------------------------------------------
(* session.history, context.summarize, session.inject                      *)

ReadBinds(q) ==
  /\ method[q] \in {"history", "summarize"}
  /\ engMu = NoRun
  /\ Step(q, "received", "reading")
  /\ bound' = [bound EXCEPT ![q] = eng]
  /\ UNCHANGED <<method, params, batch, wanted, draft, target, outcome, engVars, runVars, mcpVars>>

\* An empty history needs no summary.
Reads(q) ==
  /\ Free(bound[q])
  /\ method[q] = "history" \/ wrote[bound[q]] = {}
  /\ Answer(q, "reading", "ok")
  /\ UNCHANGED <<method, params, bound, batch, wanted, draft, target, engVars, runVars, mcpVars>>

\* Summarize asks the LLM with no lock held.
Summarizes(q) ==
  /\ Free(bound[q])
  /\ method[q] = "summarize" /\ wrote[bound[q]] # {}
  /\ Step(q, "reading", "summarizing")
  /\ UNCHANGED <<method, params, bound, batch, wanted, draft, target, outcome,
                 engVars, runVars, mcpVars>>

Summarized(q, o) ==
  /\ Answer(q, "summarizing", o)
  /\ UNCHANGED <<method, params, bound, batch, wanted, draft, target, engVars, runVars, mcpVars>>

\* Slip: the engine is read under engMu and the lock not kept.
Slip_InjectNoLock(q) ==
  /\ method[q] = "inject" /\ params[q] = "good"
  /\ engMu = NoRun
  /\ Step(q, "received", "injecting")
  /\ UNCHANGED <<method, params, bound, batch, wanted, draft, target, outcome,
                 engVars, runVars, mcpVars>>

InjectLocks(q) ==
  /\ method[q] = "inject" /\ params[q] = "good"
  /\ engMu = NoRun /\ engMu' = q
  /\ Step(q, "received", "injecting")
  /\ UNCHANGED <<method, params, bound, batch, wanted, draft, target, outcome,
                 eng, tools, wrote, ctxMu, runVars, mcpVars, late>>

InjectWrites(q) ==
  /\ Free(eng)
  /\ Step(q, "injecting", "counting")
  /\ wrote' = [wrote EXCEPT ![eng] = @ \cup {q}]
  /\ UNCHANGED <<method, params, bound, batch, wanted, draft, target, outcome,
                 eng, engMu, tools, ctxMu, runVars, mcpVars, late>>

InjectCounts(q) ==
  /\ Free(eng)
  /\ Answer(q, "counting", "ok")
  /\ engMu' = NoRun
  /\ UNCHANGED <<method, params, bound, batch, wanted, draft, target,
                 eng, tools, wrote, ctxMu, runVars, mcpVars, late>>

Session(q) ==
  \/ ReadBinds(q) \/ Reads(q) \/ Summarizes(q)
  \/ \E o \in {"ok", "error"} : Summarized(q, o)
  \/ InjectLocks(q) \/ InjectWrites(q) \/ InjectCounts(q)

----------------------------------------------------------------------------

Handle(q) == Run(q) \/ Configure(q) \/ Abort(q) \/ Register(q) \/ Session(q)
             \/ BadParams(q) \/ Reply(q)

AllAnswered == (\A q \in Requests : pc[q] = "replied") /\ UNCHANGED vars

Next ==
  \/ \E q \in Requests : Handle(q) \/ \E m \in Methods : Send(q, m)
  \/ AllAnswered

Spec == Init /\ [][Next]_vars

(***************************************************************************)
(* A goroutine is scheduled while it can run.  It waits for the LLM and    *)
(* for the wrapper, and these calls have timeouts; a run takes at most     *)
(* maxTurns turns, so it cannot go round RunWrites and RunCompacts for     *)
(* ever: strong fairness of RunEnds stands for that bound.  An MCP server  *)
(* is waited for without limit, in mcp.register and in a run that calls    *)
(* its tools, and git in a worktree: the assumption is for instances and   *)
(* wrappers that use neither.                                              *)
(***************************************************************************)
Fairness ==
  \A q \in Requests :
    /\ WF_vars(Handle(q))
    /\ SF_vars(\E o \in {"ok", "denied", "error"} : RunEnds(q, o))

FairSpec == Spec /\ Fairness

----------------------------------------------------------------------------
(* Properties.                                                             *)

\* The run slot names the one agent.run that is past its admission and has
\* not left yet, on every path out of the handler: never two runs, and no
\* slot left taken by a run that is over (handlers.go: runCancel, runMu).
RunSlotIsTheRun == \A q \in Requests : pc[q] \in InRun <=> runCancel = q

\* stream.delta and stream.end carry no run id.  The wrapper can attribute
\* them all the same: once a notification of another run has followed, a
\* run sends no more (handlers.go: StreamEnd before the slot is freed).
StreamsDoNotInterleave ==
  \A i, j \in 1..Len(stream) : stream[i] = stream[j] => i = j

\* AgentBusy is only answered while the wrapper is still owed the reply to
\* another agent.run: whoever has read that reply may run or configure at
\* once (handlers.go: the slot is freed before the reply is written).
BusyHasACause ==
  [][\A q \in Requests :
       outcome[q] # "busy" /\ outcome'[q] = "busy"
         => \E r \in Requests \ {q} : method[r] = "run" /\ InFlight(r)]_vars

\* "Registrations are additive and persist for the lifetime of the subprocess"
\* (docs/api/concepts/lifecycle.md:38): a tool that was registered is known to
\* the engine, whichever request came in between.
Registered(q) == wanted[q] \ batch[q]

RegistrationsPersist == \A q \in Requests : Registered(q) \subseteq tools[eng]

\* What agent.configure does carry over, whatever else is in flight and however
\* often it comes or fails half way: the engine knows every tool registered
\* before a rebuild read the tools, and its history has every successful run
\* that wrote before a rebuild read the history.  An injection is never lost:
\* engMu keeps it and a rebuild apart (handlers.go: handleAgentConfigure,
\* handleSessionInject).
RebuildLosesNothing ==
  /\ \A q \in Requests : \A t \in Registered(q) : t \in tools[eng] \/ <<q, t>> \in lateTools
  /\ \A q \in Requests : outcome[q] = "ok" =>
       /\ method[q] = "run" => q \in wrote[eng] \cup lateRuns
       /\ method[q] = "inject" => q \in wrote[eng]

\* Every request is answered: no order of taking engMu, the history lock and
\* the run slot leaves a handler waiting for ever.  Each request is sent once,
\* so it is enough that in the end none is in flight.
EveryRequestAnswered == <>[](\A q \in Requests : ~InFlight(q))
=============================================================================
