# TLA+ models of the agent harness

The repository is an agent harness in Go: a process (`cmd/agent`) that talks
JSON-RPC over stdin and stdout to a wrapper (an SDK in JavaScript, Python or
Swift), runs an agent loop around a language model, and calls tools, guards,
verifiers, judges and even the model back over the same two pipes.  This
directory holds TLA+ models of its core, the TLC runs that check them, and
proofs that TLAPS checks.

    tlc -workers 2 -config RpcServer_peer.cfg RpcServer     # a run
    tlapm EngineLoopProofs.tla                              # a module's proofs

Contents: [the system](#the-system), [modules](#modules), [runs](#runs),
[fairness](#fairness), [proofs](#proofs), [what the code does
otherwise](#what-the-code-does-otherwise-than-its-documents-say),
[what is not modelled](#what-is-not-modelled), [plan](#plan).

## The system

### Processes, goroutines and locks

One process.  Inside it:

* `Server.Serve` (internal/rpc/server.go) is the only reader of stdin.  For
  each request it starts a goroutine that runs the handler and writes the
  reply; a response it hands to the goroutine that waits for it.
* Handlers (internal/rpc/handlers.go) share the run slot (`runCancel` under
  `runMu`), the engine (`eng` under `engMu`), the list of MCP clients (under
  nothing), and each engine's tool registry (under nothing) and history (the
  mutex of its context manager).
* `Engine.Run` (internal/engine/engine.go) is sequential: it runs in the
  goroutine of `agent.run`.  What it calls may block for as long as a timeout
  (the LLM over HTTP or through the wrapper; remote tools, guards, verifiers and
  judges through `SendRequest`) or without any limit (MCP servers through pipes
  or SSE; git).
* A watcher goroutine closes all pending calls when the process is signalled.

### Components

| Component | State | Operations | What makes it correct |
|---|---|---|---|
| JSON-RPC peer (`rpc/server.go`, `rpc/pending.go`) | next id, pending map with a channel per call, write lock | read a line, dispatch, call back, resolve, time out, shut down | the reader never blocks, a caller gets the answer to its own call, no answer is lost, the process ends at end of input when its handlers have |
| Method handlers (`rpc/handlers.go`, `rpc/configure.go`, `rpc/notifier.go`) | run slot, current engine, MCP clients | run, configure, abort, tool.register, mcp.register, history, inject, summarize, guard/verifier/judge.register | one run at a time and no slot left behind, streams that can be told apart, a rebuild that loses nothing it could have kept, every request answered |
| Engine loop (`engine/engine.go`, `router.go`, `errors.go`, `verify.go`, `guard_registry.go`, `delegate.go`) | turn, retry and failure counters, history | input guard, router, access checks, tool, verifiers, answer, judge | stops for the reason it gives, stops when cancelled, returns if its tools do, calls paired with results, a skill loaded once |
| Context manager, compaction (`context/*.go`) | entries, token counts, reserved tokens, observers | add, replace, compact in four stages | a cut never separates a call from its result, counts add up, compaction gets below its target or leaves the history alone |
| Session runner (`engine/session.go`) | the progress file | load or create, next task, run, save, log | no task lost or run twice for ever over crashes, a file that is always readable |
| Coordinator, delegation, worktree (`engine/coordinator.go`, `delegate.go`, `worktree.go`) | child engines, semaphore, worktrees on disk | run tasks in parallel, gather, run one child apart | results in task order, children bounded, all waited for, no worktree left |
| MCP client (`mcp/*.go`) | request id, transport, SSE queue | connect, list, call, close | an answer reaches the call it belongs to, a call ends when its context does |
| Remote adapters (`rpc/remote_*.go`) | a timeout each | execute, check, verify, judge, complete | failures map to the safe verdict |
| Configure fields (`rpc/configure.go`, `engine/option.go`) | the options of an engine | rebuild from a request | what a request does not name stays as it was |
| Tool registry, permission, audit, guards, verifiers (`engine/*.go`, `engine/builtin`) | name maps, rules, a log | register, match, check | no name twice, deny before allow |
| LLM client (`llm/*.go`) | none across calls | complete, stream, retry, repair JSON | bounded retries, an answer that is whole or cut for a reason, nothing streamed twice |
| Skills, prompt, memory, protocol types, built-in tools, REPL | – | text and I/O | – |
| SDKs, browser agent (`sdk/`) | clients of the protocol; an engine of its own in TypeScript | – | – |

### What is hard here

The hazards are listed with their lines in `PROJECT.json`.  In short:

* Two goroutines meet between a lock's release and the use of what was read
  under it: `handleAgentConfigure` looks at the run slot and rebuilds later,
  `handleToolRegister` reads the engine and registers later, `handleAgentAbort`
  reads the cancel function and calls it later, `Resolve` takes a channel out
  of the map and sends on it later, `CancelAll` closes channels meanwhile.
* Locks are held over slow calls: the history's over the summarizer's LLM call,
  `engMu` over waiting for the history's.
* Answers of the wrapper come late, twice, to nobody, or before the caller
  waits.
* A deferred function, the reply and `stream.end` have an order the wrapper
  relies on.
* Counters (turns, retries, failures) are reset on some paths and not others.
* Crashes between writes to the progress file; partial failures in the middle
  of `rebuildEngine` and of a batch of registrations.

## Modules

| Module | Models | Size of what it checks |
|---|---|---|
| `RpcServer` | the JSON-RPC peer | handlers, ids, channels, stdin, shutdown |
| `RpcCalls` | what a call over a shared pipe promises: an abstract specification that `RpcServer` and `MCPClient` implement | – |
| `AgentHandlers` | the method handlers, lock region by lock region | requests of eight methods |
| `EngineLoop` | `Engine.Run` and the steps of a turn | one run after another |
| `ContextManager` | the message history and the compaction cascade | a run, a wrapper that injects, compactions |
| `SessionRunner` | the loop over a list of tasks and its progress file | calls, crashes, failed saves |
| `MCPClient` | the client of one MCP server, its two transports and its registration | callers that share it, a server that does what it likes |
| `LLMClient` | requests to the LLM, their retries, and replies that are streamed | a run of several turns, an LLM that does what it likes |
| `Delegation` | `coordinate_tasks`, `delegate_task` and worktrees | delegations in a row, children that fail |
| `EngineConfig` | `agent.configure` block by block, registrations, `Fork`, permission, tool scope | any sequence of requests |
| `RpcServerProofs`, `AgentHandlersProofs`, `EngineLoopProofs`, `SessionRunnerProofs`, `MCPClientProofs`, `LLMClientProofs`, `DelegationProofs` | the theorems about the module of that name | – |
| `EngineStateProofs` | the theorems about what an engine holds: its options (`EngineConfig`) and its history (`ContextManager`) | – |

The modules meet at narrow places, and each takes the other's side as anything
it may do.  A *handler* of `RpcServer` is any goroutine of a request, whatever
it does between its calls; `AgentHandlers` says what such goroutines do to the
state they share and takes a call to the wrapper as a step with any outcome;
a *run* of `AgentHandlers` (`RunWrites`, `RunStreams`, `RunCompacts`,
`RunEnds`) is any behaviour of `EngineLoop` seen from outside: messages into
the history it was bound to, notifications, and an end.  `ContextManager` is
what a run and `session.inject` do to the history, whose mutex `AgentHandlers`
models; `runTask` of `SessionRunner` and a child of `Delegation` are behaviours
of `EngineLoop` with their result.  `LLMClient` is the inside of one step of
`EngineLoop`, which takes the LLM's reply as one of the outcomes `LLMClient`
shows it can have.  The callers of `MCPClient` are the children that
`Delegation` runs side by side, with the tools of their parent.  `Configure` of
`EngineConfig` is what `ConfigureSwaps` of `AgentHandlers` puts in place; the
latter says when, the former what.  Definitions named `Slip_...` are not part of a specification; each is a slip that a change to the
definition below it could make, and shows that a property depends on it.

### RpcServer

| In the model | In the code |
|---|---|
| `reader` | where `Serve` is: in `scanner.Scan`, between the two halves of `Resolve` (`deliver`), in `wg.Wait` (`drain`), returned |
| `handler[r]`, `call[r]` | where the goroutine of request r is in `SendRequest`, and which call it makes |
| `pending`, `chan`, `slot` | the map of `PendingRequests`, the channel of capacity one that `Register` makes, and what it holds |
| `TakeId`, `Register`, `WriteRequest` | `nextRequestID`, `Register`, `writeRequest` in the order of `SendRequest` |
| `ReceiveResponse`, `ReceiveClosed`, `ContextDone` | the branches of its `select`; with several ready any may be taken |
| `DispatchResponse`, `Deliver` | `Resolve` up to and after the release of `p.mu` |
| `ScanCancelled`, `ScanEOF`, `ScanFails`, `ServeReturns` | the ways out of the scan loop (the last is `scanner.Err`, a line over `MaxMessageSize`), and `wg.Wait` |
| `Signal`, `CancelAll` | the signal context, and the watcher that `Serve` starts |

A response line names the call it answers, which the code cannot see: that is
how `OwnResponse`, and the refinement, can say whether it went home.  `status <- ...` in `Abstract`
is the refinement mapping to `RpcCalls`.  The wrapper writes what it likes:
responses to what it was asked in any number and order, ids it never got
(`0`), and junk.  The pipes have no bound and a write to stdout ends.

### AgentHandlers

An action is what a handler does between two lock operations.  `runMu` is never
held across another operation, so each of its regions is one action and there
is no variable for it; `engMu` and the history's mutex (`ctxMu`) are held
across others and are modelled by their holder.

| In the model | In the code |
|---|---|
| `pc[q]` | where the handler of request q is |
| `runCancel` | the run slot |
| `eng`, `bound[q]` | `Handlers.eng`, each engine under the name of the configure that built it; the engine a handler got from `h.Engine()` |
| `tools[e]`, `wrote[e]` | the registry of engine e; whose messages its history has taken |
| `RunArrives` … `RunLeaves` | `handleAgentRun`, to its deferred function; `Reply` is the server goroutine's write after the handler has returned |
| `ConfigureArrives` … `ConfigureSwaps` | `handleAgentConfigure` and `rebuildEngine`: the check under `runMu`, the lock of `engMu`, the copy of the tools, of the history, the swap |
| `AbortReads`, `AbortCancels` | the two halves of `handleAgentAbort` |
| `RegisterBinds`, `RegisterTool`, `RegisterRefused`, `RegisterReserves` | `registerTool` for one tool of a batch, which asks for the current engine anew each time |
| `MCPReadsClients`, `MCPWritesClients` | `append` to `mcpClients`, a read and a write |
| `InjectLocks` … `InjectCounts` | `handleSessionInject` under `engMu` |
| `stream` | notifications in the order they are written, repeats of one run collapsed |
| `lateTools`, `lateRuns` | history variables: tools added to an engine, and runs that wrote to its history, when a rebuild had already copied that part of it |

Registering a tool is one action although the registry has no lock: two
goroutines that write a Go map at a time end the process, and there is no
later state to speak of.

Nothing is assumed of the wrapper: `agent.configure` may be in flight with
anything.  What it loses then is history that came behind its copy, and the two
`late` variables name exactly that, so that `RebuildLosesNothing` says of
everything else that it is kept.

### EngineLoop

`pc` is where `Run` is within a turn.  `turn`, `stepRetries`, `failures` and
`cancelled` are its counters and its context, `history` the messages, each
reduced to its role, the tool and call it belongs to and how its text begins
(the code looks at no more; the text of a successful result may begin with
`Error:` too).  `Parts` says which of the optional parts the
engine has.  `Verdicts` is `runGuards`, with a context that is done refusing;
`StepFails` is `classifyError` and the `switch` in `Run`; `EndTurn` and
`EndRun` are what `Run` does with the result of a step.  `log` and `abortedAt`
are history variables: what each turn came to, by which `StopsForItsReason`
judges the counters without reading them, and when the context was cancelled.

### ContextManager

Every method of the manager holds its mutex to the end, so each is an action;
that includes `Compact`, which holds it over the summarizer's LLM call.

| In the model | In the code |
|---|---|
| `entries` | `Manager.entries`: role, what its text is to the cascade, tokens, and which call a result answers |
| `tokenCount`, `reserved`, `exceeded` | the fields of these names; `exceeded` is what the engine's observer (engine.go:167) was told last |
| `open` | the call that `executeAndRecord` has added and whose result it is about to add |
| `AddMessage`, `AddCall`, `AddResult` | the calls of `Add` in the engine |
| `Inject`, `SetReserved` | `session.inject`; `updateReservedTokens` |
| `Compact` | `maybeCompact` at the beginning of a turn, with no summarizer, one that answers and one that fails |
| `Stages`, `budgetTrim`, `observationMask`, `snip`, `adjustKeepBoundary` | the functions of compaction.go; `Replaced` is what `snip` and `compact` do alike |

Ratios are token counts: `Threshold` and `Target` are the configured fractions
of the limit.  A message's size is any of `Sizes`, a shortened one has the size
of what it was shortened to.  What a wrapper injects is well formed, a call
together with its result.  `BestCut` is the reference definition that the
search of `adjustKeepBoundary` is compared with: the largest cut that leaves
the last `KeepLast` messages and separates no pair.

### SessionRunner

`pc` is where `RunLoop` is, `save` where it is in `saveProgress`: the temporary
file is opened (and torn), filled, renamed, and each of the three may fail or
be the last thing the process does.  `Crash` resets what is in memory and keeps
`disk` and `tmp`.  `RunLoop` may be called again after it returned or the
process died.  `finished` is a history variable: the tasks an engine has
completed, whether that was recorded or not.  A crash is one of the process:
the code does not sync its files, so what a power failure leaves is up to the
file system and not modelled.

### MCPClient

| In the model | In the code |
|---|---|
| `stage` | how far `RegisterMCPServer` and the handler around it have come |
| `pc[p]`, `call[p]`, `idOf` | where a caller is in `Client.call`, its call and the id it took from `nextID` |
| `wire`, `messages` | the lines the server has written and nobody has read; the channel of the SSE transport |
| `SendStdio`; `PostReaches`, `PostReturns` | `StdioTransport.Send`, a write under `mu`; `SSETransport.Send`, where the server has the request before the POST returns |
| `Check`, `ReceiveStdio`, `ReceiveSSE`, `Take` | the loop of `Client.call`: the context, a line, and whether it has the id |
| `ReceiveRaced` | two goroutines in one `bufio.Scanner`: a line may come out torn |
| `ReadEvent`, `Enqueue`, `ReadEnds` | `readSSE` and the `select` with a `default` that drops |
| `Connect` … `Waited` | `NewStdioTransport` and `NewSSETransport`, `Initialize`, `ListTools`, registering the tools, `Close` |

Nothing hands a line to the caller it answers: every caller reads, and drops
what is not its own.  So an answer can vanish, and `crowded` and `dropped` are
history variables that say of which calls: those that were under way beside
another, and those whose answer found the queue full.  `DueCallsReturn` and
`NoAnswerVanishes` say that nothing else can lose one.  A line carries the call
it answers as in `RpcServer`, for the refinement to `RpcCalls`.

### LLMClient

| In the model | In the code |
|---|---|
| `LoopHead`, `Ask`, `Routed`, `Answered`, `StepFails` | `Engine.Run`, `routerStep` and `chatStep` as far as they ask the LLM; `classifyError` |
| `Send`, `Busy`, `PauseEnds`, `PauseCut`, `Refused` | `doWithRetry`, attempt by attempt |
| `Accepted`, `BodyRead` | the reply begins; `ChatCompletion` reads it whole |
| `Scan`, `NextEvent`, `Deliver` | `parseSSEStream` in its goroutine and `sendEvent`, whose `select` may take either branch |
| `Event`, `StreamRead` | `Engine.complete` over the channel: each piece goes to the wrapper at once |
| `Writes`, `BodyEnds` | the LLM, which ends a body with `[DONE]`, without it, in the middle of it or with no JSON |

A reply is the number of its pieces; a text is the sequence of the pieces it was
put together from.  `notified` keeps what went to the wrapper under each turn.

### Delegation

`child[i]` is where the goroutine of task i is: queued for a slot of the
semaphore, running, returned, stored, its slot given back, gone.  `Return` and
`Store` are apart because the results are shared by index; the two deferred
calls are apart because the parent is woken by the second.  A report is, for
each task, whether it succeeded and how long its text is (`Cut`, `Share`).
For `delegate_task`, `CreateWorktree`, `WorktreeFails` and `Cleanup` are
worktree.go with git as any outcome, and `place` is where the child works.

### EngineConfig

An engine is a record of its options.  `Rebuilt` is `rebuildEngine`:
`FromDefault` are the blocks that begin with the defaults, `Named` those that
are carried over; `Refused` its errors, which leave the old engine in place.
`Register` is `guard.register` and its like, `Forked` is `Engine.Fork`,
`Allowed` is `PermissionChecker.Check` and `Offered` is
`ScopedFormatForPromptWithCalls` for any number of calls of each tool.  Blocks
that the code handles alike are one block here (the module says which).

## Runs

| Run | Properties | Instance |
|---|---|---|
| `rpc_peer` | `ReaderNeverBlocks`, `NoLostResponse`, `ImplementsCalls`, `EOFEndsProcess` | 2 requests, one a notification; 2 calls; 4 lines |
| `handlers_any` | `RunSlotIsTheRun`, `StreamsDoNotInterleave`, `RebuildLosesNothing`, `BusyHasACause`; no deadlock | 3 requests of any of 8 methods, 1 tool |
| `handlers_lose_tools` | `RegistrationsPersist`, violated: see [below](#what-the-code-does-otherwise-than-its-documents-say) | 2 requests of configure, tool.register, 1 tool |
| `handlers_live` | `EveryRequestAnswered` | 3 requests of run, configure, inject |
| `loop_run` | `TypeOK`, `StopsForItsReason`, `SkillLoadedOnce`, `CancelStopsTheLoop`, `RunReturns` | every part, a tool and a skill, 4 turns, 1 retry, 2 failures, 1 run |
| `compaction` | `CountsAgree`, `PairsSurvive`, `CompactedEnough`, `ProtectedKept` | 5 messages of 2 sizes, any injection, 2 reserves, keep 2 |
| `session` | `FileFollows`, `LossPerAccident`, `NotRunTwice`, `LoopReturns` | 3 tasks, 5 sessions, 3 calls, 2 accidents |
| `mcp` | `NoAnswerVanishes`, `HandshakeFirst`, `FailedLeavesNoServer`, `ImplementsCalls`, `DueCallsReturn`, `AbortSeenAtNextLine` | either transport, 2 callers, 4 calls of which 2 are the registration's, 1 line of noise, a queue of 1 |
| `llm` | `AnswerWholeOrCut`, `WrapperSawTheAnswer`, `NoRetryBehindText`, `RunReturns` | streaming, tools and guards or not, 3 turns, 1 retry of each kind, replies of up to 3 pieces, a channel of 2 |
| `delegation` | `ChildrenWithinLimit`, `WorktreeLivesWithItsChild`, `EveryTaskReported`, `StepReturns` | 2 delegations, up to 3 tasks, a limit of 2 or the default, a budget or none |
| `config` | `ChildNoFreer`, `OfferedInScope`, `PartsCarriedOver` | requests of one block and llm, in any sequence; 2 tools, 3 lists of rules, 1 name registered |
| `config_omitted` | `OmittedFieldsKeep`, violated: see [below](#what-the-code-does-otherwise-than-its-documents-say) | the same, 2 names |

The type invariants of all modules but `EngineLoop`, and `OwnResponse`,
`QuietExit`, `DoneStaysDone`, `NoChildLeftBehind`, `ForkNeverPanics` and
`BuiltinsNotShadowed`, are in no run: they are proved instead.

Why the bounds are enough to mean something:

* `rpc_peer`: two callers and two calls are what it takes for an answer to go
  to the wrong one, for a late answer to meet a new call of the same handler,
  and for `CancelAll` to run between the two halves of `Resolve`.  Four lines
  are a request each and two that answer, repeat or say nothing known.  The
  proofs lift every bound.
* `handlers_any`: a race takes two requests, and a third is what finds the
  state they leave: a second run beside a first with an abort between them, a
  configure and two registrations.  One tool is enough for the races; that a
  batch of several stops half way is covered by the proofs, which lift every
  bound.
* `handlers_lose_tools` needs one registration beside one configure.
* `handlers_live` has the methods that hold a lock while they wait for another.
  It does not check deadlock (`CHECK_DEADLOCK FALSE`): `handlers_any` does,
  and a request that is stuck violates the temporal property.
* `loop_run`: four turns leave room for a retry, its success, two failures and
  one turn beyond; with one retry and two failures every limit is reached by
  each of its ways.  A run that begins with messages of an earlier one adds
  nothing to a single run here, because no step looks behind the last user
  message; the proofs cover any number of runs.
* `compaction`: five messages with two protected hold a call and its result on
  either side of the boundary, across it, and with another pair injected
  between them; the sizes are such that each of the first three stages is the one
  that meets the target in some history and misses it in another.  (The fourth
  puts a summary in the place of a marker and brings it no nearer.)
* `session`: three tasks are one that is done, one that failed and one still to
  begin; two accidents are a crash in the call that follows a crash.  The proofs
  lift every bound.
* `mcp`: two callers are what it takes for one to read the other's answer, and
  the two calls left to them may be one caller's after another, the second
  meeting the late answer to the first.  A queue of one is full as soon as one
  message waits.  The proofs of the safety properties lift every bound.
* `llm`: three turns are a router reply that cannot be read, its retry, and an
  answer; three pieces against a channel of two make the reader wait with one
  in its hand and one more to come.
* `delegation`: three tasks against a limit of two make one wait for a slot;
  a budget of four leaves each of three tasks less than the longer text has,
  and the second delegation finds what the first left behind.
* `config`: what one request does to each block depends on that block, on the
  engine before and on `llm` (which a summarizer is bound to), so that requests
  of one block and llm, one after the other, reach every way a part can be set,
  kept or dropped.  Two tools tell the one that a rule or a scope names from one
  it does not, and one registered name is taken, overwritten or shadowed.

Bounds by name: `MaxCalls`, `MaxLines` (RpcServer); the set `Requests`, one
request each (AgentHandlers); `MaxRuns` (EngineLoop; `MaxTurns`,
`MaxStepRetries` and `MaxFailures` are the engine's own limits); `MaxMessages`
(ContextManager); `MaxLoops`, `MaxAccidents` (SessionRunner; `MaxSessions` is
its own limit); `MaxCalls`, `MaxNoise` (MCPClient; `QueueCap` is the transport's
own); `MaxPieces` (LLMClient; `MaxRetries`, `MaxStepRetries`, `MaxTurns` and
`ChanCap` are the code's own); `MaxTasks`, `MaxSteps`, `Lengths` (Delegation);
`Rules`, `MaxBlocks`, `MaxNames` (EngineConfig).

## Fairness

The Go runtime runs a goroutine that can run.  What has to be justified is that
a step which waits for something outside comes to its end, and there the code is
of two kinds.  Calls of the wrapper (`rpc/remote_*.go`) have a context with a
timeout and calls of the LLM have `http.Client.Timeout`.  A call of an MCP server
has neither: `Client.call` stays in `Receive` (mcp/client.go:196) or in a POST
(transport.go:230) for as long as the server is silent, registering one waits
for the endpoint event (transport.go:146) and `Close` for the server process
(transport.go:88); git runs without a context.  No such wait is fair here, and
each liveness property excepts it and only it.

* `RpcServer`: weak fairness of `Serve`, of the watcher and of `SendRequest`,
  whose caller has a timeout (`ContextDone`; for tools remote_tool.go:38).
  Neither calling the wrapper again (`TakeId`) nor returning (`Finish`) is fair,
  because a handler may wait for an MCP server between its calls.  So
  `EOFEndsProcess` says: once stdin is closed the process ends, or some handler
  is outside of `SendRequest` for ever.  The wrapper owes nothing: it need not
  answer, nor close stdin.  `Signal` is not fair, and nothing is promised of a
  signal while stdin is silent.
* `AgentHandlers`: weak fairness of each handler, for a harness without MCP
  servers and worktrees; `handlers_live`, the one run that uses it, has
  agent.run, agent.configure and session.inject.  Calls to the LLM and the
  wrapper end by timeout, so `SummaryArrives` and `Summarized` are steps of a
  handler like others.  A run takes at most `maxTurns` turns and cannot go round
  writing and compacting for ever; strong fairness of `RunEnds` stands for that
  bound, which `RunReturns` establishes in `EngineLoop`.  With an MCP tool that
  never answers a request can be left unanswered: its run, and behind a
  summary that run holds up, others.
* `EngineLoop`: weak fairness of a run's steps except those inside a tool or a
  delegated task (`AtTool`).  Neither the model nor the judge has to be
  reasonable: that a run returns, unless a tool never does, follows from the
  count of turns.
* `SessionRunner`: weak fairness of `RunLoop`'s own steps, not of the engine's
  run within.  Crashes and calls are not fair.  `ContextManager` and
  `EngineConfig` promise nothing that must happen.
* `MCPClient`: weak fairness of each caller's steps and of the reader of an SSE
  stream.  The server owes nothing, and neither does a POST, which has no time
  limit (transport.go:230): no step in which one returns is fair, and the
  properties speak of calls behind it.
* `LLMClient`: weak fairness of the run, of the reader goroutine, and of the
  LLM's part, because `http.Client.Timeout` bounds every attempt, body
  included; how it ends is open.
* `Delegation`: weak fairness of the parent's gathering of results and of each
  goroutine but for its child's run.  A child need not return, since it has its
  parent's MCP tools and its siblings may drop its answers; nor need git.
  `StepReturns` says that a step ends unless one of these waits for ever
  (`Waiting`).

## Proofs

TLAPS checks the theorems for every value of the constants that satisfies their
named assumptions (finitely or infinitely many requests and tools, any limits).
Each invariant is made inductive, by adding what its proof needs to know; a
lemma shows that each action preserves it; the temporal theorems follow by PTL.
The inductive invariants were checked on the runs' instances before they were
proved.

* **RpcServerProofs** (assumes `BoundsAssumption`).
  The properties are not inductive: that the channel in the reader's hand is
  empty follows only because a channel is reachable from at most one entry of
  the map, the reader took that entry out, and ids are never drawn twice.  The
  invariant says where the channel of a call can be in each phase of its
  caller: registered under its own id and nowhere else, in the reader's hand,
  filled once, or closed.  From it: `TypeCorrect`, `ReaderIsNeverBlocked`,
  `ResponsesGoHome`, `ResponsesAreNotLost`, `ExitIsQuiet`, and `Implementation`:
  the peer implements `RpcCalls`, each step being a step of one call or a
  stutter.
* **AgentHandlersProofs** (assumes `NoRunAssumption`).  Three invariants.
  `Inv` relates the place of every handler to the run slot, the engine it has
  bound and the last run in the stream; from it `OneRun`, `StreamsApart` and the
  action property `BusyExplained`.  `LockInv` says of every lock that the
  handler in its field is at a place that holds it, and the other way round;
  from it `LocksHaveHolders` and `NoCircularWait`: if a handler waits for
  `engMu` or a history, one is under way that waits for neither.  `RebuildInv`
  rests on both: a rebuild under way holds `engMu`, so that its draft is of the
  current engine and no injection comes between; what the draft holds is all
  that the engine had when it was copied, and what came behind is late.  From it
  `DraftsHoldWhatIsKept` and `NothingIsLost`, for any wrapper and engines built
  and dropped without bound.
* **EngineLoopProofs** (assumes `SkillsAssumption`, `LimitsAssumption`).  The
  invariant has four parts: the counters with the room a turn in progress has
  and how far a cancelled run may be; a history in order, each message in the
  shape its position demands; each call directly before its output; and that a
  skill on its way to be called is not loaded (`Fresh`).  The last is what makes
  `SkillLoadedOnce` inductive: the router looks at the history when it chooses,
  the call is recorded several steps later.  From it: `TypeCorrect`,
  `SkillsAreLoadedOnce`, `CancelStops`.  For `StopsRightly` a second one,
  `CountInv`, says that the two counters of `Run` are the number of failed
  steps, and of transient errors, since the last turn that was neither: sets of
  positions of `log`, which grow by one or become empty with each turn.
  `RunsAreBounded` gives a variant: `StepsLeft` is at most `8 * MaxTurns + 6`
  and each step of a run makes it smaller.
* **SessionRunnerProofs** (assumes `BoundsAssumption`).  The invariant says at
  every point of `RunLoop` how the file, the temporary file and the progress in
  memory stand to each other: equal at the head of the loop and during a run,
  apart in the session's task during a save, whose old status it names; and
  that a completed task is `done` or `in_progress` in the file, two statuses
  `nextPendingTask` passes over.  From it: `TypeCorrect`, `FileIsFollowing`,
  and the action properties `DoneIsKept` and `CompletedOnce`.  `LossInv` counts
  the tasks in progress in the file against the accidents, and says that what
  "complete" stood for stays so until the next call; from it `LossIsBounded`.
* **MCPClientProofs** (assumes `CallersAssumption`, `TransportsAssumption`,
  `BoundsAssumption`).  Four parts: ids are the numbers of calls, and two
  calls under way beside each other are both crowded (`Core`); a line with an
  id is the answer given to that very call (`Pipes`); what the server has
  received at each stage of the registration (`Course`); and
  `NoAnswerVanishes`.  The second is what makes matching by id safe although
  late answers to calls given up stay in the pipe; the first is why a line one
  caller drops matters only to crowded calls.  From it: `TypeCorrect`,
  `AnswersAreKept`, `HandshakeComesFirst`, `FailedLeaveNoServer`, and
  `Implementation`: the client implements `RpcCalls` too.
* **LLMClientProofs** (assumes `LimitsAssumption`).  The invariant follows
  the pieces of a streamed reply: the text is the first of them in their order,
  the channel holds those that come next, the reader's hand the one after
  (`InOrder`, `InHand`); and when the channel is closed with no abort, either
  its last event is an error or everything the LLM sent is in the text or the
  channel (`AtClose`).  From it: `TypeCorrect`, `AnswersAreWholeOrCut`,
  `AnswersAreTold`, `NothingIsToldTwice`; and `NoReaderIsLeft`, because an error
  is the last thing a reader sends, so that a run that gives up on one leaves
  nobody behind who would wait for room in the channel.
* **DelegationProofs** (assumes `SettingsAssumption`).  The invariant counts
  goroutines by where they are: the slots taken are as many as hold one, the
  WaitGroup's counter as many as are not gone; and says of each what its place
  in the results has.  From it: `TypeCorrect`, `ChildrenAreWithinLimit`,
  `NoChildIsLeftBehind`, `WorktreesGo`, `EveryTaskIsReported`;
  `NoDelegationGetsStuck`, because a slot that is taken is held by a goroutine
  that waits for nobody; and `DelegationsAreBounded`, whose variant counts the
  steps that the goroutines and the parent have ahead.
* **EngineStateProofs**, on `EngineConfig` (assumes `ToolsAssumption`,
  `NullAssumption`).  The invariant says that no engine has two tools of a
  name, that a child has the permissions, guards and verifiers of the engine it
  was forked from, that no guard or verifier with the name of a built-in one is
  remote, and what form the options have.  From it: `ChildIsNoFreer`,
  `ForksDoNotPanic`, `BuiltinsAnswer`, `OfferedIsInScope`, and the action
  property `PartsAreCarriedOver`.
* **EngineStateProofs**, on `ContextManager` (assumes `SizesAssumption`,
  `PositionsAssumption`).  Between two calls an injection may put messages, also
  into the gap between a call and the result that is still to come, and the
  properties of one compaction need to know what that can lead to.
  `ManagerInv` is `CountsAgree` together with: names are those written so far and
  no two calls have one (`WellFormed`); pairs of call and result are nested or
  apart and never cross (`NoneCross`); and no pair lies around the call whose
  result is awaited, so that adding it makes no pair cross (`OpenClear`).  The
  cascade is proved stage by stage: each keeps the pairs, keeps the protected
  messages but for results over the budget, and leaves a history of that form.
  From it: `ManagerInvariant`, `CountsDoAgree`, `PairsDoSurvive`,
  `CompactsEnough`, `ProtectedAreKept`.  `NoneCross` is what `PairsDoSurvive`
  rests on: the code moves its boundary once, in front
  of the first call whose result lies behind it, and with pairs that cross it
  would come to lie between another call and its result.  `CutIsBest` says that
  for histories of that form the search of `adjustKeepBoundary` ends at the cut
  that `BestCut` defines without it.

The loops of the code that filter tools and add up messages (`Kept`, `Total`)
are functions over `0..n`.  What they compute is proved without an induction
theorem: a set of numbers that is not empty has a least element, because the
sets `0..n` are finite and strict inclusion is well founded on finite sets
(`LeastElement`); so a set that has 0 and with each number the next is `Nat`
(`Counting`), and a lemma about a loop says that the rounds it holds for are
such a set.

Every invariant and every action property of the passing runs is a theorem here.
Only model-checked is what must eventually happen (`EOFEndsProcess`,
`EveryRequestAnswered`, `RunReturns` of two modules, `LoopReturns`,
`DueCallsReturn`, `AbortSeenAtNextLine`, `StepReturns`) and that TLC finds no
deadlock, since liveness under fairness and ENABLED are beyond the prover.
Where it says most, the part that is not scheduling is proved: the variants of
`RunsAreBounded` and `DelegationsAreBounded`, `NoDelegationGetsStuck`, and for
`EveryRequestAnswered` that no handlers wait for each other in a circle.

## What the code does otherwise than its documents say

Shown by a run that TLC must find violated:

* `handlers_lose_tools`: `tool.register` adds to the engine it has read without
  holding `engMu`.  If an `agent.configure` has copied the tools by then, the tool
  is answered as registered and is not in the engine that is swapped in;
  lifecycle.md:38 says that registrations persist for the lifetime of the
  subprocess.  `RebuildLosesNothing` holds: what is there before the copy is kept.
* `config_omitted`: `rebuildEngine` begins with the defaults and carries over
  only log, tools, history, LLM, router, judge and loop.  Limits, prompt,
  permission, guards, verifiers, compaction and scope that a later
  `agent.configure` omits go back to their defaults; agent.configure.md:3 says
  that omitted fields keep their existing value.  (lifecycle.md:32 and
  methods.go:122 say "default", which is nearer.)

Read off the source while modelling, without a run of their own.  The peer and
the handlers:

* `Serve` looks at its context only after `scanner.Scan` has returned a line.  A
  signal closes the pending calls but does not end the process while stdin
  stays open and silent (server.go:64 says it does).
* `agent.configure` and `agent.run` exclude each other only if the run is
  admitted first.  Otherwise the run works on an engine that is being replaced
  and what it writes behind the copy of the history is lost; lifecycle.md:34 has
  the server refuse one of the two with AgentBusy.  The wrapper is not told
  anywhere to wait for the reply to `agent.configure`, though it should.
* `agent.abort` reads the cancel function and calls it when the run may be over,
  and is then answered `aborted` although no run was stopped.  It never
  stops another: the function is of the one run.
* An abort sent right behind its run may be handled before it and then finds
  nothing to abort (handlers.go:248).
* A `guard.register` that fails half way leaves the definitions before it
  registered, and a name that is there is overwritten; guard.register.md calls
  a duplicate name an error.
* `append` to `mcpClients` has no lock: of two clients registered at a time one
  may be missing in `CloseAll`, which nothing calls (handlers.go:118).
* A judge that fails ends the run as completed; loop_type.go:51 says it lets
  the loop go on.
* An aborted run is answered with InternalError (−32603) or, when its stream was
  closed without an error event, as completed with the text that had come
  (stream.go:153); agent.abort.md:3 promises reason `aborted` or the code −32003.
* `max_turns` of an `agent.run` request is decoded and not used (agent.run.md:25
  calls it a per-call override).
* Entries of timed-out calls stay in the pending map and nothing drains it when
  stdin closes (lifecycle.md:64), which the model has and which is harmless
  because an entry's channel has room for the late answer.

The loop, its sessions and its configuration:

* A skill that was refused permission, blocked by a guard or failed in execution
  counts as loaded (engine.go:376), because only the prefix `Error:` is looked for;
  and one whose text begins with `Error:` never does (engine.go:396), which
  `SkillLoadedOnce` leaves out.
* The summarizer of the fourth stage of compaction is given the marker that the
  third has put in the place of the dropped messages, and summarizes nothing
  else (compaction.md:27 says the dropped messages).
* A task that was running when the process died stays `in_progress`; the next
  `RunLoop` passes over it and reports that all tasks are complete (session.go:68).
* `RunLoop` returns the error "max sessions reached with pending tasks" when the
  last session it may use completes the last task: `session = MaxSessions` is
  looked at first (session.go:75, 116).
* The first failed task is retried before any other that failed, so a task that
  always fails uses up the sessions of those behind it.
* A summarizer `llm` is bound to the driver of the engine before, also by a
  request that sets `llm.mode` to `remote`.  `llm.mode` `http` after `remote`
  is listed as applied and changes nothing.  An empty loop type or router or
  judge name drops what was set.
* A `tool_budget` of 0 limits nothing (registry.go:99, as its comment at line 72
  says); methods.go:232, the comment of the field on the wire, has it act close to
  "forbidden from the start".  `OfferedInScope` leaves scopes with an explicit 0
  out, being about budgets on which the two agree.
* Tools that are always included may be more than `max_tools` (the comment in
  registry.go speaks of filling up to it).  Children do not inherit the tool
  scope, its budgets, the reminder or streaming.
* A `max_chars` below the number of tasks is no limit at all (coordinator.go:127;
  option.go:155 calls it the total).  A goroutine that waits for a slot of the
  semaphore does not look at the context.  A process that is killed leaves its
  worktrees behind.

The LLM and MCP clients:

* An output guard sees an answer after its pieces were streamed, contrary to
  notifications.md:15.  `call_index` counts per completer, not per run as
  methods.go:309 says.
* A stream that ends without `[DONE]` is taken as complete, and a router reply
  cut short may be mended into a tool call.  An empty streamed reply is
  accepted where a plain one without choices is tried again.  `Retry-After` has
  no upper limit (retry.go:50).
* The POST of the SSE transport has neither context nor time limit
  (transport.go:230), and its `Close` does nothing, so that its reader stays.
* A tool that is refused at registration leaves those before it registered, on a
  client that is then closed.  `IsReadOnly` of an MCP tool is always false
  (tool.go:25; mcp.register.md:104 says it comes from the server).

## What is not modelled

* Text: prompts, JSON repair (llm/fixjson.go), wording of messages and logs,
  token estimation.
* I/O: the bytes of HTTP and SSE, files, git itself, the REPL.
* Memory-level races: the registry's map without a lock is listed as a hazard.
* A full stdout pipe: a wrapper that stops reading while it writes is outside
  of the protocol.
* Built-in guards and verifiers, skills and the memory index as to what they
  find in a text; the log of the permission audit.
* The SDKs and the browser agent, which are programs of their own.

## Plan

In this order; all but the last are done.

1. `RpcServer`, `RpcCalls`: everything else runs on it.
2. `AgentHandlers`: the interleavings a wrapper can cause.
3. `EngineLoop`: the control of a run.
4. `ContextManager`: the history and its compaction.
5. `SessionRunner`: the progress file over crashes.
6. `MCPClient`: calls that share a transport whose lines any of them may read
   and drop.
7. `LLMClient`: retries and streams.
8. `Delegation`: parallel children and worktrees.
9. `EngineConfig`: which options survive a configure that does not name them,
   and what a child inherits.
10. Proofs of every invariant and action property the runs check.
11. Next: variants for `LLMClient` and `SessionRunner`, as `EngineLoop` and
    `Delegation` have them.
