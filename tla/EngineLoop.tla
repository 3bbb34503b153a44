----------------------------- MODULE EngineLoop -----------------------------
(***************************************************************************)
(* Engine.Run (internal/engine/engine.go) with the router step, the checks *)
(* before a tool runs, the verifiers after it, the answer step and the     *)
(* goal judge.  One engine runs one prompt after another; an abort may     *)
(* cancel the context of a run at any moment.                              *)
(*                                                                         *)
(* The LLM, the tools, the guards, the verifiers, the judge and the child  *)
(* engine of a delegated task are external: each answers in any of the     *)
(* ways its caller tells apart.  A message is its role, the tool and call  *)
(* it belongs to and how its text begins.  Token counts are left out, and  *)
(* with them compaction: the engine modelled is one that has none          *)
(* configured, as in main.go before an agent.configure.                    *)
(***************************************************************************)
EXTENDS Naturals, Sequences, FiniteSets

CONSTANTS
  Tools,           \* names in the registry
  Skills,          \* those that come from the skills catalogue
  Parts,           \* what is configured, of the parts named below
  MaxTurns,        \* Engine.maxTurns
  MaxStepRetries,  \* Engine.maxStepRetries
  MaxFailures,     \* Engine.maxConsecutiveFailures
  MaxRuns          \* bound: prompts in one behaviour

ASSUME SkillsAssumption == Skills \subseteq Tools \ {"none", "delegate_task"}
ASSUME PartsAssumption ==
  Parts \subseteq {"input guards", "tool guards", "output guards", "permission",
                   "verifiers", "judge", "delegate"}
ASSUME LimitsAssumption == {MaxTurns, MaxStepRetries, MaxFailures, MaxRuns} \subseteq Nat

VARIABLES
  pc,          \* where Run is
  history,     \* the context manager's messages
  turn,        \* turns taken by the current run
  stepRetries,
  failures,    \* consecutiveFailures
  tool,        \* the tool the router chose
  result,      \* how the last run ended
  cancelled,   \* the run's context is done
  runs,        \* runs begun
  log,         \* history variable: what each turn of this run came to
  abortedAt    \* history variable: turns taken when the context was cancelled

control == <<pc, turn, stepRetries, failures, tool, result>>
abort   == <<cancelled, abortedAt>>
vars    == <<control, history, runs, log, abort>>

Virtual == {"none", "delegate_task", "missing"}
Texts   == {"ok", "Error:", "Error executing", "Permission denied:", "Blocked by guard:"}

User          == [role |-> "user"]
Assistant     == [role |-> "assistant"]
Call(t, id)   == [role |-> "assistant", tool |-> t, id |-> id]
Output(id, x) == [role |-> "tool", id |-> id, text |-> x]

\* Slip: an id is generated for each of the two messages.
Slip_TwoIds(t, x) ==
  LET id == Len(history) + 1 IN history \o <<Call(t, id), Output(id + 1, x)>>

\* generateCallID: the position of the call is an id no other call has.
Exchange(t, x) ==
  LET id == Len(history) + 1 IN history \o <<Call(t, id), Output(id, x)>>

Init ==
  /\ pc = "idle" /\ result = "none" /\ turn = 0 /\ stepRetries = 0 /\ failures = 0
  /\ tool = "none" /\ history = <<>> /\ runs = 0 /\ cancelled = FALSE
  /\ log = <<>> /\ abortedAt = 0

----------------------------------------------------------------------------
(* The caller.                                                             *)

\* handleAgentRun.
Start ==
  /\ pc = "idle" /\ runs < MaxRuns
  /\ runs' = runs + 1
  /\ pc' = "input" /\ turn' = 0 /\ stepRetries' = 0 /\ failures' = 0
  /\ tool' = "none" /\ result' = "none" /\ cancelled' = FALSE /\ abortedAt' = 0
  /\ log' = <<>>
  /\ UNCHANGED history

Abort ==
  /\ pc # "idle" /\ ~cancelled
  /\ cancelled' = TRUE /\ abortedAt' = turn
  /\ UNCHANGED <<control, history, runs, log>>

----------------------------------------------------------------------------
(* How a run ends and how a turn ends.                                     *)

\* What the router chose lives no longer than its turn.
Finish(r) ==
  /\ pc' = "idle" /\ result' = r /\ tool' = "none"
  /\ UNCHANGED <<turn, stepRetries, failures, runs, abort>>

isFailureReason(r) ==
  r \in {"tool_error", "tool_not_found", "verify_failed", "permission_denied",
         "guard_blocked"}

EndRun(r) == log' = Append(log, r) /\ Finish(r)

\* Slip: a retry that succeeds leaves the retry counter as it is.
Slip_RetriesKept(r) ==
  LET count == IF isFailureReason(r) THEN failures + 1 ELSE 0 IN
  /\ log' = Append(log, r)
  /\ failures' = count /\ tool' = "none"
  /\ UNCHANGED <<stepRetries, runs, abort>>
  /\ IF isFailureReason(r) /\ count >= MaxFailures
       THEN pc' = "idle" /\ result' = "max_consecutive_failures" /\ UNCHANGED turn
       ELSE pc' = "turn" /\ turn' = turn + 1 /\ UNCHANGED result

\* Continue: the failure counter, then the next turn.
EndTurn(r) ==
  LET count == IF isFailureReason(r) THEN failures + 1 ELSE 0 IN
  /\ log' = Append(log, r)
  /\ stepRetries' = 0 /\ failures' = count /\ tool' = "none"
  /\ UNCHANGED <<runs, abort>>
  /\ IF isFailureReason(r) /\ count >= MaxFailures
       THEN pc' = "idle" /\ result' = "max_consecutive_failures" /\ UNCHANGED turn
       ELSE pc' = "turn" /\ turn' = turn + 1 /\ UNCHANGED result

\* Slip: a retry counts neither as a turn nor as a retry.
Slip_RetriesFree(class) ==
  \/ /\ class = "transient" /\ pc' = "turn" /\ tool' = "none"
     /\ UNCHANGED <<turn, stepRetries, failures, result, runs, log, abort>>
  \/ class = "fatal" /\ EndRun(IF cancelled THEN "canceled" ELSE "fatal")
  \/ class \in {"user_fixable", "tripwire"} /\ EndRun(class)

\* classifyError, and what Run does with each class.  A transient error is
\* retried after a pause that a cancelled context cuts short.
StepFails(class) ==
  \/ /\ class = "transient" /\ stepRetries < MaxStepRetries
     /\ IF cancelled
          THEN EndRun("canceled")
          ELSE /\ stepRetries' = stepRetries + 1 /\ turn' = turn + 1 /\ pc' = "turn"
               /\ log' = Append(log, "transient") /\ tool' = "none"
               /\ UNCHANGED <<failures, result, runs, abort>>
  \/ class = "transient" /\ stepRetries >= MaxStepRetries /\ EndRun("max_step_retries")
  \/ class = "fatal" /\ EndRun(IF cancelled THEN "canceled" ELSE "fatal")
  \/ class \in {"user_fixable", "tripwire"} /\ EndRun(class)

\* runGuards refuses on a context that is done, when the stage has a guard.
Verdicts(stage) ==
  IF stage \notin Parts THEN {"allow"}
  ELSE IF cancelled THEN {"deny"} ELSE {"allow", "deny", "tripwire"}

----------------------------------------------------------------------------
(* Run, up to the first turn and at the head of the loop.                  *)

InputGuard(v) ==
  /\ pc = "input" /\ v \in Verdicts("input guards")
  /\ \/ /\ v = "allow"
        /\ history' = Append(history, User)
        /\ pc' = "turn"
        /\ UNCHANGED <<turn, stepRetries, failures, tool, result, runs, log, abort>>
     \/ /\ v # "allow"
        /\ Finish(IF v = "deny" THEN "input_denied" ELSE "tripwire")
        /\ UNCHANGED <<history, log>>

\* Slip: the context is not looked at.
Slip_HeadNoCheck ==
  /\ pc = "turn"
  /\ \/ turn >= MaxTurns /\ Finish("max_turns") /\ UNCHANGED log
     \/ /\ turn < MaxTurns
        /\ pc' = IF Tools = {} THEN "chat" ELSE "route"
        /\ UNCHANGED <<turn, stepRetries, failures, tool, result, runs, log, abort>>
  /\ UNCHANGED history

LoopHead ==
  /\ pc = "turn"
  /\ \/ turn >= MaxTurns /\ Finish("max_turns") /\ UNCHANGED log
     \/ /\ turn < MaxTurns /\ cancelled
        /\ Finish("canceled") /\ UNCHANGED log
     \/ /\ turn < MaxTurns /\ ~cancelled
        /\ pc' = IF Tools = {} THEN "chat" ELSE "route"
        /\ UNCHANGED <<turn, stepRetries, failures, tool, result, runs, log, abort>>
  /\ UNCHANGED history

----------------------------------------------------------------------------
(* toolStep.                                                               *)

\* Positions after the last user message.
Recent ==
  {i \in 1..Len(history) : \A j \in i..Len(history) : history[j].role # "user"}

IsCall(m)   == m.role = "assistant" /\ "tool" \in DOMAIN m
IsOutput(m) == m.role = "tool"

\* Slip: only the last message is looked at.
Slip_LooksAtLastOnly(t) ==
  /\ t \in Skills
  /\ \E i \in Recent :
       /\ i = Len(history) /\ IsOutput(history[i]) /\ history[i].text # "Error:"
       /\ history[i - 1].tool = t

toolAlreadySucceeded(t) ==
  /\ t \in Skills
  /\ \E i, j \in Recent :
       /\ IsCall(history[i]) /\ history[i].tool = t
       /\ IsOutput(history[j]) /\ history[j].id = history[i].id
       /\ history[j].text # "Error:"

RouterFails(class) ==
  /\ pc = "route"
  /\ StepFails(class)
  /\ UNCHANGED history

Route(t) ==
  /\ pc = "route"
  /\ tool' = t
  /\ pc' = CASE t = "none" -> "chat"
             [] t = "delegate_task" /\ "delegate" \in Parts -> "delegate"
             [] toolAlreadySucceeded(t) -> "chat"
             [] t \notin Tools -> "missing"
             [] OTHER -> "access"
  /\ UNCHANGED <<turn, stepRetries, failures, result, history, runs, log, abort>>

NotFound ==
  /\ pc = "missing"
  /\ history' = Exchange(tool, "Error:")
  /\ EndTurn("tool_not_found")

\* delegateStep: bad arguments, or a child that ran to its end.
Delegate(x) ==
  /\ pc = "delegate"
  /\ history' = Exchange(tool, x)
  /\ EndTurn(IF x = "Error:" THEN "delegate_parse_error" ELSE "delegate_task")

\* checkToolAccess: the permission pipeline, then the guards.
Denied ==
  /\ pc = "access" /\ "permission" \in Parts
  /\ history' = Exchange(tool, "Permission denied:")
  /\ EndTurn("permission_denied")

Guarded(v) ==
  /\ pc = "access" /\ v \in Verdicts("tool guards")
  /\ \/ /\ v = "allow"
        /\ pc' = "execute"
        /\ UNCHANGED <<turn, stepRetries, failures, tool, result, history, runs, log, abort>>
     \/ /\ v = "deny"
        /\ history' = Exchange(tool, "Blocked by guard:")
        /\ EndTurn("guard_blocked")
     \/ /\ v = "tripwire"
        /\ StepFails("tripwire")
        /\ UNCHANGED history

\* executeAndRecord, and the verifiers after a success.  A result the tool gives
\* as a success is recorded as it is, one that begins with "Error:" too; a
\* failure is recorded behind "Error:" or "Error executing".
Execute(x, reason) ==
  /\ pc = "execute"
  /\ \/ reason = "tool_use" /\ x \in {"ok", "Error:"}
     \/ reason = "tool_error" /\ x \in {"Error:", "Error executing"}
  /\ history' = Exchange(tool, x)
  /\ IF reason = "tool_use" /\ "verifiers" \in Parts
       THEN /\ pc' = "verify"
            /\ UNCHANGED <<turn, stepRetries, failures, tool, result, runs, log, abort>>
       ELSE EndTurn(reason)

VerifyPasses ==
  /\ pc = "verify" /\ ~cancelled
  /\ EndTurn("tool_use")
  /\ UNCHANGED history

\* A context that is done counts as a failed verification.
VerifyFails ==
  /\ pc = "verify"
  /\ history' = Append(history, User)
  /\ EndTurn("verify_failed")

----------------------------------------------------------------------------
(* chatStep and the goal judge.                                            *)

ChatFails(class) ==
  /\ pc = "chat"
  /\ StepFails(class)
  /\ UNCHANGED history

Chat(v) ==
  /\ pc = "chat" /\ v \in Verdicts("output guards")
  /\ \/ /\ v = "tripwire" /\ StepFails("tripwire") /\ UNCHANGED history
     \/ /\ v = "deny"
        /\ history' = Append(history, Assistant)
        /\ EndRun("output_blocked")
     \/ /\ v = "allow"
        /\ history' = Append(history, Assistant)
        /\ IF "judge" \notin Parts
             THEN EndRun("completed")
             ELSE /\ pc' = "judge"
                  /\ UNCHANGED <<turn, stepRetries, failures, tool, result, runs, log, abort>>

JudgeContinues ==
  /\ pc = "judge"
  /\ EndTurn("judge_continue")
  /\ UNCHANGED history

JudgeAgrees ==
  /\ pc = "judge" /\ EndRun("completed") /\ UNCHANGED history

\* A judge that fails is passed over and the answer stands.
JudgeErrs ==
  /\ pc = "judge"
  /\ log' = Append(log, "judge_error") /\ Finish("completed")
  /\ UNCHANGED history

----------------------------------------------------------------------------

Classes == {"transient", "user_fixable", "fatal"}

Turn ==
  \/ LoopHead
  \/ \E c \in Classes : RouterFails(c) \/ ChatFails(c)
  \/ \E t \in Tools \cup Virtual : Route(t)
  \/ NotFound \/ Denied \/ VerifyPasses \/ VerifyFails
  \/ \E x \in {"ok", "Error:"} : Delegate(x)
  \/ \E x \in {"ok", "Error:", "Error executing"}, reason \in {"tool_use", "tool_error"} :
       Execute(x, reason)
  \/ \E v \in {"allow", "deny", "tripwire"} : InputGuard(v) \/ Guarded(v) \/ Chat(v)
  \/ JudgeContinues \/ JudgeAgrees \/ JudgeErrs

AllDone == pc = "idle" /\ runs = MaxRuns /\ UNCHANGED vars

Next == Start \/ Abort \/ Turn \/ AllDone

Spec == Init /\ [][Next]_vars

\* A turn is inside a tool, or inside the child engine of a delegated task.
AtTool == pc \in {"execute", "delegate"}

\* What else a turn waits for comes back: a request to the LLM or to the wrapper
\* has a timeout (internal/llm/option.go, internal/rpc/remote_*.go), a permission
\* is not asked for in an engine of the RPC server, and guards and verifiers in
\* the program only compute.  A tool owes nothing: one of an MCP server waits in
\* Receive or in a POST with neither ctx nor timeout (internal/mcp/client.go,
\* transport.go), and so does a child that calls it.
FairSpec == Spec /\ WF_vars(~AtTool /\ Turn)

----------------------------------------------------------------------------
(* Properties.                                                             *)

\* The shape of the state.
TypeOK ==
  /\ pc \in {"idle", "input", "turn", "route", "missing", "delegate", "access",
            "execute", "verify", "chat", "judge"}
  /\ turn \in 0..MaxTurns /\ stepRetries \in 0..MaxStepRetries /\ failures \in Nat
  /\ tool \in Tools \cup Virtual
  /\ \A i \in 1..Len(history) :
       \/ history[i] \in {User, Assistant}
       \/ history[i] \in {Call(t, i) : t \in Tools \cup Virtual}
       \/ history[i] \in {Output(i - 1, x) : x \in Texts}
  /\ runs \in 0..MaxRuns /\ cancelled \in BOOLEAN /\ abortedAt \in 0..MaxTurns

\* The failed steps since the last one that did not fail, errors that were
\* retried not counting either way, and the retries since the last turn up to
\* turn k that was none.
FailedSteps ==
  {i \in 1..Len(log) :
     /\ isFailureReason(log[i])
     /\ \A j \in i..Len(log) : isFailureReason(log[j]) \/ log[j] = "transient"}

Retries(k) == {i \in 1..k : \A j \in i..k : log[j] = "transient"}

\* Run stops for the reason it gives, told from the turns themselves and not
\* from its counters: after MaxFailures failed steps in a row; after one
\* transient error more than it may retry; after MaxTurns turns.  And it stops
\* at once when a limit is reached (engine.go: Run).
StopsForItsReason ==
  /\ result = "max_consecutive_failures" => Cardinality(FailedSteps) >= MaxFailures
  /\ result = "max_step_retries" => Cardinality(Retries(Len(log) - 1)) = MaxStepRetries
  /\ result = "max_turns" => Len(log) = MaxTurns
  /\ pc # "idle" =>
       /\ FailedSteps = {} \/ Cardinality(FailedSteps) < MaxFailures
       /\ Cardinality(Retries(Len(log))) <= MaxStepRetries
       /\ Len(log) <= MaxTurns

\* A skill is not loaded a second time for the same user message.  One whose own
\* text begins with "Error:" is taken for a failure and is outside the promise
\* (engine.go: toolAlreadySucceeded).
Loads(s) ==
  {i \in Recent : IsCall(history[i]) /\ history[i].tool = s /\ history[i + 1].text = "ok"}

SkillLoadedOnce == \A s \in Skills : \A i, j \in Loads(s) : i = j

\* Once its context is cancelled a run finishes the turn it is in and begins
\* no other (engine.go: Run, the select at the head of the loop).
CancelStopsTheLoop == cancelled => turn <= abortedAt + 1

\* A run returns, whatever the model, the tools and the judge answer, unless a
\* tool it called never does: no retry, failure or verdict keeps it going.
RunReturns == [](pc # "idle" => <>(pc = "idle" \/ []AtTool))
=============================================================================
