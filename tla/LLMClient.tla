----------------------------- MODULE LLMClient -----------------------------
(***************************************************************************)
(* How a run gets its answer from the LLM over HTTP: internal/llm          *)
(* (client.go, retry.go, stream.go) below Engine.complete, routerStep,     *)
(* chatStep and the retries of Engine.Run.                                 *)
(*                                                                         *)
(* A request is repeated by doWithRetry until the LLM accepts it; then the *)
(* reply is read whole, or, when streaming, by a goroutine that hands it   *)
(* over piece by piece through a channel, each piece going to the wrapper  *)
(* at once.  A router step asks which tool to use and a chat step for the  *)
(* answer.  An abort may cancel the context of the run at any moment.      *)
(*                                                                         *)
(* The LLM is external: it may refuse, be busy, break off, or send what    *)
(* cannot be parsed.  A reply is the number of its pieces.                 *)
(***************************************************************************)
EXTENDS Integers, Sequences, FiniteSets

CONSTANTS
  MaxRetries,     \* Client.maxRetries
  MaxStepRetries, \* Engine.maxStepRetries
  MaxTurns,       \* Engine.maxTurns
  ChanCap,        \* capacity of the channel of a stream (16 in the code)
  MaxPieces       \* bound: pieces of a reply

ASSUME LimitsAssumption ==
  /\ {MaxRetries, MaxStepRetries, MaxPieces} \subseteq Nat
  /\ MaxTurns \in Nat \ {0} /\ ChanCap \in Nat \ {0}

VARIABLES
  setup,     \* what is configured: streaming, tools to route to, output guards
  pc,        \* where the goroutine of the run is
  step,      \* "router" or "chat"
  turn,      \* turns begun
  stepRetries,
  attempt,   \* the attempt doWithRetry is at
  text,      \* what complete has put together so far
  result,    \* how the run ended
  answer,    \* the assistant message it added to the history
  cancelled, \* the context of the run is done
  notified,  \* stream.delta: the pieces sent to the wrapper under each turn
  reply,     \* the LLM: pieces its reply has
  written,   \* the LLM: pieces of it on their way
  body,      \* the LLM: whether the body goes on, and how it ended
  reader,    \* where parseSSEStream is
  taken,     \* pieces it has read
  held,      \* the event it is about to send
  chan       \* the channel of the stream

runVars    == <<step, turn, stepRetries>>
endVars    == <<result, answer>>
bodyVars   == <<reply, written, body>>
readerVars == <<reader, taken, held, chan>>
vars == <<setup, pc, runVars, attempt, text, endVars, cancelled, notified,
          bodyVars, readerVars>>

Whole(n) == [i \in 1..n |-> i]
Safe == <<0>> \* "I cannot provide that response."

\* Events of a stream: a piece by its number, the end, an error.
End == 0
Err == -1

Init ==
  /\ setup \in [streaming : BOOLEAN, tools : BOOLEAN, guards : BOOLEAN]
  /\ pc = "turn" /\ step = "chat" /\ turn = 0 /\ stepRetries = 0 /\ attempt = 0
  /\ text = <<>> /\ result = "none" /\ answer = <<>> /\ cancelled = FALSE
  /\ notified = [t \in 0..MaxTurns |-> <<>>]
  /\ reply = 0 /\ written = 0 /\ body = "none"
  /\ reader = "none" /\ taken = 0 /\ held = End /\ chan = <<>>

----------------------------------------------------------------------------
(* Engine.Run: how a step ends.                                            *)

EndRun(r, message) ==
  /\ pc' = "done" /\ result' = r /\ answer' = message
  /\ UNCHANGED <<runVars, attempt>>

Go(label) == pc' = label /\ UNCHANGED <<runVars, attempt, endVars>>

\* Slip: a broken connection is worth a retry like a bad router reply.
Slip_BrokenIsTransient(class) ==
  \/ /\ class \in {"transient", "broken"} /\ stepRetries < MaxStepRetries /\ ~cancelled
     /\ stepRetries' = stepRetries + 1 /\ pc' = "turn"
     /\ UNCHANGED <<step, turn, attempt, endVars>>
  \/ /\ class \in {"transient", "broken"} /\ (stepRetries >= MaxStepRetries \/ cancelled)
     /\ EndRun("error", <<>>)
  \/ class = "user_fixable" /\ EndRun("user_fixable", <<>>)
  \/ class = "fatal" /\ EndRun("error", <<>>)

\* classifyError, and what Run makes of each class.  Only the transient one is
\* tried again, after a pause that a cancelled context cuts short.
StepFails(class) ==
  \/ /\ class = "transient" /\ stepRetries < MaxStepRetries /\ ~cancelled
     /\ stepRetries' = stepRetries + 1 /\ pc' = "turn"
     /\ UNCHANGED <<step, turn, attempt, endVars>>
  \/ /\ class = "transient" /\ (stepRetries >= MaxStepRetries \/ cancelled)
     /\ EndRun("error", <<>>)
  \/ class = "user_fixable" /\ EndRun("user_fixable", <<>>)
  \/ class \in {"fatal", "broken"} /\ EndRun("error", <<>>)

Ask(s) ==
  /\ pc' = "send" /\ step' = s /\ attempt' = 0 /\ text' = <<>>
  /\ UNCHANGED <<stepRetries, endVars>>

LoopHead ==
  /\ pc = "turn"
  /\ \/ turn = MaxTurns /\ EndRun("max_turns", <<>>) /\ UNCHANGED text
     \/ turn < MaxTurns /\ cancelled /\ EndRun("error", <<>>) /\ UNCHANGED text
     \/ /\ turn < MaxTurns /\ ~cancelled
        /\ turn' = turn + 1
        /\ Ask(IF setup.tools THEN "router" ELSE "chat")
  /\ UNCHANGED <<setup, cancelled, notified, bodyVars, readerVars>>

----------------------------------------------------------------------------
(* doWithRetry.                                                            *)

Send ==
  /\ pc = "send"
  /\ IF cancelled THEN StepFails("fatal") ELSE Go("wait")
  /\ UNCHANGED <<setup, text, cancelled, notified, bodyVars, readerVars>>

LastAttempt == attempt = MaxRetries

\* The connection fails or the status is one of isRetryable.
Busy ==
  /\ pc = "wait"
  /\ IF LastAttempt THEN StepFails("fatal") ELSE Go("pause")
  /\ UNCHANGED <<setup, text, cancelled, notified, bodyVars, readerVars>>

\* Slip: a connection that failed does not count as an attempt.
Slip_AttemptNotCounted ==
  /\ pc = "pause" /\ pc' = "send"
  /\ UNCHANGED <<setup, runVars, attempt, text, endVars, cancelled, notified,
                 bodyVars, readerVars>>

\* Backoff, or what Retry-After says, however long.
PauseEnds ==
  /\ pc = "pause" /\ pc' = "send" /\ attempt' = attempt + 1
  /\ UNCHANGED <<setup, runVars, text, endVars, cancelled, notified, bodyVars, readerVars>>

PauseCut ==
  /\ pc = "pause" /\ cancelled /\ StepFails("fatal")
  /\ UNCHANGED <<setup, text, cancelled, notified, bodyVars, readerVars>>

\* Any other status but 200 is an APIError: 400, 401, 403 and 404 are for the
\* user to mend.
Refused ==
  /\ pc = "wait"
  /\ StepFails("user_fixable") \/ StepFails("fatal")
  /\ UNCHANGED <<setup, text, cancelled, notified, bodyVars, readerVars>>

\* The LLM begins a reply of n pieces; a stream gets its channel and reader.
Accepted(n) ==
  /\ pc = "wait"
  /\ Go("body")
  /\ reply' = n /\ written' = 0 /\ body' = "open"
  /\ reader' = (IF setup.streaming THEN "scan" ELSE "none")
  /\ taken' = 0 /\ held' = End /\ chan' = <<>>
  /\ UNCHANGED <<setup, text, cancelled, notified>>

----------------------------------------------------------------------------
(* The LLM, once it replies.  Every attempt has a time limit, body         *)
(* included, and a cancelled context breaks it off.                        *)

Writes ==
  /\ body = "open" /\ written < reply
  /\ written' = written + 1
  /\ UNCHANGED <<setup, pc, runVars, attempt, text, endVars, cancelled, notified,
                 reply, body, readerVars>>

\* With [DONE], without it, broken off, or by something that is no JSON.
BodyEnds(how) ==
  /\ body = "open" /\ how \in {"done", "eof", "broken", "garbage"}
  /\ how = "done" => written = reply
  /\ body' = how
  /\ UNCHANGED <<setup, pc, runVars, attempt, text, endVars, cancelled, notified,
                 reply, written, readerVars>>

----------------------------------------------------------------------------
(* The goroutine of a stream: parseSSEStream and sendEvent.                *)

\* The context is looked at behind every line, but not at the end of the body.
NextEvent ==
  IF taken = written /\ body = "eof" THEN End
  ELSE IF cancelled THEN Err
  ELSE IF taken < written THEN taken + 1
  ELSE IF body = "done" THEN End ELSE Err

\* Slip: a chunk that does not parse is passed over like an empty line.
Slip_GarbageSkipped ==
  /\ reader = "scan" /\ (cancelled \/ taken < written \/ body # "open")
  /\ held' = IF body = "garbage" /\ taken = written THEN End ELSE NextEvent
  /\ taken' = IF ~cancelled /\ taken < written THEN taken + 1 ELSE taken
  /\ reader' = "deliver"
  /\ UNCHANGED <<setup, pc, runVars, attempt, text, endVars, cancelled, notified,
                 bodyVars, chan>>

\* A line is there, the body has ended, or the cancelled context ends it.
\* A stream that ends without [DONE] is taken as complete.
Scan ==
  /\ reader = "scan" /\ (cancelled \/ taken < written \/ body # "open")
  /\ held' = NextEvent
  /\ taken' = IF ~cancelled /\ taken < written THEN taken + 1 ELSE taken
  /\ reader' = "deliver"
  /\ UNCHANGED <<setup, pc, runVars, attempt, text, endVars, cancelled, notified,
                 bodyVars, chan>>

\* The select of sendEvent takes either branch when both are ready; close(out)
\* is deferred.
Deliver ==
  /\ reader = "deliver"
  /\ \/ /\ Len(chan) < ChanCap /\ chan' = Append(chan, held)
        /\ reader' = IF held \in {End, Err} THEN "closed" ELSE "scan"
     \/ cancelled /\ reader' = "closed" /\ UNCHANGED chan
  /\ UNCHANGED <<setup, pc, runVars, attempt, text, endVars, cancelled, notified,
                 bodyVars, taken, held>>

----------------------------------------------------------------------------
(* Engine.complete.                                                        *)

\* Slip: the turn of Run, which counts from 0, goes out as it is.
Slip_TurnFromZero == IF step = "router" THEN 0 ELSE turn - 1

\* The turn a piece is sent under; the router's JSON goes out under turn 0.
DeltaTurn == IF step = "router" THEN 0 ELSE turn

\* One event of the channel: a piece goes to the wrapper at once.
Event ==
  /\ pc = "body" /\ setup.streaming /\ chan # <<>>
  /\ chan' = Tail(chan)
  /\ LET e == Head(chan) IN
       \/ e = Err /\ StepFails("broken") /\ UNCHANGED <<text, notified>>
       \/ e = End /\ Go("body") /\ UNCHANGED <<text, notified>>
       \/ /\ e \notin {Err, End}
          /\ text' = Append(text, e)
          /\ notified' = [notified EXCEPT ![DeltaTurn] = Append(@, e)]
          /\ Go("body")
  /\ UNCHANGED <<setup, cancelled, bodyVars, reader, taken, held>>

\* The channel is closed: what has come is the reply.
StreamRead ==
  /\ pc = "body" /\ setup.streaming /\ chan = <<>> /\ reader = "closed"
  /\ Go("reply")
  /\ UNCHANGED <<setup, text, cancelled, notified, bodyVars, readerVars>>

\* ChatCompletion: all of the body, or an error; a reply may have no choices.
BodyRead ==
  /\ pc = "body" /\ ~setup.streaming /\ body # "open"
  /\ \/ body = "done" /\ text' = Whole(reply) /\ Go("reply")
     \/ body = "done" /\ reply = 0 /\ StepFails("transient") /\ UNCHANGED text
     \/ body # "done" /\ StepFails("broken") /\ UNCHANGED text
  /\ UNCHANGED <<setup, cancelled, notified, bodyVars, readerVars>>

----------------------------------------------------------------------------
(* routerStep and chatStep.                                                *)

\* ParseContent mends what it can, so a reply cut short may still name a tool.
Choices == IF text = <<>> THEN {"unreadable"} ELSE {"none", "tool", "unreadable"}

\* The tool itself is external and the next turn follows it.
Routed(choice) ==
  /\ pc = "reply" /\ step = "router" /\ choice \in Choices
  /\ \/ choice = "unreadable" /\ StepFails("transient") /\ UNCHANGED text
     \/ choice = "none" /\ Ask("chat") /\ UNCHANGED turn
     \/ /\ choice = "tool" /\ pc' = "turn" /\ stepRetries' = 0
        /\ UNCHANGED <<step, turn, attempt, endVars, text>>
  /\ UNCHANGED <<setup, cancelled, notified, bodyVars, readerVars>>

\* Guards refuse on a context that is done.
Verdicts ==
  IF ~setup.guards THEN {"allow"}
  ELSE IF cancelled THEN {"deny"} ELSE {"allow", "deny", "tripwire"}

Answered(verdict) ==
  /\ pc = "reply" /\ step = "chat" /\ verdict \in Verdicts
  /\ \/ verdict = "allow" /\ EndRun("completed", text)
     \/ verdict = "deny" /\ EndRun("output_blocked", Safe)
     \/ verdict = "tripwire" /\ EndRun("error", <<>>)
  /\ UNCHANGED <<setup, text, cancelled, notified, bodyVars, readerVars>>

Abort ==
  /\ pc # "done" /\ ~cancelled /\ cancelled' = TRUE
  /\ UNCHANGED <<setup, pc, runVars, attempt, text, endVars, notified, bodyVars, readerVars>>

----------------------------------------------------------------------------
LLM ==
  \/ Busy \/ Refused \/ \E n \in 0..MaxPieces : Accepted(n)

Engine ==
  \/ LoopHead \/ Send \/ PauseEnds \/ PauseCut
  \/ Event \/ StreamRead \/ BodyRead
  \/ \E c \in {"none", "tool", "unreadable"} : Routed(c)
  \/ \E v \in {"allow", "deny", "tripwire"} : Answered(v)

Reader == Scan \/ Deliver

Body == Writes \/ \E how \in {"done", "eof", "broken", "garbage"} : BodyEnds(how)

Done == pc = "done" /\ reader \in {"none", "closed"} /\ UNCHANGED vars

Next == LLM \/ Engine \/ Reader \/ Body \/ Abort \/ Done

Spec == Init /\ [][Next]_vars

\* Goroutines that can run are run.  The HTTP client's timeout bounds each
\* attempt, so that the LLM's part of it comes to an end one way or another.
FairSpec ==
  /\ Spec /\ WF_vars(Engine) /\ WF_vars(Reader) /\ WF_vars(LLM)
  /\ WF_vars(Body)

----------------------------------------------------------------------------
(* Properties.                                                             *)

\* The values every variable may take: no request is sent more than
\* MaxRetries + 1 times and no step tried again more than MaxStepRetries times.
TypeOK ==
  /\ setup \in [streaming : BOOLEAN, tools : BOOLEAN, guards : BOOLEAN]
  /\ pc \in {"turn", "send", "wait", "pause", "body", "reply", "done"}
  /\ step \in {"router", "chat"} /\ turn \in 0..MaxTurns
  /\ stepRetries \in 0..MaxStepRetries /\ attempt \in 0..MaxRetries
  /\ text \in Seq(1..MaxPieces) /\ cancelled \in BOOLEAN
  /\ result \in {"none", "completed", "output_blocked", "user_fixable", "error", "max_turns"}
  /\ answer \in Seq(0..MaxPieces)
  /\ notified \in [0..MaxTurns -> Seq(1..MaxPieces)]
  /\ reply \in 0..MaxPieces /\ written \in 0..reply
  /\ body \in {"none", "open", "done", "eof", "broken", "garbage"}
  /\ reader \in {"none", "scan", "deliver", "closed"} /\ taken \in 0..written
  /\ held \in Err..MaxPieces
  /\ chan \in Seq(Err..MaxPieces) /\ Len(chan) <= ChanCap

\* The answer that completes a run is the reply of the LLM, whole and in its
\* order; it is the beginning of it only where the LLM ended the stream
\* without [DONE] or the run was aborted.  A reply that broke off or went bad
\* half way is never taken for an answer (stream.go:113-148).
AnswerWholeOrCut ==
  result = "completed" =>
    /\ answer = Whole(Len(answer)) /\ Len(answer) <= reply
    /\ Len(answer) < reply => body = "eof" \/ cancelled

\* What was streamed under the turn of an answer is that answer
\* (engine.go:664-676, docs/api/methods/notifications.md:15).
WrapperSawTheAnswer ==
  setup.streaming /\ result = "completed" => notified[turn] = answer

\* A turn that has streamed text to the wrapper is the last of its run: no
\* retry, of the request or of the step, lets the wrapper read two beginnings
\* of an answer (retry.go:28, errors.go:48).  There is no goal judge here.
NoRetryBehindText ==
  \A t \in 1..MaxTurns : notified[t] # <<>> => t = turn

\* A run returns, whatever the LLM does: its retries run out, and a stream whose
\* end or error an abort kept from being delivered is closed (retry.go:18-56,
\* stream.go:82-87).
RunReturns == <>(pc = "done")
=============================================================================
