-------------------------- MODULE EngineLoopProofs --------------------------
(***************************************************************************)
(* Proofs about EngineLoop: its type invariant, that a skill is loaded     *)
(* once for a user message, that a cancelled run finishes the turn it is   *)
(* in and begins no other, that a run stops for the reason it gives, and   *)
(* that it comes closer to its end with every step.                        *)
(***************************************************************************)
EXTENDS EngineLoop, FiniteSetTheorems, TLAPS

\* In the middle of a turn there is a turn left to take.
Midturn == {"route", "missing", "delegate", "access", "execute", "verify", "chat", "judge"}

Room == pc \in Midturn => turn < MaxTurns

\* The cancelled run is in the turn it was cancelled in, or behind it and on
\* its way out.
Leaving ==
  cancelled => \/ turn = abortedAt
               \/ turn = abortedAt + 1 /\ pc \in {"turn", "idle"}

Numbers ==
  /\ pc \in Midturn \cup {"idle", "input", "turn"}
  /\ turn \in 0..MaxTurns /\ stepRetries \in 0..MaxStepRetries /\ failures \in Nat
  /\ tool \in Tools \cup Virtual
  /\ runs \in 0..MaxRuns /\ cancelled \in BOOLEAN /\ abortedAt \in 0..MaxTurns

Messages ==
  {User, Assistant} \cup {Call(t, i) : t \in Tools \cup Virtual, i \in Nat}
                    \cup {Output(i, x) : i \in Nat, x \in Texts}

\* A message at position i of a history.
InPlace(m, i) ==
  \/ m \in {User, Assistant}
  \/ m \in {Call(t, i) : t \in Tools \cup Virtual}
  \/ m \in {Output(i - 1, x) : x \in Texts}

HistoryOK ==
  history \in Seq(Messages) /\ \A i \in 1..Len(history) : InPlace(history[i], i)

Inv == Numbers /\ Room /\ Leaving

----------------------------------------------------------------------------

\* Finish keeps the counters and leaves the run where it is.
LEMMA FinishKeeps ==
  ASSUME Inv, NEW r, Finish(r)
  PROVE  Inv'
BY DEF Inv, Numbers, Room, Leaving, Finish, Midturn, Virtual, abort

\* The end of a turn moves on by one turn, to the head of the loop.
LEMMA EndTurnKeeps ==
  ASSUME Inv, NEW r, EndTurn(r), pc \in Midturn
  PROVE  Inv'
<1> USE LimitsAssumption DEF Inv, Numbers, Room, Leaving, Midturn, Virtual, abort
<1>1. CASE pc' = "idle" /\ UNCHANGED turn
  <2>1. failures' \in Nat
    BY <1>1 DEF EndTurn
  <2> QED
    BY <1>1, <2>1 DEF EndTurn
<1>2. CASE pc' = "turn" /\ turn' = turn + 1
  <2>1. failures' \in Nat
    BY <1>2 DEF EndTurn
  <2>2. turn = abortedAt \/ ~cancelled
    OBVIOUS
  <2>3. turn' \in 0..MaxTurns
    BY <1>2
  <2> QED
    BY <1>2, <2>1, <2>2, <2>3 DEF EndTurn
<1> QED
  BY <1>1, <1>2 DEF EndTurn

\* A failed step is retried within both limits or ends the run.
LEMMA StepFailsKeeps ==
  ASSUME Inv, NEW class, StepFails(class), pc \in Midturn
  PROVE  Inv'
<1>1. CASE \E r : EndRun(r)
  BY <1>1, FinishKeeps DEF EndRun
<1>2. CASE /\ stepRetries < MaxStepRetries /\ ~cancelled
           /\ stepRetries' = stepRetries + 1 /\ turn' = turn + 1 /\ pc' = "turn"
           /\ tool' = "none"
           /\ UNCHANGED <<failures, result, runs, abort>>
  BY <1>2, LimitsAssumption
     DEF Inv, Numbers, Room, Leaving, Midturn, Virtual, abort
<1> QED
  BY <1>1, <1>2 DEF StepFails

\* Inv holds initially and is preserved by every step.
LEMMA InvInit == Init => Inv
<1> SUFFICES ASSUME Init PROVE Inv
  OBVIOUS
<1>1. {MaxTurns, MaxStepRetries, MaxRuns} \subseteq Nat
  BY LimitsAssumption
<1>2. pc = "idle" /\ tool = "none" /\ cancelled = FALSE
  BY DEF Init
<1>3. turn = 0 /\ stepRetries = 0 /\ failures = 0 /\ runs = 0 /\ abortedAt = 0
  BY DEF Init
<1>4. cancelled \in BOOLEAN
  BY <1>2
<1>5. turn \in 0..MaxTurns /\ stepRetries \in 0..MaxStepRetries /\ failures \in Nat
      /\ runs \in 0..MaxRuns /\ abortedAt \in 0..MaxTurns
  BY <1>1, <1>3
<1> QED
  BY <1>2, <1>4, <1>5 DEF Inv, Numbers, Room, Leaving, Midturn, Virtual

LEMMA InvNext == Inv /\ [Next]_vars => Inv'
<1> SUFFICES ASSUME Inv, [Next]_vars PROVE Inv'
  OBVIOUS
<1> USE DEF Midturn
<1>1. CASE Start
  <2>1. {MaxTurns, MaxStepRetries, MaxRuns} \subseteq Nat
    BY LimitsAssumption
  <2>2. pc' = "input" /\ tool' = "none" /\ cancelled' = FALSE
    BY <1>1 DEF Start
  <2>3. turn' = 0 /\ stepRetries' = 0 /\ failures' = 0 /\ abortedAt' = 0
    BY <1>1 DEF Start
  <2>4. runs' \in 0..MaxRuns
    BY <1>1, <2>1 DEF Start, Inv, Numbers
  <2>5. turn' \in 0..MaxTurns /\ stepRetries' \in 0..MaxStepRetries
        /\ failures' \in Nat /\ abortedAt' \in 0..MaxTurns
    BY <2>1, <2>3
  <2>6. cancelled' \in BOOLEAN
    BY <2>2
  <2> QED
    BY <2>2, <2>4, <2>5, <2>6 DEF Inv, Numbers, Room, Leaving, Virtual
<1>2. CASE Abort
  BY <1>2 DEF Abort, Inv, Numbers, Room, Leaving, control, abort
<1>3. ASSUME NEW v, InputGuard(v) PROVE Inv'
  <2>1. CASE v = "allow"
    <3>1. /\ pc = "input" /\ pc' = "turn"
          /\ UNCHANGED <<turn, stepRetries, failures, tool, runs, abort>>
      BY <1>3, <2>1 DEF InputGuard
    <3> QED
      BY <3>1 DEF Inv, Numbers, Room, Leaving, abort
  <2>2. CASE v # "allow"
    BY <1>3, <2>2, FinishKeeps DEF InputGuard
  <2> QED
    BY <2>1, <2>2
<1>4. CASE LoopHead
  <2>1. CASE \E r : Finish(r)
    BY <2>1, FinishKeeps
  <2>2. CASE /\ turn < MaxTurns /\ ~cancelled
             /\ pc' = IF Tools = {} THEN "chat" ELSE "route"
             /\ UNCHANGED <<turn, stepRetries, failures, tool, result, runs, log, abort>>
    BY <2>2 DEF Inv, Numbers, Room, Leaving, abort
  <2> QED
    BY <1>4, <2>1, <2>2 DEF LoopHead
<1>5. ASSUME NEW c, RouterFails(c) \/ ChatFails(c) PROVE Inv'
  BY <1>5, StepFailsKeeps DEF RouterFails, ChatFails
<1>6. ASSUME NEW t \in Tools \cup Virtual, Route(t) PROVE Inv'
  <2>1. /\ pc \in Midturn /\ pc' \in Midturn
        /\ tool' \in Tools \cup Virtual
        /\ UNCHANGED <<turn, stepRetries, failures, runs, abort>>
    BY <1>6 DEF Route
  <2>2. pc \notin {"turn", "idle"}
    BY <1>6 DEF Route
  <2> QED
    BY <2>1, <2>2 DEF Inv, Numbers, Room, Leaving, abort
<1>7. CASE NotFound \/ Denied \/ VerifyPasses \/ VerifyFails \/ JudgeContinues
  <2>1. pc \in Midturn /\ \E r : EndTurn(r)
    BY <1>7 DEF NotFound, Denied, VerifyPasses, VerifyFails, JudgeContinues
  <2> QED
    BY <2>1, EndTurnKeeps
<1>8. ASSUME NEW x, Delegate(x) PROVE Inv'
  <2>1. pc \in Midturn /\ \E r : EndTurn(r)
    BY <1>8 DEF Delegate
  <2> QED
    BY <2>1, EndTurnKeeps
<1>9. ASSUME NEW x, NEW reason, Execute(x, reason) PROVE Inv'
  <2>1. CASE \E r : EndTurn(r)
    BY <1>9, <2>1, EndTurnKeeps DEF Execute
  <2>2. CASE /\ pc' = "verify"
             /\ UNCHANGED <<turn, stepRetries, failures, tool, result, runs, log, abort>>
    <3>1. pc = "execute"
      BY <1>9 DEF Execute
    <3> QED
      BY <2>2, <3>1 DEF Inv, Numbers, Room, Leaving, abort
  <2> QED
    BY <1>9, <2>1, <2>2 DEF Execute
<1>10. ASSUME NEW v, Guarded(v) PROVE Inv'
  <2> pc = "access"
    BY <1>10 DEF Guarded
  <2>1. CASE \E r : EndTurn(r)
    BY <2>1, EndTurnKeeps
  <2>2. CASE StepFails("tripwire")
    BY <2>2, StepFailsKeeps
  <2>3. CASE /\ pc' = "execute"
             /\ UNCHANGED <<turn, stepRetries, failures, tool, result, history, runs,
                            log, abort>>
    BY <2>3 DEF Inv, Numbers, Room, Leaving, abort
  <2> QED
    BY <1>10, <2>1, <2>2, <2>3 DEF Guarded
<1>11. ASSUME NEW v, Chat(v) PROVE Inv'
  <2> pc = "chat"
    BY <1>11 DEF Chat
  <2>1. CASE \E r : EndRun(r)
    BY <2>1, FinishKeeps DEF EndRun
  <2>2. CASE StepFails("tripwire")
    BY <2>2, StepFailsKeeps
  <2>3. CASE /\ pc' = "judge"
             /\ UNCHANGED <<turn, stepRetries, failures, tool, result, runs, log, abort>>
    BY <2>3 DEF Inv, Numbers, Room, Leaving, abort
  <2> QED
    BY <1>11, <2>1, <2>2, <2>3 DEF Chat
<1>12. CASE JudgeAgrees \/ JudgeErrs
  BY <1>12, FinishKeeps DEF JudgeAgrees, JudgeErrs, EndRun
<1>13. CASE UNCHANGED vars
  BY <1>13 DEF vars, control, abort, Inv, Numbers, Room, Leaving
<1> QED
  BY <1>1, <1>2, <1>3, <1>4, <1>5, <1>6, <1>7, <1>8, <1>9, <1>10, <1>11, <1>12, <1>13
     DEF Next, Turn, AllDone

----------------------------------------------------------------------------

\* What a step may do to the history.
Grows ==
  \/ UNCHANGED history
  \/ \E m \in {User, Assistant} : history' = Append(history, m)
  \/ \E t \in Tools \cup Virtual, x \in Texts : history' = Exchange(t, x)

\* An exchange puts a call and its output behind the history.
LEMMA ExchangeExtends ==
  ASSUME history \in Seq(Messages), NEW t \in Tools \cup Virtual, NEW x \in Texts,
         history' = Exchange(t, x)
  PROVE  LET n == Len(history) IN
         /\ history' \in Seq(Messages) /\ Len(history') = n + 2
         /\ \A i \in 1..n : history'[i] = history[i]
         /\ history'[n + 1] = Call(t, n + 1) /\ history'[n + 2] = Output(n + 1, x)
<1> DEFINE n == Len(history)  c == Call(t, n + 1)  o == Output(n + 1, x)
<1>1. n \in Nat /\ n + 1 \in Nat
  OBVIOUS
<1>2. c \in {Call(u, i) : u \in Tools \cup Virtual, i \in Nat}
  BY <1>1
<1>3. o \in {Output(i, y) : i \in Nat, y \in Texts}
  BY <1>1
<1>4. c \in Messages /\ o \in Messages
  BY <1>2, <1>3 DEF Messages
<1>5. history' = history \o <<c, o>>
  BY DEF Exchange
<1> HIDE DEF c, o
<1>6. /\ history' \in Seq(Messages) /\ Len(history') = n + 2
      /\ \A i \in 1..n : history'[i] = history[i]
      /\ history'[n + 1] = c /\ history'[n + 2] = o
  BY <1>4, <1>5
<1> QED
  BY <1>6 DEF c, o

\* A history in order stays in order when it grows that way.
LEMMA GrowsInOrder == HistoryOK /\ Grows => HistoryOK'
<1> SUFFICES ASSUME HistoryOK, Grows PROVE HistoryOK'
  OBVIOUS
<1> USE DEF HistoryOK
<1>1. CASE UNCHANGED history
  BY <1>1
<1>2. ASSUME NEW m \in {User, Assistant}, history' = Append(history, m) PROVE HistoryOK'
  <2>1. m \in Messages
    BY DEF Messages
  <2>2. history' \in Seq(Messages) /\ Len(history') = Len(history) + 1
    BY <1>2, <2>1
  <2>3. \A i \in 1..Len(history) : history'[i] = history[i]
    BY <1>2, <2>1
  <2>4. history'[Len(history) + 1] = m
    BY <1>2, <2>1
  <2>5. InPlace(m, Len(history) + 1)
    BY DEF InPlace
  <2> QED
    BY <2>2, <2>3, <2>4, <2>5
<1>3. ASSUME NEW t \in Tools \cup Virtual, NEW x \in Texts, history' = Exchange(t, x)
      PROVE  HistoryOK'
  <2> DEFINE n == Len(history)
  <2>1. n \in Nat
    OBVIOUS
  <2>2. InPlace(Call(t, n + 1), n + 1)
    BY DEF InPlace
  <2>3. (n + 2) - 1 = n + 1
    BY <2>1
  <2>4. InPlace(Output(n + 1, x), n + 2)
    BY <2>3 DEF InPlace
  <2>7. /\ history' \in Seq(Messages) /\ Len(history') = n + 2
        /\ \A i \in 1..n : history'[i] = history[i]
        /\ history'[n + 1] = Call(t, n + 1) /\ history'[n + 2] = Output(n + 1, x)
    BY <1>3, ExchangeExtends
  <2>8. ASSUME NEW i \in 1..n + 2 PROVE InPlace(history'[i], i)
    <3>1. CASE i \in 1..n
      BY <2>7, <3>1
    <3>2. CASE i = n + 1
      BY <2>2, <2>7, <3>2
    <3>3. CASE i = n + 2
      BY <2>4, <2>7, <3>3
    <3> QED
      BY <2>1, <3>1, <3>2, <3>3
  <2> QED
    BY <2>7, <2>8
<1> QED
  BY <1>1, <1>2, <1>3 DEF Grows

----------------------------------------------------------------------------
(* A skill is loaded once.                                                 *)

\* A call is always followed by its output.
Paired ==
  \A i \in 1..Len(history) :
    IsCall(history[i]) => /\ i < Len(history)
                          /\ history[i + 1] \in {Output(i, x) : x \in Texts}

\* Between the router's choice of a skill and its call the skill is not loaded.
Fresh ==
  /\ pc \in {"access", "execute"} /\ tool \in Skills => Loads(tool) = {}
  /\ pc = "delegate" => tool = "delegate_task"

\* What the messages the code builds are told apart by.
LEMMA Shapes ==
  /\ User.role = "user" /\ ~IsCall(User) /\ ~IsOutput(User)
  /\ Assistant.role # "user" /\ ~IsCall(Assistant) /\ ~IsOutput(Assistant)
  /\ \A t, i : /\ IsCall(Call(t, i)) /\ Call(t, i).role # "user"
               /\ Call(t, i).tool = t /\ Call(t, i).id = i
  /\ \A i, x : /\ IsOutput(Output(i, x)) /\ ~IsCall(Output(i, x))
               /\ Output(i, x).role # "user"
               /\ Output(i, x).id = i /\ Output(i, x).text = x
BY DEF User, Assistant, Call, Output, IsCall, IsOutput

\* A call in a history in order is the call built for its position.
LEMMA CallInPlace ==
  ASSUME HistoryOK, NEW i \in 1..Len(history), IsCall(history[i])
  PROVE  history[i] = Call(history[i].tool, i)
<1>1. InPlace(history[i], i)
  BY DEF HistoryOK
<1>2. \E t : history[i] = Call(t, i)
  BY <1>1, Shapes DEF InPlace
<1> QED
  BY <1>2, Shapes

\* The router does not choose a skill that is loaded: it answers in chat.
LEMMA RefusedIfLoaded ==
  ASSUME HistoryOK, Paired, NEW s \in Skills, ~toolAlreadySucceeded(s)
  PROVE  Loads(s) = {}
<1> SUFFICES ASSUME NEW i \in Loads(s) PROVE FALSE
  OBVIOUS
<1>1. i \in Recent /\ IsCall(history[i]) /\ history[i].tool = s
      /\ history[i + 1].text = "ok"
  BY DEF Loads
<1>2. Len(history) \in Nat /\ i \in 1..Len(history)
  BY <1>1 DEF HistoryOK, Recent
<1>3. i < Len(history) /\ history[i + 1] \in {Output(i, x) : x \in Texts}
  BY <1>1, <1>2 DEF Paired
<1>4. i + 1 \in Recent
  <2>1. i + 1 \in 1..Len(history)
    BY <1>2, <1>3
  <2>2. \A j \in (i + 1)..Len(history) : j \in i..Len(history)
    BY <1>2
  <2> QED
    BY <1>1, <2>1, <2>2 DEF Recent
<1>5. IsOutput(history[i + 1]) /\ history[i + 1].id = i
  BY <1>3, Shapes
<1>6. history[i].id = i
  BY <1>1, <1>2, CallInPlace, Shapes
<1> QED
  BY <1>1, <1>4, <1>5, <1>6 DEF toolAlreadySucceeded

\* What a step does to the history, and where it leaves the run.  A skill is
\* recorded as loaded only by the step that executed it.
Calling == pc \in {"access", "execute"}

Stays ==
  /\ UNCHANGED history
  /\ Calling' => \/ tool' \in Skills => ~toolAlreadySucceeded(tool')
                 \/ Calling /\ UNCHANGED tool
  /\ pc' = "delegate" => tool' = "delegate_task"

Adds(m) == history' = Append(history, m) /\ pc' \in {"idle", "turn", "judge"}

Answers(t, x) ==
  /\ history' = Exchange(t, x) /\ pc' \in {"idle", "turn", "verify"}
  /\ x = "ok" /\ t \in Skills => pc = "execute" /\ t = tool

Moves ==
  \/ Stays
  \/ \E m \in {User, Assistant} : Adds(m)
  \/ \E t \in Tools \cup Virtual, x \in Texts : Answers(t, x)

LEMMA TurnEnds ==
  ASSUME NEW r, EndTurn(r) \/ EndRun(r) \/ Finish(r) \/ StepFails(r)
  PROVE  pc' \in {"idle", "turn"}
BY DEF EndTurn, EndRun, Finish, StepFails

LEMMA StepMoves ==
  ASSUME Inv, Fresh, [Next]_vars
  PROVE  Moves
<1>0. tool \in Tools \cup Virtual
  BY DEF Inv, Numbers
<1>1. ASSUME UNCHANGED history, pc' \notin {"access", "execute", "delegate"} PROVE Moves
  BY <1>1 DEF Moves, Stays, Calling
<1>2. ASSUME NEW x \in Texts, Answers(tool, x) PROVE Moves
  BY <1>0, <1>2 DEF Moves
<1>3. CASE Start \/ LoopHead \/ VerifyPasses \/ JudgeContinues \/ JudgeAgrees \/ JudgeErrs
  <2>1. CASE Start \/ LoopHead
    BY <1>1, <2>1 DEF Start, LoopHead, Finish
  <2>2. CASE VerifyPasses \/ JudgeContinues \/ JudgeAgrees \/ JudgeErrs
    BY <1>1, <2>2, TurnEnds DEF VerifyPasses, JudgeContinues, JudgeAgrees, JudgeErrs
  <2> QED
    BY <1>3, <2>1, <2>2
<1>4. CASE Abort
  BY <1>4 DEF Abort, control, Moves, Stays, Calling, Fresh
<1>5. ASSUME NEW v, InputGuard(v) PROVE Moves
  <2>1. CASE history' = Append(history, User) /\ pc' = "turn"
    BY <2>1 DEF Moves, Adds
  <2>2. CASE UNCHANGED history /\ pc' = "idle"
    BY <1>1, <2>2
  <2> QED
    BY <1>5, <2>1, <2>2 DEF InputGuard, Finish
<1>6. ASSUME NEW c, RouterFails(c) \/ ChatFails(c) PROVE Moves
  BY <1>1, <1>6, TurnEnds DEF RouterFails, ChatFails
<1>7. ASSUME NEW t \in Tools \cup Virtual, Route(t) PROVE Moves
  <2>1. UNCHANGED history /\ tool' = t
    BY <1>7 DEF Route
  <2>2. Calling' => ~toolAlreadySucceeded(t)
    BY <1>7 DEF Route, Calling
  <2>3. pc' = "delegate" => t = "delegate_task"
    BY <1>7 DEF Route
  <2> QED
    BY <2>1, <2>2, <2>3 DEF Moves, Stays
<1>8. CASE NotFound \/ Denied
  <2>1. Answers(tool, "Error:") \/ Answers(tool, "Permission denied:")
    BY <1>8, TurnEnds DEF NotFound, Denied, Answers
  <2> QED
    BY <1>2, <2>1 DEF Texts
<1>9. ASSUME NEW x \in {"ok", "Error:"}, Delegate(x) PROVE Moves
  <2>1. tool = "delegate_task" /\ tool \notin Skills
    BY <1>9, SkillsAssumption DEF Delegate, Fresh
  <2>2. Answers(tool, x)
    BY <1>9, <2>1, TurnEnds DEF Delegate, Answers
  <2> QED
    BY <1>2, <2>2 DEF Texts
<1>10. ASSUME NEW x \in {"ok", "Error:", "Error executing"}, NEW reason, Execute(x, reason)
       PROVE  Moves
  <2>1. pc' \in {"idle", "turn", "verify"}
    BY <1>10, TurnEnds DEF Execute
  <2>2. Answers(tool, x)
    BY <1>10, <2>1 DEF Execute, Answers
  <2> QED
    BY <1>2, <2>2 DEF Texts
<1>11. ASSUME NEW v, Guarded(v) PROVE Moves
  <2>1. CASE history' = Exchange(tool, "Blocked by guard:") /\ EndTurn("guard_blocked")
    BY <1>2, <2>1, TurnEnds DEF Answers, Texts
  <2>2. CASE UNCHANGED history /\ StepFails("tripwire")
    BY <1>1, <2>2, TurnEnds
  <2>3. CASE UNCHANGED <<history, tool>> /\ pc = "access" /\ pc' = "execute"
    BY <2>3 DEF Moves, Stays, Calling
  <2> QED
    BY <1>11, <2>1, <2>2, <2>3 DEF Guarded
<1>12. CASE VerifyFails
  BY <1>12, TurnEnds DEF VerifyFails, Moves, Adds
<1>13. ASSUME NEW v, Chat(v) PROVE Moves
  <2>1. CASE UNCHANGED history /\ StepFails("tripwire")
    BY <1>1, <2>1, TurnEnds
  <2>2. CASE history' = Append(history, Assistant)
    <3>1. pc' \in {"idle", "turn", "judge"}
      BY <1>13, <2>2, TurnEnds DEF Chat
    <3> QED
      BY <2>2, <3>1 DEF Moves, Adds
  <2> QED
    BY <1>13, <2>1, <2>2 DEF Chat
<1>14. CASE UNCHANGED vars
  BY <1>14 DEF vars, control, Moves, Stays, Calling, Fresh
<1> QED
  BY <1>3, <1>4, <1>5, <1>6, <1>7, <1>8, <1>9, <1>10, <1>11, <1>12, <1>13, <1>14
     DEF Next, Turn, AllDone

\* Every move lets the history grow in order, each call with its output.
LEMMA MovesGrow == Moves => Grows
BY DEF Moves, Stays, Adds, Answers, Grows

LEMMA GrowsPaired ==
  ASSUME HistoryOK, Paired, Grows
  PROVE  Paired'
<1> DEFINE n == Len(history)
<1>0. history \in Seq(Messages) /\ n \in Nat
  BY DEF HistoryOK
<1>1. CASE UNCHANGED history
  BY <1>1 DEF Paired
<1>2. ASSUME NEW m \in {User, Assistant}, history' = Append(history, m) PROVE Paired'
  <2>1. m \in Messages /\ ~IsCall(m)
    BY Shapes DEF Messages
  <2>2. /\ Len(history') = n + 1 /\ history'[n + 1] = m
        /\ \A i \in 1..n : history'[i] = history[i]
    BY <1>0, <1>2, <2>1
  <2> SUFFICES ASSUME NEW i \in 1..(n + 1), IsCall(history'[i])
               PROVE  /\ i < n + 1
                      /\ history'[i + 1] \in {Output(i, x) : x \in Texts}
    BY <2>2 DEF Paired, IsCall
  <2>3. i \in 1..n /\ IsCall(history[i])
    BY <1>0, <2>1, <2>2
  <2>4. i < n /\ history[i + 1] \in {Output(i, x) : x \in Texts}
    BY <2>3 DEF Paired
  <2> QED
    BY <1>0, <2>2, <2>3, <2>4
<1>3. ASSUME NEW t \in Tools \cup Virtual, NEW x \in Texts, history' = Exchange(t, x)
      PROVE  Paired'
  <2>1. /\ Len(history') = n + 2
        /\ \A i \in 1..n : history'[i] = history[i]
        /\ history'[n + 1] = Call(t, n + 1) /\ history'[n + 2] = Output(n + 1, x)
    BY <1>0, <1>3, ExchangeExtends
  <2> SUFFICES ASSUME NEW i \in 1..(n + 2), IsCall(history'[i])
               PROVE  /\ i < n + 2
                      /\ history'[i + 1] \in {Output(i, y) : y \in Texts}
    BY <2>1 DEF Paired, IsCall
  <2>2. CASE i \in 1..n
    <3>1. i < n /\ history[i + 1] \in {Output(i, y) : y \in Texts}
      BY <2>1, <2>2 DEF Paired
    <3> QED
      BY <1>0, <2>1, <2>2, <3>1
  <2>3. CASE i = n + 1
    BY <1>0, <2>1, <2>3
  <2>4. CASE i = n + 2
    BY <2>1, <2>4, Shapes
  <2> QED
    BY <1>0, <2>2, <2>3, <2>4
<1> QED
  BY <1>1, <1>2, <1>3 DEF Grows

\* A call that counts as a load after the history has grown counted as one
\* before, unless it is new.
LEMMA LoadsKept ==
  ASSUME HistoryOK, Paired, NEW s, NEW i,
         i \in Loads(s)', i \in 1..Len(history),
         Len(history') \in Nat, Len(history) <= Len(history'),
         \A k \in 1..Len(history) : history'[k] = history[k]
  PROVE  i \in Loads(s)
<1>1. Len(history) \in Nat
  BY DEF HistoryOK
<1>2. /\ \A j \in i..Len(history') : history'[j].role # "user"
      /\ IsCall(history'[i]) /\ history'[i].tool = s /\ history'[i + 1].text = "ok"
  BY DEF Loads, Recent, IsCall
<1>3. i < Len(history)
  BY <1>2 DEF Paired
<1>4. history[i + 1].text = "ok"
  BY <1>1, <1>2, <1>3
<1>5. \A j \in i..Len(history) : history[j].role # "user"
  BY <1>1, <1>2
<1> QED
  BY <1>2, <1>4, <1>5 DEF Loads, Recent

\* A skill that was not loaded may become so, at the place of the new call;
\* nothing else is added to what is loaded.
LoadsGrow(s) ==
  \/ Loads(s)' \subseteq Loads(s)
  \/ /\ Calling /\ tool = s /\ Loads(s) = {}
     /\ Loads(s)' \subseteq {Len(history) + 1}

LEMMA MovesLoad ==
  ASSUME HistoryOK, Paired, Fresh, Moves, NEW s \in Skills
  PROVE  LoadsGrow(s)
<1> DEFINE n == Len(history)
<1>0. history \in Seq(Messages) /\ n \in Nat
  BY DEF HistoryOK
<1>1. CASE Stays
  BY <1>1 DEF Stays, LoadsGrow, Loads, Recent
<1>2. ASSUME NEW m \in {User, Assistant}, Adds(m) PROVE LoadsGrow(s)
  <2>1. m \in Messages /\ ~IsCall(m)
    BY Shapes DEF Messages
  <2>2. /\ Len(history') = n + 1 /\ history'[n + 1] = m
        /\ \A i \in 1..n : history'[i] = history[i]
    BY <1>0, <1>2, <2>1 DEF Adds
  <2>3. ASSUME NEW i \in Loads(s)' PROVE i \in Loads(s)
    <3>1. i \in 1..(n + 1) /\ IsCall(history'[i])
      BY <2>2, <2>3 DEF Loads, Recent, IsCall
    <3>2. i \in 1..n
      BY <1>0, <2>1, <2>2, <3>1
    <3> QED
      BY <1>0, <2>2, <2>3, <3>2, LoadsKept
  <2> QED
    BY <2>3 DEF LoadsGrow
<1>3. ASSUME NEW t \in Tools \cup Virtual, NEW x \in Texts, Answers(t, x)
      PROVE  LoadsGrow(s)
  <2>1. /\ Len(history') = n + 2
        /\ \A i \in 1..n : history'[i] = history[i]
        /\ history'[n + 1] = Call(t, n + 1) /\ history'[n + 2] = Output(n + 1, x)
    BY <1>0, <1>3, ExchangeExtends DEF Answers
  <2>2. ASSUME NEW i \in Loads(s)', i \notin 1..n
        PROVE  i = n + 1 /\ t = s /\ x = "ok"
    <3>1. /\ i \in 1..(n + 2) /\ IsCall(history'[i])
          /\ history'[i].tool = s /\ history'[i + 1].text = "ok"
      BY <2>1, <2>2 DEF Loads, Recent, IsCall
    <3>2. i # n + 2
      BY <2>1, <3>1, Shapes
    <3>3. i = n + 1
      BY <1>0, <2>2, <3>1, <3>2
    <3>4. Call(t, n + 1).tool = s /\ Output(n + 1, x).text = "ok"
      BY <1>0, <2>1, <3>1, <3>3
    <3> QED
      BY <3>3, <3>4, Shapes
  <2>3. ASSUME NEW i \in Loads(s)', i \in 1..n PROVE i \in Loads(s)
    BY <1>0, <2>1, <2>3, LoadsKept
  <2>4. CASE t = s /\ x = "ok"
    <3>1. Calling /\ tool = s
      BY <1>3, <2>4 DEF Answers, Calling
    <3>2. Loads(s) = {}
      BY <3>1 DEF Calling, Fresh
    <3> QED
      BY <2>2, <2>3, <3>1, <3>2 DEF LoadsGrow
  <2>5. CASE ~(t = s /\ x = "ok")
    BY <2>2, <2>3, <2>5 DEF LoadsGrow
  <2> QED
    BY <2>4, <2>5
<1> QED
  BY <1>1, <1>2, <1>3 DEF Moves

\* The invariant of the loop: its numbers, its history and what is loaded.
IInv == Inv /\ HistoryOK /\ Paired /\ Fresh /\ SkillLoadedOnce

LEMMA IInvInit == Init => IInv
<1> SUFFICES ASSUME Init PROVE IInv
  OBVIOUS
<1>1. history = <<>> /\ pc = "idle"
  BY DEF Init
<1>2. HistoryOK /\ Paired
  BY <1>1 DEF HistoryOK, Paired
<1>3. \A s : Loads(s) = {}
  BY <1>1 DEF Loads, Recent
<1>4. SkillLoadedOnce /\ Fresh
  BY <1>1, <1>3 DEF SkillLoadedOnce, Fresh
<1> QED
  BY <1>2, <1>4, InvInit DEF IInv

LEMMA IInvNext == IInv /\ [Next]_vars => IInv'
<1> SUFFICES ASSUME IInv, [Next]_vars PROVE IInv'
  OBVIOUS
<1>1. Inv /\ HistoryOK /\ Paired /\ Fresh /\ SkillLoadedOnce
  BY DEF IInv
<1>2. Moves /\ Grows
  BY <1>1, StepMoves, MovesGrow
<1>3. Inv' /\ HistoryOK' /\ Paired'
  BY <1>1, <1>2, InvNext, GrowsInOrder, GrowsPaired
<1>4. ASSUME NEW s \in Skills PROVE LoadsGrow(s)
  BY <1>1, <1>2, MovesLoad
<1>5. SkillLoadedOnce'
  <2> SUFFICES ASSUME NEW s \in Skills, NEW i \in Loads(s)', NEW j \in Loads(s)'
               PROVE  i = j
    BY DEF SkillLoadedOnce
  <2> QED
    BY <1>1, <1>4 DEF LoadsGrow, SkillLoadedOnce
<1>6. Fresh'
  <2>1. pc' \in {"access", "execute", "delegate"} => Stays
    BY <1>2 DEF Moves, Adds, Answers
  <2>2. ASSUME pc' \in {"access", "execute"}, tool' \in Skills
        PROVE  Loads(tool)' = {}
    <3>1. PICK s \in Skills : s = tool'
      BY <2>2
    <3>2. Stays /\ Calling'
      BY <2>1, <2>2 DEF Calling
    <3>3. Loads(tool)' = Loads(s)
      BY <3>1, <3>2 DEF Stays, Loads, Recent
    <3>4. CASE ~toolAlreadySucceeded(s)
      BY <1>1, <3>3, <3>4, RefusedIfLoaded
    <3>5. CASE Calling /\ UNCHANGED tool
      BY <1>1, <3>1, <3>3, <3>5 DEF Fresh, Calling
    <3> QED
      BY <3>1, <3>2, <3>4, <3>5 DEF Stays
  <2>3. pc' = "delegate" => tool' = "delegate_task"
    BY <2>1 DEF Stays
  <2> QED
    BY <2>2, <2>3 DEF Fresh
<1> QED
  BY <1>3, <1>5, <1>6 DEF IInv

----------------------------------------------------------------------------
(* Run stops for the reason it gives: its counters count what the turns    *)
(* have come to.                                                           *)

Counted ==
  pc # "idle" =>
    /\ result = "none" /\ turn = Len(log)
    /\ failures = Cardinality(FailedSteps) /\ stepRetries = Cardinality(Retries(Len(log)))
    /\ failures = 0 \/ failures < MaxFailures

\* The reasons that come from a limit, each with the turns that reached it.
Reasoned ==
  /\ result = "max_consecutive_failures" => Cardinality(FailedSteps) >= MaxFailures
  /\ result = "max_step_retries" => Cardinality(Retries(Len(log) - 1)) = MaxStepRetries
  /\ result = "max_turns" => Len(log) = MaxTurns

\* What a turn may come to.
Reasons ==
  {"tool_error", "tool_not_found", "verify_failed", "permission_denied", "guard_blocked",
   "delegate_parse_error", "delegate_task", "tool_use", "judge_continue", "judge_error",
   "transient", "fatal", "user_fixable", "tripwire", "canceled", "max_step_retries",
   "output_blocked", "completed"}

CountInv == log \in Seq(Reasons) /\ Counted /\ Reasoned

\* Turns are finitely many.
LEMMA CountsAreFinite ==
  ASSUME log \in Seq(Reasons)
  PROVE  /\ IsFiniteSet(FailedSteps) /\ IsFiniteSet(Retries(Len(log)))
         /\ Cardinality(FailedSteps) \in Nat /\ Cardinality(Retries(Len(log))) \in Nat
<1>1. Len(log) \in Nat
  OBVIOUS
<1>2. IsFiniteSet(1..Len(log))
  BY <1>1, FS_Interval
<1>3. FailedSteps \in SUBSET (1..Len(log)) /\ Retries(Len(log)) \in SUBSET (1..Len(log))
  BY DEF FailedSteps, Retries
<1>4. IsFiniteSet(FailedSteps) /\ IsFiniteSet(Retries(Len(log)))
  BY <1>2, <1>3, FS_Subset
<1> QED
  BY <1>4, FS_CardinalityType

\* What one turn more does to the two counts.
LEMMA OneTurnMore ==
  ASSUME log \in Seq(Reasons), NEW r \in Reasons, log' = Append(log, r)
  PROVE  /\ log' \in Seq(Reasons) /\ Len(log') = Len(log) + 1
         /\ Retries(Len(log) - 1)' = Retries(Len(log))
         /\ r = "transient" => Retries(Len(log))' = Retries(Len(log)) \cup {Len(log) + 1}
         /\ r # "transient" => Retries(Len(log))' = {}
         /\ isFailureReason(r) => FailedSteps' = FailedSteps \cup {Len(log) + 1}
         /\ r = "transient" => FailedSteps' = FailedSteps
         /\ ~isFailureReason(r) /\ r # "transient" => FailedSteps' = {}
<1> DEFINE n == Len(log)
<1>1. n \in Nat
  OBVIOUS
<1>2. /\ log' \in Seq(Reasons) /\ Len(log') = n + 1 /\ log'[n + 1] = r
      /\ \A i \in 1..n : log'[i] = log[i]
  OBVIOUS
<1> HIDE DEF n
<1>3. Retries(Len(log) - 1)' = {i \in 1..n : \A j \in i..n : log'[j] = "transient"}
  BY <1>1, <1>2 DEF Retries
<1>4. Retries(Len(log))  = {i \in 1..n : \A j \in i..n : log[j] = "transient"}
  BY DEF Retries, n
<1>5. Retries(Len(log))' = {i \in 1..(n + 1) : \A j \in i..(n + 1) : log'[j] = "transient"}
  BY <1>2 DEF Retries
<1>6. FailedSteps' = {i \in 1..(n + 1) :
                        /\ isFailureReason(log'[i])
                        /\ \A j \in i..(n + 1) :
                             isFailureReason(log'[j]) \/ log'[j] = "transient"}
  BY <1>2 DEF FailedSteps, isFailureReason
<1>7. FailedSteps = {i \in 1..n :
                       /\ isFailureReason(log[i])
                       /\ \A j \in i..n : isFailureReason(log[j]) \/ log[j] = "transient"}
  BY DEF FailedSteps, n
<1>8. isFailureReason(r) => r # "transient"
  BY DEF isFailureReason
<1>9. n + 1 \in 1..(n + 1) /\ \A i \in 1..(n + 1) : n + 1 \in i..(n + 1)
  BY <1>1
<1>10. \A i \in 1..(n + 1) : i \in 1..n \/ i = n + 1
  BY <1>1
<1>11. \A i \in 1..n : i..(n + 1) = (i..n) \cup {n + 1} /\ i..n \subseteq 1..n
  BY <1>1
<1>12. (n + 1)..(n + 1) = {n + 1} /\ 1..n \subseteq 1..(n + 1) /\ n + 1 \notin 1..n
  BY <1>1
<1>13. Retries(Len(log) - 1)' = Retries(Len(log))
  BY <1>2, <1>3, <1>4, <1>11
<1>14. r = "transient" => Retries(Len(log))' = Retries(Len(log)) \cup {n + 1}
  BY <1>2, <1>4, <1>5, <1>10, <1>11, <1>12
<1>15. r # "transient" => Retries(Len(log))' = {}
  BY <1>2, <1>5, <1>9
<1>16. isFailureReason(r) => FailedSteps' = FailedSteps \cup {n + 1}
  BY <1>2, <1>6, <1>7, <1>10, <1>11, <1>12
<1>17. r = "transient" => FailedSteps' = FailedSteps
  BY <1>2, <1>6, <1>7, <1>8, <1>10, <1>11, <1>12
<1>18. ~isFailureReason(r) /\ r # "transient" => FailedSteps' = {}
  BY <1>2, <1>6, <1>9
<1> QED
  BY <1>2, <1>13, <1>14, <1>15, <1>16, <1>17, <1>18 DEF n

\* A run that ends for a reason that is no limit.
LEMMA EndRunCounts ==
  ASSUME CountInv, NEW r \in Reasons \ {"max_step_retries"}, EndRun(r)
  PROVE  CountInv'
<1>1. log' \in Seq(Reasons)
  BY OneTurnMore DEF EndRun, CountInv
<1>2. result' = r /\ pc' = "idle"
  BY DEF EndRun, Finish
<1>3. r \notin {"max_consecutive_failures", "max_turns"}
  BY DEF Reasons
<1> QED
  BY <1>1, <1>2, <1>3 DEF CountInv, Counted, Reasoned

\* A turn ends: the failure counter follows the failed steps.
LEMMA EndTurnCounts ==
  ASSUME CountInv, pc # "idle", NEW r \in Reasons \ {"transient"}, EndTurn(r)
  PROVE  CountInv'
<1>1. log \in Seq(Reasons) /\ log' = Append(log, r)
  BY DEF CountInv, EndTurn
<1>2. /\ log' \in Seq(Reasons) /\ Len(log') = Len(log) + 1
      /\ Retries(Len(log))' = {}
      /\ isFailureReason(r) => FailedSteps' = FailedSteps \cup {Len(log) + 1}
      /\ ~isFailureReason(r) => FailedSteps' = {}
  BY <1>1, OneTurnMore
<1>3. IsFiniteSet(FailedSteps) /\ Cardinality(FailedSteps) \in Nat
  BY <1>1, CountsAreFinite
<1>4. /\ result = "none" /\ turn = Len(log) /\ failures = Cardinality(FailedSteps)
  BY DEF CountInv, Counted
<1>5. Len(log) + 1 \notin FailedSteps
  <2>1. Len(log) \in Nat /\ FailedSteps \subseteq 1..Len(log)
    BY <1>1 DEF FailedSteps
  <2> QED
    BY <2>1
<1>6. failures' = Cardinality(FailedSteps') /\ failures' \in Nat
  <2>1. CASE isFailureReason(r)
    <3>1. Cardinality(FailedSteps \cup {Len(log) + 1}) = Cardinality(FailedSteps) + 1
      BY <1>3, <1>5, FS_AddElement
    <3>2. failures' = failures + 1
      BY <2>1 DEF EndTurn
    <3>3. FailedSteps' = FailedSteps \cup {Len(log) + 1}
      BY <1>2, <2>1
    <3>4. Cardinality(FailedSteps') = Cardinality(FailedSteps) + 1
      BY <3>1, <3>3
    <3> QED
      BY <1>3, <1>4, <3>2, <3>4
  <2>2. CASE ~isFailureReason(r)
    <3>1. failures' = 0
      BY <2>2 DEF EndTurn
    <3> QED
      BY <1>2, <2>2, <3>1, FS_EmptySet
  <2> QED
    BY <2>1, <2>2
<1>7. stepRetries' = Cardinality(Retries(Len(log))')
  BY <1>2, FS_EmptySet DEF EndTurn
<1>8. CASE pc' = "idle"
  <2>1. failures' >= MaxFailures /\ result' = "max_consecutive_failures"
    BY <1>8 DEF EndTurn
  <2> QED
    BY <1>2, <1>6, <1>8, <2>1 DEF CountInv, Counted, Reasoned
<1>9. CASE pc' # "idle"
  <2>1. result' = result /\ turn' = turn + 1
    BY <1>9 DEF EndTurn
  <2>2. failures' = 0 \/ failures' < MaxFailures
    <3>1. ~(isFailureReason(r) /\ failures + 1 >= MaxFailures)
      BY <1>9 DEF EndTurn
    <3>2. failures' = IF isFailureReason(r) THEN failures + 1 ELSE 0
      BY DEF EndTurn
    <3>3. failures \in Nat /\ MaxFailures \in Nat
      BY <1>3, <1>4, LimitsAssumption
    <3> QED
      BY <3>1, <3>2, <3>3
  <2>3. turn' = Len(log')
    BY <1>2, <1>4, <2>1
  <2> QED
    BY <1>2, <1>4, <1>6, <1>7, <2>1, <2>2, <2>3 DEF CountInv, Counted, Reasoned
<1> QED
  BY <1>8, <1>9

\* A step that fails is retried, which is a turn of its own, or ends the run.
LEMMA StepFailsCounts ==
  ASSUME Inv, CountInv, pc # "idle", NEW class \in Classes \cup {"tripwire"},
         StepFails(class)
  PROVE  CountInv'
<1>1. log \in Seq(Reasons)
  BY DEF CountInv
<1>2. ASSUME NEW r \in {"canceled", "fatal", "user_fixable", "tripwire"}, EndRun(r)
      PROVE  CountInv'
  BY <1>2, EndRunCounts DEF Reasons
<1>3. CASE stepRetries >= MaxStepRetries /\ EndRun("max_step_retries")
  <2>1. log' = Append(log, "max_step_retries") /\ "max_step_retries" \in Reasons
    BY <1>3 DEF EndRun, Reasons
  <2>2. log' \in Seq(Reasons) /\ Retries(Len(log) - 1)' = Retries(Len(log))
    BY <1>1, <2>1, OneTurnMore
  <2>3. result' = "max_step_retries" /\ pc' = "idle"
    BY <1>3 DEF EndRun, Finish
  <2>4. Cardinality(Retries(Len(log))) = MaxStepRetries
    BY <1>3, LimitsAssumption DEF CountInv, Counted, Inv, Numbers
  <2> QED
    BY <2>2, <2>3, <2>4 DEF CountInv, Counted, Reasoned
<1>4. CASE /\ stepRetries' = stepRetries + 1 /\ turn' = turn + 1 /\ pc' = "turn"
           /\ log' = Append(log, "transient")
           /\ UNCHANGED <<failures, result>>
  <2>1. "transient" \in Reasons /\ ~isFailureReason("transient")
    BY DEF Reasons, isFailureReason
  <2>2. /\ log' \in Seq(Reasons) /\ Len(log') = Len(log) + 1
        /\ Retries(Len(log))' = Retries(Len(log)) \cup {Len(log) + 1}
        /\ FailedSteps' = FailedSteps
    BY <1>1, <1>4, <2>1, OneTurnMore
  <2>3. IsFiniteSet(Retries(Len(log))) /\ Cardinality(Retries(Len(log))) \in Nat
    BY <1>1, CountsAreFinite
  <2>4. Len(log) + 1 \notin Retries(Len(log))
    <3>1. Len(log) \in Nat /\ Retries(Len(log)) \subseteq 1..Len(log)
      BY <1>1 DEF Retries
    <3> QED
      BY <3>1
  <2>5. Cardinality(Retries(Len(log)) \cup {Len(log) + 1}) = Cardinality(Retries(Len(log))) + 1
    BY <2>3, <2>4, FS_AddElement
  <2> QED
    BY <1>4, <2>2, <2>5 DEF CountInv, Counted, Reasoned
<1> QED
  BY <1>2, <1>3, <1>4 DEF StepFails, Classes

\* A step inside a turn.
LEMMA MidturnCounts ==
  ASSUME CountInv, pc # "idle", UNCHANGED <<turn, stepRetries, failures, result, log>>
  PROVE  CountInv'
BY DEF CountInv, Counted, Reasoned, FailedSteps, Retries

\* A run that ends between two turns.
LEMMA FinishCounts ==
  ASSUME CountInv, NEW r, Finish(r), log' \in Seq(Reasons),
         r \notin {"max_consecutive_failures", "max_step_retries"},
         r = "max_turns" => Len(log') = MaxTurns
  PROVE  CountInv'
BY DEF Finish, CountInv, Counted, Reasoned

LEMMA CountInit == Init => CountInv
BY DEF Init, CountInv, Counted, Reasoned

LEMMA CountNext == Inv /\ CountInv /\ [Next]_vars => CountInv'
<1> SUFFICES ASSUME Inv, CountInv, [Next]_vars PROVE CountInv'
  OBVIOUS
<1>0. log \in Seq(Reasons)
  BY DEF CountInv
<1>1. CASE Start
  <2>1. /\ log' = <<>> /\ turn' = 0 /\ failures' = 0 /\ stepRetries' = 0 /\ result' = "none"
    BY <1>1 DEF Start
  <2>2. FailedSteps' = {} /\ Retries(Len(log))' = {} /\ Len(log') = 0
    BY <2>1 DEF FailedSteps, Retries
  <2>3. Cardinality(FailedSteps)' = 0 /\ Cardinality(Retries(Len(log)))' = 0
    BY <2>2, FS_EmptySet
  <2>4. log' \in Seq(Reasons)
    BY <2>1
  <2>5. Counted'
    BY <2>1, <2>2, <2>3 DEF Counted
  <2>6. Reasoned'
    BY <2>1 DEF Reasoned
  <2> QED
    BY <2>4, <2>5, <2>6 DEF CountInv
<1>2. CASE Abort \/ UNCHANGED vars
  BY <1>2 DEF Abort, vars, control, CountInv, Counted, Reasoned, FailedSteps, Retries
<1>3. ASSUME NEW v, InputGuard(v) PROVE CountInv'
  BY <1>0, <1>3, MidturnCounts, FinishCounts DEF InputGuard
<1>4. CASE LoopHead
  <2>1. CASE turn >= MaxTurns /\ Finish("max_turns") /\ UNCHANGED log
    <3>1. Len(log') = MaxTurns
      BY <1>4, <2>1, LimitsAssumption DEF LoopHead, CountInv, Counted, Inv, Numbers
    <3> QED
      BY <1>0, <2>1, <3>1, FinishCounts
  <2> QED
    BY <1>0, <1>4, <2>1, MidturnCounts, FinishCounts DEF LoopHead
<1>5. ASSUME NEW c \in Classes, RouterFails(c) \/ ChatFails(c) PROVE CountInv'
  BY <1>5, StepFailsCounts DEF RouterFails, ChatFails
<1>6. ASSUME NEW t, Route(t) PROVE CountInv'
  BY <1>6, MidturnCounts DEF Route
<1>7. CASE NotFound \/ Denied \/ VerifyPasses \/ VerifyFails \/ JudgeContinues
  <2>1. /\ pc # "idle"
        /\ \E r \in {"tool_not_found", "permission_denied", "tool_use", "verify_failed",
                     "judge_continue"} : EndTurn(r)
    BY <1>7 DEF NotFound, Denied, VerifyPasses, VerifyFails, JudgeContinues
  <2> QED
    BY <2>1, EndTurnCounts DEF Reasons
<1>8. ASSUME NEW x, Delegate(x) PROVE CountInv'
  <2>1. pc # "idle" /\ \E r \in {"delegate_parse_error", "delegate_task"} : EndTurn(r)
    BY <1>8 DEF Delegate
  <2> QED
    BY <2>1, EndTurnCounts DEF Reasons
<1>9. ASSUME NEW x, NEW reason, Execute(x, reason) PROVE CountInv'
  <2>1. CASE \E r \in {"tool_use", "tool_error"} : EndTurn(r)
    BY <1>9, <2>1, EndTurnCounts DEF Execute, Reasons
  <2> QED
    BY <1>9, <2>1, MidturnCounts DEF Execute
<1>10. ASSUME NEW v, Guarded(v) PROVE CountInv'
  <2>1. CASE EndTurn("guard_blocked")
    BY <1>10, <2>1, EndTurnCounts DEF Guarded, Reasons
  <2>2. CASE StepFails("tripwire")
    BY <1>10, <2>2, StepFailsCounts DEF Guarded
  <2> QED
    BY <1>10, <2>1, <2>2, MidturnCounts DEF Guarded
<1>11. ASSUME NEW v, Chat(v) PROVE CountInv'
  <2>1. CASE StepFails("tripwire")
    BY <1>11, <2>1, StepFailsCounts DEF Chat
  <2>2. CASE \E r \in {"output_blocked", "completed"} : EndRun(r)
    BY <2>2, EndRunCounts DEF Reasons
  <2> QED
    BY <1>11, <2>1, <2>2, MidturnCounts DEF Chat
<1>12. CASE JudgeAgrees \/ JudgeErrs
  <2>1. CASE EndRun("completed")
    BY <2>1, EndRunCounts DEF Reasons
  <2>2. CASE log' = Append(log, "judge_error") /\ Finish("completed")
    <3>1. log' \in Seq(Reasons)
      BY <1>0, <2>2, OneTurnMore DEF Reasons
    <3> QED
      BY <2>2, <3>1, FinishCounts
  <2> QED
    BY <1>12, <2>1, <2>2 DEF JudgeAgrees, JudgeErrs
<1> QED
  BY <1>1, <1>2, <1>3, <1>4, <1>5, <1>6, <1>7, <1>8, <1>9, <1>10, <1>11, <1>12
     DEF Next, Turn, AllDone

----------------------------------------------------------------------------
(* How long a run can be.                                                  *)

Stage ==
  CASE pc = "input" -> 6
    [] pc = "turn" -> 5
    [] pc = "route" -> 4
    [] pc = "access" -> 3
    [] pc \in {"execute", "chat"} -> 2
    [] pc \in {"missing", "delegate", "verify", "judge"} -> 1
    [] pc = "idle" -> 0

\* A bound of the steps that are left to the run: what its turns may take and
\* what is left of this one.
StepsLeft == IF pc = "idle" THEN 0 ELSE 8 * (MaxTurns - turn) + Stage

Prompted == Start /\ StepsLeft' = 8 * MaxTurns + 6

Shorter == StepsLeft \in Nat /\ StepsLeft' \in Nat /\ StepsLeft' < StepsLeft

LEMMA StepsLeftInNat ==
  ASSUME Inv
  PROVE  /\ StepsLeft \in Nat /\ MaxTurns - turn \in Nat
         /\ pc # "idle" => Stage \in 1..6 /\ StepsLeft = 8 * (MaxTurns - turn) + Stage
BY LimitsAssumption DEF Inv, Numbers, Midturn, StepsLeft, Stage

\* On to the next turn, or out.
LEMMA NextTurnShortens ==
  ASSUME Inv, Inv', pc \in Midturn,
         pc' = "idle" \/ (pc' = "turn" /\ turn' = turn + 1)
  PROVE  Shorter
<1>1. /\ StepsLeft \in Nat /\ turn \in Nat /\ MaxTurns \in Nat /\ turn' <= MaxTurns
      /\ StepsLeft = 8 * (MaxTurns - turn) + Stage /\ Stage \in 1..6
  BY StepsLeftInNat, LimitsAssumption DEF Inv, Numbers, Midturn
<1>2. CASE pc' = "idle"
  <2>1. StepsLeft' = 0 /\ MaxTurns - turn \in Nat
    BY <1>2, StepsLeftInNat DEF StepsLeft
  <2> QED
    BY <1>1, <2>1 DEF Shorter
<1>3. CASE pc' = "turn" /\ turn' = turn + 1
  <2>1. StepsLeft' = 8 * (MaxTurns - (turn + 1)) + 5 /\ turn + 1 <= MaxTurns
    BY <1>1, <1>3 DEF StepsLeft, Stage
  <2> QED
    BY <1>1, <2>1 DEF Shorter
<1> QED
  BY <1>2, <1>3

LEMMA IdleShortens ==
  ASSUME Inv, Inv', pc # "idle", pc' = "idle"
  PROVE  Shorter
<1>1. StepsLeft' = 0
  BY DEF StepsLeft
<1>2. StepsLeft = 8 * (MaxTurns - turn) + Stage /\ Stage \in 1..6 /\ MaxTurns - turn \in Nat
  BY StepsLeftInNat
<1> QED
  BY <1>1, <1>2 DEF Shorter

\* Further within the turn.
LEMMA StageShortens ==
  ASSUME Inv, pc # "idle", pc' # "idle", UNCHANGED turn, Stage' \in Nat, Stage' < Stage
  PROVE  Shorter
<1>1. /\ StepsLeft \in Nat /\ MaxTurns - turn \in Nat
      /\ StepsLeft = 8 * (MaxTurns - turn) + Stage /\ Stage \in 1..6
  BY StepsLeftInNat
<1>2. StepsLeft' = 8 * (MaxTurns - turn) + Stage'
  BY DEF StepsLeft
<1> QED
  BY <1>1, <1>2 DEF Shorter

LEMMA StepFailsShortens ==
  ASSUME Inv, Inv', pc \in Midturn, NEW class, StepFails(class)
  PROVE  Shorter
BY NextTurnShortens DEF StepFails, EndRun, Finish

LEMMA EndTurnShortens ==
  ASSUME Inv, Inv', pc \in Midturn, NEW r, EndTurn(r)
  PROVE  Shorter
BY NextTurnShortens DEF EndTurn

LEMMA TurnShortens ==
  ASSUME Inv, Inv', Turn
  PROVE  Shorter
<1> USE DEF Midturn
<1>1. CASE LoopHead
  <2>1. CASE pc' = "idle"
    BY <1>1, <2>1, IdleShortens DEF LoopHead
  <2>2. CASE pc' \in {"chat", "route"} /\ UNCHANGED turn
    BY <1>1, <2>2, StageShortens DEF LoopHead, Stage
  <2> QED
    BY <1>1, <2>1, <2>2 DEF LoopHead, Finish
<1>2. ASSUME NEW v, InputGuard(v) PROVE Shorter
  <2>1. CASE pc' = "idle"
    BY <1>2, <2>1, IdleShortens DEF InputGuard
  <2>2. CASE pc' = "turn" /\ UNCHANGED turn
    <3>1. pc = "input" /\ Stage = 6 /\ Stage' = 5
      BY <1>2, <2>2 DEF InputGuard, Stage
    <3> QED
      BY <2>2, <3>1, StageShortens
  <2> QED
    BY <1>2, <2>1, <2>2 DEF InputGuard, Finish
<1>3. ASSUME NEW c, RouterFails(c) \/ ChatFails(c) PROVE Shorter
  BY <1>3, StepFailsShortens DEF RouterFails, ChatFails
<1>4. ASSUME NEW t, Route(t) PROVE Shorter
  <2>1. pc = "route" /\ pc' \in {"chat", "delegate", "missing", "access"} /\ UNCHANGED turn
    BY <1>4 DEF Route
  <2> QED
    BY <2>1, StageShortens DEF Stage
<1>5. CASE NotFound \/ Denied \/ VerifyPasses \/ VerifyFails \/ JudgeContinues
  BY <1>5, EndTurnShortens DEF NotFound, Denied, VerifyPasses, VerifyFails, JudgeContinues
<1>6. ASSUME NEW x, Delegate(x) PROVE Shorter
  BY <1>6, EndTurnShortens DEF Delegate
<1>7. ASSUME NEW x, NEW reason, Execute(x, reason) PROVE Shorter
  <2>1. CASE pc' = "verify" /\ UNCHANGED turn
    <3>1. pc = "execute" /\ Stage = 2 /\ Stage' = 1
      BY <1>7, <2>1 DEF Execute, Stage
    <3> QED
      BY <2>1, <3>1, StageShortens
  <2> QED
    BY <1>7, <2>1, EndTurnShortens DEF Execute
<1>8. ASSUME NEW v, Guarded(v) PROVE Shorter
  <2>1. CASE pc' = "execute" /\ UNCHANGED turn
    <3>1. pc = "access" /\ Stage = 3 /\ Stage' = 2
      BY <1>8, <2>1 DEF Guarded, Stage
    <3> QED
      BY <2>1, <3>1, StageShortens
  <2> QED
    BY <1>8, <2>1, EndTurnShortens, StepFailsShortens DEF Guarded
<1>9. ASSUME NEW v, Chat(v) PROVE Shorter
  <2>1. CASE pc' = "judge" /\ UNCHANGED turn
    <3>1. pc = "chat" /\ Stage = 2 /\ Stage' = 1
      BY <1>9, <2>1 DEF Chat, Stage
    <3> QED
      BY <2>1, <3>1, StageShortens
  <2> QED
    BY <1>9, <2>1, IdleShortens, StepFailsShortens DEF Chat, EndRun, Finish
<1>10. CASE JudgeAgrees \/ JudgeErrs
  BY <1>10, IdleShortens DEF JudgeAgrees, JudgeErrs, EndRun, Finish
<1> QED
  BY <1>1, <1>2, <1>3, <1>4, <1>5, <1>6, <1>7, <1>8, <1>9, <1>10 DEF Turn

----------------------------------------------------------------------------

\* IInv is an invariant of the loop.
THEOREM Invariant == Spec => []IInv
BY IInvInit, IInvNext, PTL DEF Spec

\* Every message has its shape and every tool result directly follows the
\* call it answers.
THEOREM TypeCorrect == Spec => []TypeOK
<1>1. IInv => TypeOK
  BY DEF IInv, Inv, Numbers, Midturn, HistoryOK, InPlace, TypeOK
<1> QED
  BY <1>1, Invariant, PTL

\* Whatever the router chooses and however often, a skill is loaded once for a
\* user message (engine.go: toolAlreadySucceeded).
THEOREM SkillsAreLoadedOnce == Spec => []SkillLoadedOnce
<1>1. IInv => SkillLoadedOnce
  BY DEF IInv
<1> QED
  BY <1>1, Invariant, PTL

\* However long the limits and whatever the tools, a run whose context is
\* cancelled begins no turn after the one it is in.
THEOREM CancelStops == Spec => []CancelStopsTheLoop
<1>1. IInv => CancelStopsTheLoop
  <2> SUFFICES ASSUME IInv, cancelled PROVE turn <= abortedAt + 1
    BY DEF CancelStopsTheLoop
  <2>1. abortedAt \in Nat /\ turn \in Nat
    BY LimitsAssumption DEF IInv, Inv, Numbers
  <2>2. turn = abortedAt \/ turn = abortedAt + 1
    BY DEF IInv, Inv, Leaving
  <2> QED
    BY <2>1, <2>2
<1> QED
  BY <1>1, Invariant, PTL

\* Whatever the limits and however a run comes to its end, the reason it gives
\* is what its turns came to (engine.go: Run).
THEOREM StopsRightly == Spec => []StopsForItsReason
<1>1. Inv /\ CountInv => StopsForItsReason
  <2> SUFFICES ASSUME Inv, CountInv, pc # "idle"
               PROVE  /\ FailedSteps = {} \/ Cardinality(FailedSteps) < MaxFailures
                      /\ Cardinality(Retries(Len(log))) <= MaxStepRetries
                      /\ Len(log) <= MaxTurns
    BY DEF CountInv, Reasoned, StopsForItsReason
  <2>1. /\ turn = Len(log) /\ failures = Cardinality(FailedSteps)
        /\ stepRetries = Cardinality(Retries(Len(log)))
        /\ failures = 0 \/ failures < MaxFailures
    BY DEF CountInv, Counted
  <2>2. turn <= MaxTurns /\ stepRetries <= MaxStepRetries
    BY LimitsAssumption DEF Inv, Numbers
  <2>3. IsFiniteSet(FailedSteps)
    BY CountsAreFinite DEF CountInv
  <2> QED
    BY <2>1, <2>2, <2>3, FS_EmptySet
<1>2. IInv => Inv
  BY DEF IInv
<1>3. Spec => []CountInv
  <2>1. IInv /\ CountInv /\ [Next]_vars => CountInv'
    BY <1>2, CountNext
  <2> QED
    BY <2>1, CountInit, Invariant, PTL DEF Spec
<1> QED
  BY <1>1, <1>2, <1>3, Invariant, PTL

\* A run comes closer to its end with each step it takes, and nothing but the
\* next prompt gives it more to do: it returns within 8 * MaxTurns + 6 steps,
\* whatever the model, the tools and the judge answer (engine.go: Run).
THEOREM RunsAreBounded ==
  Spec => [][(Turn => Shorter) /\ (~Turn => Prompted \/ UNCHANGED StepsLeft)]_vars
<1>1. Inv /\ Inv' /\ [Next]_vars
        => [(Turn => Shorter) /\ (~Turn => Prompted \/ UNCHANGED StepsLeft)]_vars
  <2> SUFFICES ASSUME Inv, Inv', Next
               PROVE  (Turn => Shorter) /\ (~Turn => Prompted \/ UNCHANGED StepsLeft)
    OBVIOUS
  <2>1. Abort \/ AllDone => UNCHANGED StepsLeft
    <3>1. Abort \/ AllDone => UNCHANGED <<pc, turn>>
      BY DEF Abort, AllDone, vars, control
    <3>2. UNCHANGED <<pc, turn>> => UNCHANGED StepsLeft
      BY DEF StepsLeft, Stage
    <3> QED
      BY <3>1, <3>2
  <2>2. Start => Prompted
    <3>1. Start => pc' = "input" /\ turn' = 0
      BY DEF Start
    <3>2. pc' = "input" => StepsLeft' = 8 * (MaxTurns - turn') + 6
      BY DEF StepsLeft, Stage
    <3>3. MaxTurns \in Nat
      BY LimitsAssumption
    <3> QED
      BY <3>1, <3>2, <3>3 DEF Prompted
  <2> QED
    BY <2>1, <2>2, TurnShortens DEF Next
<1>2. IInv => Inv
  BY DEF IInv
<1> QED
  BY <1>1, <1>2, Invariant, PTL DEF Spec
=============================================================================
