------------------------- MODULE AgentHandlersProofs -------------------------
(***************************************************************************)
(* What the handlers promise about the run slot, the streams, the two      *)
(* locks and the rebuilding of the engine, proved for every set of         *)
(* requests in any interleaving.                                           *)
(*                                                                         *)
(* Few of the handlers' steps touch the slot, the streams or an abort.     *)
(* Elsewhere says what all the others have in common; the lemma Sorted     *)
(* puts every step under it or names the action, and each conjunct of Inv  *)
(* is then preserved kind by kind.  LockInv, in the second part, says who  *)
(* holds engMu and each history.  RebuildInv, in the third, says what the  *)
(* engine and the draft of a rebuild hold: all steps but a few are Steady. *)
(***************************************************************************)
EXTENDS AgentHandlers, TLAPS

Decided == {"replying", "replied"}

\* A step of q outside of a run: it moves on without a decision, decides on a
\* reply, or has its reply written.
Elsewhere(q) ==
  /\ pc[q] \notin InRun \cup {"replied"}
  /\ \/ \E to \in Phases \ (InRun \cup Decided) :
          /\ pc[q] # "replying"
          /\ pc' = [pc EXCEPT ![q] = to] /\ outcome' = outcome
     \/ \E o \in Outcomes \ {"aborted"} :
          /\ pc[q] # "replying"
          /\ pc' = [pc EXCEPT ![q] = "replying"]
          /\ outcome' = [outcome EXCEPT ![q] = o]
          /\ o = "busy" => runCancel # NoRun
     \/ pc[q] = "replying" /\ pc' = [pc EXCEPT ![q] = "replied"] /\ outcome' = outcome
  /\ \/ method' = method
     \/ pc[q] = "unsent" /\ \E m \in Methods : method' = [method EXCEPT ![q] = m]
  /\ UNCHANGED <<target, runVars>>

\* The inductive invariant, in parts.
Types ==
  /\ pc \in [Requests -> Phases] /\ outcome \in [Requests -> Outcomes]
  /\ target \in [Requests -> Requests \cup {NoRun}]
  /\ runCancel \in Requests \cup {NoRun}
  /\ method \in [Requests -> Methods \cup {"none"}]
  /\ stream \in Seq(Requests)

OnlyRuns  == \A q \in Requests : pc[q] \in InRun => method[q] = "run"
Undecided ==
  \A q \in Requests : pc[q] \notin Decided \cup {"ended"} => outcome[q] = "none"

\* Every run in the stream but the last is over.
InTurn ==
  \A i \in 1..Len(stream) :
    /\ pc[stream[i]] \in Decided \cup {"running", "compacting", "ended"}
    /\ i # Len(stream) => pc[stream[i]] \in Decided

Inv ==
  /\ Types /\ OnlyRuns /\ Undecided /\ RunSlotIsTheRun
  /\ InTurn /\ StreamsDoNotInterleave

----------------------------------------------------------------------------
(* Every step is of one of the kinds.                                      *)

LEMMA Moving ==
  ASSUME NEW q \in Requests, NEW from, NEW to, Step(q, from, to),
         from \notin InRun \cup Decided, to \in Phases \ (InRun \cup Decided),
         UNCHANGED <<outcome, target, runVars>>,
         \/ method' = method
         \/ pc[q] = "unsent" /\ \E m \in Methods : method' = [method EXCEPT ![q] = m]
  PROVE  Elsewhere(q)
BY DEF Elsewhere, Step, Decided

LEMMA Answering ==
  ASSUME NEW q \in Requests, NEW from, NEW o, Answer(q, from, o),
         from \notin InRun \cup Decided, o \in Outcomes \ {"aborted"},
         o = "busy" => runCancel # NoRun,
         UNCHANGED <<method, target, runVars>>
  PROVE  Elsewhere(q)
BY DEF Elsewhere, Answer, Step, Decided

\* The steps that are not elsewhere.
Special(q) ==
  \/ RunArrives(q) /\ runCancel = NoRun
  \/ RunBadParams(q) \/ RunBinds(q) \/ RunWrites(q) \/ RunStreams(q)
  \/ RunCompacts(q) \/ SummaryArrives(q) \/ RunLeaves(q)
  \/ \E o \in {"ok", "denied", "error"} : RunEnds(q, o)
  \/ AbortReads(q) /\ runCancel # NoRun
  \/ AbortCancels(q)

LEMMA SendSorted ==
  ASSUME NEW q \in Requests, NEW m \in Methods, Send(q, m)
  PROVE  Elsewhere(q)
<1>1. /\ Step(q, "unsent", "received")
      /\ UNCHANGED <<outcome, target, runVars>>
      /\ pc[q] = "unsent" /\ method' = [method EXCEPT ![q] = m]
  BY DEF Send, Step
<1> QED
  BY <1>1, Moving DEF InRun, HoldsEngMu, Phases, Decided

LEMMA RunSorted ==
  ASSUME NEW q \in Requests, Run(q)
  PROVE  Elsewhere(q) \/ Special(q)
<1>1. CASE RunArrives(q) /\ runCancel # NoRun
  <2>1. Answer(q, "received", "busy") /\ UNCHANGED <<method, target, runVars>>
    BY <1>1 DEF RunArrives, runVars
  <2> QED
    BY <1>1, <2>1, Answering DEF InRun, Decided, Outcomes
<1> QED
  BY <1>1 DEF Run, Special

LEMMA ConfigureSorted ==
  ASSUME NEW q \in Requests, Configure(q)
  PROVE  Elsewhere(q)
<1> USE DEF InRun, HoldsEngMu, Phases, Decided, Outcomes
<1>1. CASE ConfigureArrives(q)
  <2>1. UNCHANGED <<method, target, runVars>>
    BY <1>1 DEF ConfigureArrives
  <2>2. CASE runCancel # NoRun
    <3>1. Answer(q, "received", "busy")
      BY <1>1, <2>2 DEF ConfigureArrives
    <3> QED
      BY <2>1, <2>2, <3>1, Answering
  <2>3. CASE runCancel = NoRun
    <3>1. Step(q, "received", "checked") /\ UNCHANGED outcome
      BY <1>1, <2>3 DEF ConfigureArrives
    <3> QED
      BY <2>1, <3>1, Moving
  <2> QED
    BY <2>2, <2>3
<1>2. CASE ConfigureBadParams(q)
  <2>1. Answer(q, "checked", "invalid") /\ UNCHANGED <<method, target, runVars>>
    BY <1>2 DEF ConfigureBadParams
  <2> QED
    BY <2>1, Answering
<1>3. CASE ConfigureLocks(q)
  <2>1. Step(q, "checked", "rebuilding") /\ UNCHANGED <<method, outcome, target, runVars>>
    BY <1>3 DEF ConfigureLocks
  <2> QED
    BY <2>1, Moving
<1>4. CASE ConfigureFails(q)
  <2>1. Answer(q, "rebuilding", "invalid") /\ UNCHANGED <<method, target, runVars>>
    BY <1>4 DEF ConfigureFails
  <2> QED
    BY <2>1, Answering
<1>5. CASE ConfigureCopiesHistory(q)
  <2>1. Step(q, "rebuilding", "copied") /\ UNCHANGED <<method, outcome, target, runVars>>
    BY <1>5 DEF ConfigureCopiesHistory
  <2> QED
    BY <2>1, Moving
<1>6. CASE ConfigureSwaps(q)
  <2>1. Answer(q, "copied", "ok") /\ UNCHANGED <<method, target, runVars>>
    BY <1>6 DEF ConfigureSwaps
  <2> QED
    BY <2>1, Answering
<1> QED
  BY <1>1, <1>2, <1>3, <1>4, <1>5, <1>6 DEF Configure

LEMMA AbortSorted ==
  ASSUME NEW q \in Requests, Abort(q)
  PROVE  Elsewhere(q) \/ Special(q)
<1>1. CASE AbortReads(q) /\ runCancel = NoRun
  <2>1. Answer(q, "received", "idle") /\ UNCHANGED <<method, target, runVars>>
    BY <1>1 DEF AbortReads
  <2> QED
    BY <2>1, Answering DEF InRun, Decided, Outcomes
<1> QED
  BY <1>1 DEF Abort, Special

LEMMA RegisterSorted ==
  ASSUME NEW q \in Requests, Register(q)
  PROVE  Elsewhere(q)
<1> USE DEF InRun, HoldsEngMu, Phases, Decided, Outcomes
<1>1. CASE RegisterStarts(q)
  <2>1. Step(q, "received", "binding") /\ UNCHANGED <<method, outcome, target, runVars>>
    BY <1>1 DEF RegisterStarts
  <2> QED
    BY <2>1, Moving
<1>2. CASE RegisterBinds(q)
  <2>1. Step(q, "binding", "bound") /\ UNCHANGED <<method, outcome, target, runVars>>
    BY <1>2 DEF RegisterBinds
  <2> QED
    BY <2>1, Moving
<1>3. CASE RegisterReserves(q)
  <2>1. Step(q, "reserving", "binding") /\ UNCHANGED <<method, outcome, target, runVars>>
    BY <1>3 DEF RegisterReserves
  <2> QED
    BY <2>1, Moving
<1>4. CASE RegisterDone(q)
  <2>1. Answer(q, "binding", "ok") /\ UNCHANGED <<method, target, runVars>>
    BY <1>4 DEF RegisterDone
  <2> QED
    BY <2>1, Answering
<1>5. ASSUME NEW t, RegisterTool(q, t) PROVE Elsewhere(q)
  <2>1. Step(q, "bound", "reserving") /\ UNCHANGED <<method, outcome, target, runVars>>
    BY <1>5 DEF RegisterTool
  <2> QED
    BY <2>1, Moving
<1>6. ASSUME NEW t, RegisterRefused(q, t) PROVE Elsewhere(q)
  <2>1. Answer(q, "bound", "invalid") /\ UNCHANGED <<method, target, runVars>>
    BY <1>6 DEF RegisterRefused
  <2> QED
    BY <2>1, Answering
<1>7. CASE MCPFails(q)
  <2>1. Answer(q, "received", "error") /\ UNCHANGED <<method, target, runVars>>
    BY <1>7 DEF MCPFails
  <2> QED
    BY <2>1, Answering
<1>8. CASE MCPConnects(q)
  <2>1. Step(q, "received", "connected") /\ UNCHANGED <<method, outcome, target, runVars>>
    BY <1>8 DEF MCPConnects
  <2> QED
    BY <2>1, Moving
<1>9. CASE MCPReadsClients(q)
  <2>1. Step(q, "connected", "appending") /\ UNCHANGED <<method, outcome, target, runVars>>
    BY <1>9 DEF MCPReadsClients
  <2> QED
    BY <2>1, Moving
<1>10. CASE MCPWritesClients(q)
  <2>1. Step(q, "appending", "binding") /\ UNCHANGED <<method, outcome, target, runVars>>
    BY <1>10 DEF MCPWritesClients
  <2> QED
    BY <2>1, Moving
<1> QED
  BY <1>1, <1>2, <1>3, <1>4, <1>5, <1>6, <1>7, <1>8, <1>9, <1>10 DEF Register

LEMMA SessionSorted ==
  ASSUME NEW q \in Requests, Session(q)
  PROVE  Elsewhere(q)
<1> USE DEF InRun, HoldsEngMu, Phases, Decided, Outcomes
<1>1. CASE ReadBinds(q)
  <2>1. Step(q, "received", "reading") /\ UNCHANGED <<method, outcome, target, runVars>>
    BY <1>1 DEF ReadBinds
  <2> QED
    BY <2>1, Moving
<1>2. CASE Reads(q)
  <2>1. Answer(q, "reading", "ok") /\ UNCHANGED <<method, target, runVars>>
    BY <1>2 DEF Reads
  <2> QED
    BY <2>1, Answering
<1>3. CASE Summarizes(q)
  <2>1. Step(q, "reading", "summarizing") /\ UNCHANGED <<method, outcome, target, runVars>>
    BY <1>3 DEF Summarizes
  <2> QED
    BY <2>1, Moving
<1>4. ASSUME NEW o \in {"ok", "error"}, Summarized(q, o) PROVE Elsewhere(q)
  <2>1. Answer(q, "summarizing", o) /\ UNCHANGED <<method, target, runVars>>
    BY <1>4 DEF Summarized
  <2> QED
    BY <2>1, Answering
<1>5. CASE InjectLocks(q)
  <2>1. Step(q, "received", "injecting") /\ UNCHANGED <<method, outcome, target, runVars>>
    BY <1>5 DEF InjectLocks
  <2> QED
    BY <2>1, Moving
<1>6. CASE InjectWrites(q)
  <2>1. Step(q, "injecting", "counting") /\ UNCHANGED <<method, outcome, target, runVars>>
    BY <1>6 DEF InjectWrites
  <2> QED
    BY <2>1, Moving
<1>7. CASE InjectCounts(q)
  <2>1. Answer(q, "counting", "ok") /\ UNCHANGED <<method, target, runVars>>
    BY <1>7 DEF InjectCounts
  <2> QED
    BY <2>1, Answering
<1> QED
  BY <1>1, <1>2, <1>3, <1>4, <1>5, <1>6, <1>7 DEF Session

LEMMA Sorted ==
  ASSUME Next
  PROVE  \/ \E q \in Requests : Elsewhere(q) \/ Special(q)
         \/ UNCHANGED vars
<1>1. ASSUME NEW q \in Requests, BadParams(q) PROVE Elsewhere(q)
  <2>1. Answer(q, "received", "invalid") /\ UNCHANGED <<method, target, runVars>>
    BY <1>1 DEF BadParams
  <2> QED
    BY <2>1, Answering DEF InRun, Decided, Outcomes
<1>2. ASSUME NEW q \in Requests, Reply(q) PROVE Elsewhere(q)
  BY <1>2 DEF Reply, Step, Elsewhere, InRun, Decided
<1>3. ASSUME NEW q \in Requests, Handle(q) PROVE Elsewhere(q) \/ Special(q)
  BY <1>1, <1>2, <1>3, RunSorted, ConfigureSorted, AbortSorted, RegisterSorted,
     SessionSorted DEF Handle
<1> QED
  BY <1>3, SendSorted DEF Next, AllAnswered

----------------------------------------------------------------------------
(* Every kind keeps the invariant.                                         *)

LEMMA ElsewhereKeeps ==
  ASSUME Inv, NEW q \in Requests, Elsewhere(q)
  PROVE  Inv'
<1> USE DEF Decided
<1>1. UNCHANGED <<target, runCancel, cancelled, stream>>
  BY DEF Elsewhere, runVars
<1>2. Types
  BY DEF Inv
<1>3. pc' \in [Requests -> Phases] /\ outcome' \in [Requests -> Outcomes]
  <2>1. Decided \subseteq Phases
    BY DEF Phases
  <2> QED
    BY <1>2, <2>1 DEF Elsewhere, Types
<1>4. method' \in [Requests -> Methods \cup {"none"}]
  BY <1>2 DEF Elsewhere, Types
<1>5. Types'
  BY <1>1, <1>2, <1>3, <1>4 DEF Types
<1>6. /\ \A r \in Requests \ {q} : pc'[r] = pc[r] /\ outcome'[r] = outcome[r]
                                   /\ method'[r] = method[r]
      /\ pc[q] \notin InRun /\ pc'[q] \notin InRun
  BY <1>2 DEF Elsewhere, Types, InRun
<1>7. OnlyRuns'
  BY <1>6 DEF Inv, OnlyRuns
<1>8. Undecided'
  <2>1. pc'[q] \notin Decided => outcome'[q] = "none"
    BY <1>2 DEF Elsewhere, Types, Inv, Undecided, InRun
  <2> QED
    BY <1>6, <2>1 DEF Inv, Undecided
<1>9. RunSlotIsTheRun'
  BY <1>1, <1>6 DEF Inv, RunSlotIsTheRun
<1>10. pc[q] \in Decided => pc'[q] \in Decided
  BY <1>2 DEF Elsewhere, Types
<1>11. InTurn'
  <2> SUFFICES ASSUME NEW i \in 1..Len(stream)
               PROVE  /\ pc'[stream[i]] \in Decided \cup {"running", "compacting", "ended"}
                      /\ i # Len(stream) => pc'[stream[i]] \in Decided
    BY <1>1 DEF InTurn
  <2>1. stream[i] \in Requests
    BY <1>2 DEF Types
  <2>2. /\ pc[stream[i]] \in Decided \cup {"running", "compacting", "ended"}
        /\ i # Len(stream) => pc[stream[i]] \in Decided
    BY DEF Inv, InTurn
  <2>3. CASE stream[i] = q
    BY <1>6, <1>10, <2>2, <2>3 DEF InRun
  <2>4. CASE stream[i] # q
    BY <1>6, <2>1, <2>2, <2>4
  <2> QED
    BY <2>3, <2>4
<1>12. StreamsDoNotInterleave'
  BY <1>1 DEF Inv, StreamsDoNotInterleave
<1> QED
  BY <1>5, <1>7, <1>8, <1>9, <1>11, <1>12 DEF Inv

\* A step of q inside its run.
Within(q) ==
  /\ pc[q] \in InRun \ {"ended"}
  /\ \E to \in InRun \ {"admitted"} :
       /\ pc' = [pc EXCEPT ![q] = to]
       /\ \/ outcome' = outcome
          \/ to = "ended" /\ \E o \in Outcomes \ {"aborted", "busy"} :
                               outcome' = [outcome EXCEPT ![q] = o]
  /\ \/ stream' = stream
     \/ pc[q] = "running" /\ stream' = Append(stream, q)
        /\ (stream = <<>> \/ stream[Len(stream)] # q)
  /\ UNCHANGED <<method, target, runCancel, cancelled>>

LEMMA WithinSorted ==
  ASSUME Types, NEW q \in Requests, Special(q)
  PROVE  \/ Within(q) \/ (RunArrives(q) /\ runCancel = NoRun) \/ RunLeaves(q)
         \/ (AbortReads(q) /\ runCancel # NoRun) \/ AbortCancels(q)
<1> USE DEF InRun, Outcomes, Types, runVars
<1>1. CASE RunBadParams(q)
  BY <1>1 DEF RunBadParams, Step, Within
<1>2. CASE RunBinds(q)
  BY <1>2 DEF RunBinds, Step, Within
<1>3. CASE RunWrites(q)
  <2>1. UNCHANGED <<pc, outcome, stream, method, target, runCancel, cancelled>>
    BY <1>3 DEF RunWrites, reqVars
  <2>2. pc[q] = "running"
    BY <1>3 DEF RunWrites
  <2>3. pc' = [pc EXCEPT ![q] = "running"]
    BY <2>1, <2>2
  <2> QED
    BY <2>1, <2>2, <2>3 DEF Within
<1>4. CASE RunStreams(q)
  <2>1. UNCHANGED <<pc, outcome, method, target, runCancel, cancelled>>
    BY <1>4 DEF RunStreams, reqVars
  <2>2. pc[q] = "running"
    BY <1>4 DEF RunStreams
  <2>3. pc' = [pc EXCEPT ![q] = "running"]
    BY <2>1, <2>2
  <2>4. \/ stream' = stream
        \/ stream' = Append(stream, q) /\ (stream = <<>> \/ stream[Len(stream)] # q)
    BY <1>4 DEF RunStreams, Notify
  <2> QED
    BY <2>1, <2>2, <2>3, <2>4 DEF Within
<1>5. CASE RunCompacts(q)
  BY <1>5 DEF RunCompacts, Step, Within
<1>6. CASE SummaryArrives(q)
  BY <1>6 DEF SummaryArrives, Step, Within
<1>7. ASSUME NEW o \in {"ok", "denied", "error"}, RunEnds(q, o) PROVE Within(q)
  <2>1. /\ pc[q] = "running" /\ pc' = [pc EXCEPT ![q] = "ended"]
        /\ outcome' = [outcome EXCEPT ![q] = o]
        /\ UNCHANGED <<method, target, runCancel, cancelled>>
    BY <1>7 DEF RunEnds, Step
  <2>2. \/ stream' = stream
        \/ stream' = Append(stream, q) /\ (stream = <<>> \/ stream[Len(stream)] # q)
    BY <1>7 DEF RunEnds, Notify
  <2> QED
    BY <2>1, <2>2 DEF Within
<1> QED
  BY <1>1, <1>2, <1>3, <1>4, <1>5, <1>6, <1>7 DEF Special

LEMMA WithinKeeps ==
  ASSUME Inv, NEW q \in Requests, Within(q)
  PROVE  Inv'
<1> USE DEF Decided
<1>1. Types
  BY DEF Inv
<1>2. UNCHANGED <<method, target, runCancel, cancelled>>
  BY DEF Within
<1>3. pc' \in [Requests -> Phases] /\ outcome' \in [Requests -> Outcomes]
  <2>1. InRun \subseteq Phases
    BY DEF Phases
  <2> QED
    BY <1>1, <2>1 DEF Within, Types
<1>4. stream' \in Seq(Requests)
  BY <1>1 DEF Within, Types
<1>5. Types'
  BY <1>1, <1>2, <1>3, <1>4 DEF Types
<1>6. /\ \A r \in Requests \ {q} : pc'[r] = pc[r] /\ outcome'[r] = outcome[r]
      /\ pc[q] \in InRun /\ pc'[q] \in InRun
      /\ pc[q] # "ended" /\ pc'[q] # "admitted"
  BY <1>1 DEF Within, Types
<1>7. OnlyRuns'
  BY <1>2, <1>6 DEF Inv, OnlyRuns
<1>8. Undecided'
  <2>1. outcome[q] = "none"
    BY <1>6 DEF Inv, Undecided, InRun
  <2>2. pc'[q] # "ended" => outcome'[q] = "none"
    BY <1>1, <2>1 DEF Within, Types
  <2> QED
    BY <1>6, <2>2 DEF Inv, Undecided
<1>9. RunSlotIsTheRun'
  BY <1>2, <1>6 DEF Inv, RunSlotIsTheRun
<1>11. \A r \in Requests : pc[r] \in InRun => r = q
  BY <1>6 DEF Inv, RunSlotIsTheRun
<1>12. InTurn' /\ StreamsDoNotInterleave'
  <2> DEFINE n == Len(stream)
  <2>1. n \in Nat /\ \A i \in 1..n : stream[i] \in Requests
    BY <1>1 DEF Types
  <2>2. \A i \in 1..n : stream[i] # q => pc[stream[i]] \in Decided
    BY <1>11, <2>1 DEF Inv, InTurn, InRun
  <2>3. \A i \in 1..n : i # n => stream[i] # q
    BY <1>6 DEF Inv, InTurn, InRun
  <2>4. pc'[q] \in {"running", "compacting", "ended"}
    BY <1>6 DEF InRun
  <2>5. \A i \in 1..n : \/ stream[i] = q /\ i = n
                        \/ stream[i] # q /\ pc'[stream[i]] \in Decided
    BY <1>6, <2>1, <2>2, <2>3
  <2>6. CASE stream' = stream
    BY <2>4, <2>5, <2>6 DEF Inv, InTurn, StreamsDoNotInterleave
  <2>7. CASE stream' = Append(stream, q) /\ (stream = <<>> \/ stream[n] # q)
    <3>1. /\ Len(stream') = n + 1 /\ stream'[n + 1] = q
          /\ \A i \in 1..n : stream'[i] = stream[i]
      BY <1>1, <2>7 DEF Types
    <3>2. \A i \in 1..n : stream[i] # q /\ pc'[stream[i]] \in Decided
      BY <2>1, <2>5, <2>7
    <3> HIDE DEF n
    <3>3. InTurn'
      <4> SUFFICES ASSUME NEW i \in 1..n + 1
                   PROVE  /\ pc'[stream'[i]] \in Decided \cup {"running", "compacting", "ended"}
                          /\ i # n + 1 => pc'[stream'[i]] \in Decided
        BY <3>1 DEF InTurn
      <4>1. CASE i = n + 1
        BY <2>4, <3>1, <4>1
      <4>2. CASE i \in 1..n
        BY <3>1, <3>2, <4>2
      <4> QED
        BY <2>1, <4>1, <4>2
    <3>4. \A i, j \in 1..n : stream[i] = stream[j] => i = j
      BY DEF Inv, StreamsDoNotInterleave, n
    <3>5. \A i, j \in 1..n + 1 : stream'[i] = stream'[j] => i = j
      BY <2>1, <3>1, <3>2, <3>4
    <3> QED
      BY <3>1, <3>3, <3>5 DEF StreamsDoNotInterleave
  <2> QED
    BY <2>6, <2>7 DEF Within
<1> QED
  BY <1>5, <1>7, <1>8, <1>9, <1>12 DEF Inv

LEMMA ArrivalKeeps ==
  ASSUME Inv, NEW q \in Requests, RunArrives(q), runCancel = NoRun
  PROVE  Inv'
<1> USE DEF Decided
<1>1. Types
  BY DEF Inv
<1>2. /\ pc[q] = "received" /\ pc' = [pc EXCEPT ![q] = "admitted"] /\ runCancel' = q
      /\ method[q] = "run"
      /\ UNCHANGED <<method, outcome, target, cancelled, stream>>
  BY DEF RunArrives, Step
<1>3. Types'
  BY <1>1, <1>2 DEF Types, Phases, InRun
<1>4. /\ \A r \in Requests \ {q} : pc'[r] = pc[r]
      /\ pc'[q] = "admitted"
  BY <1>1, <1>2 DEF Types
<1>5. OnlyRuns' /\ Undecided'
  BY <1>2, <1>4 DEF Inv, OnlyRuns, Undecided
<1>6. RunSlotIsTheRun'
  <2>1. \A r \in Requests : pc[r] \notin InRun
    BY NoRunAssumption DEF Inv, RunSlotIsTheRun
  <2>2. "admitted" \in InRun
    BY DEF InRun
  <2> QED
    BY <1>2, <1>4, <2>1, <2>2 DEF RunSlotIsTheRun
<1>7. InTurn' /\ StreamsDoNotInterleave'
  <2>1. \A i \in 1..Len(stream) : stream[i] \in Requests
    BY <1>1 DEF Types
  <2>2. \A i \in 1..Len(stream) : stream[i] # q
    BY <1>2 DEF Inv, InTurn
  <2>3. \A i \in 1..Len(stream) : pc'[stream[i]] = pc[stream[i]]
    BY <1>4, <2>1, <2>2
  <2> QED
    BY <1>2, <2>3 DEF Inv, InTurn, StreamsDoNotInterleave
<1> QED
  BY <1>3, <1>5, <1>6, <1>7 DEF Inv

LEMMA LeavingKeeps ==
  ASSUME Inv, NEW q \in Requests, RunLeaves(q)
  PROVE  Inv'
<1> USE DEF Decided
<1>1. Types
  BY DEF Inv
<1>2. /\ pc[q] = "ended" /\ pc' = [pc EXCEPT ![q] = "replying"] /\ runCancel' = NoRun
      /\ UNCHANGED <<method, outcome, target, cancelled, stream>>
  BY DEF RunLeaves, Step
<1>3. Types'
  BY <1>1, <1>2 DEF Types, Phases
<1>4. /\ \A r \in Requests \ {q} : pc'[r] = pc[r]
      /\ pc'[q] = "replying"
  BY <1>1, <1>2 DEF Types
<1>5. OnlyRuns' /\ Undecided'
  BY <1>2, <1>4 DEF Inv, OnlyRuns, Undecided, InRun
<1>6. RunSlotIsTheRun'
  <2>1. \A r \in Requests \ {q} : pc[r] \notin InRun
    BY <1>2 DEF Inv, RunSlotIsTheRun, InRun
  <2>2. "replying" \notin InRun
    BY DEF InRun
  <2> QED
    BY <1>2, <1>4, <2>1, <2>2, NoRunAssumption DEF RunSlotIsTheRun
<1>7. InTurn' /\ StreamsDoNotInterleave'
  <2>1. \A i \in 1..Len(stream) : stream[i] \in Requests
    BY <1>1 DEF Types
  <2>2. \A i \in 1..Len(stream) :
          pc'[stream[i]] = pc[stream[i]] \/ pc'[stream[i]] \in Decided
    BY <1>4, <2>1
  <2> QED
    BY <1>2, <2>2 DEF Inv, InTurn, StreamsDoNotInterleave
<1> QED
  BY <1>3, <1>5, <1>6, <1>7 DEF Inv

\* A request that is neither in its run nor decided, and stays out of any run,
\* disturbs neither the slot nor the stream.
LEMMA OutsideKeeps ==
  ASSUME Inv, Types', NEW q \in Requests,
         pc[q] \notin InRun \cup Decided, pc'[q] \notin InRun,
         pc'[q] \notin Decided => outcome'[q] = "none",
         \A r \in Requests \ {q} : pc'[r] = pc[r] /\ outcome'[r] = outcome[r],
         UNCHANGED <<method, runCancel, stream>>
  PROVE  Inv'
<1> USE DEF Decided
<1>1. OnlyRuns' /\ Undecided'
  BY DEF Inv, OnlyRuns, Undecided
<1>2. RunSlotIsTheRun'
  BY DEF Inv, RunSlotIsTheRun
<1>3. InTurn' /\ StreamsDoNotInterleave'
  <2>1. \A i \in 1..Len(stream) : stream[i] \in Requests
    BY DEF Inv, Types
  <2>2. \A i \in 1..Len(stream) : stream[i] # q
    BY DEF Inv, InTurn, InRun
  <2>3. \A i \in 1..Len(stream) : pc'[stream[i]] = pc[stream[i]]
    BY <2>1, <2>2
  <2> QED
    BY <2>3 DEF Inv, InTurn, StreamsDoNotInterleave
<1> QED
  BY <1>1, <1>2, <1>3 DEF Inv

LEMMA AbortKeeps ==
  ASSUME Inv, NEW q \in Requests,
         (AbortReads(q) /\ runCancel # NoRun) \/ AbortCancels(q)
  PROVE  Inv'
<1> USE DEF Decided
<1>1. Types
  BY DEF Inv
<1>2. UNCHANGED <<method, runCancel, stream>>
  BY DEF AbortReads, AbortCancels, runVars
<1>3. CASE AbortReads(q) /\ runCancel # NoRun
  <2>1. /\ pc[q] = "received" /\ pc' = [pc EXCEPT ![q] = "aborting"]
        /\ target' = [target EXCEPT ![q] = runCancel]
        /\ UNCHANGED <<outcome, cancelled>>
    BY <1>3 DEF AbortReads, Step, runVars
  <2>2. Types'
    BY <1>1, <1>2, <2>1 DEF Types, Phases
  <2>3. outcome[q] = "none"
    BY <2>1 DEF Inv, Undecided, InRun
  <2>4. pc'[q] \notin InRun \cup Decided /\ outcome'[q] = "none"
    BY <1>1, <2>1, <2>3 DEF InRun, Types
  <2>5. \A r \in Requests \ {q} : pc'[r] = pc[r] /\ outcome'[r] = outcome[r]
    BY <1>1, <2>1 DEF Types
  <2> QED
    BY <2>1, <2>2, <2>4, <2>5, <1>2, OutsideKeeps DEF InRun
<1>4. CASE AbortCancels(q)
  <2>1. /\ pc[q] = "aborting" /\ pc' = [pc EXCEPT ![q] = "replying"]
        /\ outcome' = [outcome EXCEPT ![q] = "aborted"]
        /\ cancelled' = cancelled \cup {target[q]} /\ UNCHANGED target
    BY <1>4 DEF AbortCancels, Answer, Step
  <2>2. Types'
    BY <1>1, <1>2, <2>1 DEF Types, Phases, Outcomes
  <2>3. pc'[q] = "replying"
    BY <1>1, <2>1 DEF Types
  <2>4. \A r \in Requests \ {q} : pc'[r] = pc[r] /\ outcome'[r] = outcome[r]
    BY <1>1, <2>1 DEF Types
  <2> QED
    BY <2>1, <2>2, <2>3, <2>4, <1>2, OutsideKeeps DEF InRun
<1> QED
  BY <1>3, <1>4

----------------------------------------------------------------------------
(* The theorems.                                                           *)

LEMMA InvInit == Init => Inv
<1> SUFFICES ASSUME Init PROVE Inv
  OBVIOUS
<1> USE DEF Init, Decided
<1>1. Types
  BY DEF Types, Phases, Outcomes
<1>2. OnlyRuns /\ Undecided
  BY DEF OnlyRuns, Undecided, InRun
<1>3. RunSlotIsTheRun
  BY NoRunAssumption DEF RunSlotIsTheRun, InRun
<1>4. InTurn /\ StreamsDoNotInterleave
  BY DEF InTurn, StreamsDoNotInterleave
<1> QED
  BY <1>1, <1>2, <1>3, <1>4 DEF Inv

LEMMA InvNext == Inv /\ [Next]_vars => Inv'
<1> SUFFICES ASSUME Inv, [Next]_vars PROVE Inv'
  OBVIOUS
<1>1. CASE UNCHANGED vars
  BY <1>1 DEF vars, reqVars, runVars, Inv, Types, OnlyRuns, Undecided, RunSlotIsTheRun,
              InTurn, StreamsDoNotInterleave
<1>2. ASSUME NEW q \in Requests, Elsewhere(q) PROVE Inv'
  BY <1>2, ElsewhereKeeps
<1>3. ASSUME NEW q \in Requests, Special(q) PROVE Inv'
  <2>1. Types
    BY DEF Inv
  <2> QED
    BY <1>3, <2>1, WithinSorted, WithinKeeps, ArrivalKeeps, LeavingKeeps, AbortKeeps
<1> QED
  BY <1>1, <1>2, <1>3, Sorted

\* The invariant of the handlers that the theorems below are parts of.
THEOREM Invariant == Spec => []Inv
BY InvInit, InvNext, PTL DEF Spec

\* However many requests there are, the run slot names the one run that is
\* under way (handlers.go: runCancel under runMu).
THEOREM OneRun == Spec => []RunSlotIsTheRun
<1>1. Inv => RunSlotIsTheRun
  BY DEF Inv
<1> QED
  BY <1>1, Invariant, PTL

\* No run sends a notification after one of another run has gone out
\* (handlers.go: StreamEnd before the slot is freed).
THEOREM StreamsApart == Spec => []StreamsDoNotInterleave
<1>1. Inv => StreamsDoNotInterleave
  BY DEF Inv
<1> QED
  BY <1>1, Invariant, PTL

\* AgentBusy is answered only while another agent.run is unanswered
\* (handlers.go: the slot is freed before the reply is written).
THEOREM BusyExplained == Spec => BusyHasACause
<1> DEFINE A == \A q \in Requests :
                  outcome[q] # "busy" /\ outcome'[q] = "busy"
                    => \E r \in Requests \ {q} : method[r] = "run" /\ InFlight(r)
<1>1. Inv /\ [Next]_vars => [A]_vars
  <2> SUFFICES ASSUME Inv, Next,
                      NEW q \in Requests, outcome[q] # "busy", outcome'[q] = "busy"
               PROVE  \E r \in Requests \ {q} : method[r] = "run" /\ InFlight(r)
    OBVIOUS
  <2>1. Types
    BY DEF Inv
  <2>2. PICK p \in Requests : Elsewhere(p) \/ Special(p)
    BY Sorted DEF vars, reqVars
  <2>3. Elsewhere(p)
    BY <2>1, <2>2, WithinSorted
       DEF Types, Within, RunArrives, RunLeaves, AbortReads, AbortCancels, Answer
  <2>4. p = q /\ runCancel # NoRun
    BY <2>1, <2>3 DEF Types, Elsewhere
  <2>5. /\ runCancel \in Requests /\ pc[runCancel] \in InRun
        /\ method[runCancel] = "run"
    BY <2>1, <2>4 DEF Types, Inv, RunSlotIsTheRun, OnlyRuns
  <2>6. runCancel # q
    BY <2>3, <2>4, <2>5 DEF Elsewhere
  <2> QED
    BY <2>5, <2>6 DEF InFlight, InRun
<1> QED
  BY <1>1, Invariant, PTL DEF Spec, BusyHasACause

----------------------------------------------------------------------------
(* The two locks.  A handler is where it holds engMu or where it holds a   *)
(* history over a call of the LLM, and nobody is at both.                  *)

LockTypes ==
  /\ bound \in [Requests -> Engines] /\ eng \in Engines
  /\ engMu \in Requests \cup {NoRun} /\ ctxMu \in [Engines -> Requests \cup {NoRun}]

LocksHeld ==
  /\ \A q \in Requests : engMu = q <=> pc[q] \in HoldsEngMu
  /\ \A q \in Requests, e \in Engines :
       ctxMu[e] = q <=> pc[q] = "compacting" /\ bound[q] = e

LockInv == LockTypes /\ LocksHeld

\* What a step of q does to the locks is what its place says.
Locking(q) ==
  /\ LockTypes'
  /\ \A r \in Requests \ {q} : pc'[r] = pc[r] /\ bound'[r] = bound[r]
  /\ \/ engMu' = engMu /\ (pc'[q] \in HoldsEngMu <=> pc[q] \in HoldsEngMu)
     \/ engMu = NoRun /\ engMu' = q /\ pc'[q] \in HoldsEngMu
     \/ engMu = q /\ engMu' = NoRun /\ pc'[q] \notin HoldsEngMu
  /\ \/ ctxMu' = ctxMu /\ pc[q] # "compacting" /\ pc'[q] # "compacting"
     \/ ctxMu' = ctxMu /\ pc'[q] = pc[q] /\ bound'[q] = bound[q]
     \/ /\ pc'[q] = "compacting" /\ pc[q] # "compacting" /\ bound'[q] = bound[q]
        /\ ctxMu[bound[q]] = NoRun /\ ctxMu' = [ctxMu EXCEPT ![bound[q]] = q]
     \/ /\ pc[q] = "compacting" /\ pc'[q] # "compacting" /\ bound'[q] = bound[q]
        /\ ctxMu[bound[q]] = q /\ ctxMu' = [ctxMu EXCEPT ![bound[q]] = NoRun]

LEMMA LockingKeeps ==
  ASSUME LockInv, NEW q \in Requests, Locking(q)
  PROVE  LockInv'
<1> USE DEF LockInv, LockTypes, LocksHeld
<1>1. ASSUME NEW r \in Requests PROVE engMu' = r <=> pc'[r] \in HoldsEngMu
  BY NoRunAssumption DEF Locking
<1>2. ASSUME NEW r \in Requests, NEW e \in Engines
      PROVE  ctxMu'[e] = r <=> pc'[r] = "compacting" /\ bound'[r] = e
  <2>1. bound[q] \in Engines /\ NoRun \notin Requests
    BY NoRunAssumption
  <2>2. CASE ctxMu' = ctxMu
    BY <2>1, <2>2 DEF Locking
  <2>3. CASE /\ pc'[q] = "compacting" /\ pc[q] # "compacting" /\ bound'[q] = bound[q]
             /\ ctxMu[bound[q]] = NoRun /\ ctxMu' = [ctxMu EXCEPT ![bound[q]] = q]
    BY <2>1, <2>3 DEF Locking
  <2>4. CASE /\ pc[q] = "compacting" /\ pc'[q] # "compacting" /\ bound'[q] = bound[q]
             /\ ctxMu[bound[q]] = q /\ ctxMu' = [ctxMu EXCEPT ![bound[q]] = NoRun]
    BY <2>1, <2>4 DEF Locking
  <2> QED
    BY <2>2, <2>3, <2>4 DEF Locking
<1> QED
  BY <1>1, <1>2 DEF Locking

LEMMA RunLocks ==
  ASSUME Types, LockInv, NEW q \in Requests, Run(q)
  PROVE  LockInv'
<1> USE DEF Types, InRun, HoldsEngMu, Decided, Step, Answer, Locking, LockTypes, LocksHeld,
            reqVars, engVars
<1>0. LockTypes /\ LocksHeld
  BY DEF LockInv
<1> SUFFICES Locking(q)
  BY LockingKeeps
<1>1. CASE RunArrives(q)
  BY <1>0, <1>1 DEF RunArrives
<1>2. CASE RunBadParams(q)
  BY <1>0, <1>2 DEF RunBadParams
<1>3. CASE RunBinds(q)
  BY <1>0, <1>3 DEF RunBinds
<1>4. CASE RunWrites(q)
  BY <1>0, <1>4 DEF RunWrites
<1>5. CASE RunStreams(q)
  BY <1>0, <1>5 DEF RunStreams
<1>6. CASE RunCompacts(q)
  BY <1>0, <1>6 DEF RunCompacts, Free
<1>7. CASE SummaryArrives(q)
  BY <1>0, <1>7 DEF SummaryArrives
<1>8. CASE RunLeaves(q)
  BY <1>0, <1>8 DEF RunLeaves
<1>9. ASSUME NEW o \in {"ok", "denied", "error"}, RunEnds(q, o) PROVE Locking(q)
  BY <1>0, <1>9 DEF RunEnds
<1> QED
  BY <1>1, <1>2, <1>3, <1>4, <1>5, <1>6, <1>7, <1>8, <1>9 DEF Run

LEMMA RegisterLocks ==
  ASSUME Types, LockInv, NEW q \in Requests, Register(q)
  PROVE  LockInv'
<1> USE DEF Types, InRun, HoldsEngMu, Decided, Step, Answer, Locking, LockTypes, LocksHeld,
            reqVars, engVars
<1>0. LockTypes /\ LocksHeld
  BY DEF LockInv
<1> SUFFICES Locking(q)
  BY LockingKeeps
<1>1. CASE RegisterStarts(q)
  BY <1>0, <1>1 DEF RegisterStarts
<1>2. CASE RegisterBinds(q)
  BY <1>0, <1>2 DEF RegisterBinds
<1>3. CASE RegisterReserves(q)
  BY <1>0, <1>3 DEF RegisterReserves
<1>4. CASE RegisterDone(q)
  BY <1>0, <1>4 DEF RegisterDone
<1>5. ASSUME NEW t \in Tools, RegisterTool(q, t) PROVE Locking(q)
  BY <1>0, <1>5 DEF RegisterTool
<1>6. ASSUME NEW t \in Tools, RegisterRefused(q, t) PROVE Locking(q)
  BY <1>0, <1>6 DEF RegisterRefused
<1>7. CASE MCPFails(q)
  BY <1>0, <1>7 DEF MCPFails
<1>8. CASE MCPConnects(q)
  BY <1>0, <1>8 DEF MCPConnects
<1>9. CASE MCPReadsClients(q)
  BY <1>0, <1>9 DEF MCPReadsClients
<1>10. CASE MCPWritesClients(q)
  BY <1>0, <1>10 DEF MCPWritesClients
<1> QED
  BY <1>1, <1>2, <1>3, <1>4, <1>5, <1>6, <1>7, <1>8, <1>9, <1>10 DEF Register

LEMMA SessionLocks ==
  ASSUME Types, LockInv, NEW q \in Requests, Session(q)
  PROVE  LockInv'
<1> USE DEF Types, InRun, HoldsEngMu, Decided, Step, Answer, Locking, LockTypes, LocksHeld,
            reqVars, engVars
<1>0. LockTypes /\ LocksHeld
  BY DEF LockInv
<1> SUFFICES Locking(q)
  BY LockingKeeps
<1>1. CASE ReadBinds(q)
  BY <1>0, <1>1 DEF ReadBinds
<1>2. CASE Reads(q)
  BY <1>0, <1>2 DEF Reads
<1>3. CASE Summarizes(q)
  BY <1>0, <1>3 DEF Summarizes
<1>4. ASSUME NEW o \in {"ok", "error"}, Summarized(q, o) PROVE Locking(q)
  BY <1>0, <1>4 DEF Summarized
<1>5. CASE InjectLocks(q)
  BY <1>0, <1>5 DEF InjectLocks
<1>6. CASE InjectWrites(q)
  BY <1>0, <1>6 DEF InjectWrites
<1>7. CASE InjectCounts(q)
  BY <1>0, <1>7 DEF InjectCounts
<1> QED
  BY <1>1, <1>2, <1>3, <1>4, <1>5, <1>6, <1>7 DEF Session

LEMMA ConfigureTakesLocks ==
  ASSUME Types, LockInv, NEW q \in Requests, Configure(q)
  PROVE  LockInv'
<1> USE DEF Types, InRun, HoldsEngMu, Decided, Step, Answer, Locking, LockTypes, LocksHeld,
            reqVars, engVars
<1>0. LockTypes /\ LocksHeld
  BY DEF LockInv
<1> SUFFICES Locking(q)
  BY LockingKeeps
<1>1. CASE ConfigureArrives(q)
  BY <1>0, <1>1 DEF ConfigureArrives
<1>2. CASE ConfigureBadParams(q)
  BY <1>0, <1>2 DEF ConfigureBadParams
<1>3. CASE ConfigureLocks(q)
  BY <1>0, <1>3 DEF ConfigureLocks
<1>4. CASE ConfigureFails(q)
  <2>1. /\ pc[q] = "rebuilding" /\ pc' = [pc EXCEPT ![q] = "replying"] /\ engMu' = NoRun
        /\ UNCHANGED <<bound, eng, ctxMu>>
    BY <1>4 DEF ConfigureFails
  <2>2. engMu = q
    BY <1>0, <2>1
  <2> QED
    BY <1>0, <2>1, <2>2
<1>5. CASE ConfigureCopiesHistory(q)
  BY <1>0, <1>5 DEF ConfigureCopiesHistory
<1>6. CASE ConfigureSwaps(q)
  BY <1>0, <1>6 DEF ConfigureSwaps, Engines
<1> QED
  BY <1>1, <1>2, <1>3, <1>4, <1>5, <1>6 DEF Configure

LEMMA OtherLocks ==
  ASSUME Types, LockInv, NEW q \in Requests, Abort(q) \/ BadParams(q) \/ Reply(q) \/ (\E m \in Methods : Send(q, m))
  PROVE  LockInv'
<1> USE DEF Types, InRun, HoldsEngMu, Decided, Step, Answer, Locking, LockTypes, LocksHeld,
            reqVars, engVars
<1>0. LockTypes /\ LocksHeld
  BY DEF LockInv
<1> SUFFICES Locking(q)
  BY LockingKeeps
<1>1. CASE AbortReads(q)
  BY <1>0, <1>1 DEF AbortReads
<1>2. CASE AbortCancels(q)
  BY <1>0, <1>2 DEF AbortCancels
<1>3. CASE BadParams(q)
  BY <1>0, <1>3 DEF BadParams
<1>4. CASE Reply(q)
  BY <1>0, <1>4 DEF Reply
<1>5. ASSUME NEW m \in Methods, Send(q, m) PROVE Locking(q)
  BY <1>0, <1>5 DEF Send
<1> QED
  BY <1>1, <1>2, <1>3, <1>4, <1>5 DEF Abort

LEMMA LockInit == Init => LockInv
BY NoRunAssumption
   DEF Init, LockInv, LockTypes, LocksHeld, Engines, HoldsEngMu, InRun

LEMMA LockNext ==
  ASSUME Types, LockInv, [Next]_vars
  PROVE  LockInv'
<1>1. CASE UNCHANGED vars
  BY <1>1 DEF vars, reqVars, engVars, LockInv, LockTypes, LocksHeld
<1> QED
  BY <1>1, RunLocks, RegisterLocks, SessionLocks, ConfigureTakesLocks, OtherLocks
     DEF Next, AllAnswered, Handle

\* A lock that is taken is held by a handler that is at work under it, on every
\* path (handlers.go: engMu; context/manager.go: the manager's mutex).
THEOREM LocksHaveHolders == Spec => []LocksHeld
<1>1. LockInv => LocksHeld
  BY DEF LockInv
<1>2. Inv /\ LockInv /\ [Next]_vars => LockInv'
  BY LockNext DEF Inv
<1> QED
  BY <1>1, <1>2, LockInit, Invariant, PTL DEF Spec

\* Whom a handler may have to wait for: the holder of engMu, or of the history
\* of the current engine or of its own.
Waits(q) ==
  \/ /\ engMu # NoRun
     /\ \/ pc[q] \in {"admitted", "checked", "binding"}
        \/ pc[q] = "received" /\ method[q] \in {"inject", "history", "summarize"}
  \/ pc[q] \in {"rebuilding", "injecting", "counting"} /\ ~Free(eng)
  \/ pc[q] \in {"running", "reserving", "reading"} /\ ~Free(bound[q])

SomeoneGoesOn ==
  \A q \in Requests : Waits(q) => \E r \in Requests : InFlight(r) /\ ~Waits(r)

\* Handlers never wait for each other in a circle: engMu is taken before a
\* history and never behind it, and who holds a history over a call of the LLM
\* wants no other lock (handlers.go; context/manager.go).
THEOREM NoCircularWait == Spec => []SomeoneGoesOn
<1>1. LockInv => SomeoneGoesOn
  <2> SUFFICES ASSUME LockInv, NEW q \in Requests, Waits(q)
               PROVE  \E r \in Requests : InFlight(r) /\ ~Waits(r)
    BY DEF SomeoneGoesOn
  <2>1. ASSUME NEW e \in Engines, ~Free(e)
        PROVE  \E r \in Requests : InFlight(r) /\ ~Waits(r)
    <3>1. ctxMu[e] \in Requests /\ pc[ctxMu[e]] = "compacting"
      BY <2>1 DEF LockInv, LockTypes, LocksHeld, Free
    <3> QED
      BY <3>1 DEF InFlight, Waits
  <2>2. CASE engMu # NoRun
    <3>1. engMu \in Requests /\ pc[engMu] \in HoldsEngMu
      BY <2>2 DEF LockInv, LockTypes, LocksHeld
    <3>2. InFlight(engMu)
      BY <3>1 DEF InFlight, HoldsEngMu
    <3>3. Waits(engMu) => ~Free(eng)
      BY <3>1 DEF Waits, HoldsEngMu
    <3> QED
      BY <2>1, <3>1, <3>2, <3>3 DEF LockInv, LockTypes
  <2>3. CASE engMu = NoRun
    BY <2>1, <2>3 DEF Waits, LockInv, LockTypes
  <2> QED
    BY <2>2, <2>3
<1>2. Inv /\ LockInv /\ [Next]_vars => LockInv'
  BY LockNext DEF Inv
<1> QED
  BY <1>1, <1>2, LockInit, Invariant, PTL DEF Spec

----------------------------------------------------------------------------
(* Rebuilding.  What the engine knows, the draft of a rebuild that has     *)
(* read it knows too, but for what came late; so nothing else is lost when *)
(* the draft becomes the engine.                                           *)

Drafts == [tools : SUBSET Tools, wrote : SUBSET Requests, clients : SUBSET Requests]

EngineTypes ==
  /\ bound \in [Requests -> Engines] /\ eng \in Engines
  /\ batch \in [Requests -> SUBSET Tools] /\ wanted \in [Requests -> SUBSET Tools]
  /\ draft \in [Requests -> Drafts]
  /\ tools \in [Engines -> SUBSET Tools] /\ wrote \in [Engines -> SUBSET Requests]
  /\ mcpClients \in SUBSET Requests

\* Which method's handler is in which phase.
Placed(q) ==
  /\ pc[q] \notin Decided \cup {"ended"} => outcome[q] = "none"
  /\ pc[q] \in InRun => method[q] = "run"
  /\ pc[q] \in {"checked", "rebuilding", "copied"} => method[q] = "configure"
  /\ pc[q] \in {"connected", "appending", "binding", "bound", "reserving"} =>
       method[q] \in {"tool.register", "mcp.register"}
  /\ pc[q] \in {"reading", "summarizing"} => method[q] \in {"history", "summarize"}
  /\ pc[q] \in {"injecting", "counting"} => method[q] = "inject"
  /\ pc[q] = "aborting" => method[q] = "abort"

ToolsKept ==
  /\ \A q \in Requests : \A t \in Registered(q) : t \in tools[eng] \/ <<q, t>> \in lateTools
  /\ \A p \in Requests : pc[p] \in {"rebuilding", "copied"} =>
       \A q \in Requests : \A t \in Registered(q) :
         t \in draft[p].tools \/ <<q, t>> \in lateTools

\* The engine owes q a place in its history: the reply says so, or will.
Owed(q) ==
  \/ pc[q] = "counting"
  \/ outcome[q] = "ok" /\ method[q] \in {"run", "inject"}

HistoryKept ==
  /\ \A q \in Requests : Owed(q) => q \in wrote[eng] \cup lateRuns
  /\ \A e \in Engines : wrote[e] \subseteq wrote[eng] \cup lateRuns
  /\ \A p \in Requests : pc[p] = "copied" => wrote[eng] \subseteq draft[p].wrote \cup lateRuns
  /\ \A q \in lateRuns : q \in Requests /\ pc[q] # "unsent" /\ method[q] = "run"

RebuildInv == EngineTypes /\ (\A q \in Requests : Placed(q)) /\ ToolsKept /\ HistoryKept

LEMMA DraftTools ==
  ASSUME draft \in [Requests -> Drafts], NEW q \in Requests, NEW x \in SUBSET Tools,
         draft' = [draft EXCEPT ![q].tools = x]
  PROVE  /\ draft' \in [Requests -> Drafts] /\ draft'[q].tools = x
         /\ \A r \in Requests \ {q} : draft'[r] = draft[r]
<1> DEFINE new == [draft[q] EXCEPT !.tools = x]
<1>1. new \in Drafts /\ new.tools = x
  BY DEF Drafts
<1>2. draft' = [draft EXCEPT ![q] = new]
  OBVIOUS
<1> HIDE DEF new
<1>3. /\ draft' \in [Requests -> Drafts] /\ draft'[q] = new
      /\ \A r \in Requests \ {q} : draft'[r] = draft[r]
  BY <1>1, <1>2
<1> QED
  BY <1>1, <1>3

LEMMA DraftWrote ==
  ASSUME draft \in [Requests -> Drafts], NEW q \in Requests, NEW x \in SUBSET Requests,
         draft' = [draft EXCEPT ![q].wrote = x]
  PROVE  /\ draft' \in [Requests -> Drafts]
         /\ draft'[q].wrote = x /\ draft'[q].tools = draft[q].tools
         /\ \A r \in Requests \ {q} : draft'[r] = draft[r]
<1> DEFINE new == [draft[q] EXCEPT !.wrote = x]
<1>1. new \in Drafts /\ new.wrote = x /\ new.tools = draft[q].tools
  BY DEF Drafts
<1>2. draft' = [draft EXCEPT ![q] = new]
  OBVIOUS
<1> HIDE DEF new
<1>3. /\ draft' \in [Requests -> Drafts] /\ draft'[q] = new
      /\ \A r \in Requests \ {q} : draft'[r] = draft[r]
  BY <1>1, <1>2
<1> QED
  BY <1>1, <1>3

LEMMA DraftClients ==
  ASSUME draft \in [Requests -> Drafts], NEW q \in Requests, NEW x \in SUBSET Requests,
         draft' = [draft EXCEPT ![q].clients = x]
  PROVE  /\ draft' \in [Requests -> Drafts]
         /\ \A r \in Requests \ {q} : draft'[r] = draft[r]
<1> DEFINE new == [draft[q] EXCEPT !.clients = x]
<1>1. new \in Drafts
  BY DEF Drafts
<1>2. draft' = [draft EXCEPT ![q] = new]
  OBVIOUS
<1> HIDE DEF new
<1>3. /\ draft' \in [Requests -> Drafts] /\ draft'[q] = new
      /\ \A r \in Requests \ {q} : draft'[r] = draft[r]
  BY <1>1, <1>2
<1> QED
  BY <1>1, <1>3

\* A step of q that leaves the engines alone and is no part of a rebuild's
\* reading.
Steady(q) ==
  /\ \A r \in Requests \ {q} :
       /\ pc'[r] = pc[r] /\ outcome'[r] = outcome[r]
       /\ batch'[r] = batch[r] /\ wanted'[r] = wanted[r] /\ draft'[r] = draft[r]
  /\ UNCHANGED <<method, eng, tools, wrote, lateTools, lateRuns>>
  /\ batch'[q] = batch[q] /\ wanted'[q] = wanted[q]
  /\ pc'[q] \notin {"unsent", "rebuilding", "copied", "counting"}
  /\ Owed(q)' => Owed(q) \/ \E e \in Engines : q \in wrote[e]

LEMMA SteadyKeeps ==
  ASSUME RebuildInv, NEW q \in Requests, Steady(q), EngineTypes', Placed(q)'
  PROVE  RebuildInv'
<1>1. \A r \in Requests : Placed(r)'
  BY DEF RebuildInv, Steady, Placed
<1>2. \A r \in Requests : Registered(r)' = Registered(r)
  BY DEF Steady, Registered
<1>3. \A p \in Requests : pc'[p] \in {"rebuilding", "copied"} =>
         pc[p] = pc'[p] /\ draft'[p] = draft[p]
  BY DEF Steady
<1>4. ToolsKept'
  BY <1>2, <1>3 DEF RebuildInv, ToolsKept, Steady
<1>5. HistoryKept'
  <2>1. ASSUME NEW r \in Requests, Owed(r)' PROVE r \in wrote[eng] \cup lateRuns
    <3>1. Owed(r) \/ \E e \in Engines : r \in wrote[e]
      BY <2>1 DEF Steady, Owed
    <3> QED
      BY <3>1 DEF RebuildInv, HistoryKept
  <2> QED
    BY <1>3, <2>1 DEF RebuildInv, HistoryKept, Steady
<1> QED
  BY <1>1, <1>4, <1>5 DEF RebuildInv

LEMMA RunSteady ==
  ASSUME Types, RebuildInv, NEW q \in Requests, Run(q), ~RunWrites(q)
  PROVE  RebuildInv'
<1> USE DEF Types, InRun, Decided, Step, Answer, EngineTypes, Steady, Placed, Owed,
            reqVars, engVars, mcpVars, late
<1>0. EngineTypes /\ Placed(q)
  BY DEF RebuildInv
<1> SUFFICES EngineTypes' /\ Steady(q) /\ Placed(q)'
  BY SteadyKeeps
<1>1. CASE RunArrives(q)
  BY <1>0, <1>1 DEF RunArrives
<1>2. CASE RunBadParams(q)
  BY <1>0, <1>2 DEF RunBadParams
<1>3. CASE RunBinds(q)
  BY <1>0, <1>3 DEF RunBinds
<1>4. CASE RunStreams(q)
  BY <1>0, <1>4 DEF RunStreams
<1>5. CASE RunCompacts(q)
  BY <1>0, <1>5 DEF RunCompacts
<1>6. CASE SummaryArrives(q)
  BY <1>0, <1>6 DEF SummaryArrives
<1>7. CASE RunLeaves(q)
  BY <1>0, <1>7 DEF RunLeaves
<1>8. ASSUME NEW o \in {"ok", "denied", "error"}, RunEnds(q, o)
      PROVE  EngineTypes' /\ Steady(q) /\ Placed(q)'
  BY <1>0, <1>8 DEF RunEnds
<1> QED
  BY <1>1, <1>2, <1>3, <1>4, <1>5, <1>6, <1>7, <1>8 DEF Run

LEMMA RegisterSteady ==
  ASSUME Types, RebuildInv, NEW q \in Requests, Register(q), ~\E t \in Tools : RegisterTool(q, t)
  PROVE  RebuildInv'
<1> USE DEF Types, InRun, Decided, Step, Answer, EngineTypes, Steady, Placed, Owed,
            reqVars, engVars, mcpVars, late
<1>0. EngineTypes /\ Placed(q)
  BY DEF RebuildInv
<1> SUFFICES EngineTypes' /\ Steady(q) /\ Placed(q)'
  BY SteadyKeeps
<1>1. CASE RegisterStarts(q)
  BY <1>0, <1>1 DEF RegisterStarts
<1>2. CASE RegisterBinds(q)
  BY <1>0, <1>2 DEF RegisterBinds
<1>3. CASE RegisterReserves(q)
  BY <1>0, <1>3 DEF RegisterReserves
<1>4. CASE RegisterDone(q)
  BY <1>0, <1>4 DEF RegisterDone
<1>5. ASSUME NEW t \in Tools, RegisterRefused(q, t)
      PROVE  EngineTypes' /\ Steady(q) /\ Placed(q)'
  BY <1>0, <1>5 DEF RegisterRefused
<1>6. CASE MCPFails(q)
  BY <1>0, <1>6 DEF MCPFails
<1>7. CASE MCPConnects(q)
  BY <1>0, <1>7 DEF MCPConnects
<1>8. CASE MCPReadsClients(q)
  <2>1. draft' = [draft EXCEPT ![q].clients = mcpClients]
    BY <1>8 DEF MCPReadsClients
  <2>2. /\ draft' \in [Requests -> Drafts]
        /\ \A r \in Requests \ {q} : draft'[r] = draft[r]
    BY <1>0, <2>1, DraftClients
  <2>3. /\ pc[q] = "connected" /\ pc' = [pc EXCEPT ![q] = "appending"]
        /\ UNCHANGED <<method, bound, batch, wanted, outcome, eng, tools, wrote, mcpClients,
                       lateTools, lateRuns>>
    BY <1>8 DEF MCPReadsClients
  <2> QED
    BY <1>0, <2>2, <2>3
<1>9. CASE MCPWritesClients(q)
  BY <1>0, <1>9 DEF MCPWritesClients, Drafts
<1> QED
  BY <1>1, <1>2, <1>3, <1>4, <1>5, <1>6, <1>7, <1>8, <1>9 DEF Register

LEMMA SessionSteady ==
  ASSUME Types, RebuildInv, NEW q \in Requests, Session(q), ~InjectWrites(q)
  PROVE  RebuildInv'
<1> USE DEF Types, InRun, Decided, Step, Answer, EngineTypes, Steady, Placed, Owed,
            reqVars, engVars, mcpVars, late
<1>0. EngineTypes /\ Placed(q)
  BY DEF RebuildInv
<1> SUFFICES EngineTypes' /\ Steady(q) /\ Placed(q)'
  BY SteadyKeeps
<1>1. CASE ReadBinds(q)
  BY <1>0, <1>1 DEF ReadBinds
<1>2. CASE Reads(q)
  BY <1>0, <1>2 DEF Reads
<1>3. CASE Summarizes(q)
  BY <1>0, <1>3 DEF Summarizes
<1>4. ASSUME NEW o \in {"ok", "error"}, Summarized(q, o)
      PROVE  EngineTypes' /\ Steady(q) /\ Placed(q)'
  BY <1>0, <1>4 DEF Summarized
<1>5. CASE InjectLocks(q)
  BY <1>0, <1>5 DEF InjectLocks
<1>6. CASE InjectCounts(q)
  BY <1>0, <1>6 DEF InjectCounts
<1> QED
  BY <1>1, <1>2, <1>3, <1>4, <1>5, <1>6 DEF Session

LEMMA OtherSteady ==
  ASSUME Types, RebuildInv, NEW q \in Requests, Abort(q) \/ BadParams(q) \/ Reply(q)
  PROVE  RebuildInv'
<1> USE DEF Types, InRun, Decided, Step, Answer, EngineTypes, Steady, Placed, Owed,
            reqVars, engVars, mcpVars, late
<1>0. EngineTypes /\ Placed(q)
  BY DEF RebuildInv
<1> SUFFICES EngineTypes' /\ Steady(q) /\ Placed(q)'
  BY SteadyKeeps
<1>1. CASE AbortReads(q)
  BY <1>0, <1>1 DEF AbortReads
<1>2. CASE AbortCancels(q)
  BY <1>0, <1>2 DEF AbortCancels
<1>3. CASE BadParams(q)
  BY <1>0, <1>3 DEF BadParams
<1>4. CASE Reply(q)
  BY <1>0, <1>4 DEF Reply
<1> QED
  BY <1>1, <1>2, <1>3, <1>4 DEF Abort

LEMMA ConfigureSteady ==
  ASSUME Types, RebuildInv, NEW q \in Requests, 
         ConfigureArrives(q) \/ ConfigureBadParams(q) \/ ConfigureFails(q)
  PROVE  RebuildInv'
<1> USE DEF Types, InRun, Decided, Step, Answer, EngineTypes, Steady, Placed, Owed,
            reqVars, engVars, mcpVars, late
<1>0. EngineTypes /\ Placed(q)
  BY DEF RebuildInv
<1> SUFFICES EngineTypes' /\ Steady(q) /\ Placed(q)'
  BY SteadyKeeps
<1>1. CASE ConfigureArrives(q)
  BY <1>0, <1>1 DEF ConfigureArrives
<1>2. CASE ConfigureBadParams(q)
  BY <1>0, <1>2 DEF ConfigureBadParams
<1>3. CASE ConfigureFails(q)
  BY <1>0, <1>3 DEF ConfigureFails
<1> QED
  BY <1>1, <1>2, <1>3

\* A tool is registered: in time for every rebuild, or late.
LEMMA RegisterKeeps ==
  ASSUME Types, RebuildInv, NEW q \in Requests, NEW t \in Tools, RegisterTool(q, t)
  PROVE  RebuildInv'
<1> USE DEF Types, Decided, EngineTypes, Registered
<1>1. /\ pc[q] = "bound" /\ pc' = [pc EXCEPT ![q] = "reserving"]
      /\ batch' = [batch EXCEPT ![q] = @ \ {t}]
      /\ tools' = [tools EXCEPT ![bound[q]] = @ \cup {t}]
      /\ UNCHANGED <<method, bound, wanted, draft, outcome, eng, wrote, lateRuns, mcpClients>>
  BY DEF RegisterTool, Step, mcpVars
<1>2. EngineTypes
  BY DEF RebuildInv
<1>3. EngineTypes' /\ \A r \in Requests : Placed(r)'
  BY <1>1, <1>2 DEF RebuildInv, Placed, InRun
<1>4. /\ lateTools \subseteq lateTools'
      /\ ToolsRead(bound[q]) => <<q, t>> \in lateTools'
  BY DEF RegisterTool
<1>5. /\ \A r \in Requests : Registered(r)' \subseteq Registered(r) \cup {t}
      /\ \A r \in Requests \ {q} : Registered(r)' = Registered(r)
  BY <1>1, <1>2
<1>6. \A p \in Requests : pc'[p] \in {"rebuilding", "copied"} => pc[p] = pc'[p]
  BY <1>1
<1>7. tools[eng] \subseteq tools'[eng] /\ (bound[q] = eng => t \in tools'[eng])
  BY <1>1, <1>2
<1>8. ToolsKept'
  <2>1. ASSUME NEW r \in Requests, NEW u \in Registered(r)'
        PROVE  u \in tools'[eng] \/ <<r, u>> \in lateTools'
    <3>1. CASE u \in Registered(r)
      BY <1>4, <1>7, <3>1 DEF RebuildInv, ToolsKept
    <3>2. CASE r = q /\ u = t
      BY <1>4, <1>7, <3>2 DEF ToolsRead
    <3> QED
      BY <1>5, <3>1, <3>2
  <2>2. ASSUME NEW p \in Requests, pc'[p] \in {"rebuilding", "copied"},
               NEW r \in Requests, NEW u \in Registered(r)'
        PROVE  u \in draft[p].tools \/ <<r, u>> \in lateTools'
    <3>1. CASE u \in Registered(r)
      BY <1>4, <1>6, <2>2, <3>1 DEF RebuildInv, ToolsKept
    <3>2. CASE r = q /\ u = t
      BY <1>4, <1>6, <2>2, <3>2 DEF ToolsRead
    <3> QED
      BY <1>5, <3>1, <3>2
  <2> QED
    BY <1>1, <2>1, <2>2 DEF ToolsKept
<1>9. HistoryKept'
  BY <1>1, <1>6 DEF RebuildInv, HistoryKept, Owed
<1> QED
  BY <1>3, <1>8, <1>9 DEF RebuildInv

\* What the engines know of tools when none of them is registered or read.
LEMMA ToolsStay ==
  ASSUME ToolsKept, UNCHANGED <<batch, wanted, eng, tools, lateTools>>,
         \A p \in Requests : pc'[p] \in {"rebuilding", "copied"} =>
            /\ pc[p] \in {"rebuilding", "copied"}
            /\ draft'[p].tools = draft[p].tools
  PROVE  ToolsKept'
BY DEF ToolsKept, Registered

\* A run writes: in time for every rebuild, or late.
LEMMA RunWriteKeeps ==
  ASSUME Types, RebuildInv, NEW q \in Requests, RunWrites(q)
  PROVE  RebuildInv'
<1> USE DEF Types, Decided, EngineTypes
<1>1. /\ pc[q] = "running" /\ wrote' = [wrote EXCEPT ![bound[q]] = @ \cup {q}]
      /\ UNCHANGED <<pc, method, bound, batch, wanted, draft, outcome, eng, tools,
                     lateTools, mcpClients>>
  BY DEF RunWrites, reqVars, mcpVars
<1>2. EngineTypes /\ Placed(q)
  BY DEF RebuildInv
<1>3. EngineTypes' /\ \A r \in Requests : Placed(r)'
  BY <1>1, <1>2 DEF RebuildInv, Placed
<1>4. /\ lateRuns' \subseteq lateRuns \cup {q} /\ lateRuns \subseteq lateRuns'
      /\ HistoryRead(bound[q]) => q \in lateRuns'
  BY DEF RunWrites
<1>5. ToolsKept'
  BY <1>1, ToolsStay DEF RebuildInv
<1>6. \A e \in Engines : wrote[e] \subseteq wrote'[e] /\ wrote'[e] \subseteq wrote[e] \cup {q}
  BY <1>1, <1>2
<1>7. q \in wrote'[eng] \cup lateRuns'
  BY <1>1, <1>2, <1>4 DEF HistoryRead
<1>8. \A p \in Requests : pc[p] = "copied" => wrote'[eng] \subseteq wrote[eng] \cup lateRuns'
  BY <1>1, <1>2, <1>4, <1>6 DEF HistoryRead
<1>9. HistoryKept'
  <2>1. \A r \in Requests : Owed(r)' => r \in wrote'[eng] \cup lateRuns'
    BY <1>1, <1>2, <1>4, <1>6 DEF RebuildInv, HistoryKept, Owed
  <2>2. \A e \in Engines : wrote'[e] \subseteq wrote'[eng] \cup lateRuns'
    BY <1>2, <1>4, <1>6, <1>7 DEF RebuildInv, HistoryKept
  <2>3. \A p \in Requests : pc[p] = "copied" => wrote'[eng] \subseteq draft[p].wrote \cup lateRuns'
    BY <1>4, <1>8 DEF RebuildInv, HistoryKept
  <2>4. \A r \in lateRuns' : r \in Requests /\ pc[r] # "unsent" /\ method[r] = "run"
    BY <1>1, <1>2, <1>4 DEF RebuildInv, HistoryKept, Placed, InRun
  <2> QED
    BY <1>1, <2>1, <2>2, <2>3, <2>4 DEF HistoryKept
<1> QED
  BY <1>3, <1>5, <1>9 DEF RebuildInv

\* An injection writes, and engMu keeps every rebuild away.
LEMMA InjectKeeps ==
  ASSUME Types, LockInv, RebuildInv, NEW q \in Requests, InjectWrites(q)
  PROVE  RebuildInv'
<1> USE DEF Types, Decided, EngineTypes
<1>1. /\ pc[q] = "injecting" /\ pc' = [pc EXCEPT ![q] = "counting"]
      /\ wrote' = [wrote EXCEPT ![eng] = @ \cup {q}]
      /\ UNCHANGED <<method, bound, batch, wanted, draft, outcome, eng, tools,
                     lateTools, lateRuns, mcpClients>>
  BY DEF InjectWrites, Step, mcpVars, late
<1>2. EngineTypes /\ Placed(q)
  BY DEF RebuildInv
<1>3. EngineTypes' /\ \A r \in Requests : Placed(r)'
  BY <1>1, <1>2 DEF RebuildInv, Placed, InRun
<1>4. \A p \in Requests : pc[p] \notin {"rebuilding", "copied"}
  BY <1>1 DEF LockInv, LocksHeld, HoldsEngMu
<1>5. \A p \in Requests : pc'[p] \notin {"rebuilding", "copied"}
  BY <1>1, <1>4
<1>6. ToolsKept'
  BY <1>1, <1>5, ToolsStay DEF RebuildInv
<1>7. /\ wrote[eng] \subseteq wrote'[eng] /\ q \in wrote'[eng]
      /\ \A e \in Engines : wrote'[e] \subseteq wrote[e] \cup {q}
  BY <1>1, <1>2
<1>8. HistoryKept'
  <2>1. \A r \in Requests : Owed(r)' => r \in wrote'[eng] \cup lateRuns
    BY <1>1, <1>7 DEF RebuildInv, HistoryKept, Owed
  <2>2. \A e \in Engines : wrote'[e] \subseteq wrote'[eng] \cup lateRuns
    BY <1>2, <1>7 DEF RebuildInv, HistoryKept
  <2>3. \A r \in lateRuns : r \in Requests /\ pc'[r] # "unsent" /\ method[r] = "run"
    BY <1>1 DEF RebuildInv, HistoryKept
  <2> QED
    BY <1>1, <1>5, <2>1, <2>2, <2>3 DEF HistoryKept
<1> QED
  BY <1>3, <1>6, <1>8 DEF RebuildInv

\* A rebuild begins with what the engine knows of tools,
LEMMA LocksKeeps ==
  ASSUME Types, RebuildInv, NEW q \in Requests, ConfigureLocks(q)
  PROVE  RebuildInv'
<1> USE DEF Types, Decided, EngineTypes
<1>1. /\ pc[q] = "checked" /\ pc' = [pc EXCEPT ![q] = "rebuilding"]
      /\ draft' = [draft EXCEPT ![q].tools = tools[eng]]
      /\ UNCHANGED <<method, bound, batch, wanted, outcome, eng, tools, wrote,
                     lateTools, lateRuns, mcpClients>>
  BY DEF ConfigureLocks, Step, mcpVars, late
<1>2. EngineTypes
  BY DEF RebuildInv
<1>3. /\ draft' \in [Requests -> Drafts] /\ draft'[q].tools = tools[eng]
      /\ \A r \in Requests \ {q} : draft'[r] = draft[r]
  <2>1. tools[eng] \in SUBSET Tools
    BY <1>2
  <2> QED
    BY <1>1, <1>2, <2>1, DraftTools
<1>4. EngineTypes' /\ \A r \in Requests : Placed(r)'
  BY <1>1, <1>2, <1>3 DEF RebuildInv, Placed, InRun
<1>5. \A r \in Requests : Registered(r)' = Registered(r)
  BY <1>1 DEF Registered
<1>6. ToolsKept'
  BY <1>1, <1>3, <1>5 DEF RebuildInv, ToolsKept
<1>7. HistoryKept'
  BY <1>1, <1>3 DEF RebuildInv, HistoryKept, Owed
<1> QED
  BY <1>4, <1>6, <1>7 DEF RebuildInv

\* goes on with what its history has taken,
LEMMA CopyKeeps ==
  ASSUME Types, RebuildInv, NEW q \in Requests, ConfigureCopiesHistory(q)
  PROVE  RebuildInv'
<1> USE DEF Types, Decided, EngineTypes
<1>1. /\ pc[q] = "rebuilding" /\ pc' = [pc EXCEPT ![q] = "copied"]
      /\ draft' = [draft EXCEPT ![q].wrote = wrote[eng]]
      /\ UNCHANGED <<method, bound, batch, wanted, outcome, eng, tools, wrote,
                     lateTools, lateRuns, mcpClients>>
  BY DEF ConfigureCopiesHistory, Step, engVars, mcpVars, late
<1>2. EngineTypes
  BY DEF RebuildInv
<1>3. /\ draft' \in [Requests -> Drafts]
      /\ draft'[q].wrote = wrote[eng] /\ draft'[q].tools = draft[q].tools
      /\ \A r \in Requests \ {q} : draft'[r] = draft[r]
  <2>1. wrote[eng] \in SUBSET Requests
    BY <1>2
  <2> QED
    BY <1>1, <1>2, <2>1, DraftWrote
<1>4. EngineTypes' /\ \A r \in Requests : Placed(r)'
  BY <1>1, <1>2, <1>3 DEF RebuildInv, Placed, InRun
<1>5. ToolsKept'
  BY <1>1, <1>3, ToolsStay DEF RebuildInv
<1>6. HistoryKept'
  BY <1>1, <1>3 DEF RebuildInv, HistoryKept, Owed
<1> QED
  BY <1>4, <1>5, <1>6 DEF RebuildInv

\* and ends with the draft as the engine, no other rebuild being under way.
LEMMA SwapKeeps ==
  ASSUME Types, LockInv, RebuildInv, NEW q \in Requests, ConfigureSwaps(q)
  PROVE  RebuildInv'
<1> USE DEF Types, Decided, EngineTypes
<1>1. /\ pc[q] = "copied" /\ pc' = [pc EXCEPT ![q] = "replying"]
      /\ outcome' = [outcome EXCEPT ![q] = "ok"]
      /\ eng' = q
      /\ tools' = [tools EXCEPT ![q] = draft[q].tools]
      /\ wrote' = [wrote EXCEPT ![q] = draft[q].wrote]
      /\ UNCHANGED <<method, bound, batch, wanted, draft, lateTools, lateRuns, mcpClients>>
  BY DEF ConfigureSwaps, Answer, Step, mcpVars, late
<1>2. EngineTypes /\ q \in Engines /\ method[q] = "configure"
  BY <1>1 DEF RebuildInv, Engines, Placed
<1>3. draft[q].tools \in SUBSET Tools /\ draft[q].wrote \in SUBSET Requests
  BY <1>2 DEF Drafts
<1>4. EngineTypes' /\ \A r \in Requests : Placed(r)'
  BY <1>1, <1>2, <1>3 DEF RebuildInv, Placed, InRun
<1>5. /\ tools'[eng'] = draft[q].tools /\ wrote'[eng'] = draft[q].wrote
      /\ \A e \in Engines : wrote'[e] = wrote[e] \/ e = eng'
  BY <1>1, <1>2
<1>6. \A p \in Requests : pc'[p] \notin {"rebuilding", "copied"}
  BY <1>1 DEF LockInv, LocksHeld, HoldsEngMu
<1>7. \A r \in Requests : Registered(r)' = Registered(r)
  BY <1>1 DEF Registered
<1>8. ToolsKept'
  BY <1>1, <1>5, <1>6, <1>7 DEF RebuildInv, ToolsKept
<1>9. HistoryKept'
  <2>1. wrote[eng] \subseteq wrote'[eng'] \cup lateRuns
    BY <1>1, <1>5 DEF RebuildInv, HistoryKept
  <2>2. \A r \in Requests : Owed(r)' => Owed(r)
    BY <1>1, <1>2 DEF Owed
  <2>3. \A r \in Requests : Owed(r)' => r \in wrote'[eng'] \cup lateRuns
    BY <2>1, <2>2 DEF RebuildInv, HistoryKept
  <2>4. \A e \in Engines : wrote'[e] \subseteq wrote'[eng'] \cup lateRuns
    BY <1>5, <2>1 DEF RebuildInv, HistoryKept
  <2>5. \A r \in lateRuns : r \in Requests /\ pc'[r] # "unsent" /\ method[r] = "run"
    BY <1>1 DEF RebuildInv, HistoryKept
  <2> QED
    BY <1>1, <1>6, <2>3, <2>4, <2>5 DEF HistoryKept
<1> QED
  BY <1>4, <1>8, <1>9 DEF RebuildInv

\* A request is sent that has registered and written nothing yet.
LEMMA SendKeeps ==
  ASSUME Types, RebuildInv, NEW q \in Requests, NEW m \in Methods, Send(q, m)
  PROVE  RebuildInv'
<1> USE DEF Types, Decided, EngineTypes
<1>1. /\ pc[q] = "unsent" /\ pc' = [pc EXCEPT ![q] = "received"]
      /\ method' = [method EXCEPT ![q] = m]
      /\ UNCHANGED <<bound, draft, outcome, eng, tools, wrote, lateTools, lateRuns,
                     mcpClients>>
  BY DEF Send, Step, engVars, mcpVars, late
<1>2. PICK named \in SUBSET Tools :
        /\ batch' = [batch EXCEPT ![q] = named]
        /\ wanted' = [wanted EXCEPT ![q] = named]
  BY DEF Send
<1>3. EngineTypes /\ Placed(q)
  BY DEF RebuildInv
<1>4. EngineTypes' /\ \A r \in Requests : Placed(r)'
  BY <1>1, <1>2, <1>3 DEF RebuildInv, Placed, InRun
<1>5. \A r \in Requests : Registered(r)' \subseteq Registered(r)
  BY <1>2, <1>3 DEF Registered
<1>6. ToolsKept'
  BY <1>1, <1>5 DEF RebuildInv, ToolsKept
<1>7. \A r \in Requests : Owed(r)' => Owed(r)
  BY <1>1, <1>3 DEF Owed, Placed
<1>8. HistoryKept'
  BY <1>1, <1>7 DEF RebuildInv, HistoryKept
<1> QED
  BY <1>4, <1>6, <1>8 DEF RebuildInv

LEMMA RebuildInit == Init => RebuildInv
BY DEF Init, Drafts, RebuildInv, EngineTypes, Placed, ToolsKept, HistoryKept, Owed, Registered,
       Engines, EmptyDraft, InRun, Decided

LEMMA RebuildNext ==
  ASSUME Types, LockInv, RebuildInv, [Next]_vars
  PROVE  RebuildInv'
<1>1. CASE UNCHANGED vars
  BY <1>1 DEF vars, reqVars, engVars, mcpVars, late, RebuildInv, EngineTypes, Placed,
              ToolsKept, HistoryKept, Owed, Registered
<1>2. ASSUME NEW q \in Requests, Run(q) \/ Session(q) PROVE RebuildInv'
  BY <1>2, RunSteady, RunWriteKeeps, SessionSteady, InjectKeeps
<1>3. ASSUME NEW q \in Requests, Register(q) PROVE RebuildInv'
  BY <1>3, RegisterSteady, RegisterKeeps
<1>4. ASSUME NEW q \in Requests, Configure(q) PROVE RebuildInv'
  BY <1>4, ConfigureSteady, LocksKeeps, CopyKeeps, SwapKeeps DEF Configure
<1>5. ASSUME NEW q \in Requests, Abort(q) \/ BadParams(q) \/ Reply(q) PROVE RebuildInv'
  BY <1>5, OtherSteady
<1>6. ASSUME NEW q \in Requests, NEW m \in Methods, Send(q, m) PROVE RebuildInv'
  BY <1>6, SendKeeps
<1> QED
  BY <1>1, <1>2, <1>3, <1>4, <1>5, <1>6 DEF Next, AllAnswered, Handle

\* Whatever interleaves with a rebuild, its draft holds all that was registered
\* before it read the tools and all that was written before it read the
\* history (handlers.go: handleAgentConfigure; configure.go: rebuildEngine).
THEOREM DraftsHoldWhatIsKept == Spec => [](ToolsKept /\ HistoryKept)
<1>1. Inv /\ LockInv /\ [Next]_vars => LockInv'
  BY LockNext DEF Inv
<1>2. Inv /\ LockInv /\ RebuildInv /\ [Next]_vars => RebuildInv'
  BY RebuildNext DEF Inv
<1>3. RebuildInv => ToolsKept /\ HistoryKept
  BY DEF RebuildInv
<1> QED
  BY <1>1, <1>2, <1>3, LockInit, RebuildInit, Invariant, PTL DEF Spec

\* No rebuilding of the engine, however often, whether it fails, and whatever
\* else is in flight, loses a tool or a message but one that came behind its
\* reading of them, and never an injected one (handlers.go:
\* handleAgentConfigure, handleSessionInject).
THEOREM NothingIsLost == Spec => []RebuildLosesNothing
<1>1. ToolsKept /\ HistoryKept => RebuildLosesNothing
  BY DEF ToolsKept, HistoryKept, Owed, RebuildLosesNothing
<1> QED
  BY <1>1, DraftsHoldWhatIsKept, PTL
=============================================================================
