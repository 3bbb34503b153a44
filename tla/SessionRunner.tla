--------------------------- MODULE SessionRunner ---------------------------
(***************************************************************************)
(* The loop that works through a list of tasks, one engine per task, and   *)
(* keeps its progress in a file: internal/engine/session.go.               *)
(*                                                                         *)
(* RunLoop is sequential.  What is hard about it is what its caller does   *)
(* around it: the process may die between any two writes, a write or the   *)
(* rename may fail, the context may be cancelled, and RunLoop is called    *)
(* again, to go on from whatever the file says.                            *)
(*                                                                         *)
(* A crash is one of the process: what was written and renamed stays.      *)
(***************************************************************************)
EXTENDS Naturals, FiniteSets

CONSTANTS
  NumTasks,
  MaxSessions,   \* SessionConfig.MaxSessions
  MaxLoops,      \* bound: calls of RunLoop
  MaxAccidents   \* bound: crashes and failed saves

ASSUME BoundsAssumption ==
  /\ {NumTasks, MaxLoops, MaxAccidents} \subseteq Nat
  /\ MaxSessions \in Nat \ {0}

Tasks  == 1..NumTasks
Status == {"pending", "in_progress", "done", "failed"}

AllPending == [t \in Tasks |-> "pending"]

\* What is in a file: a file that is absent, or half written, has no tasks.
File == [state : {"absent", "torn", "whole"}, tasks : [Tasks -> Status]]

Absent       == [state |-> "absent", tasks |-> AllPending]
Torn         == [state |-> "torn", tasks |-> AllPending]
Whole(tasks) == [state |-> "whole", tasks |-> tasks]

VARIABLES
  disk,       \* the file at progressPath
  tmp,        \* and the one at progressPath + ".tmp"
  pc,         \* where RunLoop is; "off" when it is not called
  save,       \* and where in saveProgress, "no" outside of it
  progress,   \* the tasks in memory
  session,
  idx,        \* the task of this session
  cancelled,
  result,     \* what the last call came to
  loops,
  accidents,
  finished    \* history variable: the tasks a run has completed

file    == <<disk, tmp>>
bounds  == <<loops, accidents>>
vars    == <<file, pc, save, progress, session, idx, cancelled, result, bounds, finished>>

Init ==
  /\ disk = Absent /\ tmp = Absent
  /\ pc = "off" /\ save = "no" /\ progress = AllPending
  /\ session = 0 /\ idx = 0 /\ cancelled = FALSE /\ result = "none"
  /\ loops = 0 /\ accidents = 0 /\ finished = {}

----------------------------------------------------------------------------
(* RunLoop.                                                                *)

Return(how) == pc' = "off" /\ save' = "no" /\ result' = how

loadOrCreateProgress ==
  \/ /\ disk.state = "whole" /\ progress' = disk.tasks
     /\ pc' = "head" /\ UNCHANGED <<save, result>>
  \/ disk.state = "torn" /\ Return("unreadable") /\ UNCHANGED progress
  \/ /\ disk.state = "absent" /\ progress' = AllPending
     /\ pc' = "create" /\ save' = "open" /\ UNCHANGED result

RunLoop ==
  /\ pc = "off" /\ loops < MaxLoops /\ loops' = loops + 1
  /\ loadOrCreateProgress
  /\ session' = 0 /\ idx' = 0 /\ cancelled' = FALSE
  /\ UNCHANGED <<file, accidents, finished>>

First(t, status) ==
  progress[t] = status /\ \A u \in Tasks : u < t => progress[u] # status

\* Slip: what was left in progress is taken up again.
Slip_ResumesInProgress(t) ==
  \/ First(t, "pending")
  \/ (\A u \in Tasks : progress[u] # "pending") /\ First(t, "in_progress")
  \/ /\ \A u \in Tasks : progress[u] \notin {"pending", "in_progress"}
     /\ First(t, "failed")

\* The task of the next session: the first that is pending, else the first
\* that failed.
nextPendingTask(t) ==
  \/ First(t, "pending")
  \/ (\A u \in Tasks : progress[u] # "pending") /\ First(t, "failed")

\* The head of the loop that finds no way on, and the one that marks a task.
LoopEnds ==
  /\ pc = "head"
  /\ \/ session = MaxSessions /\ Return("maxed")
     \/ session < MaxSessions /\ cancelled /\ Return("cancelled")
     \/ /\ session < MaxSessions /\ ~cancelled
        /\ ~\E t \in Tasks : nextPendingTask(t)
        /\ Return("complete")
  /\ UNCHANGED <<file, progress, session, idx, cancelled, bounds, finished>>

MarkInProgress(t) ==
  /\ pc = "head" /\ session < MaxSessions /\ ~cancelled
  /\ nextPendingTask(t)
  /\ idx' = t /\ progress' = [progress EXCEPT ![t] = "in_progress"]
  /\ pc' = "mark" /\ save' = "open"
  /\ UNCHANGED <<file, session, cancelled, result, bounds, finished>>

\* Slip: a failure is not recorded.
Slip_FailureNotRecorded(ok) ==
  /\ pc = "run"
  /\ progress' = IF ok THEN [progress EXCEPT ![idx] = "done"] ELSE progress
  /\ finished' = IF ok THEN finished \cup {idx} ELSE finished
  /\ pc' = "record" /\ save' = "open"
  /\ UNCHANGED <<file, session, idx, cancelled, result, bounds>>

\* The engine's run, with whatever result; the progress is saved next.
runTask(ok) ==
  /\ pc = "run"
  /\ progress' = [progress EXCEPT ![idx] = IF ok THEN "done" ELSE "failed"]
  /\ finished' = IF ok THEN finished \cup {idx} ELSE finished
  /\ pc' = "record" /\ save' = "open"
  /\ UNCHANGED <<file, session, idx, cancelled, result, bounds>>

Cancel ==
  /\ pc # "off" /\ ~cancelled /\ cancelled' = TRUE
  /\ UNCHANGED <<file, pc, save, progress, session, idx, result, bounds, finished>>

----------------------------------------------------------------------------
(* saveProgress: write a temporary file, then rename it.  Where the save   *)
(* leads when it has succeeded depends on where it was called.             *)

\* Slip: a session that failed does not count.
Slip_FailureNotCounted ==
  /\ pc' = (IF pc = "mark" THEN "run" ELSE "head")
  /\ session' = IF pc = "record" /\ progress[idx] = "done" THEN session + 1 ELSE session
AfterSave ==
  /\ pc' = (IF pc = "mark" THEN "run" ELSE "head")
  /\ session' = IF pc = "record" THEN session + 1 ELSE session

\* Slip: the file itself is written.
Slip_WritesInPlace ==
  /\ save = "open" /\ save' = "fill" /\ disk' = Torn
  /\ UNCHANGED <<tmp, pc, progress, session, idx, cancelled, result, bounds, finished>>

OpenTmp ==
  /\ save = "open" /\ save' = "fill" /\ tmp' = Torn
  /\ UNCHANGED <<disk, pc, progress, session, idx, cancelled, result, bounds, finished>>

FillTmp ==
  /\ save = "fill" /\ save' = "rename" /\ tmp' = Whole(progress)
  /\ UNCHANGED <<disk, pc, progress, session, idx, cancelled, result, bounds, finished>>

Rename ==
  /\ save = "rename" /\ save' = "no" /\ disk' = tmp /\ tmp' = Absent
  /\ AfterSave
  /\ UNCHANGED <<progress, idx, cancelled, result, bounds, finished>>

\* Any of the three fails and RunLoop returns; a temporary file that could not
\* be renamed is removed, one that could not be written stays.
SaveFails ==
  /\ save # "no" /\ accidents < MaxAccidents /\ accidents' = accidents + 1
  /\ tmp' = IF save = "rename" THEN Absent ELSE tmp
  /\ Return("save failed")
  /\ UNCHANGED <<disk, progress, session, idx, cancelled, loops, finished>>

\* The process dies and is started again; RunLoop is not called yet.
Crash ==
  /\ pc # "off" /\ accidents < MaxAccidents /\ accidents' = accidents + 1
  /\ Return("crashed") /\ progress' = AllPending
  /\ UNCHANGED <<file, session, idx, cancelled, loops, finished>>

----------------------------------------------------------------------------

\* The steps of RunLoop itself.
Steps ==
  \/ LoopEnds
  \/ \E t \in Tasks : MarkInProgress(t)
  \/ \E ok \in BOOLEAN : runTask(ok)
  \/ OpenTmp \/ FillTmp \/ Rename

\* Nobody calls RunLoop any more.
Idle == pc = "off" /\ loops = MaxLoops /\ UNCHANGED vars

Next == RunLoop \/ Steps \/ Cancel \/ SaveFails \/ Crash \/ Idle

\* What RunLoop does itself is local and goes on.  A run of an engine may wait
\* for a tool without limit (EngineLoop: RunReturns) and is not obliged to return.
Spec == Init /\ [][Next]_vars /\ WF_vars(pc # "run" /\ Steps)

----------------------------------------------------------------------------
(* Properties.                                                             *)

\* The shape of the state.
TypeOK ==
  /\ disk \in File /\ tmp \in File /\ progress \in [Tasks -> Status]
  /\ pc \in {"off", "create", "head", "mark", "run", "record"}
  /\ save \in {"no", "open", "fill", "rename"}
  /\ save # "no" <=> pc \in {"create", "mark", "record"}
  /\ session \in 0..MaxSessions /\ idx \in 0..NumTasks
  /\ cancelled \in BOOLEAN /\ finished \subseteq Tasks
  /\ loops \in 0..MaxLoops /\ accidents \in 0..MaxAccidents

\* Whenever the process dies, the file can be read, and it is at most one task
\* behind the progress in memory (session.go:195, saveProgress).
FileFollows ==
  /\ disk.state # "torn"
  /\ pc \in {"head", "run"} => disk = Whole(progress)
  /\ pc \in {"mark", "record"} =>
       disk.state = "whole" /\ \A t \in Tasks \ {idx} : disk.tasks[t] = progress[t]

\* The file forgets no task that is done, over crashes and failed saves.
DoneStaysDone ==
  [][\A t \in Tasks : disk.tasks[t] = "done" => disk'.tasks[t] = "done"]_vars

\* A task that an engine has completed is not run a second time, even if the
\* process died before that was recorded.
NotRunTwice ==
  [][\A t \in Tasks : pc = "head" /\ MarkInProgress(t) => t \notin finished]_vars

\* Each crash or failed save costs at most one task: that many are left in
\* progress, and when RunLoop says that all is complete the others are done.
LossPerAccident ==
  /\ Cardinality({t \in Tasks : disk.tasks[t] = "in_progress"})
       <= accidents + (IF pc \in {"run", "record"} THEN 1 ELSE 0)
  /\ result = "complete" =>
       \A t \in Tasks : disk.tasks[t] \in {"done", "in_progress"}

\* RunLoop returns, however often the tasks fail, unless the run of an engine
\* never does.
LoopReturns == [](pc # "off" => <>(pc = "off" \/ [](pc = "run")))
=============================================================================
