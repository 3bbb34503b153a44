------------------------ MODULE SessionRunnerProofs ------------------------
(***************************************************************************)
(* Proofs about SessionRunner: the file follows the progress in memory     *)
(* over crashes and failed saves, what it says is done stays done, no task *)
(* is run again that an engine has completed, and an accident costs at     *)
(* most one task.                                                          *)
(***************************************************************************)
EXTENDS SessionRunner, FiniteSetTheorems, TLAPS

InSession == pc \in {"mark", "run", "record"}

\* There is a file as soon as the first save is through, and the temporary
\* file holds the progress when it is about to be renamed.
Files ==
  /\ disk \in {Absent, Whole(disk.tasks)}
  /\ disk = Absent => pc \in {"off", "create"} /\ finished = {}
  /\ pc = "create" => disk = Absent /\ progress = AllPending
  /\ save = "rename" => tmp = Whole(progress)

\* What the file says of the session's task, before and after each save.
Session ==
  /\ InSession => idx \in Tasks /\ session < MaxSessions
  /\ pc = "mark" => progress[idx] = "in_progress" /\ disk.tasks[idx] \in {"pending", "failed"}
  /\ pc = "run" => progress[idx] = "in_progress" /\ idx \notin finished
  /\ pc = "record" =>
       /\ disk.tasks[idx] = "in_progress"
       /\ progress[idx] \in {"done", "failed"}
       /\ progress[idx] = "failed" => idx \notin finished

\* A completed task is done in the file, or in progress for ever.
Completed == \A t \in finished : disk.tasks[t] \in {"done", "in_progress"}

Inv == TypeOK /\ Files /\ FileFollows /\ Session /\ Completed

----------------------------------------------------------------------------

LEMMA InitHolds ==
  ASSUME Init
  PROVE  Inv
<1>1. TypeOK
  <2>1. Absent \in File /\ progress \in [Tasks -> Status]
    BY DEF Init, Absent, File, AllPending, Status
  <2>2. session \in 0..MaxSessions /\ idx \in 0..NumTasks
        /\ loops \in 0..MaxLoops /\ accidents \in 0..MaxAccidents
    BY BoundsAssumption DEF Init
  <2> QED
    BY <2>1, <2>2 DEF Init, TypeOK
<1>2. Files /\ FileFollows /\ Session /\ Completed
  BY DEF Init, Files, FileFollows, Session, InSession, Completed, Absent
<1> QED
  BY <1>1, <1>2 DEF Inv

LEMMA RunLoopKeeps ==
  ASSUME Inv, RunLoop
  PROVE  Inv'
<1> USE DEF Inv, TypeOK, Files, RunLoop, loadOrCreateProgress, Return, file
<1>1. disk.state # "torn" /\ disk.tasks \in [Tasks -> Status] /\ AllPending \in [Tasks -> Status]
  BY DEF File, FileFollows, AllPending, Status
<1>2. session' \in 0..MaxSessions /\ idx' \in 0..NumTasks /\ loops' \in 0..MaxLoops
  BY BoundsAssumption
<1>3. CASE disk.state = "whole"
  <2>1. disk = Whole(disk.tasks) /\ disk # Absent
    BY <1>3 DEF Absent
  <2> QED
    BY <1>1, <1>2, <1>3, <2>1 DEF FileFollows, Session, InSession, Completed
<1>4. CASE disk.state = "absent"
  <2>1. disk = Absent
    BY <1>4 DEF Whole
  <2> QED
    BY <1>1, <1>2, <1>4, <2>1 DEF FileFollows, Session, InSession, Completed
<1> QED
  BY <1>1, <1>3, <1>4

LEMMA LoopEndsKeeps ==
  ASSUME Inv, LoopEnds
  PROVE  Inv'
BY DEF Inv, TypeOK, Files, FileFollows, Session, InSession, Completed,
   LoopEnds, Return, file, bounds

LEMMA MarkKeeps ==
  ASSUME Inv, NEW t \in Tasks, MarkInProgress(t)
  PROVE  Inv'
<1>1. progress[t] \in {"pending", "failed"}
  BY DEF MarkInProgress, nextPendingTask, First
<1>2. progress' \in [Tasks -> Status] /\ progress'[t] = "in_progress"
      /\ \A u \in Tasks \ {t} : progress'[u] = progress[u]
  BY DEF MarkInProgress, Inv, TypeOK, Status
<1>3. TypeOK'
  BY <1>2 DEF Inv, TypeOK, MarkInProgress, file, bounds, Tasks
<1>4. disk = Whole(progress) /\ disk # Absent /\ disk.tasks = progress
  BY DEF Inv, Files, FileFollows, MarkInProgress, Whole
<1>5. Files'
  BY <1>4 DEF Inv, TypeOK, Files, MarkInProgress, file
<1>6. FileFollows'
  BY <1>2, <1>4 DEF Inv, FileFollows, MarkInProgress, Whole, file
<1>7. Session' /\ Completed'
  BY <1>1, <1>2, <1>4 DEF Inv, Session, InSession, Completed, MarkInProgress, file
<1> QED
  BY <1>3, <1>5, <1>6, <1>7 DEF Inv

LEMMA RunTaskKeeps ==
  ASSUME Inv, NEW ok \in BOOLEAN, runTask(ok)
  PROVE  Inv'
<1>1. idx \in Tasks
  BY DEF Inv, Session, InSession, runTask
<1>2. progress' \in [Tasks -> Status] /\ progress'[idx] \in {"done", "failed"}
      /\ \A u \in Tasks \ {idx} : progress'[u] = progress[u]
  BY <1>1 DEF runTask, Inv, TypeOK, Status
<1> QED
  BY <1>1, <1>2 DEF Inv, TypeOK, Files, FileFollows, Session, InSession, Completed,
     runTask, Whole, Absent, file, bounds

LEMMA CancelKeeps ==
  ASSUME Inv, Cancel
  PROVE  Inv'
BY DEF Inv, TypeOK, Files, FileFollows, Session, InSession, Completed, Cancel, file, bounds

LEMMA WriteKeeps ==
  ASSUME Inv, OpenTmp \/ FillTmp
  PROVE  Inv'
BY DEF Inv, TypeOK, Files, FileFollows, Session, InSession, Completed, OpenTmp, FillTmp,
   Torn, Whole, File, AllPending, Status, bounds

LEMMA RenameKeeps ==
  ASSUME Inv, Rename
  PROVE  Inv'
<1>1. disk' = Whole(progress) /\ Absent \in File
  BY DEF Inv, Files, Rename, Absent, File, AllPending, Status
<1>2. disk'.tasks = progress /\ disk'.state = "whole" /\ disk' # Absent
  BY <1>1 DEF Whole, Absent
<1>3. TypeOK'
  BY <1>1, BoundsAssumption
     DEF Inv, TypeOK, Session, InSession, Rename, AfterSave, Whole, File, bounds
<1>4. Completed'
  <2>1. CASE pc = "create"
    BY <2>1 DEF Inv, Files, Completed, Rename
  <2>2. CASE pc \in {"mark", "record"}
    <3>1. \A t \in finished : t # idx => progress[t] = disk.tasks[t]
      BY <2>2 DEF Inv, FileFollows, TypeOK
    <3>2. progress[idx] \in {"in_progress", "done"} \/ idx \notin finished
      BY <2>2 DEF Inv, Session, Completed
    <3> QED
      BY <1>2, <3>1, <3>2 DEF Inv, Completed, Rename
  <2> QED
    BY <2>1, <2>2 DEF Inv, TypeOK, Rename
<1>5. pc = "mark" => idx \notin finished
  BY DEF Inv, Session, Completed
<1>6. (pc' = "run" /\ pc = "mark") \/ pc' = "head"
  BY DEF Rename, AfterSave
<1>7. Files' /\ FileFollows'
  BY <1>1, <1>2, <1>6 DEF Inv, Files, FileFollows, Rename
<1>8. Session'
  BY <1>5, <1>6 DEF Inv, Session, InSession, Rename, AfterSave
<1> QED
  BY <1>3, <1>4, <1>7, <1>8 DEF Inv

LEMMA AccidentKeeps ==
  ASSUME Inv, SaveFails \/ Crash
  PROVE  Inv'
<1>1. Absent \in File /\ AllPending \in [Tasks -> Status]
  BY DEF Absent, File, AllPending, Status
<1>2. accidents' \in 0..MaxAccidents
  <2>1. accidents \in 0..MaxAccidents /\ accidents < MaxAccidents /\ accidents' = accidents + 1
    BY DEF Inv, TypeOK, SaveFails, Crash
  <2>2. MaxAccidents \in Nat
    BY BoundsAssumption
  <2> QED
    BY <2>1, <2>2
<1>3. TypeOK'
  BY <1>1, <1>2 DEF Inv, TypeOK, SaveFails, Crash, Return, file
<1> QED
  BY <1>3 DEF Inv, Files, FileFollows, Session, InSession, Completed,
     SaveFails, Crash, Return, file

LEMMA StepKeeps ==
  ASSUME Inv, [Next]_vars
  PROVE  Inv'
<1>1. CASE UNCHANGED vars
  BY <1>1 DEF vars, file, bounds, Inv, TypeOK, Files, FileFollows, Session, InSession, Completed
<1> QED
  BY <1>1, RunLoopKeeps, LoopEndsKeeps, MarkKeeps, RunTaskKeeps, CancelKeeps, WriteKeeps,
     RenameKeeps, AccidentKeeps DEF Next, Steps, Idle

\* The invariant behind the theorems about the file (session.go: RunLoop).
THEOREM Invariance == Spec => []Inv
BY InitHolds, StepKeeps, PTL DEF Spec

----------------------------------------------------------------------------

\* The shape of the state, for any number of tasks, calls and accidents.
THEOREM TypeCorrect == Spec => []TypeOK
<1>1. Inv => TypeOK
  BY DEF Inv
<1> QED
  BY <1>1, Invariance, PTL

\* The file is readable and at most one task behind, whenever the process dies.
THEOREM FileIsFollowing == Spec => []FileFollows
<1>1. Inv => FileFollows
  BY DEF Inv
<1> QED
  BY <1>1, Invariance, PTL

LEMMA DoneStep ==
  ASSUME Inv, [Next]_vars, NEW t \in Tasks, disk.tasks[t] = "done"
  PROVE  disk'.tasks[t] = "done"
<1>1. CASE Rename
  <2>1. disk'.tasks = progress
    BY <1>1 DEF Inv, Files, Rename, Whole
  <2>2. pc # "create"
    BY DEF Inv, Files, Absent, AllPending
  <2>3. t # idx
    BY <1>1, <2>2 DEF Inv, TypeOK, Session, Rename
  <2> QED
    BY <1>1, <2>1, <2>2, <2>3 DEF Inv, TypeOK, FileFollows, Rename
<1>2. CASE UNCHANGED disk
  BY <1>2
<1> QED
  BY <1>1, <1>2 DEF Next, Steps, Idle, vars, file, bounds, RunLoop, LoopEnds, MarkInProgress, runTask,
     Cancel, OpenTmp, FillTmp, SaveFails, Crash

\* The file forgets no task that is done.
THEOREM DoneIsKept == Spec => DoneStaysDone
<1>1. Inv /\ [Next]_vars => [\A t \in Tasks : disk.tasks[t] = "done" => disk'.tasks[t] = "done"]_vars
  BY DoneStep
<1> QED
  BY <1>1, Invariance, PTL DEF Spec, DoneStaysDone

\* A task that was completed is not run again.
THEOREM CompletedOnce == Spec => NotRunTwice
<1>1. ASSUME Inv, NEW t \in Tasks, pc = "head", MarkInProgress(t)
      PROVE  t \notin finished
  <2>1. disk.tasks[t] \in {"pending", "failed"}
    BY <1>1 DEF Inv, FileFollows, MarkInProgress, nextPendingTask, First, Whole
  <2> QED
    BY <1>1, <2>1 DEF Inv, Completed
<1>2. Inv /\ [Next]_vars => [\A t \in Tasks : pc = "head" /\ MarkInProgress(t) => t \notin finished]_vars
  BY <1>1
<1> QED
  BY <1>2, Invariance, PTL DEF Spec, NotRunTwice

----------------------------------------------------------------------------
(* What an accident costs.                                                 *)

\* The tasks the file says are in progress: the one of this session and those
\* that accidents have left so.
LeftOver == {t \in Tasks : disk.tasks[t] = "in_progress"}

Running == IF pc \in {"run", "record"} THEN 1 ELSE 0

\* What "complete" said stays true.
StillComplete ==
  result = "complete" =>
    /\ disk.state = "whole" /\ pc \in {"off", "head"}
    /\ \A t \in Tasks : disk.tasks[t] \in {"done", "in_progress"}

LossInv == Cardinality(LeftOver) <= accidents + Running /\ StillComplete

LEMMA LeftOverFinite ==
  IsFiniteSet(LeftOver) /\ Cardinality(LeftOver) \in Nat
<1>1. IsFiniteSet(Tasks)
  BY BoundsAssumption, FS_Interval DEF Tasks
<1>2. LeftOver \in SUBSET Tasks
  BY DEF LeftOver
<1>3. IsFiniteSet(LeftOver)
  BY <1>1, <1>2, FS_Subset
<1> QED
  BY <1>3, FS_CardinalityType

\* Among some of the tasks one comes first.
LEMMA FirstTask ==
  ASSUME NEW S \in SUBSET Tasks, S # {}
  PROVE  \E m \in S : \A n \in S : m <= n
<1> DEFINE B == {0..n : n \in S}
<1>1. S \subseteq Nat
  BY BoundsAssumption DEF Tasks
<1>2. B \subseteq FiniteSubsetsOf(Nat) /\ B # {}
  <2>1. ASSUME NEW n \in S PROVE 0..n \in SUBSET Nat /\ IsFiniteSet(0..n)
    <3>1. IsFiniteSet(0..n)
      BY <1>1, FS_Interval
    <3> QED
      BY <1>1, <3>1
  <2> QED
    BY <2>1 DEF FiniteSubsetsOf
<1>3. PICK X \in B : \A Y \in B : ~(<<Y, X>> \in StrictSubsetOrdering(Nat))
  <2>1. IsWellFoundedOn(StrictSubsetOrdering(Nat), FiniteSubsetsOf(Nat))
    BY FS_StrictSubsetOrderingWellFounded
  <2> HIDE DEF B
  <2> QED
    BY <1>2, <2>1, WFMin
<1>4. PICK m \in S : X = 0..m
  OBVIOUS
<1>5. ASSUME NEW n \in S, n < m PROVE FALSE
  <2>1. 0..n \in B /\ 0..n \subseteq 0..m /\ 0..n # 0..m
    <3>1. m \in 0..m /\ m \notin 0..n
      BY <1>1, <1>5
    <3> QED
      BY <1>1, <3>1, <1>5
  <2>2. <<0..n, 0..m>> \in (SUBSET Nat) \X (SUBSET Nat)
    BY <1>1
  <2>3. <<0..n, 0..m>> \in StrictSubsetOrdering(Nat)
    BY <2>1, <2>2 DEF StrictSubsetOrdering
  <2> QED
    BY <1>3, <1>4, <2>1, <2>3
<1> QED
  BY <1>1, <1>5

\* No task is next only when none is pending and none has failed.
LEMMA NothingNext ==
  ASSUME ~\E t \in Tasks : nextPendingTask(t), NEW u \in Tasks
  PROVE  progress[u] \notin {"pending", "failed"}
<1>1. Tasks \subseteq Nat
  BY BoundsAssumption DEF Tasks
<1>2. ASSUME NEW v \in Tasks, NEW s, progress[v] = s PROVE \E t \in Tasks : First(t, s)
  <2> DEFINE S == {t \in Tasks : progress[t] = s}
  <2>1. S \in SUBSET Tasks /\ v \in S
    BY <1>2
  <2>2. PICK m \in S : \A n \in S : m <= n
    <3> HIDE DEF S
    <3> QED
      BY <2>1, FirstTask
  <2>3. m \in Tasks /\ progress[m] = s
    OBVIOUS
  <2>4. ASSUME NEW w \in Tasks, w < m PROVE progress[w] # s
    BY <1>1, <2>2, <2>3, <2>4
  <2> QED
    BY <2>3, <2>4 DEF First
<1>3. \A v \in Tasks : progress[v] # "pending"
  BY <1>2 DEF nextPendingTask, First
<1> QED
  BY <1>2, <1>3 DEF nextPendingTask

LEMMA LossInit == Init => LossInv
<1> SUFFICES ASSUME Init PROVE LossInv
  OBVIOUS
<1>1. LeftOver = {}
  BY DEF Init, LeftOver, Absent, AllPending
<1>2. Cardinality(LeftOver) = 0
  BY <1>1, FS_EmptySet
<1> QED
  BY <1>2 DEF Init, LossInv, Running, StillComplete

\* The rename is what puts a task into progress in the file and takes it out.
LEMMA RenameLoss ==
  ASSUME Inv, LossInv, Rename
  PROVE  LossInv'
<1>1. disk' = Whole(progress) /\ disk'.tasks = progress
  BY DEF Inv, Files, Rename, Whole
<1>2. pc \in {"create", "mark", "record"} /\ UNCHANGED <<accidents, result>>
  BY DEF Inv, TypeOK, Rename, bounds
<1>3. IsFiniteSet(LeftOver) /\ Cardinality(LeftOver) \in Nat /\ accidents \in Nat
  BY LeftOverFinite, BoundsAssumption DEF Inv, TypeOK
<1>4. StillComplete'
  BY <1>2 DEF LossInv, StillComplete
<1>5. Cardinality(LeftOver') <= (accidents + Running)'
  <2>1. CASE pc = "create"
    <3>1. LeftOver' = {}
      BY <1>1, <2>1 DEF Inv, Files, LeftOver, AllPending
    <3>2. Cardinality(LeftOver') = 0
      BY <3>1, FS_EmptySet
    <3> QED
      BY <1>2, <1>3, <3>2 DEF Running
  <2>2. CASE pc = "mark"
    <3>1. LeftOver' = LeftOver \cup {idx}
      BY <1>1, <2>2 DEF Inv, FileFollows, Session, InSession, LeftOver
    <3>2. Cardinality(LeftOver \cup {idx}) \in {Cardinality(LeftOver), Cardinality(LeftOver) + 1}
      BY <1>3, FS_AddElement
    <3>3. Running = 0 /\ Running' = 1
      BY <2>2 DEF Running, Rename, AfterSave
    <3>4. Cardinality(LeftOver) <= accidents
      BY <1>3, <3>3 DEF LossInv
    <3> QED
      BY <1>2, <1>3, <3>1, <3>2, <3>3, <3>4
  <2>3. CASE pc = "record"
    <3>1. LeftOver' = LeftOver \ {idx} /\ idx \in LeftOver
      BY <1>1, <2>3 DEF Inv, FileFollows, Session, InSession, LeftOver
    <3>2. Cardinality(LeftOver \ {idx}) = Cardinality(LeftOver) - 1
      BY <1>3, <3>1, FS_RemoveElement
    <3>3. Running = 1 /\ Running' = 0
      BY <2>3 DEF Running, Rename, AfterSave
    <3>4. Cardinality(LeftOver) <= accidents + 1
      BY <1>3, <3>3 DEF LossInv
    <3> QED
      BY <1>2, <1>3, <3>1, <3>2, <3>3, <3>4
  <2> QED
    BY <1>2, <2>1, <2>2, <2>3
<1> QED
  BY <1>4, <1>5 DEF LossInv

LEMMA LossStep ==
  ASSUME Inv, LossInv, [Next]_vars
  PROVE  LossInv'
<1>1. Cardinality(LeftOver) \in Nat /\ accidents \in Nat
  BY LeftOverFinite, BoundsAssumption DEF Inv, TypeOK
<1>2. ASSUME UNCHANGED <<disk, accidents>>, Running' = Running
      PROVE  Cardinality(LeftOver') <= (accidents + Running)'
  <2>1. LeftOver' = LeftOver
    BY <1>2 DEF LeftOver
  <2> QED
    BY <1>2, <2>1 DEF LossInv
<1>3. CASE RunLoop
  <2>1. disk.state = "whole" => pc' = "head"
    BY <1>3 DEF RunLoop, loadOrCreateProgress
  <2>2. Running' = Running /\ UNCHANGED <<disk, accidents>>
    BY <1>3 DEF RunLoop, loadOrCreateProgress, Return, Running, file
  <2>3. result' = "complete" => result = "complete"
    BY <1>3 DEF RunLoop, loadOrCreateProgress, Return
  <2>4. StillComplete'
    BY <2>1, <2>2, <2>3 DEF LossInv, StillComplete
  <2> QED
    BY <1>2, <2>2, <2>4 DEF LossInv
<1>4. CASE LoopEnds
  <2>1. Running' = Running /\ UNCHANGED <<disk, accidents>>
    BY <1>4 DEF LoopEnds, Return, Running, file, bounds
  <2>2. disk = Whole(progress) /\ disk.state = "whole" /\ disk.tasks = progress
    BY <1>4 DEF LoopEnds, Inv, FileFollows, Whole
  <2>3. pc' = "off"
    BY <1>4 DEF LoopEnds, Return
  <2>4. result' = "complete" =>
          \A t \in Tasks : progress[t] \in {"done", "in_progress"}
    <3> SUFFICES ASSUME result' = "complete", NEW t \in Tasks
                 PROVE  progress[t] \in {"done", "in_progress"}
      OBVIOUS
    <3>1. ~\E u \in Tasks : nextPendingTask(u)
      BY <1>4 DEF LoopEnds, Return
    <3>2. progress[t] \in Status
      BY DEF Inv, TypeOK
    <3> QED
      BY <3>1, <3>2, NothingNext DEF Status
  <2> QED
    BY <1>2, <2>1, <2>2, <2>3, <2>4 DEF LossInv, StillComplete
<1>5. ASSUME NEW t \in Tasks, MarkInProgress(t) PROVE LossInv'
  <2>1. Running' = Running /\ UNCHANGED <<disk, accidents, result>>
    BY <1>5 DEF MarkInProgress, Running, file, bounds
  <2>2. disk.tasks[t] \in {"pending", "failed"}
    BY <1>5 DEF Inv, FileFollows, MarkInProgress, nextPendingTask, First, Whole
  <2>3. result # "complete"
    BY <2>2 DEF LossInv, StillComplete
  <2> QED
    BY <1>2, <2>1, <2>3 DEF LossInv, StillComplete
<1>6. ASSUME NEW ok \in BOOLEAN, runTask(ok) PROVE LossInv'
  <2>1. Running' = Running /\ UNCHANGED <<disk, accidents, result>> /\ pc = "run"
    BY <1>6 DEF runTask, Running, file, bounds
  <2> QED
    BY <1>2, <2>1 DEF LossInv, StillComplete
<1>7. CASE Cancel \/ OpenTmp \/ FillTmp \/ UNCHANGED vars
  <2>1. UNCHANGED <<disk, accidents, result, pc>>
    BY <1>7 DEF Cancel, OpenTmp, FillTmp, vars, file, bounds
  <2>2. Running' = Running
    BY <2>1 DEF Running
  <2> QED
    BY <1>2, <2>1, <2>2 DEF LossInv, StillComplete
<1>8. CASE SaveFails \/ Crash
  <2>1. /\ UNCHANGED disk /\ accidents' = accidents + 1 /\ pc' = "off"
        /\ result' # "complete"
    BY <1>8 DEF SaveFails, Crash, Return, file
  <2>2. LeftOver' = LeftOver
    BY <2>1 DEF LeftOver
  <2>3. Cardinality(LeftOver) <= accidents + 1
    BY <1>1 DEF LossInv, Running
  <2>4. Running' = 0
    BY <2>1 DEF Running
  <2> QED
    BY <1>1, <2>1, <2>2, <2>3, <2>4 DEF LossInv, StillComplete
<1> QED
  BY <1>3, <1>4, <1>5, <1>6, <1>7, <1>8, RenameLoss DEF Next, Steps, Idle

\* However many tasks, calls and accidents there are, an accident leaves at
\* most one task in progress, and "complete" is said when no other is left to
\* do (session.go: saveProgress, nextPendingTask).
THEOREM LossIsBounded == Spec => []LossPerAccident
<1>1. LossInv => LossPerAccident
  BY DEF LossInv, LeftOver, Running, StillComplete, LossPerAccident
<1>2. Inv /\ LossInv /\ [Next]_vars => LossInv'
  BY LossStep
<1> QED
  BY <1>1, <1>2, LossInit, Invariance, PTL DEF Spec
=============================================================================
