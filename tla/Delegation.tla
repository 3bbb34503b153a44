----------------------------- MODULE Delegation -----------------------------
(***************************************************************************)
(* The virtual tools that hand work to child engines: coordinate_tasks     *)
(* (internal/engine/coordinator.go) and delegate_task with its worktree    *)
(* mode (delegate.go, worktree.go).                                        *)
(*                                                                         *)
(* coordinate_tasks starts a goroutine per task.  Each takes a slot of a   *)
(* semaphore, forks a child engine, runs it and stores what it returned in *)
(* the place of its task; the parent waits for all of them and adds one    *)
(* message with all the results.  delegate_task runs one child in the      *)
(* parent's own goroutine, if asked in a git worktree that is removed      *)
(* again behind it.                                                        *)
(*                                                                         *)
(* A child is Engine.Run of another engine (EngineLoop): here it returns a *)
(* text of some length, or an error.  git is external.                     *)
(***************************************************************************)
EXTENDS Integers, Sequences, FiniteSets

CONSTANTS
  Parallelisms,       \* values configured for coordinatorMaxParallelism
  DefaultParallelism, \* defaultCoordinatorMaxParallelism (10 in the code)
  Budgets,            \* values configured for coordinateMaxChars
  Lengths,            \* lengths of the texts children return
  MaxTasks,           \* bound: tasks of one coordinate_tasks
  MaxSteps            \* bound: delegations in one behaviour

ASSUME SettingsAssumption ==
  /\ Parallelisms \subseteq Int /\ Budgets \subseteq Int /\ Lengths \subseteq Nat
  /\ {DefaultParallelism, MaxTasks, MaxSteps} \subseteq Nat \ {0}

VARIABLES
  maxParallelism, \* Engine.coordinatorMaxParallelism
  maxChars,       \* Engine.coordinateMaxChars
  pc,             \* where the parent's goroutine is
  history,        \* what the parent has added: the report of each step
  tasks,          \* number of tasks of the step under way
  child,          \* where the goroutine of each task is
  slots,          \* slots of the semaphore that are taken
  pending,        \* the WaitGroup's counter
  results,        \* runParallel's results
  said,           \* history variable: what the child of each task returned
  place,          \* where the child of delegate_task works
  dirs,           \* worktrees on disk
  registered,     \* worktrees git knows of
  cleanFailed     \* history variable: worktrees git would not remove

settings == <<maxParallelism, maxChars>>
parallel == <<tasks, child, slots, pending, results, said>>
git      == <<place, dirs, registered, cleanFailed>>
vars     == <<settings, pc, history, parallel, git>>

Tasks    == 1..MaxTasks
Failed   == [ok |-> FALSE, len |-> 0]
Outcomes == {Failed} \cup [ok : {TRUE}, len : Lengths]
Empty    == [ok |-> FALSE, len |-> -1] \* a place nobody has stored to

Init ==
  /\ maxParallelism \in Parallelisms /\ maxChars \in Budgets
  /\ pc = "turn" /\ history = <<>>
  /\ tasks = 0 /\ child = [i \in Tasks |-> "none"]
  /\ slots = 0 /\ pending = 0
  /\ results = [i \in Tasks |-> Empty] /\ said = [i \in Tasks |-> Empty]
  /\ place = "parent" /\ dirs = {} /\ registered = {} /\ cleanFailed = {}

Step == Len(history) + 1

----------------------------------------------------------------------------
(* coordinateStep.                                                         *)

\* The call of the virtual tool and its result, added one behind the other.
Record(report) == history' = Append(history, report)

\* Arguments that do not parse, no tasks, or no task.
BadArguments ==
  /\ pc = "turn" /\ Step <= MaxSteps
  /\ Record(<<>>)
  /\ UNCHANGED <<settings, pc, parallel, git>>

\* runParallel: wg.Add and the go statement for each task.
Coordinate(n) ==
  /\ pc = "turn" /\ Step <= MaxSteps
  /\ pc' = "wait" /\ tasks' = n /\ pending' = n /\ slots' = 0
  /\ child' = [i \in Tasks |-> IF i <= n THEN "queued" ELSE "none"]
  /\ results' = [i \in Tasks |-> Empty] /\ said' = [i \in Tasks |-> Empty]
  /\ UNCHANGED <<settings, history, git>>

\* Slip: a limit of zero is taken as it is.
Slip_NoDefault(n) == IF maxParallelism > n THEN n ELSE maxParallelism

\* The capacity of the semaphore.
Concurrency(n) ==
  LET c == IF maxParallelism <= 0 THEN DefaultParallelism ELSE maxParallelism
  IN IF c > n THEN n ELSE c

\* Slip: the children share one variable for the place of their result.
Slip_SharedIndex(i) == tasks

\* The place in results that the goroutine of task i stores to.
PlaceOf(i) == i

\* Slip: the slot is given back before the child has run.
Slip_SlotNotHeld(i) ==
  /\ child[i] = "queued" /\ slots < Concurrency(tasks)
  /\ child' = [child EXCEPT ![i] = "running"]
  /\ UNCHANGED <<settings, pc, history, tasks, slots, pending, results, said, git>>

\* The goroutine of a task: take a slot and fork; run; store; leave.
Acquire(i) ==
  /\ child[i] = "queued" /\ slots < Concurrency(tasks)
  /\ slots' = slots + 1
  /\ child' = [child EXCEPT ![i] = "running"]
  /\ UNCHANGED <<settings, pc, history, tasks, pending, results, said, git>>

Return(i, o) ==
  /\ child[i] = "running"
  /\ said' = [said EXCEPT ![i] = o]
  /\ child' = [child EXCEPT ![i] = "returned"]
  /\ UNCHANGED <<settings, pc, history, tasks, slots, pending, results, git>>

Store(i) ==
  /\ child[i] = "returned"
  /\ results' = [results EXCEPT ![PlaceOf(i)] = said[i]]
  /\ child' = [child EXCEPT ![i] = "stored"]
  /\ UNCHANGED <<settings, pc, history, tasks, slots, pending, said, git>>

\* The deferred calls: the slot, then wg.Done.
Release(i) ==
  /\ child[i] = "stored"
  /\ slots' = slots - 1
  /\ child' = [child EXCEPT ![i] = "released"]
  /\ UNCHANGED <<settings, pc, history, tasks, pending, results, said, git>>

WaitGroupDone(i) ==
  /\ child[i] = "released"
  /\ pending' = pending - 1
  /\ child' = [child EXCEPT ![i] = "gone"]
  /\ UNCHANGED <<settings, pc, history, tasks, slots, results, said, git>>

Goroutine(i) ==
  \/ Acquire(i) \/ Store(i) \/ Release(i) \/ WaitGroupDone(i)
  \/ \E o \in Outcomes : Return(i, o)

\* perTaskBudget; zero is no limit, also when it is what the division leaves.
Share(n) == IF maxChars > 0 THEN maxChars \div n ELSE 0

\* Errors are not cut.
Cut(o, n) ==
  IF o.ok /\ Share(n) > 0 /\ o.len > Share(n) THEN [o EXCEPT !.len = Share(n)] ELSE o

\* aggregateResults: one entry for each task, in the order of the tasks.
Aggregate == [i \in 1..tasks |-> Cut(results[i], tasks)]

\* wg.Wait has returned.
Collect ==
  /\ pc = "wait" /\ pending = 0
  /\ Record(Aggregate)
  /\ pc' = "turn"
  /\ UNCHANGED <<settings, parallel, git>>

----------------------------------------------------------------------------
(* delegateStep, worktreeStep and the worktree itself.                     *)

Delegate(mode) ==
  /\ pc = "turn" /\ Step <= MaxSteps
  /\ pc' = IF mode = "worktree" THEN "create" ELSE "child"
  /\ UNCHANGED <<settings, history, parallel, git>>

\* createWorktree: no directory, or one that git refuses and that is removed;
\* the child then works where its parent does.
WorktreeFails ==
  /\ pc = "create" /\ pc' = "child"
  /\ UNCHANGED <<settings, history, parallel, git>>

CreateWorktree ==
  /\ pc = "create" /\ pc' = "child"
  /\ place' = "worktree"
  /\ dirs' = dirs \cup {Step} /\ registered' = registered \cup {Step}
  /\ UNCHANGED <<settings, history, parallel, cleanFailed>>

\* Slip: a child that failed is returned from before the worktree is removed.
Slip_FailureReturns(o) ==
  /\ pc = "child"
  /\ Record(<<o>>)
  /\ pc' = IF place = "worktree" /\ o.ok THEN "cleanup" ELSE "turn"
  /\ place' = IF o.ok THEN place ELSE "parent"
  /\ UNCHANGED <<settings, parallel, dirs, registered, cleanFailed>>

\* runDelegateChild: the child's result or its error is the result of the call.
ChildReturns(o) ==
  /\ pc = "child"
  /\ Record(<<o>>)
  /\ pc' = IF place = "worktree" THEN "cleanup" ELSE "turn"
  /\ UNCHANGED <<settings, parallel, git>>

\* cleanup is deferred: git removes the worktree, or refuses and the
\* directory is removed alone.
Cleanup(removed) ==
  /\ pc = "cleanup" /\ pc' = "turn"
  /\ place' = "parent"
  /\ dirs' = dirs \ {Len(history)}
  /\ \/ removed /\ registered' = registered \ {Len(history)} /\ UNCHANGED cleanFailed
     \/ ~removed /\ cleanFailed' = cleanFailed \cup {Len(history)} /\ UNCHANGED registered
  /\ UNCHANGED <<settings, history, parallel>>

----------------------------------------------------------------------------
Parent ==
  \/ Collect \/ WorktreeFails \/ CreateWorktree
  \/ \E o \in Outcomes : ChildReturns(o)
  \/ \E removed \in BOOLEAN : Cleanup(removed)

Router ==
  \/ BadArguments
  \/ \E n \in Tasks : Coordinate(n)
  \/ \E mode \in {"fork", "worktree"} : Delegate(mode)

Next == Router \/ Parent \/ (\E i \in Tasks : Goroutine(i))

Spec == Init /\ [][Next]_vars

\* Goroutines that can run are run; one that waits for a slot may be passed over
\* as long as others take it, but each takes it once.  Nothing obliges a child to
\* return: it shares the MCP clients of its parent, whose calls wait with neither
\* ctx nor timeout (internal/mcp/client.go:196, :210), and git is run with
\* neither as well (worktree.go).
FairSpec ==
  /\ Spec
  /\ WF_vars(Collect)
  /\ \A i \in Tasks : WF_vars(child[i] # "running" /\ Goroutine(i))

----------------------------------------------------------------------------
(* Properties.                                                             *)

\* The values every variable may take.
TypeOK ==
  /\ maxParallelism \in Parallelisms /\ maxChars \in Budgets
  /\ pc \in {"turn", "wait", "create", "child", "cleanup"}
  /\ history \in Seq(Seq([ok : BOOLEAN, len : Nat])) /\ tasks \in 0..MaxTasks
  /\ child \in [Tasks -> {"none", "queued", "running", "returned", "stored",
                          "released", "gone"}]
  /\ slots \in 0..MaxTasks /\ pending \in 0..MaxTasks
  /\ results \in [Tasks -> Outcomes \cup {Empty}]
  /\ said \in [Tasks -> Outcomes \cup {Empty}]
  /\ place \in {"parent", "worktree"}
  /\ dirs \subseteq 1..MaxSteps /\ registered \subseteq 1..MaxSteps
  /\ cleanFailed \subseteq 1..MaxSteps

Running == {i \in Tasks : child[i] \in {"running", "returned"}}

\* Never do more children run at a time than coordinatorMaxParallelism, or its
\* default, allows (coordinator.go:86-99, option.go:160).
ChildrenWithinLimit ==
  Cardinality(Running) <= IF maxParallelism <= 0 THEN DefaultParallelism ELSE maxParallelism

\* When the parent goes on, no child of the step is at work any more.
\* (coordinator.go:116)
NoChildLeftBehind == pc = "turn" => \A i \in Tasks : child[i] \in {"none", "gone"}

\* What the parent reads of a coordinated step is, for each task and in their
\* order, what the child of that task returned, be it an error; texts are cut
\* only where a budget is set (delegation.md:83, coordinator.go:106-111, 131-145).
EveryTaskReported ==
  [][pc = "wait" /\ pc' = "turn" =>
       LET report == history'[Step] IN
         /\ DOMAIN report = 1..tasks
         /\ \A i \in 1..tasks :
              /\ report[i].ok = said[i].ok /\ report[i].len <= said[i].len
              /\ report[i].len < said[i].len => maxChars > 0]_vars

\* A worktree is on disk for as long as a child may work in it and no longer,
\* however that child ended; git keeps a record only of one it would not
\* remove (delegate.go:78-82, worktree.go:35-43).
WorktreeLivesWithItsChild ==
  /\ place = "worktree" => dirs # {}
  /\ place = "parent" => dirs = {} /\ registered \subseteq cleanFailed

\* Every step comes to its end unless git, or a child that is running, never
\* answers: no task is left without a slot and the parent is woken behind the
\* last one (coordinator.go:86-116).  A task runs once, so that where a child is
\* running for ever it is in the end one and the same.
Waiting ==
  \/ pc \in {"create", "child", "cleanup"}
  \/ \E i \in Tasks : child[i] = "running"

StepReturns == [](pc # "turn" => <>(pc = "turn" \/ []Waiting))
=============================================================================
