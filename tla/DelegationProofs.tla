-------------------------- MODULE DelegationProofs --------------------------
(***************************************************************************)
(* Proofs about Delegation, for any number of tasks and delegations, any   *)
(* limits and any texts: the semaphore bounds the children at work, the    *)
(* parent waits for all of them and reads what each returned, and a        *)
(* worktree is there for its child and no longer.                          *)
(***************************************************************************)
EXTENDS Delegation, FiniteSetTheorems, SequenceTheorems, TLAPS

Entry == [ok : BOOLEAN, len : Nat]

\* The goroutines that hold a slot, and those wg.Wait waits for.
Holders == {i \in Tasks : child[i] \in {"running", "returned", "stored"}}
Alive   == {i \in Tasks : child[i] \notin {"none", "gone"}}

\* The semaphore and the WaitGroup count goroutines.
Counted ==
  /\ slots = Cardinality(Holders) /\ slots <= Concurrency(tasks)
  /\ pending = Cardinality(Alive)

\* A goroutine is there for each task, and only while the parent waits.
Started ==
  /\ \A i \in Tasks : child[i] # "none" <=> i <= tasks
  /\ pc = "wait" => tasks >= 1
  /\ pc # "wait" => Alive = {}

\* What a child returned is what is stored in its place.
Gathered ==
  \A i \in Tasks :
    /\ child[i] \in {"returned", "stored", "released", "gone"} => said[i] \in Outcomes
    /\ child[i] \in {"stored", "released", "gone"} => results[i] = said[i]

\* Delegations are numbered by the reports there are.
Steps ==
  /\ Len(history) <= MaxSteps
  /\ pc \in {"wait", "create", "child"} => Step <= MaxSteps
  /\ pc = "cleanup" => Len(history) >= 1

\* There is one worktree at most, that of the delegation under way.
Trees ==
  /\ place = "worktree" => pc \in {"child", "cleanup"}
  /\ pc = "cleanup" => place = "worktree"
  /\ place = "worktree" /\ pc = "child" => dirs = {Step}
  /\ place = "worktree" /\ pc = "cleanup" => dirs = {Len(history)}
  /\ place = "parent" => dirs = {}
  /\ registered \subseteq cleanFailed \cup dirs

Inv == TypeOK /\ Counted /\ Started /\ Gathered /\ Steps /\ Trees

----------------------------------------------------------------------------
(* Facts about the operators.                                              *)

LEMMA Settings == MaxTasks \in Nat /\ MaxTasks >= 1 /\ MaxSteps \in Nat /\ MaxSteps >= 1
                  /\ DefaultParallelism \in Nat /\ DefaultParallelism >= 1
BY SettingsAssumption

LEMMA FiniteTasks ==
  ASSUME NEW S \in SUBSET Tasks
  PROVE  IsFiniteSet(S) /\ Cardinality(S) \in 0..MaxTasks
<1>1. IsFiniteSet(Tasks) /\ Cardinality(Tasks) = MaxTasks
  BY FS_Interval, Settings DEF Tasks
<1> QED
  BY <1>1, FS_Subset, FS_CardinalityType, Settings

\* There is always a slot to take, and never more than configured.
LEMMA ConcurrencyBounds ==
  ASSUME maxParallelism \in Parallelisms, NEW n \in 0..MaxTasks
  PROVE  /\ Concurrency(n) \in 0..n
         /\ n >= 1 => Concurrency(n) >= 1
         /\ Concurrency(n) <= IF maxParallelism <= 0 THEN DefaultParallelism ELSE maxParallelism
<1>1. maxParallelism \in Int
  BY SettingsAssumption
<1> QED
  BY <1>1, Settings DEF Concurrency

LEMMA OutcomesAreEntries == Outcomes \subseteq Entry
<1>1. Lengths \subseteq Nat
  BY SettingsAssumption
<1>2. Failed \in Entry
  BY DEF Failed, Entry
<1>3. \A o \in [ok : {TRUE}, len : Lengths] : o \in Entry
  BY <1>1 DEF Entry
<1> QED
  BY <1>2, <1>3 DEF Outcomes

\* An entry of the report is what the child returned, cut at most.
LEMMA CutFacts ==
  ASSUME maxChars \in Budgets, NEW n \in 1..MaxTasks, NEW o \in Entry
  PROVE  /\ Cut(o, n) \in Entry
         /\ Cut(o, n).ok = o.ok /\ Cut(o, n).len <= o.len
         /\ Cut(o, n).len < o.len => maxChars > 0
<1>1. maxChars \in Int
  BY SettingsAssumption
<1>2. Share(n) \in Int /\ (Share(n) > 0 => maxChars > 0)
  BY <1>1, Settings DEF Share
<1>3. CASE o.ok /\ Share(n) > 0 /\ o.len > Share(n)
  <2>1. Cut(o, n) = [ok |-> o.ok, len |-> Share(n)]
    BY <1>3 DEF Cut, Entry
  <2> QED
    BY <1>2, <1>3, <2>1 DEF Entry
<1>4. CASE ~(o.ok /\ Share(n) > 0 /\ o.len > Share(n))
  <2>1. Cut(o, n) = o
    BY <1>4 DEF Cut
  <2> QED
    BY <2>1 DEF Entry
<1> QED
  BY <1>3, <1>4

----------------------------------------------------------------------------
LEMMA InitHolds ==
  ASSUME Init
  PROVE  Inv
<1>1. TypeOK
  BY Settings DEF Init, TypeOK
<1>2. Holders = {} /\ Alive = {}
  BY DEF Init, Holders, Alive
<1>3. Counted
  BY <1>1, <1>2, FS_EmptySet, ConcurrencyBounds, Settings DEF Init, Counted, TypeOK
<1>4. Started
  BY <1>2 DEF Init, Started, Tasks
<1>5. Gathered /\ Steps /\ Trees
  BY Settings DEF Init, Gathered, Steps, Trees, Step
<1> QED
  BY <1>1, <1>3, <1>4, <1>5 DEF Inv

\* What the parent's own steps leave alone.
LEMMA SameGoroutines ==
  ASSUME Inv, UNCHANGED <<settings, parallel>>, pc' # "wait", pc # "wait" \/ pending = 0
  PROVE  Counted' /\ Started' /\ Gathered'
<1>1. Holders' = Holders /\ Alive' = Alive /\ Concurrency(tasks)' = Concurrency(tasks)
  BY DEF settings, parallel, Holders, Alive, Concurrency
<1>2. Alive = {}
  <2>1. IsFiniteSet(Alive)
    BY FiniteTasks DEF Alive
  <2> QED
    BY <2>1, FS_EmptySet DEF Inv, Started, Counted
<1>3. Counted'
  BY <1>1 DEF Inv, Counted, parallel
<1>4. Started'
  BY <1>1, <1>2 DEF Inv, Started, parallel
<1>5. Gathered'
  BY DEF Inv, Gathered, parallel
<1> QED
  BY <1>3, <1>4, <1>5

\* A report added to the history.
LEMMA RecordKeepsType ==
  ASSUME TypeOK, NEW report \in Seq(Entry), Record(report)
  PROVE  /\ history' \in Seq(Seq(Entry)) /\ Len(history') = Len(history) + 1
         /\ history'[Step] = report /\ Len(history) \in Nat
<1>1. history \in Seq(Seq(Entry))
  BY DEF TypeOK, Entry
<1> QED
  BY <1>1, AppendProperties DEF Record, Step

LEMMA BadArgumentsKeeps ==
  ASSUME Inv, BadArguments
  PROVE  Inv'
<1>1. <<>> \in Seq(Entry)
  OBVIOUS
<1>2. /\ history' \in Seq(Seq(Entry)) /\ Len(history') = Len(history) + 1
      /\ Len(history) \in Nat
  BY <1>1, RecordKeepsType DEF Inv, BadArguments
<1>3. TypeOK'
  BY <1>2 DEF Inv, TypeOK, BadArguments, settings, parallel, git, Entry
<1>4. Counted' /\ Started' /\ Gathered'
  BY SameGoroutines DEF BadArguments
<1>5. Steps' /\ Trees'
  BY <1>2 DEF Inv, Steps, Trees, TypeOK, BadArguments, git, Step
<1> QED
  BY <1>3, <1>4, <1>5 DEF Inv

LEMMA CoordinateKeeps ==
  ASSUME Inv, NEW n \in Tasks, Coordinate(n)
  PROVE  Inv'
<1> USE DEF Coordinate
<1>1. n \in 1..MaxTasks /\ tasks' = n
  BY DEF Tasks
<1>2. TypeOK'
  BY <1>1, Settings DEF Inv, TypeOK, settings, git, Tasks
<1>3. Holders' = {} /\ Alive' = 1..n
  <2>1. \A i \in Tasks : child'[i] = IF i <= n THEN "queued" ELSE "none"
    OBVIOUS
  <2> QED
    BY <1>1, <2>1, Settings DEF Holders, Alive, Tasks
<1>4. Cardinality(Alive') = n /\ Cardinality(Holders') = 0
  BY <1>1, <1>3, FS_Interval, FS_EmptySet, Settings
<1>5. Concurrency(n) >= 0 /\ Concurrency(tasks)' = Concurrency(n)
  <2>1. Concurrency(n) >= 0
    BY <1>1, ConcurrencyBounds, Settings DEF Inv, TypeOK
  <2>2. maxParallelism' = maxParallelism
    BY DEF settings
  <2>3. Concurrency(tasks)' = Concurrency(n)
    BY <1>1, <2>2 DEF Concurrency
  <2> QED
    BY <2>1, <2>3
<1>6. Counted'
  BY <1>1, <1>4, <1>5 DEF Counted
<1>7. Started'
  BY <1>1, <1>3 DEF Started
<1>8. Gathered'
  BY DEF Gathered
<1>9. Steps' /\ Trees'
  BY DEF Inv, Steps, Trees, git, Step
<1> QED
  BY <1>2, <1>6, <1>7, <1>8, <1>9 DEF Inv

----------------------------------------------------------------------------
(* The goroutine of a task.                                                *)

\* What no step of a goroutine touches.
LEMMA GoroutineLeaves ==
  ASSUME Inv, UNCHANGED <<settings, pc, history, git>>
  PROVE  Steps' /\ Trees'
BY DEF Inv, Steps, Trees, settings, git, Step

\* A goroutine that was started moves on.
LEMMA Moves ==
  ASSUME Inv, NEW i \in Tasks, NEW here, NEW next, here # "none", next # "none",
         child[i] = here, child' = [child EXCEPT ![i] = next],
         UNCHANGED <<pc, tasks>>, here \notin {"none", "gone"}
  PROVE  Started'
<1>1. child \in [Tasks -> {"none", "queued", "running", "returned", "stored",
                           "released", "gone"}]
  BY DEF Inv, TypeOK
<1>2. \A j \in Tasks : child'[j] # "none" <=> child[j] # "none"
  BY <1>1
<1>3. i \in Alive
  BY DEF Alive
<1>4. pc = "wait"
  BY <1>3 DEF Inv, Started
<1> QED
  BY <1>2, <1>4 DEF Inv, Started

LEMMA AcquireKeeps ==
  ASSUME Inv, NEW i \in Tasks, Acquire(i)
  PROVE  Inv'
<1> USE DEF Acquire
<1>1. child \in [Tasks -> {"none", "queued", "running", "returned", "stored",
                           "released", "gone"}]
  BY DEF Inv, TypeOK
<1>2. Holders' = Holders \cup {i} /\ Alive' = Alive /\ i \notin Holders
  BY <1>1 DEF Holders, Alive
<1>3. slots' = Cardinality(Holders') /\ slots' \in 0..MaxTasks
  <2>1. IsFiniteSet(Holders) /\ Cardinality(Holders') \in 0..MaxTasks
    BY FiniteTasks DEF Holders
  <2> QED
    BY <1>2, <2>1, FS_AddElement DEF Inv, Counted
<1>4. TypeOK'
  BY <1>1, <1>3 DEF Inv, TypeOK, settings, git
<1>5. slots' <= Concurrency(tasks)'
  <2>1. Concurrency(tasks)' = Concurrency(tasks) /\ tasks \in 0..MaxTasks
    BY DEF Inv, TypeOK, settings, Concurrency
  <2>2. Concurrency(tasks) \in Int
    BY <2>1, ConcurrencyBounds DEF Inv, TypeOK
  <2> QED
    BY <2>1, <2>2 DEF Inv, TypeOK
<1>6. Counted'
  BY <1>2, <1>3, <1>5 DEF Inv, Counted
<1>7. Started'
  BY Moves
<1>8. Gathered'
  BY <1>1 DEF Inv, Gathered
<1> QED
  BY <1>4, <1>6, <1>7, <1>8, GoroutineLeaves DEF Inv

\* A step of a goroutine that neither takes nor gives back anything.
LEMMA SameCounts ==
  ASSUME Inv, Holders' = Holders, Alive' = Alive,
         UNCHANGED <<settings, tasks, slots, pending>>
  PROVE  Counted'
<1>1. Concurrency(tasks)' = Concurrency(tasks)
  BY DEF settings, Concurrency
<1> QED
  BY <1>1 DEF Inv, Counted

LEMMA ReturnKeeps ==
  ASSUME Inv, NEW i \in Tasks, NEW o \in Outcomes, Return(i, o)
  PROVE  Inv'
<1> USE DEF Return
<1>1. child \in [Tasks -> {"none", "queued", "running", "returned", "stored",
                           "released", "gone"}]
      /\ said \in [Tasks -> Outcomes \cup {Empty}]
  BY DEF Inv, TypeOK
<1>2. TypeOK'
  BY <1>1 DEF Inv, TypeOK, settings, git
<1>3. Holders' = Holders /\ Alive' = Alive
  BY <1>1 DEF Holders, Alive
<1>4. Counted'
  BY <1>3, SameCounts
<1>5. Started'
  BY Moves
<1>6. Gathered'
  BY <1>1 DEF Inv, Gathered
<1> QED
  BY <1>2, <1>4, <1>5, <1>6, GoroutineLeaves DEF Inv

LEMMA StoreKeeps ==
  ASSUME Inv, NEW i \in Tasks, Store(i)
  PROVE  Inv'
<1> USE DEF Store, PlaceOf
<1>1. /\ child \in [Tasks -> {"none", "queued", "running", "returned", "stored",
                              "released", "gone"}]
      /\ said \in [Tasks -> Outcomes \cup {Empty}]
      /\ results \in [Tasks -> Outcomes \cup {Empty}]
  BY DEF Inv, TypeOK
<1>2. TypeOK'
  BY <1>1 DEF Inv, TypeOK, settings, git
<1>3. Holders' = Holders /\ Alive' = Alive
  BY <1>1 DEF Holders, Alive
<1>4. Counted'
  BY <1>3, SameCounts
<1>5. Started'
  BY Moves
<1>6. Gathered'
  BY <1>1 DEF Inv, Gathered
<1> QED
  BY <1>2, <1>4, <1>5, <1>6, GoroutineLeaves DEF Inv

LEMMA ReleaseKeeps ==
  ASSUME Inv, NEW i \in Tasks, Release(i)
  PROVE  Inv'
<1> USE DEF Release
<1>1. child \in [Tasks -> {"none", "queued", "running", "returned", "stored",
                           "released", "gone"}]
  BY DEF Inv, TypeOK
<1>2. Holders' = Holders \ {i} /\ Alive' = Alive /\ i \in Holders
  BY <1>1 DEF Holders, Alive
<1>3. slots' = Cardinality(Holders') /\ slots' \in 0..MaxTasks
  <2>1. IsFiniteSet(Holders) /\ Cardinality(Holders') \in 0..MaxTasks
    BY FiniteTasks DEF Holders
  <2> QED
    BY <1>2, <2>1, FS_RemoveElement DEF Inv, Counted
<1>4. TypeOK'
  BY <1>1, <1>3 DEF Inv, TypeOK, settings, git
<1>5. slots' <= Concurrency(tasks)'
  <2>1. Concurrency(tasks)' = Concurrency(tasks) /\ tasks \in 0..MaxTasks
    BY DEF Inv, TypeOK, settings, Concurrency
  <2>2. Concurrency(tasks) \in Int
    BY <2>1, ConcurrencyBounds DEF Inv, TypeOK
  <2> QED
    BY <2>1, <2>2 DEF Inv, TypeOK, Counted
<1>6. Counted'
  BY <1>2, <1>3, <1>5 DEF Inv, Counted
<1>7. Started'
  BY Moves
<1>8. Gathered'
  BY <1>1 DEF Inv, Gathered
<1> QED
  BY <1>4, <1>6, <1>7, <1>8, GoroutineLeaves DEF Inv

LEMMA DoneKeeps ==
  ASSUME Inv, NEW i \in Tasks, WaitGroupDone(i)
  PROVE  Inv'
<1> USE DEF WaitGroupDone
<1>1. child \in [Tasks -> {"none", "queued", "running", "returned", "stored",
                           "released", "gone"}]
  BY DEF Inv, TypeOK
<1>2. Holders' = Holders /\ Alive' = Alive \ {i} /\ i \in Alive
  BY <1>1 DEF Holders, Alive
<1>3. pending' = Cardinality(Alive') /\ pending' \in 0..MaxTasks
  <2>1. IsFiniteSet(Alive) /\ Cardinality(Alive') \in 0..MaxTasks
    BY FiniteTasks DEF Alive
  <2> QED
    BY <1>2, <2>1, FS_RemoveElement DEF Inv, Counted
<1>4. TypeOK'
  BY <1>1, <1>3 DEF Inv, TypeOK, settings, git
<1>5. Concurrency(tasks)' = Concurrency(tasks)
  BY DEF settings, Concurrency
<1>6. Counted'
  BY <1>2, <1>3, <1>5 DEF Inv, Counted
<1>7. Started'
  BY Moves
<1>8. Gathered'
  BY <1>1 DEF Inv, Gathered
<1> QED
  BY <1>4, <1>6, <1>7, <1>8, GoroutineLeaves DEF Inv

----------------------------------------------------------------------------
(* The parent.                                                             *)

\* When wg.Wait returns, every task has what its child returned.
LEMMA AllGathered ==
  ASSUME Inv, pc = "wait", pending = 0
  PROVE  /\ tasks \in 1..MaxTasks
         /\ \A i \in 1..tasks : results[i] = said[i] /\ said[i] \in Entry
<1>1. tasks \in 1..MaxTasks
  BY DEF Inv, TypeOK, Started
<1>2. Alive = {}
  <2>1. IsFiniteSet(Alive)
    BY FiniteTasks DEF Alive
  <2> QED
    BY <2>1, FS_EmptySet DEF Inv, Counted
<1>3. \A i \in 1..tasks : i \in Tasks /\ child[i] = "gone"
  BY <1>1, <1>2, Settings DEF Inv, Started, Alive, Tasks
<1> QED
  BY <1>1, <1>3, OutcomesAreEntries DEF Inv, Gathered

LEMMA AggregateType ==
  ASSUME Inv, pc = "wait", pending = 0
  PROVE  Aggregate \in Seq(Entry)
<1>1. \A i \in 1..tasks : Cut(results[i], tasks) \in Entry
  BY AllGathered, CutFacts DEF Inv, TypeOK
<1> QED
  BY <1>1, AllGathered DEF Aggregate

LEMMA CollectKeeps ==
  ASSUME Inv, Collect
  PROVE  Inv'
<1>1. /\ history' \in Seq(Seq(Entry)) /\ Len(history') = Len(history) + 1
      /\ Len(history) \in Nat
  BY AggregateType, RecordKeepsType DEF Inv, Collect
<1>2. TypeOK'
  BY <1>1 DEF Inv, TypeOK, Collect, settings, parallel, git, Entry
<1>3. Counted' /\ Started' /\ Gathered'
  BY SameGoroutines DEF Collect
<1>4. Steps' /\ Trees'
  BY <1>1 DEF Inv, Steps, Trees, TypeOK, Collect, git, Step
<1> QED
  BY <1>2, <1>3, <1>4 DEF Inv

LEMMA DelegateKeeps ==
  ASSUME Inv, NEW mode \in {"fork", "worktree"}, Delegate(mode)
  PROVE  Inv'
<1> USE DEF Delegate
<1>1. pc' \in {"create", "child"}
  OBVIOUS
<1>2. TypeOK'
  BY <1>1 DEF Inv, TypeOK, settings, parallel, git
<1>3. Counted' /\ Started' /\ Gathered'
  BY <1>1, SameGoroutines
<1>4. Steps' /\ Trees'
  BY <1>1 DEF Inv, Steps, Trees, TypeOK, git, Step
<1> QED
  BY <1>2, <1>3, <1>4 DEF Inv

LEMMA WorktreeFailsKeeps ==
  ASSUME Inv, WorktreeFails
  PROVE  Inv'
<1> USE DEF WorktreeFails
<1>1. TypeOK'
  BY DEF Inv, TypeOK, settings, parallel, git
<1>2. Counted' /\ Started' /\ Gathered'
  BY SameGoroutines
<1>3. Steps' /\ Trees'
  BY DEF Inv, Steps, Trees, TypeOK, git, Step
<1> QED
  BY <1>1, <1>2, <1>3 DEF Inv

LEMMA CreateWorktreeKeeps ==
  ASSUME Inv, CreateWorktree
  PROVE  Inv'
<1> USE DEF CreateWorktree
<1>1. Len(history) \in Nat /\ Step \in 1..MaxSteps
  BY LenProperties, Settings DEF Inv, TypeOK, Steps, Step
<1>2. TypeOK'
  BY <1>1 DEF Inv, TypeOK, settings, parallel
<1>3. Counted' /\ Started' /\ Gathered'
  BY SameGoroutines
<1>4. Steps'
  BY DEF Inv, Steps, Step
<1>5. dirs = {} /\ Step' = Step
  BY DEF Inv, Trees, TypeOK, Step
<1>6. Trees'
  BY <1>5 DEF Inv, Trees
<1> QED
  BY <1>2, <1>3, <1>4, <1>6 DEF Inv

LEMMA ChildReturnsKeeps ==
  ASSUME Inv, NEW o \in Outcomes, ChildReturns(o)
  PROVE  Inv'
<1> USE DEF ChildReturns
<1>1. <<o>> \in Seq(Entry)
  BY OutcomesAreEntries
<1>2. /\ history' \in Seq(Seq(Entry)) /\ Len(history') = Len(history) + 1
      /\ Len(history) \in Nat
  BY <1>1, RecordKeepsType DEF Inv
<1>3. TypeOK'
  BY <1>2 DEF Inv, TypeOK, settings, parallel, git, Entry
<1>4. Counted' /\ Started' /\ Gathered'
  BY SameGoroutines
<1>5. Steps'
  BY <1>2, Settings DEF Inv, Steps, Step
<1>6. Trees'
  BY <1>2 DEF Inv, Trees, TypeOK, git, Step
<1> QED
  BY <1>3, <1>4, <1>5, <1>6 DEF Inv

LEMMA CleanupKeeps ==
  ASSUME Inv, NEW removed \in BOOLEAN, Cleanup(removed)
  PROVE  Inv'
<1> USE DEF Cleanup
<1>1. Len(history) \in 1..MaxSteps /\ dirs = {Len(history)}
  BY LenProperties, Settings DEF Inv, TypeOK, Steps, Trees
<1>2. dirs' = {} /\ registered' \subseteq registered
      /\ cleanFailed' \subseteq cleanFailed \cup {Len(history)}
      /\ registered' \subseteq cleanFailed'
  BY <1>1 DEF Inv, Trees
<1>3. TypeOK'
  BY <1>1, <1>2 DEF Inv, TypeOK, settings, parallel
<1>4. Counted' /\ Started' /\ Gathered'
  BY SameGoroutines
<1>5. Steps' /\ Trees'
  BY <1>2 DEF Inv, Steps, Trees, Step
<1> QED
  BY <1>3, <1>4, <1>5 DEF Inv

LEMMA StutterKeeps ==
  ASSUME Inv, UNCHANGED vars
  PROVE  Inv'
<1>1. Holders' = Holders /\ Alive' = Alive /\ Concurrency(tasks)' = Concurrency(tasks)
  BY DEF vars, settings, parallel, Holders, Alive, Concurrency
<1>2. TypeOK' /\ Gathered' /\ Steps' /\ Trees'
  BY DEF Inv, TypeOK, Gathered, Steps, Trees, Step, vars, settings, parallel, git
<1>3. Counted' /\ Started'
  BY <1>1 DEF Inv, Counted, Started, vars, parallel
<1> QED
  BY <1>2, <1>3 DEF Inv

\* The invariant behind every other theorem here.
THEOREM Invariant == Spec => []Inv
<1>1. Init => Inv
  BY InitHolds
<1>2. Inv /\ [Next]_vars => Inv'
  <2> SUFFICES ASSUME Inv, [Next]_vars PROVE Inv'
    OBVIOUS
  <2>1. CASE Router
    BY <2>1, BadArgumentsKeeps, CoordinateKeeps, DelegateKeeps DEF Router
  <2>2. CASE Parent
    BY <2>2, CollectKeeps, WorktreeFailsKeeps, CreateWorktreeKeeps, ChildReturnsKeeps,
       CleanupKeeps DEF Parent
  <2>3. CASE \E i \in Tasks : Goroutine(i)
    BY <2>3, AcquireKeeps, ReturnKeeps, StoreKeeps, ReleaseKeeps, DoneKeeps DEF Goroutine
  <2>4. CASE UNCHANGED vars
    BY <2>4, StutterKeeps
  <2> QED
    BY <2>1, <2>2, <2>3, <2>4 DEF Next
<1> QED
  BY <1>1, <1>2, PTL DEF Spec

----------------------------------------------------------------------------

\* Every variable keeps its type.
THEOREM TypeCorrect == Spec => []TypeOK
<1>1. Inv => TypeOK
  BY DEF Inv
<1> QED
  BY <1>1, Invariant, PTL

\* No more children are at work than the configured limit, or its default,
\* allows, however many tasks the router asks for (coordinator.go:86-99).
THEOREM ChildrenAreWithinLimit == Spec => []ChildrenWithinLimit
<1>1. ASSUME Inv PROVE ChildrenWithinLimit
  <2>1. Running \in SUBSET Holders /\ Holders \in SUBSET Tasks
    BY DEF Running, Holders
  <2>2. /\ Cardinality(Running) <= slots
        /\ Cardinality(Running) \in Int /\ slots \in Int
    BY <1>1, <2>1, FiniteTasks, FS_Subset DEF Inv, Counted, TypeOK
  <2>3. tasks \in 0..MaxTasks /\ maxParallelism \in Parallelisms
    BY <1>1 DEF Inv, TypeOK
  <2>4. maxParallelism \in Int /\ Concurrency(tasks) \in Int
    BY <2>3, SettingsAssumption, ConcurrencyBounds
  <2>5. slots <= Concurrency(tasks)
    BY <1>1 DEF Inv, Counted
  <2> QED
    BY <2>2, <2>3, <2>4, <2>5, ConcurrencyBounds, Settings DEF ChildrenWithinLimit
<1> QED
  BY <1>1, Invariant, PTL

\* The parent goes on only when no goroutine of the step is left
\* (coordinator.go:116).
THEOREM NoChildIsLeftBehind == Spec => []NoChildLeftBehind
<1>1. Inv => NoChildLeftBehind
  BY DEF Inv, Started, Alive, NoChildLeftBehind
<1> QED
  BY <1>1, Invariant, PTL

\* A worktree is on disk while a child may work in it and no longer
\* (delegate.go:78-82, worktree.go:35-43).
THEOREM WorktreesGo == Spec => []WorktreeLivesWithItsChild
<1>1. Inv => WorktreeLivesWithItsChild
  BY DEF Inv, Trees, TypeOK, WorktreeLivesWithItsChild
<1> QED
  BY <1>1, Invariant, PTL

\* The report has, for each task in its place, what its child returned
\* (coordinator.go:106-111, 131-145).
THEOREM EveryTaskIsReported == Spec => EveryTaskReported
<1> DEFINE Reported ==
      pc = "wait" /\ pc' = "turn" =>
        LET report == history'[Step] IN
          /\ DOMAIN report = 1..tasks
          /\ \A i \in 1..tasks :
               /\ report[i].ok = said[i].ok /\ report[i].len <= said[i].len
               /\ report[i].len < said[i].len => maxChars > 0
<1>1. Inv /\ [Next]_vars => [Reported]_vars
  <2> SUFFICES ASSUME Inv, Next, pc = "wait", pc' = "turn" PROVE Reported
    OBVIOUS
  <2>1. Collect
    BY DEF Next, Router, BadArguments, Coordinate, Delegate, Parent, WorktreeFails,
       CreateWorktree, ChildReturns, Cleanup, Goroutine, Acquire, Return, Store, Release,
       WaitGroupDone
  <2>2. history'[Step] = Aggregate
    BY <2>1, AggregateType, RecordKeepsType DEF Collect, Inv
  <2>3. tasks \in 1..MaxTasks /\ \A i \in 1..tasks : results[i] = said[i] /\ said[i] \in Entry
    BY <2>1, AllGathered DEF Collect
  <2>4. /\ DOMAIN Aggregate = 1..tasks
        /\ \A i \in 1..tasks : Aggregate[i] = Cut(said[i], tasks)
    BY <2>3 DEF Aggregate
  <2> QED
    BY <2>2, <2>3, <2>4, CutFacts DEF Inv, TypeOK
<1> QED
  BY <1>1, Invariant, PTL DEF Spec, EveryTaskReported

----------------------------------------------------------------------------
(* What StepReturns rests on besides the scheduler: someone can always go  *)
(* on, and nobody can go on for ever.                                      *)

\* While the parent waits, it may go on itself, or some goroutine may.
SomeoneGoesOn ==
  pc = "wait" =>
    \/ pending = 0
    \/ \E i \in Tasks :
         \/ child[i] \in {"running", "returned", "stored", "released"}
         \/ child[i] = "queued" /\ slots < Concurrency(tasks)

\* The steps a goroutine has left, the steps of all, and those of the parent.
Left(stage) ==
  CASE stage = "queued"   -> 5 [] stage = "running" -> 4 [] stage = "returned" -> 3
    [] stage = "stored"   -> 2 [] stage = "released" -> 1 [] OTHER -> 0
Ahead     == {s \in Tasks \X (1..5) : s[2] <= Left(child[s[1]])}
OwnSteps  == CASE pc = "create" -> 3 [] pc = "child" -> 2
               [] pc \in {"cleanup", "wait"} -> 1 [] OTHER -> 0
StepsLeft == Cardinality(Ahead) + OwnSteps

\* A goroutine that waits for a slot waits for one that holds it, which waits
\* for nobody: a delegation cannot get stuck, whatever limit is configured
\* (coordinator.go:85-99, 116).
THEOREM NoDelegationGetsStuck == Spec => []SomeoneGoesOn
<1>1. ASSUME Inv PROVE SomeoneGoesOn
  <2> SUFFICES ASSUME pc = "wait", pending # 0 ,
                      \A i \in Tasks :
                        child[i] \notin {"running", "returned", "stored", "released"}
               PROVE  \E i \in Tasks : child[i] = "queued" /\ slots < Concurrency(tasks)
    BY DEF SomeoneGoesOn
  <2>1. Holders = {}
    BY DEF Holders
  <2>2. slots = 0
    BY <1>1, <2>1, FS_EmptySet DEF Inv, Counted
  <2>3. Alive # {}
    BY <1>1, FS_EmptySet DEF Inv, Counted
  <2>4. PICK i \in Tasks : child[i] \notin {"none", "gone"}
    BY <2>3 DEF Alive
  <2>5. child[i] = "queued"
    BY <1>1, <2>4 DEF Inv, TypeOK
  <2>6. tasks \in 0..MaxTasks /\ tasks >= 1
    BY <1>1 DEF Inv, TypeOK, Started
  <2>7. Concurrency(tasks) >= 1 /\ Concurrency(tasks) \in Int
    BY <1>1, <2>6, ConcurrencyBounds DEF Inv, TypeOK
  <2> QED
    BY <2>2, <2>5, <2>7
<1> QED
  BY <1>1, Invariant, PTL

LEMMA AheadIsFinite ==
  IsFiniteSet(Ahead) /\ Cardinality(Ahead) \in 0..(MaxTasks * 5)
<1>1. IsFiniteSet(Tasks) /\ Cardinality(Tasks) = MaxTasks
  BY FS_Interval, Settings DEF Tasks
<1>2. IsFiniteSet(1..5) /\ Cardinality(1..5) = 5
  <2>1. 1 \in Int /\ 5 \in Int
    OBVIOUS
  <2> HIDE <2>1
  <2>2. IsFiniteSet(1..5) /\ Cardinality(1..5) = IF 1 > 5 THEN 0 ELSE 5 - 1 + 1
    BY <2>1, FS_Interval
  <2> QED
    BY <2>2
<1>3. IsFiniteSet(Tasks \X (1..5)) /\ Cardinality(Tasks \X (1..5)) = MaxTasks * 5
  BY <1>1, <1>2, FS_Product
<1>4. Ahead \subseteq Tasks \X (1..5)
  BY DEF Ahead
<1>5. /\ IsFiniteSet(Ahead) /\ Cardinality(Ahead) \in Nat
      /\ Cardinality(Ahead) <= MaxTasks * 5
  BY <1>3, <1>4, FS_Subset, FS_CardinalityType
<1> QED
  BY <1>5, Settings

LEMMA StepsLeftIsBounded == StepsLeft \in 0..(MaxTasks * 5 + 3)
<1>1. OwnSteps \in 0..3
  BY DEF OwnSteps
<1>2. Cardinality(Ahead) \in 0..(MaxTasks * 5)
  BY AheadIsFinite
<1> QED
  BY <1>1, <1>2, Settings DEF StepsLeft

\* A goroutine that moves on has one step less ahead.
LEMMA GoroutineShortens ==
  ASSUME Inv, NEW i \in Tasks, Goroutine(i)
  PROVE  StepsLeft' < StepsLeft
<1>1. child \in [Tasks -> {"none", "queued", "running", "returned", "stored",
                           "released", "gone"}]
  BY DEF Inv, TypeOK
<1>2. PICK here, next :
        /\ child[i] = here /\ child' = [child EXCEPT ![i] = next] /\ pc' = pc
        /\ \/ here = "queued" /\ next = "running"
           \/ here = "running" /\ next = "returned"
           \/ here = "returned" /\ next = "stored"
           \/ here = "stored" /\ next = "released"
           \/ here = "released" /\ next = "gone"
  BY DEF Goroutine, Acquire, Return, Store, Release, WaitGroupDone
<1>3. /\ Left("queued") = 5 /\ Left("running") = 4 /\ Left("returned") = 3
      /\ Left("stored") = 2 /\ Left("released") = 1 /\ Left("gone") = 0
  BY DEF Left
<1>4. Left(here) \in 1..5 /\ Left(next) \in 0..4 /\ Left(next) < Left(here)
  BY <1>2, <1>3
<1>5. \A j \in Tasks : child'[j] = IF j = i THEN next ELSE child[j]
  BY <1>1, <1>2
<1>6. Ahead' \subseteq Ahead
  <2> SUFFICES ASSUME NEW s \in Ahead' PROVE s \in Ahead
    OBVIOUS
  <2>1. s \in Tasks \X (1..5) /\ s[2] <= Left(child'[s[1]])
    BY DEF Ahead
  <2>2. CASE s[1] = i
    BY <1>2, <1>4, <1>5, <2>1, <2>2 DEF Ahead
  <2>3. CASE s[1] # i
    BY <1>5, <2>1, <2>3 DEF Ahead
  <2> QED
    BY <2>2, <2>3
<1>7. <<i, Left(here)>> \in Ahead /\ <<i, Left(here)>> \notin Ahead'
  BY <1>2, <1>4, <1>5 DEF Ahead
<1>8. /\ Cardinality(Ahead') < Cardinality(Ahead)
      /\ Cardinality(Ahead') \in Nat /\ Cardinality(Ahead) \in Nat
  BY <1>6, <1>7, AheadIsFinite, FS_Subset, FS_CardinalityType
<1>9. OwnSteps' = OwnSteps /\ OwnSteps \in Nat
  BY <1>2 DEF OwnSteps
<1> QED
  BY <1>8, <1>9 DEF StepsLeft

\* A step of the parent leaves the goroutines alone.
LEMMA ParentShortens ==
  ASSUME Inv, Parent
  PROVE  StepsLeft' < StepsLeft
<1>1. child' = child
  BY DEF Parent, Collect, WorktreeFails, CreateWorktree, ChildReturns, Cleanup, parallel
<1>2. Ahead' = Ahead
  BY <1>1 DEF Ahead
<1>3. \/ pc = "wait" /\ pc' = "turn"
      \/ pc = "create" /\ pc' = "child"
      \/ pc = "child" /\ pc' \in {"cleanup", "turn"}
      \/ pc = "cleanup" /\ pc' = "turn"
  BY DEF Parent, Collect, WorktreeFails, CreateWorktree, ChildReturns, Cleanup
<1>4. OwnSteps' < OwnSteps /\ OwnSteps' \in Int /\ OwnSteps \in Int
  BY <1>3 DEF OwnSteps
<1>5. Cardinality(Ahead) \in Int
  BY AheadIsFinite
<1> QED
  BY <1>2, <1>4, <1>5 DEF StepsLeft

\* A delegation takes at most five steps for each task and three of its own:
\* each step behind its call leaves fewer (coordinator.go:91-120,
\* delegate.go:70-120).
THEOREM DelegationsAreBounded ==
  Spec => [][pc # "turn" => StepsLeft' < StepsLeft /\ StepsLeft \in 0..(MaxTasks * 5 + 3)]_vars
<1>1. ASSUME Inv, Next, pc # "turn" PROVE StepsLeft' < StepsLeft
  <2>1. ~Router
    BY <1>1 DEF Router, BadArguments, Coordinate, Delegate
  <2> QED
    BY <1>1, <2>1, GoroutineShortens, ParentShortens DEF Next
<1>2. Inv /\ [Next]_vars =>
        [pc # "turn" => StepsLeft' < StepsLeft /\ StepsLeft \in 0..(MaxTasks * 5 + 3)]_vars
  BY <1>1, StepsLeftIsBounded
<1> QED
  BY <1>2, Invariant, PTL DEF Spec
=============================================================================
