---------------------------- MODULE EngineConfig ----------------------------
(***************************************************************************)
(* What an engine is made of, and what becomes of it when agent.configure  *)
(* rebuilds it, when the wrapper registers tools, guards, verifiers and    *)
(* judges, and when a sub-agent is forked from it: rpc/configure.go,       *)
(* rpc/remote_registry.go, engine.New and Fork, the permission pipeline    *)
(* and the tool scope.                                                     *)
(*                                                                         *)
(* A request gives some blocks and omits the others (Null).  Blocks that   *)
(* are handled alike are one here: "limits" is max_turns, system_prompt,   *)
(* token_limit and work_dir, "notices" is reminder and streaming,          *)
(* "guards" is each of its three lists.  The other engine is that of the   *)
(* REPL, whose user is asked for approval and which nobody configures.     *)
(***************************************************************************)
EXTENDS Integers, Sequences, FiniteSets, SequencesExt, FiniteSetsExt

CONSTANTS
  Null,       \* an omitted block, an option that is not set
  Tools,      \* names of tools
  ReadOnly,   \* those that say they only read
  Rules,      \* bound: the lists of names a request may hold
  MaxBlocks,  \* bound: blocks a request gives besides llm
  MaxNames    \* bound: names registered, all kinds together

All == "*" \* in a rule

ASSUME ToolsAssumption ==
  /\ ReadOnly \subseteq Tools /\ All \notin Tools /\ {MaxBlocks, MaxNames} \subseteq Nat
  /\ {} \in Rules /\ \A r \in Rules : r \subseteq Tools \cup {All}

\* What is omitted is told from what is given.
ASSUME NullAssumption == Null \notin {"remote", 0, 1}

VARIABLES
  eng,     \* Handlers.eng
  child,   \* the sub-agent a run waits for
  remote,  \* RemoteRegistry: the names registered of each kind
  given    \* history: the blocks of the agent.configure applied last

vars == <<eng, child, remote, given>>

Builtins == [guards |-> {"prompt_injection"}, verifiers |-> {"non_empty"}, judges |-> {}]

\* A guard or verifier: its name and who answers to it.
Checkers(kind) ==
  {<<n, "builtin">> : n \in Builtins[kind]} \cup
  {<<n, "remote">> : n \in Builtins[kind] \cup {"own"}}

Policies == [deny : Rules, allow : Rules]

NoBudget == [t \in Tools |-> Null]

\* A request gives a budget to one tool at most, and it may be 0; max_tools that
\* are all of them limit nothing, as 0 does.
Scopes == [max : 0..(Cardinality(Tools) - 1), always : Rules \cap SUBSET Tools,
           budget : {NoBudget} \cup {[NoBudget EXCEPT ![t] = n] : t \in Tools, n \in 0..1}]

\* defaultEngineConfig.
Default == [limits |-> "default", notices |-> "default", delegate |-> TRUE,
            coordinator |-> TRUE, compaction |-> Null, permission |-> Null,
            approver |-> FALSE, guards |-> <<>>, verifiers |-> <<>>,
            scope |-> Null, loop |-> "react", router |-> Null, judge |-> Null,
            llm |-> "http", tools |-> <<>>]

\* The engines of main: over JSON-RPC, and of the REPL.
Init ==
  /\ eng \in {[Default EXCEPT !.limits = "flags"],
              [Default EXCEPT !.limits = "flags", !.approver = TRUE,
                              !.permission = [deny |-> {}, allow |-> {}]]}
  /\ child = Null /\ remote = [k \in DOMAIN Builtins |-> {}] /\ given = {}

----------------------------------------------------------------------------
(* agent.configure.                                                        *)

\* Values a block may have in a request.  What is not valid stands for itself:
\* "unknown" is a name the code does not know.
BlockValues ==
  [limits |-> {"set"}, notices |-> {"set"},
   delegate |-> BOOLEAN, coordinator |-> BOOLEAN,
   compaction |-> {"disabled", "plain", "llm", "unknown"},
   permission |-> [enabled : {TRUE}, policy : Policies] \cup
                  [enabled : {FALSE}, policy : {[deny |-> {}, allow |-> {}]}],
   guards |-> {<<>>, <<"prompt_injection">>, <<"own", "prompt_injection">>},
   verifiers |-> {<<"non_empty">>, <<"own">>},
   scope |-> Scopes, loop |-> {"", "reaf", "unknown"}, router |-> {"", "own"},
   judge |-> {"", "own", "builtin", "unknown"}, llm |-> {"http", "remote", "unknown"}]

Blocks == DOMAIN BlockValues

Omitted == [b \in Blocks |-> Null]

Extend(requests, b) ==
  requests \cup {[p EXCEPT ![b] = v] : p \in requests, v \in BlockValues[b]}

\* The requests that give at most MaxBlocks blocks, or those and llm.
Requests ==
  LET Give[n \in 0..MaxBlocks] ==
        IF n = 0 THEN {Omitted}
        ELSE UNION {Extend(Give[n - 1], b) : b \in Blocks \ {"llm"}}
  IN Extend(Give[MaxBlocks], "llm")

\* resolveInputGuard and the others of its kind.
Resolve(kind, name) ==
  IF name \in Builtins[kind] THEN {<<name, "builtin">>}
  ELSE IF name \in remote[kind] THEN {<<name, "remote">>} ELSE {}

Resolved(kind, names) ==
  [i \in DOMAIN names |-> CHOOSE c \in Resolve(kind, names[i]) : TRUE]

Unresolved(kind, names) ==
  names # Null /\ \E i \in DOMAIN names : Resolve(kind, names[i]) = {}

\* The errors of rebuildEngine, which leave the engine before in place.
Refused(p) ==
  \/ p.compaction = "unknown"
  \/ Unresolved("guards", p.guards) \/ Unresolved("verifiers", p.verifiers)
  \/ p.loop = "unknown"
  \/ p.judge = "unknown" \/ (p.judge = "own" /\ "own" \notin remote.judges)
  \/ p.llm = "unknown"

Or(value, otherwise) == IF value = Null THEN otherwise ELSE value

\* The blocks that begin with defaultEngineConfig.  A summarizer is bound to
\* the LLM of the engine before, even by a request that changes it.
FromDefault(p) ==
  [Default EXCEPT
     !.limits = Or(p.limits, @), !.notices = Or(p.notices, @),
     !.delegate = Or(p.delegate, @), !.coordinator = Or(p.coordinator, @),
     !.compaction = IF p.compaction \in {Null, "disabled"} THEN @
                    ELSE IF p.compaction = "llm" THEN eng.llm ELSE "plain",
     !.permission = IF p.permission # Null /\ p.permission.enabled
                    THEN p.permission.policy ELSE @,
     !.guards = IF p.guards = Null THEN @ ELSE Resolved("guards", p.guards),
     !.verifiers = IF p.verifiers = Null THEN @ ELSE Resolved("verifiers", p.verifiers),
     !.scope = p.scope]

\* A part that is given by name is set, one that is omitted is carried over,
\* and one that is given without a name is neither.
Named(value, previous, default) ==
  IF value = Null THEN previous ELSE IF value = "" THEN default ELSE value

\* Slip: the judge is left to be configured again.
Slip_JudgeForgotten(p) ==
  [FromDefault(p) EXCEPT
     !.loop = Named(p.loop, eng.loop, @), !.router = Named(p.router, eng.router, @),
     !.judge = Named(p.judge, @, @),
     !.llm = IF p.llm = "remote" THEN "remote" ELSE eng.llm, !.tools = eng.tools]

\* llm.mode "http" keeps the driver there is.
Rebuilt(p) ==
  [FromDefault(p) EXCEPT
     !.loop = Named(p.loop, eng.loop, @), !.router = Named(p.router, eng.router, @),
     !.judge = Named(p.judge, eng.judge, @),
     !.llm = IF p.llm = "remote" THEN "remote" ELSE eng.llm, !.tools = eng.tools]

\* Busy while a run is in progress, so that no child is there.
Configure(p) ==
  /\ ~eng.approver /\ child = Null /\ ~Refused(p)
  /\ eng' = Rebuilt(p) /\ given' = {b \in Blocks : p[b] # Null}
  /\ UNCHANGED <<child, remote>>

----------------------------------------------------------------------------
(* guard.register, verifier.register, judge.register and tool.register.    *)

\* A batch ends at the first definition that is not valid ("", or a guard of no
\* known stage); those before it stay.  A name that is there is overwritten.
Register(kind, batch) ==
  LET valid == {i \in DOMAIN batch : \A j \in 1..i : batch[j] # ""} IN
  /\ ~eng.approver
  /\ remote' = [remote EXCEPT ![kind] = @ \cup {batch[i] : i \in valid}]
  /\ MapThenSumSet(LAMBDA k : Cardinality(remote'[k]), DOMAIN Builtins) <= MaxNames
  /\ UNCHANGED <<eng, child, given>>

\* Registry.Register refuses a name it has.  A run may be in progress.
RegisterTool(t) ==
  /\ t \notin ToSet(eng.tools)
  /\ eng' = [eng EXCEPT !.tools = Append(@, t)] /\ UNCHANGED <<child, remote, given>>

----------------------------------------------------------------------------
(* Engine.Fork.                                                            *)

\* Slip: a policy without rules is not worth passing on.
Slip_EmptyPolicyDropped(e) ==
  [Default EXCEPT
     !.limits = e.limits, !.delegate = FALSE, !.coordinator = FALSE,
     !.compaction = e.compaction,
     !.permission = IF e.permission = [deny |-> {}, allow |-> {}] THEN @ ELSE e.permission,
     !.guards = e.guards, !.verifiers = e.verifiers, !.loop = e.loop,
     !.router = e.router, !.judge = e.judge, !.llm = e.llm, !.tools = e.tools]

\* Not passed on: the approver, the tool scope and its budgets, notices.
Forked(e) ==
  [Default EXCEPT
     !.limits = e.limits, !.delegate = FALSE, !.coordinator = FALSE,
     !.compaction = e.compaction, !.permission = e.permission,
     !.guards = e.guards, !.verifiers = e.verifiers, !.loop = e.loop,
     !.router = e.router, !.judge = e.judge, !.llm = e.llm, !.tools = e.tools]

\* New, called by Fork through mustNew, takes no two tools of one name.
Panics(e) == ~IsInjective(e.tools)

Fork ==
  /\ child = Null /\ (eng.delegate \/ eng.coordinator)
  /\ child' = Forked(eng) /\ UNCHANGED <<eng, remote, given>>

ChildReturns == child # Null /\ child' = Null /\ UNCHANGED <<eng, remote, given>>

----------------------------------------------------------------------------
(* What an engine lets its model do.                                       *)

\* PermissionChecker.Check: deny, allow, read-only, ask, and otherwise no.
\* Without a policy there is no checker.
Allowed(e, t, approved) ==
  LET Hit(rules) == t \in rules \/ All \in rules IN
  \/ e.permission = Null
  \/ /\ ~Hit(e.permission.deny)
     /\ Hit(e.permission.allow) \/ t \in ReadOnly \/ (e.approver /\ approved)

\* Slip: a tool is offered until it has been called once more than it may.
Slip_OneCallMore(scope, t, calls) ==
  scope.budget[t] # Null /\ scope.budget[t] > 0 /\ calls[t] > scope.budget[t]

\* A budget of 0 is no limit.
Exhausted(scope, t, calls) ==
  scope.budget[t] # Null /\ scope.budget[t] > 0 /\ calls[t] >= scope.budget[t]

\* The members of s that are in S, in their order.
Kept(s, S) ==
  LET kept[i \in 0..Len(s)] ==
        IF i = 0 THEN <<>>
        ELSE IF s[i] \in S THEN Append(kept[i - 1], s[i]) ELSE kept[i - 1]
  IN kept[Len(s)]

\* Registry.ScopedFormatForPromptWithCalls: the tools the router reads of when
\* each has been called calls[t] times in this run.
Offered(e, calls) ==
  IF e.scope = Null THEN e.tools
  ELSE
    LET within == Kept(e.tools, {t \in Tools : ~Exhausted(e.scope, t, calls)})
        always == Kept(within, e.scope.always)
        rest   == Kept(within, Tools \ e.scope.always)
        room   == IF e.scope.max < Len(always) THEN 0 ELSE e.scope.max - Len(always)
    IN IF e.scope.max = 0 \/ e.scope.max >= Len(within) THEN within
       ELSE always \o SubSeq(rest, 1, room)

----------------------------------------------------------------------------
Batches(kind) ==
  LET names == Builtins[kind] \cup {"own", ""} IN
  {<<n>> : n \in names} \cup (IF kind = "judges" THEN {} ELSE names \X names)

Next ==
  \/ \E p \in Requests : Configure(p)
  \/ \E kind \in DOMAIN Builtins : \E batch \in Batches(kind) : Register(kind, batch)
  \/ \E t \in Tools : RegisterTool(t)
  \/ Fork \/ ChildReturns

Spec == Init /\ [][Next]_vars

----------------------------------------------------------------------------
(* Properties.                                                             *)

\* A sub-agent is permitted no tool that its parent is not, whatever the user
\* would answer the parent; the guards and verifiers of the parent check it, and
\* it has no sub-agents (engine.go:187-226).  The tool scope and its budgets are
\* not inherited and no part of this.
ChildNoFreer ==
  child # Null =>
    /\ \A t \in Tools, approved \in BOOLEAN :
         Allowed(child, t, approved) => Allowed(eng, t, approved)
    /\ child.guards = eng.guards /\ child.verifiers = eng.verifiers
    /\ ~child.delegate /\ ~child.coordinator

\* An engine can always be forked: its tools have names of their own, whatever
\* was registered and rebuilt (engine.go:257-266).
ForkNeverPanics == ~Panics(Forked(eng))

\* What answers to the name of a built-in guard or verifier is the built-in
\* one, even if the wrapper has registered that name (configure.go:298-349).
BuiltinsNotShadowed ==
  \A kind \in {"guards", "verifiers"} : \A i \in DOMAIN eng[kind] :
    eng[kind][i][1] \in Builtins[kind] => eng[kind][i][2] = "builtin"

\* A scope hides a tool from the router exactly if its budget is used up, or if
\* it is not always included and the room of max_tools is filled by others.
\* That the tools always included may be more than max_tools is how the code
\* has it (registry.go:93-137).  A budget of 0 is left out: the code has it limit
\* nothing, as registry.go:72 says, where methods.go:232 has it forbid the tool.
OfferedInScope ==
  \A calls \in [Tools -> 0..1] :
    eng.scope # Null /\ (\A t \in Tools : eng.scope.budget[t] # 0) =>
      LET offered == ToSet(Offered(eng, calls))
          within == {t \in ToSet(eng.tools) : eng.scope.budget[t] # 1 \/ calls[t] = 0}
          always == within \cap eng.scope.always
      IN /\ offered \subseteq within /\ always \subseteq offered
         /\ offered # within =>
              Cardinality(offered) =
                IF eng.scope.max < Cardinality(always) THEN Cardinality(always)
                ELSE eng.scope.max

\* Tools, the driver of the LLM, the loop, the router and the judge survive every
\* agent.configure that does not name them (configure.go:251-283).
PartsCarriedOver ==
  [][/\ IsPrefix(eng.tools, eng'.tools)
     /\ \A b \in {"loop", "router", "judge", "llm"} : eng'[b] # eng[b] => b \in given']_vars

\* agent.configure.md:3 says that what is omitted keeps its value.
OmittedFieldsKeep ==
  [][\A b \in Blocks : eng'[b] # eng[b] => b \in given']_vars
=============================================================================
