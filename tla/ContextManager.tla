--------------------------- MODULE ContextManager ---------------------------
(***************************************************************************)
(* The message history of an engine and its compaction: the Manager of     *)
(* internal/context/manager.go and the cascade of compaction.go.           *)
(*                                                                         *)
(* A run adds messages and lets the history be compacted at the beginning  *)
(* of a turn (engine.go: maybeCompact); meanwhile other requests inject    *)
(* messages and change the tokens reserved for the prompt.  Each method of *)
(* the manager holds its mutex to the end and is one action.               *)
(*                                                                         *)
(* The usage ratios are token counts here: Threshold and Target are the    *)
(* configured fractions of the token limit.  A text is what the cascade    *)
(* tells apart; its size in tokens is drawn from Sizes or fixed by what it *)
(* was cut down to.                                                        *)
(***************************************************************************)
EXTENDS Integers, Sequences, FiniteSets, FiniteSetsExt, SequencesExt

CONSTANTS
  Sizes,         \* tokens of a message somebody wrote
  Reserves,      \* tokens the prompt and the tool definitions may take
  Threshold,     \* tokens from which the history is compacted
  Target,        \* tokens below which the cascade stops
  KeepLast,      \* CompactionConfig.KeepLast
  Budget,        \* CompactionConfig.BudgetMaxChars, as tokens
  TrimmedSize,   \* tokens of a tool result that was cut down to the budget,
  MaskedSize,    \* of "[observation masked]",
  MarkerSize,    \* of "[n earlier messages snipped]",
  SummarySize,   \* and of a summary
  Positions,     \* where session.inject may put messages
  MaxMessages    \* bound: messages written in one behaviour

ASSUME SizesAssumption ==
  /\ Sizes \subseteq Nat /\ Reserves \subseteq Nat
  /\ {Threshold, Target, KeepLast, Budget, MaxMessages} \subseteq Nat
  /\ {TrimmedSize, MaskedSize, MarkerSize, SummarySize} \subseteq Nat
ASSUME PositionsAssumption == Positions \subseteq {"prepend", "append", "replace"}

VARIABLES
  entries,    \* Manager.entries
  tokenCount,
  reserved,   \* Manager.reservedTokens
  exceeded,   \* what the observers were told last
  open,       \* the call whose result is still to be added, 0 if none
  written     \* messages written so far, by anybody

managerVars == <<entries, tokenCount, reserved, exceeded, open, written>>

Ids == 0..MaxMessages

\* id names a message, of is the call that a tool result answers.
Message(role, text, id, of, size) ==
  [role |-> role, text |-> text, id |-> id, of |-> of, size |-> size]

Said(size)      == Message("user", "whole", written + 1, 0, size)
Call(size)      == Message("assistant", "call", written + 1, 0, size)
Result(c, size) == Message("tool", "whole", written + 1, c, size)
Marker(text)    ==
  Message("user", text, 0, 0, IF text = "marker" THEN MarkerSize ELSE SummarySize)

Total(es) ==
  LET total[i \in 0..Len(es)] == IF i = 0 THEN 0 ELSE total[i - 1] + es[i].size
  IN total[Len(es)]

ManagerInit ==
  /\ entries = <<>> /\ tokenCount = 0 /\ reserved \in Reserves
  /\ exceeded = (reserved >= Threshold)
  /\ open = 0 /\ written = 0

----------------------------------------------------------------------------
(* The cascade.                                                            *)

usageRatioMet(es) == reserved + Total(es) < Target

\* Every tool result over the budget is cut, the protected ones too.
budgetTrim(es) ==
  [i \in 1..Len(es) |->
     IF Budget > 0 /\ es[i].role = "tool" /\ es[i].text = "whole" /\ es[i].size > Budget
       THEN [es[i] EXCEPT !.text = "trimmed", !.size = TrimmedSize]
       ELSE es[i]]

\* Slip: the protected results are masked too.
Slip_MasksAll(es) ==
  [i \in 1..Len(es) |->
     IF es[i].role = "tool"
       THEN [es[i] EXCEPT !.text = "masked", !.size = MaskedSize]
       ELSE es[i]]

observationMask(es) ==
  [i \in 1..Len(es) |->
     IF i + KeepLast <= Len(es) /\ es[i].role = "tool"
       THEN [es[i] EXCEPT !.text = "masked", !.size = MaskedSize]
       ELSE es[i]]

\* The positions of calls that have a result behind the first cut messages.
findToolCallAssistant(es, cut) ==
  {c \in 1..Len(es) :
     /\ es[c].text = "call"
     /\ \E i \in (cut + 1)..Len(es) : c < i /\ es[i].of = es[c].id}

\* Slips: the pair at the boundary is not looked for; the call is left out
\* of what is kept.
Slip_Unadjusted(es) == IF KeepLast >= Len(es) THEN 0 ELSE Len(es) - KeepLast
Slip_AdjustsTooFar(es) ==
  IF KeepLast >= Len(es) THEN 0
  ELSE LET cut == Len(es) - KeepLast IN
       IF findToolCallAssistant(es, cut) = {} THEN cut ELSE 0

\* How many messages may go: all but the last KeepLast, and none from the
\* first call on whose result is among those.
adjustKeepBoundary(es) ==
  IF KeepLast >= Len(es) THEN 0
  ELSE LET cut == Len(es) - KeepLast IN
       Min({cut} \cup {c - 1 : c \in findToolCallAssistant(es, cut)})

\* snip and compact put one message in the place of those that go.
Replaced(es, text) ==
  LET cut == adjustKeepBoundary(es) IN
  IF cut = 0 THEN es ELSE <<Marker(text)>> \o SubSeq(es, cut + 1, Len(es))

snip(es) == Replaced(es, "marker")

\* The first three stages, each only if the one before was not enough.
Stages(es) ==
  LET trimmed == budgetTrim(es)
      masked  == IF usageRatioMet(trimmed) THEN trimmed ELSE observationMask(trimmed)
  IN IF usageRatioMet(masked) THEN masked ELSE snip(masked)

----------------------------------------------------------------------------
(* The manager.                                                            *)

checkThreshold(r, n) == exceeded' = (r + n >= Threshold)

\* Slip: the count of what was there before is kept.
Slip_CountsOn(es) ==
  /\ entries' = es /\ tokenCount' = tokenCount + Total(es)
  /\ checkThreshold(reserved, tokenCount')

replaceEntries(es) ==
  /\ entries' = es /\ tokenCount' = Total(es)
  /\ checkThreshold(reserved, tokenCount')

Add(m) ==
  /\ written < MaxMessages /\ written' = written + 1
  /\ entries' = Append(entries, m)
  /\ tokenCount' = tokenCount + m.size
  /\ checkThreshold(reserved, tokenCount')
  /\ UNCHANGED reserved

SetReserved(r) ==
  /\ r # reserved /\ reserved' = r
  /\ checkThreshold(r, tokenCount)
  /\ UNCHANGED <<entries, tokenCount, open, written>>

\* A prompt, an answer, a verifier's remark: the cascade does not tell them apart.
AddMessage(size) == open = 0 /\ Add(Said(size)) /\ UNCHANGED open

\* A call and its result are added one after the other.
AddCall(size) == open = 0 /\ Add(Call(size)) /\ open' = written + 1

AddResult(size) == open # 0 /\ Add(Result(open, size)) /\ open' = 0

\* A wrapper injects at any time, between a call and its result too.  What it
\* injects is well formed: a call comes with its result.
Injected ==
  {<<Said(s)>> : s \in Sizes}
  \cup {<<Call(s), [Result(written + 1, s) EXCEPT !.id = written + 2]>> : s \in Sizes}

Inject(ms, position) ==
  /\ written + Len(ms) <= MaxMessages /\ written' = written + Len(ms)
  /\ replaceEntries(CASE position = "prepend" -> ms \o entries
                      [] position = "append"  -> entries \o ms
                      [] position = "replace" -> ms)
  /\ UNCHANGED <<reserved, open>>

\* maybeCompact and Manager.Compact, at the beginning of a turn.  The last
\* stage asks the summarizer, if there is one, and changes nothing at all when
\* that fails.
Compact(summarizer) ==
  LET left == Stages(entries)
      cut  == adjustKeepBoundary(left)
  IN
  /\ open = 0 /\ reserved + tokenCount >= Threshold
  /\ \/ /\ usageRatioMet(left) \/ summarizer = "none" \/ cut = 0
        /\ replaceEntries(left)
     \/ /\ ~usageRatioMet(left) /\ summarizer # "none" /\ cut # 0
        /\ IF summarizer = "fails"
             THEN UNCHANGED <<entries, tokenCount, exceeded>>
             ELSE replaceEntries(Replaced(left, "summary"))
  /\ UNCHANGED <<reserved, open, written>>

----------------------------------------------------------------------------

ManagerNext ==
  \/ \E s \in Sizes : AddMessage(s) \/ AddCall(s) \/ AddResult(s)
  \/ \E ms \in Injected, position \in Positions : Inject(ms, position)
  \/ \E r \in Reserves : SetReserved(r)
  \/ \E summarizer \in {"none", "answers", "fails"} : Compact(summarizer)

ManagerSpec == ManagerInit /\ [][ManagerNext]_managerVars

----------------------------------------------------------------------------
(* Properties.                                                             *)

\* Of all steps only a compaction leaves these alone.
Compacting == written' = written /\ reserved' = reserved

\* The tool results without their call before them.
Orphans(es) ==
  {es[i].id : i \in {j \in 1..Len(es) :
     /\ es[j].role = "tool"
     /\ ~\E c \in 1..(j - 1) : es[c].text = "call" /\ es[c].id = es[j].of}}

\* A compaction takes no tool result away from its call, whichever of the two
\* are protected and whatever was injected between them: an API that is given
\* such a history refuses it (compaction.go: adjustKeepBoundary).
PairsSurvive ==
  [][Compacting => Orphans(entries') \subseteq Orphans(entries)]_managerVars

\* What the manager counts and what it told its observers is what is there,
\* although one of its methods adds to the count and the others begin anew.
CountsAgree ==
  /\ tokenCount = Total(entries)
  /\ exceeded = (reserved + tokenCount >= Threshold)

\* The largest cut that leaves KeepLast messages and separates no pair: the
\* definition that the search in adjustKeepBoundary is to meet.
Separates(es, cut) ==
  \E c \in 1..cut, i \in (cut + 1)..Len(es) : es[c].text = "call" /\ es[i].of = es[c].id

BestCut(es) ==
  Max({0} \cup {cut \in 1..Len(es) : cut + KeepLast <= Len(es) /\ ~Separates(es, cut)})

\* When a compaction has changed the history, the target is met or nothing but
\* a single marker is left that could go: no message that could go was kept.
CompactedEnough ==
  [][Compacting /\ entries' # entries =>
       \/ usageRatioMet(entries)'
       \/ BestCut(entries') = 0
       \/ BestCut(entries') = 1 /\ entries'[1].text \in {"marker", "summary"}]_managerVars

\* The last KeepLast messages come through a compaction as they are, but for
\* tool results over the budget (docs/api/concepts/compaction.md, stages).
ProtectedKept ==
  [][Compacting =>
       \A k \in 1..Min({KeepLast, Len(entries)}) :
         LET old == entries[Len(entries) + 1 - k]
             new == entries'[Len(entries') + 1 - k]
         IN \/ new = old
            \/ /\ old.role = "tool" /\ old.size > Budget
               /\ new = [old EXCEPT !.text = "trimmed", !.size = TrimmedSize]]_managerVars
=============================================================================
