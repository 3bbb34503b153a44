------------------------------ MODULE RpcCalls ------------------------------
(***************************************************************************)
(* What Server.SendRequest promises its callers, without ids, channels,    *)
(* locks or lines: a call is begun once, may be put to the wrapper, and    *)
(* ends at most once, either in failure or with an answer the wrapper gave *)
(* to this very call after it had been asked.                              *)
(***************************************************************************)
EXTENDS Naturals

CONSTANT Calls

VARIABLES status, asked, given, value

vars == <<status, asked, given, value>>

Init ==
  /\ status = [c \in Calls |-> "new"]
  /\ asked = {} /\ given = {}
  /\ value = [c \in Calls |-> 0]

Begin(c) ==
  /\ status[c] = "new"
  /\ status' = [status EXCEPT ![c] = "open"]
  /\ UNCHANGED <<asked, given, value>>

Ask(c) ==
  /\ status[c] = "open"
  /\ asked' = asked \cup {c}
  /\ UNCHANGED <<status, given, value>>

Give(c) ==
  /\ c \in asked
  /\ given' = given \cup {c}
  /\ UNCHANGED <<status, asked, value>>

Succeed(c) ==
  /\ status[c] = "open" /\ c \in given
  /\ status' = [status EXCEPT ![c] = "answered"]
  /\ value' = [value EXCEPT ![c] = c]
  /\ UNCHANGED <<asked, given>>

Fail(c) ==
  /\ status[c] = "open"
  /\ status' = [status EXCEPT ![c] = "failed"]
  /\ UNCHANGED <<asked, given, value>>

Next == \E c \in Calls : Begin(c) \/ Ask(c) \/ Give(c) \/ Succeed(c) \/ Fail(c)

Spec == Init /\ [][Next]_vars
=============================================================================
