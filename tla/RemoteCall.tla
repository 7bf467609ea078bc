----------------------------- MODULE RemoteCall -----------------------------
(***************************************************************************)
(* What a caller may rely on when a method of UserManager or GroupManager  *)
(* is executed by another machine: it is executed at most once, a success  *)
(* says that it was, and an error says nothing: it may have been executed, *)
(* or even be executed after the error was reported.                       *)
(***************************************************************************)
CONSTANT Slot     \* calls under way at the same time

VARIABLES
  phase,      \* idle, open: the caller waits, or closed: it has the outcome
  performed,  \* has the server executed the call?
  outcome     \* what the caller got

vars == <<phase, performed, outcome>>

Init ==
  /\ phase = [s \in Slot |-> "idle"]
  /\ performed = [s \in Slot |-> FALSE]
  /\ outcome = [s \in Slot |-> "none"]

Invoke(s) ==
  /\ phase[s] = "idle"
  /\ phase' = [phase EXCEPT ![s] = "open"]
  /\ UNCHANGED <<performed, outcome>>

Perform(s) ==
  /\ phase[s] # "idle" /\ ~performed[s]
  /\ performed' = [performed EXCEPT ![s] = TRUE]
  /\ UNCHANGED <<phase, outcome>>

Finish(s, o) ==
  /\ phase[s] = "open"
  /\ phase' = [phase EXCEPT ![s] = "closed"]
  /\ outcome' = [outcome EXCEPT ![s] = o]
  /\ UNCHANGED performed

Succeed(s) == performed[s] /\ Finish(s, "success")

Fail(s) == Finish(s, "failure")

\* Nothing of the call is left on the way.
Settle(s) ==
  /\ phase[s] = "closed"
  /\ phase' = [phase EXCEPT ![s] = "idle"]
  /\ performed' = [performed EXCEPT ![s] = FALSE]
  /\ outcome' = [outcome EXCEPT ![s] = "none"]

Next == \E s \in Slot : Invoke(s) \/ Perform(s) \/ Succeed(s) \/ Fail(s) \/ Settle(s)

Spec == Init /\ [][Next]_vars
=============================================================================
