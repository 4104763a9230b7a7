--------------------------- MODULE RequestResponse ---------------------------
(***************************************************************************)
(* What the driver and the server together promise a caller: a call, once  *)
(* made, is processed at most once, and only then answered; a call may     *)
(* instead end by a timeout, which leaves open whether it is, or will      *)
(* still be, processed.                                                    *)
(***************************************************************************)
EXTENDS Integers

CONSTANTS
  Callers,    \* threads that make calls
  MaxCalls    \* bound: calls per thread

Calls == Callers \X (1..MaxCalls)

VARIABLES
  outcome,    \* outcome[k]: what the caller has been told of call k
  executions  \* executions[k]: how often call k was processed

vars == <<outcome, executions>>

Init ==
  /\ outcome = [k \in Calls |-> "none"]
  /\ executions = [k \in Calls |-> 0]

(* A caller makes its calls one after the other.                           *)
Ended(k) == outcome[k] \in {"answered", "timedOut"}

Call(c, n) ==
  /\ outcome[<<c, n>>] = "none"
  /\ \A i \in 1..(n - 1) : Ended(<<c, i>>)
  /\ outcome' = [outcome EXCEPT ![<<c, n>>] = "waiting"]
  /\ UNCHANGED executions

Execute(k) ==
  /\ outcome[k] # "none"
  /\ executions[k] = 0
  /\ executions' = [executions EXCEPT ![k] = 1]
  /\ UNCHANGED outcome

Return(k) ==
  /\ outcome[k] = "waiting"
  /\ executions[k] = 1
  /\ outcome' = [outcome EXCEPT ![k] = "answered"]
  /\ UNCHANGED executions

GiveUp(k) ==
  /\ outcome[k] = "waiting"
  /\ outcome' = [outcome EXCEPT ![k] = "timedOut"]
  /\ UNCHANGED executions

Next ==
  \/ \E c \in Callers, n \in 1..MaxCalls : Call(c, n)
  \/ \E k \in Calls : Execute(k) \/ Return(k) \/ GiveUp(k)

Spec == Init /\ [][Next]_vars
=============================================================================
