------------------------ MODULE AtMostOnceOperation ------------------------
(***************************************************************************)
(* What the governed execution boundary promises about each operation (an  *)
(* idempotency key of a tool): it is begun at most once, its effect happens*)
(* at most once and only after it was begun, and it is concluded at most   *)
(* once, with an outcome that is true of the effect or says "uncertain".   *)
(* ADR-0022 states this promise; GovernedExecution implements it.          *)
(***************************************************************************)
CONSTANTS
  Ops,       (* operations                                                 *)
  ReadOnly   (* those without a lasting effect: they may fail afterwards   *)

VARIABLES
  status,    (* absent, begun, or the terminal fact                        *)
  effect     (* none, possible (released to a provider), performed, prevented *)

Outcomes == {"ExecutionSucceeded", "ExecutionFailed",
             "ExecutionCancelled", "ExecutionOutcomeUncertain"}

Init ==
  /\ status = [o \in Ops |-> "absent"]
  /\ effect = [o \in Ops |-> "none"]

Begin(o) ==
  /\ status[o] = "absent"
  /\ status' = [status EXCEPT ![o] = "begun"]
  /\ UNCHANGED effect

\* Cancelled before anybody began it.
Abandon(o) ==
  /\ status[o] = "absent"
  /\ status' = [status EXCEPT ![o] = "ExecutionCancelled"]
  /\ UNCHANGED effect

Release(o) ==
  /\ status[o] = "begun" /\ effect[o] = "none"
  /\ effect' = [effect EXCEPT ![o] = "possible"]
  /\ UNCHANGED status

\* The effect may come late, after the operation was declared uncertain.
Perform(o) ==
  /\ effect[o] = "possible"
  /\ effect' = [effect EXCEPT ![o] = "performed"]
  /\ UNCHANGED status

Prevent(o) ==
  /\ effect[o] = "possible" /\ status[o] = "begun"
  /\ effect' = [effect EXCEPT ![o] = "prevented"]
  /\ UNCHANGED status

\* The outcomes an operation may be given under an effect that stays so.
Truthful(o, e) ==
  CASE e = "performed" -> {"ExecutionSucceeded", "ExecutionOutcomeUncertain"}
    [] e = "possible"  -> {"ExecutionOutcomeUncertain"}
    [] e = "prevented" -> {"ExecutionFailed", "ExecutionCancelled"}
    [] e = "none"      -> {"ExecutionCancelled"}

Conclude(o) ==
  \E outcome \in Outcomes, e \in {effect[o], "prevented"} :
    /\ status[o] = "begun"
    /\ e # effect[o] => effect[o] = "possible"
    /\ outcome \in Truthful(o, e) \/ (o \in ReadOnly /\ outcome = "ExecutionFailed")
    /\ status' = [status EXCEPT ![o] = outcome]
    /\ effect' = [effect EXCEPT ![o] = e]

Next == \E o \in Ops : \/ Begin(o) \/ Abandon(o) \/ Release(o)
                      \/ Perform(o) \/ Prevent(o) \/ Conclude(o)

Spec == Init /\ [][Next]_<<status, effect>>
=============================================================================
