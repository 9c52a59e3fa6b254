------------------------ MODULE MCGovernedExecution ------------------------
(***************************************************************************)
(* Small instances of GovernedExecution for TLC.  Calls are symmetric:     *)
(* nothing orders them and no constant mentions one of them.               *)
(***************************************************************************)
EXTENDS GovernedExecution, TLC

CONSTANTS c1, c2, c3, lookup, publish, patch, s1, s2, t1, a1

CallSymmetry == Permutations(Calls)

MCOps == {lookup, publish, patch}

\* A cooperative read that needs no approval, an irreversible mutation that
\* cannot be cancelled, and a cooperative mutation the provider can deduplicate.
MCContract ==
     lookup  :> [reversibility |-> "read_only", cooperative |-> TRUE,
                 requires_approval |-> FALSE, accepts_idempotency |-> TRUE]
  @@ publish :> [reversibility |-> "irreversible_mutation", cooperative |-> FALSE,
                 requires_approval |-> FALSE, accepts_idempotency |-> FALSE]
  @@ patch   :> [reversibility |-> "idempotent_mutation", cooperative |-> TRUE,
                 requires_approval |-> FALSE, accepts_idempotency |-> TRUE]

\* Two scopes on one resource (say two inputs) exercise scope conflicts; the
\* approvals tell resources apart.
MCResource == s1 :> "prod" @@ s2 :> "staging"

Ask(kind, op, scope, trace) == [kind |-> kind, op |-> op, scope |-> scope, trace |-> trace]

\* Execution, retry and cancellation of one mutation race for its stream.
RaceRequests == {Ask("execute", patch, s1, NoTrace), Ask("execute", patch, s2, NoTrace),
                 Ask("cancelQueued", patch, s1, t1)}

\* A mutation that needs approval, for two resources, beside a mutation and a
\* read that do not.
MixedRequests ==
  {Ask("execute", publish, s1, t1), Ask("execute", publish, s2, t1),
   Ask("cancelQueued", publish, s1, t1), Ask("execute", lookup, s1, t1),
   Ask("execute", patch, s1, NoTrace), Ask("cancelQueued", patch, s1, NoTrace)}

MixedRows == {[op |-> publish, resource |-> "prod", decision |-> d] : d \in {"approved", "denied"}}
=============================================================================
