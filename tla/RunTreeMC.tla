------------------------------ MODULE RunTreeMC ------------------------------
(* A small instance of RunTree, looked at in two scenes: runs whose filing   *)
(* is refused half way while their steps are worked, with faults; and a run  *)
(* whose one step is another procedure, which is to be closed level by level.*)
EXTENDS RunTree

MCProcedure == {"ship", "release", "wrap", "deep", "notes", "missing"}

Work(role, after) == [uses |-> None, after |-> after, role |-> role]
Uses(p, after) == [uses |-> p, after |-> after, role |-> "agent"]

\* An agent's step, and a person's that follows it.
TwoSteps == [p \in MCProcedure |-> <<Work("agent", {}), Work("human", {1})>>]

\* Steps in order, then one whose procedure is not there; steps that lie deeper
\* than the bound; and, after test_a_nested_container_closes_and_propagates_upward,
\* a run whose one step is another procedure.
MCSteps == [TwoSteps EXCEPT
              !["ship"] = <<Work("human", {}), Work("agent", {1}), Uses("missing", {})>>,
              !["release"] = <<Uses("deep", {})>>,
              !["deep"] = <<Uses("notes", {})>>,
              !["wrap"] = <<Uses("notes", {})>>]

\* Only the nested runs have a container, and it is their second bead.
Nested == filed >= 2 /\ 2 \in Bead /\ beads[2].owner # "agent" /\ "verify" \notin beads[2].meta

Asked(verbs) == \A c \in Call : calls[c].verb \in verbs \cup {None}
Never(statuses) == \A b \in Bead : beads[b].status \notin statuses

ARefusedRun ==
  ~Nested /\ Asked({"complete", "retry", "reap", "cancel", "refuse"})
          /\ Never({"awaiting_verify"})

ANestedRun ==
  Nested /\ Asked({"complete", "approve", "pin", "refuse"})
         /\ Never({"failed", "verify_failed"})

Scenes == ARefusedRun \/ ANestedRun
=============================================================================
