------------------------------ MODULE RcaChainMC ------------------------------
(* A small instance of RcaChain, looked at in two scenes: many reports of    *)
(* failures around investigations that are answered with a follow-up, and    *)
(* one investigation that goes through its phases and cycles.                *)
EXTENDS RcaChain, TLC

\* Names of reporters, workers and subjects are interchangeable.
Names == Permutations(Reporter) \cup Permutations(Worker) \cup Permutations(Subject)

ManyReports ==
  /\ filed <= 3 /\ leases <= 2 /\ Cardinality(reaping) <= 1
  /\ reports <= 2 \/ (reopened = {} /\ reaping = {})
  /\ \A b \in Id : beads[b].phase \in {"absent", "analyze", "fix"}

OneInvestigation ==
  /\ reports = 0 \/ (reports = 1 /\ \E s \in Subject : subject[s] = "failed")
  /\ Cardinality({beads[b].lease : b \in Id} \ {None}) <= 1
  /\ reopened = {} /\ ungated = {} /\ \A b \in Id : beads[b].phase # "fix"
  /\ reaping = {} \/ (Cardinality(reaping) = 1 /\ leases <= 3)

Scenes == ManyReports \/ OneInvestigation
=============================================================================
