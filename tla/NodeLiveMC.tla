----------------------------- MODULE NodeLiveMC -----------------------------
(* Small instances of three components under their own fairness, side by     *)
(* side: the hub mirror, with two items so that one can be in the way of the *)
(* other, the filing of runs, and the cycle.  A behaviour is one component's *)
(* alone, chosen at the start, and leaves the others where they begin.  The  *)
(* hub is looked at in two scenes: one pull with everything that becomes of  *)
(* its mirrors, and two pulls that race to file them.                        *)
EXTENDS HubMirror

CONSTANTS part, None, k1, b1, b2, cycler, p1

VARIABLES
  on,
  tBeads, tFiled, tFiler, tClosing, tOffered, tWork, tCalls, tReleased, tLost,
  dBeads, dPr, dRest, dStretch, dFresh, dTrouble, dCrashed, dTried, dApproved

treeVars == <<tBeads, tFiled, tFiler, tClosing, tOffered, tWork, tCalls, tReleased, tLost>>
dispatchVars ==
  <<dBeads, dPr, dRest, dStretch, dFresh, dTrouble, dCrashed, dTried, dApproved>>

-----------------------------------------------------------------------------
\* One item behind a gate that an attestation answers, one behind a person's.
MCItem == {"deploy", "review"}
MCGate == [i \in MCItem |-> IF i = "deploy" THEN "deterministic" ELSE "human"]

-----------------------------------------------------------------------------
(* A run whose one step is another procedure.                               *)

tProcedure == {"ship", "release", "notes", "missing"}
tRunnable == {"ship"}
tFilable == {"ship", "release", "notes"}
tCall == {k1}
tOutcome == {"done"}
tVerb == {"complete", "refuse"}

Step(role, uses, after) == [uses |-> uses, after |-> after, role |-> role]
tSteps ==
  [p \in tProcedure |->
     IF p = "ship" THEN <<Step("agent", "release", {})>>
     ELSE <<Step("agent", None, {}), Step("human", None, {1})>>]

Tree == INSTANCE RunTree WITH
  Procedure <- tProcedure, StepsOf <- tSteps, Runnable <- tRunnable, Filable <- tFilable,
  MaxDepth <- 3, MaxBead <- 4, MaxAttempt <- 1, Call <- tCall, Outcome <- tOutcome,
  Verb <- tVerb, None <- None,
  beads <- tBeads, filed <- tFiled, filer <- tFiler, closing <- tClosing,
  offered <- tOffered, work <- tWork, calls <- tCalls, released <- tReleased, lost <- tLost

-----------------------------------------------------------------------------
(* Verifications of children among other work, in cycles that may die.      *)

dBead == {b1, b2}
dCycler == {cycler}
dWorker == {}
Filed(lane) ==
  [lane |-> lane, bar |-> "none", named |-> lane # "verify", gated |-> FALSE, analysis |-> FALSE]
dForm == {Filed("verify"), Filed("claude")}

Cycle == INSTANCE Dispatch WITH
  Bead <- dBead, Cycler <- dCycler, Worker <- dWorker, Form <- dForm,
  Limit <- 1, MaxTrouble <- 1, MaxRest <- 0, None <- None,
  beads <- dBeads, pr <- dPr, rest <- dRest, stretch <- dStretch, fresh <- dFresh,
  trouble <- dTrouble, crashed <- dCrashed, tried <- dTried, approved <- dApproved

-----------------------------------------------------------------------------
NodeInit == on \in part /\ Init /\ Tree!Init /\ Cycle!Init

OnHub(A) == on = "hub" /\ A /\ UNCHANGED <<on, treeVars, dispatchVars>>
OnPulls(A) == on = "pulls" /\ A /\ UNCHANGED <<on, treeVars, dispatchVars>>
OnTree(A) == on = "tree" /\ A /\ UNCHANGED <<on, vars, dispatchVars>>
OnCycle(A) == on = "cycle" /\ A /\ UNCHANGED <<on, vars, treeVars>>

OnePull == \A p \in Puller \ {p1} : pullers'[p] = Idle

NodeNext ==
  \/ OnHub(Next /\ OnePull)
  \/ OnPulls(\E i \in Item : LeaseRunsOut(i) \/ LeasedElsewhere(i))
  \/ OnPulls(\E p \in Puller : Pulling(p))
  \/ OnTree(Tree!Next)
  \/ OnCycle(Cycle!Next)

nodeVars == <<on, vars, treeVars, dispatchVars>>

\* The fairness of each, of the component the behaviour is of.
NodeFairness ==
  /\ \A r \in Reporter : /\ WF_nodeVars(OnHub(StartSync(r)))
                         /\ WF_nodeVars(OnHub(Send(r)))
                         /\ WF_nodeVars(OnHub(WriteReceipt(r)))
  /\ WF_nodeVars(OnTree(Tree!Cascade)) /\ WF_nodeVars(OnTree(Tree!File))
  /\ WF_nodeVars(OnTree(Tree!Working)) /\ WF_nodeVars(OnTree(Tree!Landing))
  /\ SF_nodeVars(OnTree(Tree!Daemon))
  /\ \A b \in 2..4 : SF_nodeVars(OnTree(Tree!Finishing(b)))
  /\ \A p \in dCycler : WF_nodeVars(OnCycle(Cycle!Proceed(p)))
  /\ \A b \in dBead : WF_nodeVars(OnCycle(Cycle!Expire(b)))

NodeSpec == NodeInit /\ [][NodeNext]_nodeVars /\ NodeFairness

-----------------------------------------------------------------------------
(* HeardUnlessRefusedBefore is HubMirror's own.                             *)

\* RunTree: a run that is filed closes, whoever interleaves with its filing.
RunCloses == Tree!RunCloses

=============================================================================
