----------------------------- MODULE DispatchMC -----------------------------
(* Cycles: passes over beads of every form, two cycles that take two beads   *)
(* in a pass, meet an outage and rest, and the verdicts of a parent on a     *)
(* child, side by side.  A behaviour is one of them alone, chosen at the     *)
(* start; the passes are looked at in two scenes.                            *)
EXTENDS Dispatch, TLC

CONSTANTS
  part, d1, d2, cycle1, cycle2,
  Own, Base, Cap, Factor, Outage, Rest, MaxOutage, MaxTime, Never   \* of ChildWatch

\* Where an outage can be told from the evidence: the host is away for longer
\* than the parent's own deadline allows, and then up for longer than one
\* interval of the child, which is of the parent's order.
ASSUME WatchAssumption ==
  /\ {Own, Base, Cap, Factor, Rest} \subseteq Nat \ {0}
  /\ Own <= Base /\ Base <= 2 * Own /\ Base <= Cap /\ Base < Rest
  /\ Outage \subseteq Nat /\ \A d \in Outage : d > Own + (3 * Own) \div 2
  /\ Never \notin Int

VARIABLES
  on,                                                     \* the component
  dBeads, dPr, dRest, dStretch, dFresh, dTrouble, dCrashed, dTried, dApproved,
  wNow, wUp, wChild, wWedged, wParent, wVerdict, wOutages

deskVars == <<dBeads, dPr, dRest, dStretch, dFresh, dTrouble, dCrashed, dTried, dApproved>>
watchVars == <<wNow, wUp, wChild, wWedged, wParent, wVerdict, wOutages>>

As(lane, bar, gated) ==
  [lane |-> lane, bar |-> bar, named |-> TRUE, gated |-> gated, analysis |-> FALSE]
Unnamed(lane, bar) == [As(lane, bar, FALSE) EXCEPT !.named = FALSE]

\* A bead of every road through a pass that differs from the others in what
\* is claimed, refused, reported or failed.
Mixed == {As("builtin", "none", FALSE), As("text", "credentials", FALSE),
          As("external", "none", FALSE), As("verify", "child", FALSE),
          Unnamed("verify", "child"),
          As("planner", "none", FALSE), As("claude", "none", TRUE),
          As("tool", "capability", FALSE)}

JustBuiltin == {As("builtin", "none", FALSE)}

dBead == {d1, d2}
dCycler == {cycle1, cycle2}
dWorker == {}
dForm == {As("claude", "none", FALSE)}

Desk == INSTANCE Dispatch WITH
  Bead <- dBead, Cycler <- dCycler, Worker <- dWorker, Form <- dForm,
  Limit <- 2, MaxTrouble <- 1, MaxRest <- 1,
  beads <- dBeads, pr <- dPr, rest <- dRest, stretch <- dStretch, fresh <- dFresh,
  trouble <- dTrouble, crashed <- dCrashed, tried <- dTried, approved <- dApproved

-----------------------------------------------------------------------------
\* A unit of time is half an hour: the parent's interval an hour, the child's
\* two, and four backed off.  The host is away for three hours or longer, and
\* then up for two and a half.
Watch == INSTANCE ChildWatch WITH
  now <- wNow, up <- wUp, child <- wChild, wedged <- wWedged, parent <- wParent,
  verdict <- wVerdict, outages <- wOutages

-----------------------------------------------------------------------------
MCInit == on \in part /\ Init /\ Desk!Init /\ Watch!Init

\* Beads on every road but one, each filed with an agent, under a configuration
\* that stays as it is; and a verification, which is filed with one or without,
\* of a child that comes and goes.
New(b) == beads[b].status = "absent" /\ beads'[b].status # "absent"
Breaks(b) == BarOf(b) = "none" /\ beads'[b].form.bar # "none"
OtherRoads ==
  \A b \in Bead : IF New(b) THEN beads'[b].form.lane # "verify" ELSE ~Breaks(b)
Verification ==
  \A b \in Bead : New(b) =>
    beads'[b].form.lane = "verify" /\ \A c \in Bead : beads[c].status = "absent"

MCNext ==
  \/ on = "pass" /\ Next /\ OtherRoads /\ UNCHANGED <<on, deskVars, watchVars>>
  \/ on = "verify" /\ Next /\ Verification /\ UNCHANGED <<on, deskVars, watchVars>>
  \/ on = "desk" /\ Desk!Next /\ UNCHANGED <<on, vars, watchVars>>
  \/ on = "watch" /\ Watch!Next /\ UNCHANGED <<on, vars, deskVars>>

MCSpec == MCInit /\ [][MCNext]_<<on, vars, deskVars, watchVars>>

\* The beads of a pass are interchangeable.
Names == Permutations(Bead)

\* Dispatch: a wake inside the backoff misses no work that arrived since.
DeskOversleepsNothing == Desk!NothingOverslept

\* ChildWatch: a child that works is not reported for an outage of its host.
NoFalseAlarm == Watch!NoFalseAlarm

\* ChildWatch: a child that has stopped is reported.
WedgedIsReported == Watch!WedgedIsReported
=============================================================================
