------------------------------ MODULE Dispatch ------------------------------
(***************************************************************************)
(* Orchestrator.cycle() and Orchestrator.work() of orchestrator.py: two    *)
(* roads by which a ready bead reaches an executor, run by processes that  *)
(* share one bead store (a scheduled `agentco cycle`, the daemon, an       *)
(* operator's `agentco work`).                                             *)
(*                                                                         *)
(* A pass reads the ready list ONCE and then works through that snapshot:  *)
(*                                                                         *)
(*   idle -Wake-> select -Select-> pick -claim-> run -> report | check     *)
(*                                  ^                     |                *)
(*                                  +-- rca <-- write <-- fail             *)
(*                                                                         *)
(* Executions take minutes to hours, so everything the others do can fall  *)
(* between two steps of a pass.  "fail" reads the bead for the fence,      *)
(* "write" reports FAILED under it, "rca" opens the analysis.  A raise on  *)
(* the way lands in the pass's own exception guard, which fails the bead   *)
(* again (guard = TRUE), this time with no attempt of its own.             *)
(*                                                                         *)
(* The store's verbs are single steps here; the races inside them are      *)
(* module BeadStore's.  Blockers are RunTree's, recurring work Recurring's.*)
(***************************************************************************)
EXTENDS Integers, FiniteSets

CONSTANTS
  Bead, Cycler, Worker,  \* beads; processes in cycle(); processes in work()
  Form,                  \* how beads are filed: see Filing
  Limit,                 \* beads one pass takes
  MaxTrouble,            \* bound: leases outlived, outages, crashes, retries; and the
                         \* attempts after which a bead's routing still goes wrong
  MaxRest,               \* bound: wakes slept through by the longest backoff
  None

\* Who a bead is routed to: the executor backends ("claude" by prompt,
\* "store" the same store-backed; "tool" for agy and forge), verify_child, an
\* in-process agent, a config-declared out-of-band agent, an unknown name.
Lane == {"claude", "store", "tool", "zai", "text", "planner",
         "verify", "builtin", "external", "typo"}

Backend == {"claude", "store", "tool", "zai", "text", "planner"}
Authenticated == {"claude", "store"}           \* _fail_claude's callers
SelfCompleting == {"store", "zai", "planner"}  \* the agent writes the result

\* What is wrong with the routing of a bead, if anything.
Bar == {"none", "workdir", "approval", "child", "requires", "egress",
        "provider", "credentials", "capability"}

\* Each of these can only be wrong with a bead of a certain lane.
Fits(lane, bar) ==
  /\ bar = "child" => lane = "verify"
  /\ bar \in {"requires", "provider", "credentials"} => lane = "text"
  /\ bar = "egress" => lane \in Backend \ {"planner"}

\* A bead is filed with an assigned_agent or without; the name is what routes
\* some beads, and says nothing of the others (a recurring definition may name
\* an agent on a bead its type or metadata.executor routes).
Filing == {f \in [lane: Lane, bar: Bar, named: BOOLEAN, gated: BOOLEAN, analysis: BOOLEAN] :
             Fits(f.lane, f.bar) /\ (f.lane \in {"external", "typo"} => f.named)}

ASSUME DispatchAssumption ==
  /\ Form \subseteq Filing
  /\ Limit \in Nat \ {0} /\ MaxTrouble \in Nat /\ MaxRest \in Nat
  /\ Cycler \cap Worker = {}
  /\ None \notin Bead \cup Cycler \cup Worker

VARIABLES
  beads,    \* the store
  pr,       \* the passes
  rest,     \* heartbeat.json: wakes left until next_due_at ...
  stretch,  \* ... and current_interval_s
  fresh,    \* a bead was created after cycle_completed_at
  trouble,  \* what went wrong so far, of MaxTrouble
  crashed,  \* history: some pass died
  tried,    \* history: beads an executor has worked on
  approved  \* history: beads a person let through approve()

vars == <<beads, pr, rest, stretch, fresh, trouble, crashed, tried, approved>>
clock == <<rest, stretch, fresh>>
history == <<trouble, crashed, tried, approved>>

Proc == Cycler \cup Worker

Status == {"absent", "waiting", "pending", "in_progress", "done", "parked", "failed"}
Task == [form: Filing, status: Status, agent: BOOLEAN, holder: Proc \cup {None},
         expiry: {"none", "future", "past"}, attempt: Nat, refused: BOOLEAN,
         proposed: BOOLEAN, answered: BOOLEAN]
Pass == [at: {"idle", "select", "pick", "run", "report", "check", "decide",
              "fail", "write", "rca"},
         queue: SUBSET Bead, unnamed: SUBSET Bead, bead: Bead \cup {None},
         attempt: Nat, fence: Nat,
         guard: BOOLEAN, outage: BOOLEAN, worked: BOOLEAN]

TypeOK ==
  /\ beads \in [Bead -> Task]
  /\ pr \in [Proc -> Pass]
  /\ rest \in 0..MaxRest /\ stretch \in 0..MaxRest
  /\ trouble \in 0..MaxTrouble
  /\ fresh \in BOOLEAN /\ crashed \in BOOLEAN
  /\ tried \subseteq Bead /\ approved \subseteq Bead

Idle == [at |-> "idle", queue |-> {}, unnamed |-> {}, bead |-> None,
         attempt |-> 0, fence |-> 0, guard |-> FALSE, outage |-> FALSE, worked |-> FALSE]

\* agent is _recorded_executor: named at filing, or left by a claim.
Filed(f, status, proposed) ==
  [form |-> f, status |-> status, agent |-> f.named, holder |-> None,
   expiry |-> "none", attempt |-> 0, refused |-> FALSE, proposed |-> proposed,
   answered |-> FALSE]

Blank == [lane |-> "builtin", bar |-> "none", named |-> TRUE, gated |-> FALSE,
          analysis |-> FALSE]

Init ==
  /\ beads = [b \in Bead |-> Filed(Blank, "absent", FALSE)]
  /\ pr = [p \in Proc |-> Idle]
  /\ rest = 0 /\ stretch = 0 /\ fresh = FALSE
  /\ trouble = 0 /\ crashed = FALSE /\ tried = {} /\ approved = {}

-----------------------------------------------------------------------------
(* What a pass reads.                                                       *)

LeaseActive(t) == t.holder # None /\ t.expiry = "future"
Ready(t) == t.status = "pending" /\ ~LeaseActive(t) /\ ~t.refused
ReadyNow == {b \in Bead : Ready(beads[b])}
Reapable(t) == t.status = "in_progress" /\ t.holder # None /\ t.expiry = "past"

\* _actionable_bead_count: what a wake inside the backoff still gets up for.
ActionableIfPending == \E b \in Bead : beads[b].status = "pending" /\ ~beads[b].refused
Actionable ==
  \E b \in Bead : beads[b].status \in {"pending", "in_progress"} /\ ~beads[b].refused

LaneOf(b) == beads[b].form.lane
BarOf(b) == beads[b].form.bar

\* One unknown name on two ready beads is a defect of the configuration.
ConfigShaped == Cardinality({b \in ReadyNow : LaneOf(b) = "typo"}) > 1

Offered == {b \in ReadyNow : LaneOf(b) # "external" /\ (LaneOf(b) = "typo" => ~ConfigShaped)}

Chosen(q) ==
  LET verifies == {b \in Offered : LaneOf(b) = "verify"} IN
  /\ q \subseteq Offered
  /\ Cardinality(q) <= Limit
  /\ Cardinality(verifies) <= Limit => verifies \subseteq q
  /\ Cardinality(verifies) > Limit => q \subseteq verifies /\ Cardinality(q) = Limit

-----------------------------------------------------------------------------
(* The pass.                                                                *)

\* The in-process path, which work() takes for every bead.
InProcess(p, b) == p \in Worker \/ LaneOf(b) \notin Backend \cup {"verify"}

\* What the snapshot says of its beads' agents; only the in-process path asks.
Snapshot(p, r, q) ==
  [r EXCEPT !.at = "pick", !.queue = q,
            !.unnamed = {b \in q : InProcess(p, b) /\ ~beads[b].agent}]

\* Every step of a pass by p that is about its bead moves the pass record.
Go(p, r) == pr' = [pr EXCEPT ![p] = r]

\* The next bead of the snapshot; an outage and the pass's work are kept.
Onward(r) == [r EXCEPT !.at = "pick", !.bead = None, !.attempt = 0, !.fence = 0,
                       !.guard = FALSE]
Worked(r) == [Onward(r) EXCEPT !.worked = TRUE]

\* The backoff gate: before next_due_at the wake is over unless something
\* asks for it.  reap_expired_leases runs before anything is read.
Skip(p) ==
  /\ pr[p].at = "idle" /\ p \in Cycler
  /\ rest > 0 /\ ~Actionable /\ ~fresh
  /\ rest' = rest - 1
  /\ UNCHANGED <<beads, pr, stretch, fresh, history>>

Reaped(t) == [t EXCEPT !.status = "pending", !.holder = None, !.expiry = "none"]

Wake(p) ==
  /\ pr[p].at = "idle" /\ p \in Cycler
  /\ rest = 0 \/ Actionable \/ fresh
  /\ beads' = [b \in Bead |-> IF Reapable(beads[b]) THEN Reaped(beads[b]) ELSE beads[b]]
  /\ Go(p, [Idle EXCEPT !.at = "select"])
  /\ UNCHANGED <<clock, history>>

SelectQueue(p, q) ==
  /\ pr[p].at = "select"
  /\ Chosen(q)
  /\ Go(p, Snapshot(p, pr[p], q))
  /\ UNCHANGED <<beads, clock, history>>

Select(p) == \E q \in SUBSET Bead : SelectQueue(p, q)

\* work(): the ready list up to the limit, with no cycle around it.
StartWork(p) ==
  /\ pr[p].at = "idle" /\ p \in Worker
  /\ ReadyNow # {}
  /\ \E q \in SUBSET ReadyNow :
       /\ q # {} /\ Cardinality(q) <= Limit
       /\ Go(p, Snapshot(p, Idle, q))
  /\ UNCHANGED <<beads, clock, history>>

\* The snapshot is used up: a cycle writes its heartbeat, at the baseline if
\* it worked or left something to do, and further out each idle time.
Finish(p) ==
  LET longer == IF 2 * stretch + 1 > MaxRest THEN MaxRest ELSE 2 * stretch + 1
      busy == pr[p].worked \/ Actionable
  IN /\ pr[p].at = "pick" /\ pr[p].queue = {}
     /\ Go(p, Idle)
     /\ IF p \in Cycler
        THEN /\ stretch' = IF busy THEN 0 ELSE longer
             /\ rest' = stretch'
             /\ fresh' = FALSE
        ELSE UNCHANGED clock
     /\ UNCHANGED <<beads, history>>

-----------------------------------------------------------------------------
(* Before the claim: the refusals of _execute_cycle_task and _execute_task. *)

Taking(p, b) == pr[p].at = "pick" /\ b \in pr[p].queue
Taken(p, b) == [pr[p] EXCEPT !.queue = @ \ {b}, !.unnamed = @ \ {b}, !.bead = b]

\* What stops the bead before anything is claimed, on the road p takes.
Barred(p, b) ==
  \/ BarOf(b) = "workdir"
  \/ BarOf(b) = "approval" /\ p \in Cycler
  \/ b \in pr[p].unnamed
  \/ InProcess(p, b) /\ BarOf(b) = "capability"
  \/ p \in Cycler /\ LaneOf(b) = "text" /\ BarOf(b) \in {"requires", "provider"}
  \/ p \in Cycler /\ LaneOf(b) \in Backend \ {"planner"} /\ BarOf(b) = "egress"

Defers(p, b) == p \in Cycler /\ pr[p].outage /\ LaneOf(b) \in Authenticated

Defer(p, b) ==
  /\ Taking(p, b) /\ Defers(p, b)
  /\ Go(p, Onward(Taken(p, b)))
  /\ UNCHANGED <<beads, clock, history>>

\* refuse_dispatch: a record on the bead, whose status stays as it is.
Refuse(p, b) ==
  /\ Taking(p, b) /\ ~Defers(p, b) /\ Barred(p, b)
  /\ beads' = [beads EXCEPT ![b].refused = TRUE]
  /\ Go(p, Worked(Taken(p, b)))
  /\ UNCHANGED <<clock, history>>

\* An out-of-band worker's bead, met by work().
Leave(p, b) ==
  /\ Taking(p, b) /\ ~Barred(p, b) /\ p \in Worker /\ LaneOf(b) = "external"
  /\ Go(p, Worked(Taken(p, b)))
  /\ UNCHANGED <<beads, clock, history>>

\* The child of a verify_child bead is looked up before the claim ...
UnknownChild(p, b) ==
  /\ Taking(p, b) /\ ~Barred(p, b)
  /\ p \in Cycler /\ LaneOf(b) = "verify" /\ BarOf(b) = "child"
  /\ Go(p, [Taken(p, b) EXCEPT !.at = "fail"])
  /\ UNCHANGED <<beads, clock, history>>

\* ... and a claim by a node that lacks a required capability raises, which
\* only the in-process path catches.
ClaimRaises(p, b) ==
  /\ Taking(p, b) /\ ~Defers(p, b) /\ ~Barred(p, b)
  /\ ~InProcess(p, b) /\ BarOf(b) = "capability"
  /\ Go(p, [Taken(p, b) EXCEPT !.at = "fail", !.guard = TRUE])
  /\ UNCHANGED <<beads, clock, history>>

Claimable(p, b) ==
  /\ Taking(p, b) /\ ~Defers(p, b) /\ ~Barred(p, b)
  /\ ~(p \in Worker /\ LaneOf(b) = "external")
  /\ ~InProcess(p, b) => BarOf(b) \notin {"child", "capability"}

CanClaim(t) == t.status = "pending" /\ ~LeaseActive(t)
Claimed(t, p) == [t EXCEPT !.status = "in_progress", !.agent = TRUE, !.holder = p,
                           !.expiry = "future", !.attempt = @ + 1]

\* get_agent() knows the built-in classes alone: any other name raises there,
\* with the bead already claimed.
NoSuchAgent(p, b) == InProcess(p, b) /\ LaneOf(b) # "builtin"

ClaimWon(p, b) ==
  LET n == beads[b].attempt + 1 IN
  /\ Claimable(p, b)
  /\ CanClaim(beads[b])
  /\ beads' = [beads EXCEPT ![b] = Claimed(@, p)]
  /\ IF NoSuchAgent(p, b)
     THEN /\ Go(p, [Taken(p, b) EXCEPT !.at = "fail", !.guard = TRUE, !.attempt = n])
          /\ UNCHANGED tried
     ELSE /\ Go(p, [Taken(p, b) EXCEPT !.at = "run", !.attempt = n])
          /\ tried' = tried \cup {b}
  /\ UNCHANGED <<clock, trouble, crashed, approved>>

\* None from claim(): the bead is somebody else's, and the pass moves on;
\* but the planner never looks at the answer.
ClaimLost(p, b) ==
  /\ Claimable(p, b)
  /\ ~CanClaim(beads[b])
  /\ IF p \in Cycler /\ LaneOf(b) = "planner"
     THEN Go(p, [Taken(p, b) EXCEPT !.at = "run"]) /\ tried' = tried \cup {b}
     ELSE Go(p, Worked(Taken(p, b))) /\ UNCHANGED tried
  /\ UNCHANGED <<beads, clock, trouble, crashed, approved>>

-----------------------------------------------------------------------------
(* The execution.                                                           *)

Running(p) == pr[p].at = "run"
Mine(p) == beads[pr[p].bead]
RunLane(p) == LaneOf(pr[p].bead)

\* A gated DONE goes to its verifier or waits for one.
Landing(t) == IF t.form.gated THEN {"done", "parked"} ELSE {"done"}
Ended(t, status) == [t EXCEPT !.status = status, !.holder = None, !.expiry = "none"]

\* `agentco tasks complete`, by the worked agent, under whatever attempt the
\* bead is on.
SelfComplete(p) ==
  /\ Running(p) /\ RunLane(p) \in SelfCompleting
  /\ Mine(p).status = "in_progress"
  /\ \E s \in Landing(Mine(p)) : beads' = [beads EXCEPT ![pr[p].bead] = Ended(@, s)]
  /\ UNCHANGED <<pr, clock, history>>

\* The executor comes back clean.
Return(p) ==
  /\ Running(p) /\ BarOf(pr[p].bead) # "credentials"
  /\ Go(p, [pr[p] EXCEPT !.at = IF RunLane(p) \in SelfCompleting THEN "check" ELSE "report"])
  /\ UNCHANGED <<beads, clock, history>>

\* Where a failure goes: _fail_with_rca, from the executor with the attempt
\* it was handed (the in-process agents and the planner pass none), or from
\* the pass's exception guard, which has none.
PassesAttempt(p) == RunLane(p) \notin {"builtin", "planner"}
Failing(p) ==
  [pr[p] EXCEPT !.at = "fail", !.fence = IF PassesAttempt(p) THEN pr[p].attempt ELSE 0]
Guarding(p) == [pr[p] EXCEPT !.at = "fail", !.fence = 0, !.guard = TRUE]

ReturnError(p) ==
  /\ Running(p) /\ BarOf(pr[p].bead) # "credentials"
  /\ Go(p, Failing(p)) \/ Go(p, Guarding(p))
  /\ UNCHANGED <<beads, clock, history>>

\* ProviderUnconfigured: a refusal, met with the bead already claimed.
Unconfigured(p) ==
  /\ Running(p) /\ BarOf(pr[p].bead) = "credentials"
  /\ beads' = [beads EXCEPT ![pr[p].bead].refused = TRUE]
  /\ Go(p, Worked(pr[p]))
  /\ UNCHANGED <<clock, history>>

\* _fail_claude on an auth outage: the bead goes back with a blind update.
AuthOutage(p) ==
  /\ Running(p) /\ RunLane(p) \in Authenticated
  /\ trouble < MaxTrouble
  /\ trouble' = trouble + 1
  /\ beads' = [beads EXCEPT ![pr[p].bead] = Reaped(@)]
  /\ Go(p, [Onward(pr[p]) EXCEPT !.outage = TRUE])
  /\ UNCHANGED <<clock, crashed, tried, approved>>

\* report_result(DONE), fenced on the attempt handed out; a LeaseError goes
\* to the guard.
Report(p) ==
  /\ pr[p].at = "report"
  /\ IF Mine(p).attempt = pr[p].attempt
     THEN /\ \E s \in Landing(Mine(p)) : beads' = [beads EXCEPT ![pr[p].bead] = Ended(@, s)]
          /\ Go(p, Worked(pr[p]))
     ELSE Go(p, Guarding(p)) /\ UNCHANGED beads
  /\ UNCHANGED <<clock, history>>

\* A store-backed execution is complete when the store says so.
Check(p) ==
  /\ pr[p].at = "check"
  /\ IF Mine(p).status # "done" THEN Go(p, Failing(p))
     ELSE IF RunLane(p) = "planner" THEN Go(p, [pr[p] EXCEPT !.at = "decide"])
     ELSE Go(p, Worked(pr[p]))
  /\ UNCHANGED <<beads, clock, history>>

-----------------------------------------------------------------------------
(* What executions propose: subtasks of a planner or an in-process agent.   *)

FileProposalPending(c, f) ==
  beads' = [beads EXCEPT ![c] = Filed([f EXCEPT !.bar = "approval"], "pending", TRUE)]
FileProposal(c, f) ==
  beads' = [beads EXCEPT ![c] = Filed([f EXCEPT !.bar = "approval"], "waiting", TRUE)]

Propose(p) ==
  /\ Running(p) /\ RunLane(p) = "builtin"
  /\ \E c \in Bead, f \in Form : beads[c].status = "absent" /\ FileProposal(c, f)
  /\ fresh' = TRUE
  /\ UNCHANGED <<pr, rest, stretch, history>>

\* _handle_planner_decision: a recommendation or a route is written on the
\* DONE planner bead for a person; decompose files what it proposes; anything
\* else fails the bead.
Decompose(p) ==
  /\ pr[p].at = "decide"
  /\ \E c \in Bead, f \in Form : beads[c].status = "absent" /\ FileProposal(c, f)
  /\ fresh' = TRUE
  /\ \E more \in BOOLEAN : Go(p, IF more THEN pr[p] ELSE Worked(pr[p]))
  /\ UNCHANGED <<rest, stretch, history>>

Decide(p) ==
  /\ pr[p].at = "decide"
  /\ Go(p, Worked(pr[p])) \/ Go(p, Failing(p))
  /\ UNCHANGED <<beads, clock, history>>

-----------------------------------------------------------------------------
(* _fail_with_rca.                                                          *)

\* A mutant of FailRead: every failure is reported, whoever worked.
FailReadBlind(p) ==
  /\ pr[p].at = "fail"
  /\ Go(p, [pr[p] EXCEPT !.at = "write", !.fence = IF @ = 0 THEN Mine(p).attempt ELSE @])
  /\ UNCHANGED <<beads, clock, history>>

\* Nobody recorded: a refusal, whatever went wrong.  Otherwise the fence is
\* the caller's attempt or the one the bead is on now.
FailRead(p) ==
  /\ pr[p].at = "fail"
  /\ IF Mine(p).agent
     THEN /\ Go(p, [pr[p] EXCEPT !.at = "write",
                     !.fence = IF @ = 0 THEN Mine(p).attempt ELSE @])
          /\ UNCHANGED beads
     ELSE /\ beads' = [beads EXCEPT ![pr[p].bead].refused = TRUE]
          /\ Go(p, [pr[p] EXCEPT !.at = "rca"])
  /\ UNCHANGED <<clock, history>>

FailLands(p) == pr[p].at = "write" /\ Mine(p).attempt = pr[p].fence

FailWriteSilently(p) ==
  /\ FailLands(p)
  /\ beads' = [beads EXCEPT ![pr[p].bead] = [Ended(@, "failed") EXCEPT !.answered = FALSE]]
  /\ Go(p, Worked(pr[p]))
  /\ UNCHANGED <<clock, history>>
FailWrite(p) ==
  /\ FailLands(p)
  /\ beads' = [beads EXCEPT ![pr[p].bead] = [Ended(@, "failed") EXCEPT !.answered = FALSE]]
  /\ Go(p, [pr[p] EXCEPT !.at = "rca"])
  /\ UNCHANGED <<clock, history>>

\* LeaseError: from the executor to the guard; in the guard of a cycle it is
\* printed and dropped, and out of work() it ends the process.
FailRaises(p) ==
  /\ pr[p].at = "write" /\ ~FailLands(p)
  /\ Go(p, IF ~pr[p].guard THEN Guarding(p) ELSE IF p \in Cycler THEN Worked(pr[p]) ELSE Idle)
  /\ UNCHANGED <<beads, clock, history>>

\* create_rca_task, for every bead that is not itself part of an analysis.
Analyse(p) ==
  /\ pr[p].at = "rca"
  /\ beads' = [beads EXCEPT ![pr[p].bead].answered = @ \/ ~Mine(p).form.analysis]
  /\ Go(p, Worked(pr[p]))
  /\ UNCHANGED <<clock, history>>

-----------------------------------------------------------------------------
(* Everybody else.                                                          *)

File(b) ==
  /\ beads[b].status = "absent"
  /\ \E f \in Form : beads' = [beads EXCEPT ![b] = Filed(f, "pending", FALSE)]
  /\ fresh' = TRUE
  /\ UNCHANGED <<pr, rest, stretch, history>>

Approve(b) ==
  /\ beads[b].status = "waiting"
  /\ beads' = [beads EXCEPT ![b].status = "pending", ![b].form.bar = "none"]
  /\ approved' = approved \cup {b}
  /\ UNCHANGED <<pr, clock, trouble, crashed, tried>>

\* `tasks unrefuse`, once what the refusal named has been put right, for which
\* somebody may have been assigned; it does not take the approval flag off.
Corrected(t, assign) ==
  [t EXCEPT !.refused = FALSE,
            !.agent = t.agent \/ assign,
            !.form = [t.form EXCEPT !.named = t.form.named \/ assign,
                                    !.bar = IF t.form.bar = "approval" THEN t.form.bar ELSE "none"]]

Unrefuse(b) ==
  /\ beads[b].refused
  /\ \E assign \in BOOLEAN : beads' = [beads EXCEPT ![b] = Corrected(@, assign)]
  /\ UNCHANGED <<pr, clock, history>>

\* The children, routes or providers the beads are routed by are edited, and
\* one that nothing was wrong with no longer goes where it says.  A pass that
\* has it in hand has looked already.
Misconfigure(b) ==
  /\ Ready(beads[b]) /\ BarOf(b) = "none" /\ beads[b].attempt <= MaxTrouble
  /\ \A p \in Proc : pr[p].bead # b
  /\ \E bar \in Bar \ {"approval"} :
       LET broken == [beads[b].form EXCEPT !.bar = bar] IN
       broken \in Form /\ beads' = [beads EXCEPT ![b].form = broken]
  /\ UNCHANGED <<pr, clock, history>>

Retry(b) ==
  /\ beads[b].status = "failed"
  /\ trouble < MaxTrouble
  /\ trouble' = trouble + 1
  /\ beads' = [beads EXCEPT ![b].status = "pending"]
  /\ UNCHANGED <<pr, clock, crashed, tried, approved>>

\* The clock passes lease_expires_at: of a lease nobody works under any more,
\* or (a trouble) of an execution that outlives its own.
Abandoned(b) == pr[beads[b].holder].bead # b

Expire(b) ==
  /\ LeaseActive(beads[b])
  /\ beads' = [beads EXCEPT ![b].expiry = "past"]
  /\ IF Abandoned(b) THEN UNCHANGED trouble
     ELSE trouble < MaxTrouble /\ trouble' = trouble + 1
  /\ UNCHANGED <<pr, clock, crashed, tried, approved>>

Crash(p) ==
  /\ pr[p].at # "idle"
  /\ trouble < MaxTrouble
  /\ trouble' = trouble + 1
  /\ crashed' = TRUE
  /\ Go(p, Idle)
  /\ UNCHANGED <<beads, clock, tried, approved>>

-----------------------------------------------------------------------------
Dispatching(p, b) ==
  \/ Defer(p, b)
  \/ Refuse(p, b)
  \/ Leave(p, b)
  \/ UnknownChild(p, b)
  \/ ClaimRaises(p, b)
  \/ ClaimWon(p, b)
  \/ ClaimLost(p, b)

Executing(p) ==
  \/ Return(p)
  \/ ReturnError(p)
  \/ Unconfigured(p)
  \/ AuthOutage(p)

Closing(p) ==
  \/ Report(p)
  \/ Check(p)
  \/ Decide(p)
  \/ FailRead(p)
  \/ FailWrite(p)
  \/ FailRaises(p)
  \/ Analyse(p)
  \/ Finish(p)

Proceed(p) ==
  \/ Wake(p)
  \/ Skip(p)
  \/ Select(p)
  \/ \E b \in Bead : Dispatching(p, b)
  \/ Executing(p)
  \/ Closing(p)

Next ==
  \/ \E p \in Proc : \/ Proceed(p)
                     \/ StartWork(p)
                     \/ SelfComplete(p)
                     \/ Propose(p)
                     \/ Decompose(p)
                     \/ Crash(p)
  \/ \E b \in Bead : File(b) \/ Approve(b) \/ Unrefuse(b) \/ Misconfigure(b) \/ Retry(b)
                        \/ Expire(b)

Spec == Init /\ [][Next]_vars

\* A scheduler wakes the cycle again and again, what it started returns (every
\* executor has a timeout), and time passes.  Nothing is assumed of people,
\* nor of triage beyond its own rule.
Fairness ==
  /\ \A p \in Cycler : WF_vars(Proceed(p))
  /\ \A b \in Bead : WF_vars(Expire(b))

FairSpec == Spec /\ Fairness

-----------------------------------------------------------------------------
(* Safety.                                                                  *)

\* Every failure of the work has its analysis: a FAILED bead outside the
\* analyses themselves has had one opened for that failure, or the pass that
\* failed it is about to, whichever road the failure took there; only the
\* death of a pass in between leaves a failure nobody looks at.
AnalysisComes(b) ==
  \/ beads[b].answered
  \/ \E p \in Proc : pr[p].at = "rca" /\ pr[p].bead = b

EveryFailureIsAnalysed ==
  ~crashed => \A b \in Bead :
    beads[b].status = "failed" /\ ~beads[b].form.analysis => AnalysisComes(b)

\* What an agent or the planner proposes is never worked on before a person
\* has approved it, on either road: the store alone keeps it from dispatch.
OnlyApprovedRuns == \A b \in tried : beads[b].proposed => b \in approved

\* A failure of the routing is not a failure of the work: what is wrong with
\* a bead's directory, its route, its egress or its credentials when a cycle
\* takes it is recorded as a refusal, and on no path does the cycle report
\* that bead FAILED, however often it was put right and tried before; and an
\* unknown child only under an agent that somebody named or a claim left.
RoutingIsNotFailure ==
  [][\A p \in Cycler : FailWrite(p) =>
       /\ BarOf(pr[p].bead) \notin {"workdir", "requires", "egress", "provider", "credentials"}
       /\ BarOf(pr[p].bead) = "child" => Mine(p).form.named \/ Mine(p).attempt > 0]_vars

\* A wake inside the backoff goes back to sleep only over a queue in which
\* there is nothing to hand out and nobody's lease to take back.
NothingOverslept ==
  [][\A p \in Cycler : Skip(p) =>
       \A b \in Bead : ~Ready(beads[b]) /\ (Reapable(beads[b]) => beads[b].refused)]_vars

\* The inductive strengthening of the two invariants.  A pass past its claim
\* is about a bead; what a pass holds or an executor has touched was ready
\* once, and what was ready once is neither unfiled nor waiting for approval
\* again; and nothing proposed gets ready but by approve().
InHandIsBead ==
  \A p \in Proc : pr[p].at \notin {"idle", "select", "pick"} => pr[p].bead \in Bead

Live(b) == beads[b].status \notin {"absent", "waiting"}

HeldIsLive ==
  /\ \A p \in Proc, b \in Bead : b \in pr[p].queue \/ b = pr[p].bead => Live(b)
  /\ \A b \in tried : Live(b)

LiveIsApproved == \A b \in Bead : Live(b) /\ beads[b].proposed => b \in approved

IInv ==
  /\ TypeOK
  /\ InHandIsBead
  /\ HeldIsLive
  /\ LiveIsApproved
  /\ OnlyApprovedRuns
  /\ EveryFailureIsAnalysed

\* What RoutingIsNotFailure rests on.  Whoever is stopped before the claim
\* for what `bar` says never has the bead in hand, but for an unknown child;
\* an agent is on record only by assignment or by a claim; and FAILED is
\* written only where one is.
Misroute == {"workdir", "requires", "egress", "provider"}

Cleared(at, bar) ==
  /\ at = "run" => bar \notin Misroute
  /\ at \in {"report", "check", "decide", "fail", "write"} =>
       bar \notin Misroute \cup {"credentials"}

RoutesInHand ==
  /\ \A b \in Bead : beads[b].agent => beads[b].form.named \/ beads[b].attempt > 0
  /\ \A p \in Cycler, b \in Bead : b = pr[p].bead =>
       /\ Cleared(pr[p].at, BarOf(b))
       /\ pr[p].at = "write" => beads[b].agent

-----------------------------------------------------------------------------
(* Liveness.                                                                *)

Settled(b) == beads[b].status \in {"done", "parked", "failed"} \/ beads[b].refused


-----------------------------------------------------------------------------
(* What docstrings and tests say, and the code does not.                    *)

\* report_result: the outcome of an execution whose lease was lost and whose
\* bead was handed out again is not written ("superseded, not lost").
SupersededNeverFails ==
  [][\A p \in Proc : FailWrite(p) => pr[p].attempt \in {0, Mine(p).attempt}]_vars

\* _execute_task: a bead this node lacks a capability for is refused, and
\* "reaches a terminal, visible state" by that refusal.
MisrouteIsRefused ==
  \A b \in Bead : BarOf(b) = "capability" => beads[b].status # "failed"

\* _fail_with_rca: a child that does not exist "cannot be reported" FAILED
\* ("no lease, no executor"), for it would count a typo as work that was tried.
UnknownChildIsRefused ==
  [][\A p \in Cycler : FailWrite(p) => BarOf(pr[p].bead) # "child"]_vars

\* backends.register_executor_backend: a registered name is dispatchable.
BackendNameDispatches ==
  \A b \in Bead : beads[b].status = "failed" /\ LaneOf(b) \in Backend => b \in tried

\* _claim: an executor whose claim did not stick must not proceed.
RunsOnlyUnderClaim == \A p \in Proc : Running(p) => pr[p].attempt > 0

\* report_result: an outcome parked for its verifier is not a failure.
ParkedIsNotFailed ==
  [][\A p \in Proc : FailWrite(p) => Mine(p).status # "parked"]_vars
=============================================================================
