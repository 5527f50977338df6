------------------------------- MODULE RcaChain -------------------------------
(***************************************************************************)
(* Root-cause investigations (agentco_harness/rca.py).  A failed bead, its *)
(* subject, gets an analysis bead; agents work the phases                  *)
(*                                                                         *)
(*     analyze -> verify_plan -> execute (approval) -> validate            *)
(*                                                                         *)
(* and a rejected plan or fix starts the next cycle, up to MaxCycle.       *)
(* create_rca_task() is four steps on the store, each with its own read or *)
(* lock: find_existing_rca_root, find_closed_rca_root, create (which       *)
(* refuses a second bead with one natural key) and the update that pins    *)
(* the gate.  Failures are reported by several processes at once, and a    *)
(* process can die between any two steps.                                  *)
(***************************************************************************)
EXTENDS Integers, FiniteSets

CONSTANTS
  Subject,    \* beads whose failures are investigated
  Error,      \* failure messages
  Reporter,   \* processes that report failures: cycles, the rca command
  Worker,     \* agents that work the phases
  Way,        \* what analysts do with a finding: "advance", "fix"
  MaxCycle,   \* MAX_RCA_CYCLES
  MaxBeads,   \* bound on the beads of all investigations
  MaxReports, \* bound on the reports of failures
  MaxLeases,  \* bound on the leases handed out
  None        \* no subject, message or worker

ASSUME RcaAssumption ==
  /\ MaxCycle \in Nat \ {0}
  /\ MaxBeads \in Nat /\ MaxReports \in Nat /\ MaxLeases \in Nat
  /\ Way \subseteq {"advance", "fix"}
  /\ Reporter \cap Worker = {}
  /\ None \notin Subject \cup Error \cup Worker

Process == Reporter \cup Worker
Id == 1..MaxBeads    \* in the order of filing; 0 is no bead
Phase == {"analyze", "verify_plan", "execute", "validate"}

VARIABLES
  beads,      \* the beads of the investigations
  filed,      \* how many have been filed
  subject,    \* the subjects: "ready" or "failed"
  reports,    \* how many failures were reported
  leases,     \* how many leases were handed out
  calls,      \* create_rca_task and the next cycle's filing, under way
  work,       \* what each agent has claimed and what it read
  ungated,    \* history: analyses completed while no gate was pinned
  reopened,   \* history: beads put back to work after they were closed
  reaping     \* beads the reaper read with a lapsed lease and has yet to write

vars == <<beads, filed, subject, reports, leases, calls, work, ungated, reopened, reaping>>

-----------------------------------------------------------------------------
(* Records.  A follow-up bead ("fix") and the escalation to a person are    *)
(* ordinary beads; only that they exist matters here, not their status.     *)

Bead == [phase: Phase \cup {"fix", "escalated", "absent"},
         status: {"pending", "pending_approval", "in_progress", "done",
                  "failed", "verify_failed"},
         for: Subject \cup {None}, error: Error \cup {None},
         cycle: 0..MaxCycle, root: 0..MaxBeads, after: 0..MaxBeads,
         parent: 0..MaxBeads, gated: BOOLEAN, also: SUBSET Subject,
         lease: Worker \cup {None}]

Step == [stage: {"idle", "find", "prior", "create", "fold", "pin"},
         subject: Subject \cup {None}, error: Error \cup {None},
         bead: 0..MaxBeads, also: SUBSET Subject, over: SUBSET Id]

Job == [bead: 0..MaxBeads, root: 0..MaxBeads, advanced: BOOLEAN,
        gate: {"unread", "none", "passed", "failed"}]

Absent == [phase |-> "absent", status |-> "pending", for |-> None,
           error |-> None, cycle |-> 0, root |-> 0, after |-> 0, parent |-> 0,
           gated |-> FALSE, also |-> {}, lease |-> None]
Idle == [stage |-> "idle", subject |-> None, error |-> None, bead |-> 0,
         also |-> {}, over |-> {}]
Free == [bead |-> 0, root |-> 0, advanced |-> FALSE, gate |-> "unread"]

TypeOK ==
  /\ beads \in [Id -> Bead]
  /\ filed \in 0..MaxBeads
  /\ subject \in [Subject -> {"ready", "failed"}]
  /\ reports \in 0..MaxReports
  /\ leases \in 0..MaxLeases
  /\ calls \in [Process -> Step]
  /\ work \in [Worker -> Job]
  /\ ungated \subseteq Id
  /\ reopened \subseteq Id
  /\ reaping \subseteq Id

-----------------------------------------------------------------------------
(* What the code reads off the store.                                       *)

Open == {"pending", "pending_approval", "in_progress"}

Analyses == {b \in Id : beads[b].phase = "analyze"}
OpenAnalyses == {b \in Analyses : beads[b].status \in Open}

\* source_id "rca-for:<subject>:cycle1": the roots of a subject.
RootsOf(s) == {b \in Analyses : beads[b].for = s /\ beads[b].cycle = 1}

\* The natural key gen|rca|<subject>|cycle<n>[@after:<root>].
Holders(s, cycle, after) ==
  {b \in Analyses : /\ beads[b].for = s
                    /\ beads[b].cycle = cycle
                    /\ beads[b].after = after}

First(S) == CHOOSE b \in S : \A c \in S : b <= c
Latest(S) == CHOOSE b \in S : \A c \in S : c <= b

\* A root bead carries no rca_root until its second write.
RootOf(b) == IF beads[b].root = 0 THEN b ELSE beads[b].root

Index(phase) == CASE phase = "analyze" -> 1 [] phase = "verify_plan" -> 2
                  [] phase = "execute" -> 3 [] phase = "validate" -> 4
                  [] OTHER -> 0

\* has_terminal_action: bead t carries the investigation of b forward.
Follows(t, b) ==
  /\ t # b
  /\ \/ beads[t].phase = "fix" /\ beads[t].parent \in {b, RootOf(b)}
     \/ /\ beads[t].root = RootOf(b)
        /\ \/ beads[t].phase = "escalated"
           \/ beads[t].cycle > beads[b].cycle
           \/ /\ beads[t].cycle = beads[b].cycle
              /\ Index(beads[t].phase) > Index(beads[b].phase)

HasTerminalAction(b) == \E t \in Id : Follows(t, b)

-----------------------------------------------------------------------------
Init ==
  /\ beads = [b \in Id |-> Absent]
  /\ filed = 0
  /\ subject = [s \in Subject |-> "ready"]
  /\ reports = 0
  /\ leases = 0
  /\ calls = [p \in Process |-> Idle]
  /\ work = [w \in Worker |-> Free]
  /\ ungated = {}
  /\ reopened = {}
  /\ reaping = {}

File(bead) ==
  /\ filed < MaxBeads
  /\ filed' = filed + 1
  /\ beads' = [beads EXCEPT ![filed + 1] = bead]

Analysis(s, e, cycle, root, after) ==
  [Absent EXCEPT !.phase = "analyze", !.for = s, !.error = e, !.cycle = cycle,
                 !.root = root, !.after = after, !.parent = root]

-----------------------------------------------------------------------------
(* create_rca_task(), one step per read or write of the store.              *)

\* "over" is history: the subject's roots that were closed when the call
\* looked and have not been open since.
Begin(p, s, e) ==
  /\ calls[p].stage = "idle"
  /\ reports < MaxReports
  /\ reports' = reports + 1
  /\ calls' = [calls EXCEPT ![p] = [Idle EXCEPT !.stage = "find", !.subject = s,
                                                !.error = e]]

\* _fail_with_rca: the bead is reported failed, then investigated.
Fail(p, s, e) ==
  /\ subject[s] = "ready"
  /\ subject' = [subject EXCEPT ![s] = "failed"]
  /\ Begin(p, s, e)
  /\ UNCHANGED <<beads, filed, leases, work, ungated, reopened, reaping>>

\* `agentco rca`: an operator asks for the investigation of a failed bead.
AskForRca(p, s, e) ==
  /\ subject[s] = "failed"
  /\ Begin(p, s, e)
  /\ UNCHANGED <<beads, filed, subject, leases, work, ungated, reopened, reaping>>

\* find_existing_rca_root: the open root of this bead, else an open analysis
\* of the same error, of whatever bead and cycle.
Existing(s, e) ==
  LET bySource == RootsOf(s) \cap OpenAnalyses
      byError == {b \in OpenAnalyses : beads[b].error = e}
  IN IF bySource # {} THEN bySource ELSE byError

FindExisting(p) ==
  LET c == calls[p]
      found == Existing(c.subject, c.error)
      r == First(found)
  IN /\ c.stage = "find"
     /\ calls' = [calls EXCEPT ![p] =
          IF found = {} THEN [c EXCEPT !.stage = "prior", !.over = RootsOf(c.subject)]
          ELSE IF r \in RootsOf(c.subject) \/ c.subject \in beads[r].also THEN Idle
          ELSE [c EXCEPT !.stage = "fold", !.bead = r, !.also = beads[r].also]]
     /\ UNCHANGED <<beads, filed, subject, reports, leases, work, ungated, reopened, reaping>>

\* The failure joins the root found; the list written is the one read then.
Fold(p) ==
  LET c == calls[p]
  IN /\ c.stage = "fold"
     /\ beads' = [beads EXCEPT ![c.bead].also = c.also \cup {c.subject}]
     /\ calls' = [calls EXCEPT ![p] = Idle]
     /\ UNCHANGED <<filed, subject, reports, leases, work, ungated, reopened, reaping>>

\* (Mutants of Prior: any root counts as closed; the first closed one is taken.)
PriorOfAny(s) == IF RootsOf(s) = {} THEN 0 ELSE Latest(RootsOf(s))
PriorFirst(s) ==
  LET closed == RootsOf(s) \ OpenAnalyses
  IN IF closed = {} THEN 0 ELSE First(closed)

\* find_closed_rca_root: the latest closed root of this bead.
Prior(s) ==
  LET closed == RootsOf(s) \ OpenAnalyses
  IN IF closed = {} THEN 0 ELSE Latest(closed)

FindPrior(p) ==
  LET c == calls[p]
  IN /\ c.stage = "prior"
     /\ calls' = [calls EXCEPT ![p].stage = "create", ![p].bead = Prior(c.subject),
                               ![p].over = @ \ OpenAnalyses]
     /\ UNCHANGED <<beads, filed, subject, reports, leases, work, ungated, reopened, reaping>>

\* (A mutant of CreateOrReturn: the natural key is not looked up.)
CreateAnyway(p, c, bead) ==
  /\ File(bead)
  /\ calls' = [calls EXCEPT ![p] =
       [c EXCEPT !.stage = "pin", !.bead = filed + 1, !.also = {}]]

\* Beads.create under the lock: the bead that holds the natural key, or a new
\* one.  Either way the caller goes on to pin, with the metadata it got back.
CreateOrReturn(p, c, bead) ==
  LET held == Holders(bead.for, bead.cycle, bead.after)
  IN \/ /\ held # {}
        /\ calls' = [calls EXCEPT ![p] =
             [c EXCEPT !.stage = "pin", !.bead = First(held),
                       !.also = beads[First(held)].also]]
        /\ UNCHANGED <<beads, filed>>
     \/ /\ held = {}
        /\ File(bead)
        /\ calls' = [calls EXCEPT ![p] =
             [c EXCEPT !.stage = "pin", !.bead = filed + 1, !.also = {}]]

CreateRoot(p) ==
  LET c == calls[p]
  IN /\ c.stage = "create"
     /\ CreateOrReturn(p, c, Analysis(c.subject, c.error, 1, 0, c.bead))
     /\ UNCHANGED <<subject, reports, leases, work, ungated, reopened, reaping>>

\* The second write: the gate, a root's own rca_root, and the metadata of the
\* create, whatever was written since.
Pin(p) ==
  LET c == calls[p]
  IN /\ c.stage = "pin"
     /\ beads' = [beads EXCEPT ![c.bead].gated = TRUE, ![c.bead].also = c.also,
                    ![c.bead].root = IF p \in Reporter THEN c.bead ELSE @]
     /\ calls' = [calls EXCEPT ![p] = Idle]
     /\ UNCHANGED <<filed, subject, reports, leases, work, ungated, reopened, reaping>>

\* The process dies inside the call, or it raises.
Crash(p) ==
  /\ calls[p].stage # "idle"
  /\ calls' = [calls EXCEPT ![p] = Idle]
  /\ UNCHANGED <<beads, filed, subject, reports, leases, work, ungated, reopened, reaping>>

-----------------------------------------------------------------------------
(* Agents at work on the phases.                                            *)

Claim(w, b) ==
  /\ work[w] = Free /\ calls[w].stage = "idle"
  /\ beads[b].phase \in Phase /\ beads[b].status = "pending"
  /\ beads' = [beads EXCEPT ![b].status = "in_progress", ![b].lease = w]
  /\ work' = [work EXCEPT ![w] = [Free EXCEPT !.bead = b, !.root = RootOf(b)]]
  /\ leases < MaxLeases /\ leases' = leases + 1
  /\ UNCHANGED <<filed, subject, reports, calls, ungated, reopened, reaping>>

\* w still runs on its bead and has not asked to complete it.
Working(w) ==
  /\ work[w].bead # 0 /\ work[w].gate = "unread"
  /\ calls[w].stage = "idle"

\* advance_rca reads phase, cycle and root off the bead the agent was given.
Advances(w) ==
  /\ "advance" \in Way
  /\ Working(w) /\ ~work[w].advanced
  /\ work' = [work EXCEPT ![w].advanced = TRUE]
  /\ UNCHANGED <<subject, reports, leases, reopened, reaping>>

Successor == [analyze |-> "verify_plan", verify_plan |-> "execute",
              execute |-> "validate"]

\* The phase is done and the next one is filed; execute waits for approval.
Advance(w) ==
  LET b == beads[work[w].bead]
  IN /\ Advances(w)
     /\ b.phase \in DOMAIN Successor
     /\ File([Absent EXCEPT !.phase = Successor[b.phase], !.for = b.for,
                !.cycle = b.cycle, !.root = work[w].root, !.parent = work[w].root,
                !.status = IF Successor[b.phase] = "execute"
                             THEN "pending_approval" ELSE "pending"])
     /\ UNCHANGED <<calls, ungated>>

\* validate found the failure fixed: complete(root), through the root's gate.
Fixed(w) ==
  LET r == work[w].root
  IN /\ Advances(w)
     /\ beads[work[w].bead].phase = "validate"
     /\ beads' = [beads EXCEPT ![r].status =
          IF beads[r].gated /\ ~HasTerminalAction(r) THEN "verify_failed" ELSE "done"]
     /\ ungated' = IF beads[r].gated THEN ungated ELSE ungated \cup {r}
     /\ UNCHANGED <<filed, calls>>

\* (A mutant of NextCycle: the cycle before is counted, not the next one.)
NextCycleLate(w) ==
  LET b == beads[work[w].bead]
      r == work[w].root
  IN /\ Advances(w)
     /\ b.phase \in {"verify_plan", "validate"}
     /\ b.cycle <= MaxCycle
     /\ CreateOrReturn(w, Idle, Analysis(b.for, beads[r].error, b.cycle + 1, r, 0))
     /\ UNCHANGED ungated

\* _loop_or_escalate: a rejected plan or a fix that did not hold.
NextCycle(w) ==
  LET b == beads[work[w].bead]
      r == work[w].root
  IN /\ Advances(w)
     /\ b.phase \in {"verify_plan", "validate"}
     /\ b.cycle + 1 <= MaxCycle
     /\ CreateOrReturn(w, Idle, Analysis(b.for, beads[r].error, b.cycle + 1, r, 0))
     /\ UNCHANGED ungated

\* (A mutant of Escalate: the limit is met one cycle early.)
EscalateEarly(w) ==
  LET b == beads[work[w].bead]
      r == work[w].root
  IN /\ Advances(w)
     /\ b.phase \in {"verify_plan", "validate"}
     /\ b.cycle + 1 >= MaxCycle
     /\ File([Absent EXCEPT !.phase = "escalated", !.for = b.for, !.root = r,
                            !.parent = r])
     /\ UNCHANGED <<calls, ungated>>

Escalate(w) ==
  LET b == beads[work[w].bead]
      r == work[w].root
  IN /\ Advances(w)
     /\ b.phase \in {"verify_plan", "validate"}
     /\ b.cycle + 1 > MaxCycle
     /\ File([Absent EXCEPT !.phase = "escalated", !.for = b.for, !.root = r,
                            !.parent = r])
     /\ UNCHANGED <<calls, ungated>>

\* `agentco tasks create --parent`, under a bead being worked or turned down by
\* its gate, or under the root of such a bead.
FileFix(b) ==
  /\ "fix" \in Way
  /\ beads[b].phase \in Phase /\ beads[b].status \in {"in_progress", "verify_failed"}
  /\ \E parent \in {b, RootOf(b)} :
       File([Absent EXCEPT !.phase = "fix", !.parent = parent])
  /\ UNCHANGED <<subject, reports, leases, calls, work, ungated, reopened, reaping>>

\* Completion, before the lock: the gate is read and rca-check is run.
RunGate(w) ==
  LET b == work[w].bead
  IN /\ Working(w)
     /\ work' = [work EXCEPT ![w].gate =
          IF ~beads[b].gated THEN "none"
          ELSE IF HasTerminalAction(b) THEN "passed" ELSE "failed"]
     /\ UNCHANGED <<beads, filed, subject, reports, leases, calls, ungated, reopened, reaping>>

\* (A mutant of Report: the gate is not compared with the one that was read.)
ReportUncompared(w) ==
  LET b == work[w].bead
  IN /\ work[w].gate # "unread"
     /\ work' = [work EXCEPT ![w] = Free]
     /\ \/ /\ beads[b].lease # w
           /\ UNCHANGED <<beads, ungated>>
        \/ /\ beads[b].lease = w
           /\ beads' = [beads EXCEPT ![b].status =
                IF work[w].gate = "failed" THEN "verify_failed" ELSE "done"]
           /\ ungated' = IF beads[b].gated THEN ungated ELSE ungated \cup {b}
     /\ UNCHANGED <<filed, subject, reports, leases, calls, reopened, reaping>>

\* Completion, under the lock: refused when the lease has moved on, to be
\* repeated when the gate changed since it was read.
Report(w) ==
  LET b == work[w].bead
      gateMoved == beads[b].gated # (work[w].gate # "none")
  IN /\ work[w].gate # "unread"
     /\ \/ /\ beads[b].lease # w
           /\ work' = [work EXCEPT ![w] = Free]
           /\ UNCHANGED <<beads, ungated>>
        \/ /\ beads[b].lease = w /\ gateMoved
           /\ work' = [work EXCEPT ![w].gate = "unread"]
           /\ UNCHANGED <<beads, ungated>>
        \/ /\ beads[b].lease = w /\ ~gateMoved
           /\ work' = [work EXCEPT ![w] = Free]
           /\ beads' = [beads EXCEPT ![b].status =
                IF work[w].gate = "failed" THEN "verify_failed" ELSE "done"]
           /\ ungated' = IF beads[b].gated THEN ungated ELSE ungated \cup {b}
     /\ UNCHANGED <<filed, subject, reports, leases, calls, reopened, reaping>>

\* The agent fails: its bead is failed, and being an RCA bead gets no RCA.
FailWork(w) ==
  LET b == work[w].bead
  IN /\ Working(w)
     /\ beads' = IF beads[b].lease = w THEN [beads EXCEPT ![b].status = "failed"]
                 ELSE beads
     /\ work' = [work EXCEPT ![w] = Free]
     /\ UNCHANGED <<filed, subject, reports, leases, calls, ungated, reopened, reaping>>

\* The agent's process ends without a report.
Vanish(w) ==
  /\ work[w].bead # 0 /\ calls[w].stage = "idle"
  /\ work' = [work EXCEPT ![w] = Free]
  /\ UNCHANGED <<beads, filed, subject, reports, leases, calls, ungated, reopened, reaping>>

-----------------------------------------------------------------------------
(* The lease reaper, the release and the operator.                          *)

\* Beads.update back to pending, which compares nothing: what the caller read
\* may be old, and a bead that was closed since is open again.
PutBack(b) ==
  /\ beads' = [beads EXCEPT ![b].status = "pending"]
  /\ reopened' = IF beads[b].status \in Open THEN reopened ELSE reopened \cup {b}
  /\ UNCHANGED <<filed, subject, reports, leases, calls, ungated>>

\* reap_expired_leases lists what is in progress under a lapsed lease ...
ReapRead(b) ==
  /\ beads[b].phase \in Phase /\ beads[b].status = "in_progress"
  /\ b \notin reaping /\ reaping' = reaping \cup {b}
  /\ UNCHANGED <<beads, filed, subject, reports, leases, calls, work, ungated, reopened>>

\* ... and then writes each of them.  It keeps lease_attempt: the old worker
\* may still report until the bead is claimed again.
Reap(b) ==
  /\ b \in reaping /\ reaping' = reaping \ {b}
  /\ PutBack(b)
  /\ UNCHANGED work

\* _fail_claude: the command line could not log in, and the bead goes back as
\* the reaper would leave it, whoever has it by now.
Release(w) ==
  /\ Working(w)
  /\ PutBack(work[w].bead)
  /\ work' = [work EXCEPT ![w] = Free]
  /\ UNCHANGED reaping

SetStatus(b, from, to) ==
  /\ beads[b].phase \in Phase /\ beads[b].status = from
  /\ beads' = [beads EXCEPT ![b].status = to]
  /\ UNCHANGED <<filed, subject, reports, leases, calls, work, ungated, reaping>>

Approve(b) == SetStatus(b, "pending_approval", "pending") /\ UNCHANGED reopened

\* `tasks retry`.
RetryAnalysis(b) ==
  /\ SetStatus(b, "failed", "pending")
  /\ reopened' = reopened \cup {b}

\* Completing again a bead in verify_failed runs its gate again.
CompleteAgain(b) ==
  /\ HasTerminalAction(b)
  /\ SetStatus(b, "verify_failed", "done")
  /\ UNCHANGED reopened

RetrySubject(s) ==
  /\ subject[s] = "failed"
  /\ subject' = [subject EXCEPT ![s] = "ready"]
  /\ UNCHANGED <<beads, filed, reports, leases, calls, work, ungated, reopened, reaping>>

-----------------------------------------------------------------------------
Reported(p) ==
  \/ \E s \in Subject, e \in Error : Fail(p, s, e) \/ AskForRca(p, s, e)
  \/ FindExisting(p) \/ Fold(p) \/ FindPrior(p) \/ CreateRoot(p)

Worked(w) ==
  \/ \E b \in Id : Claim(w, b)
  \/ Advance(w) \/ Fixed(w) \/ NextCycle(w) \/ Escalate(w)
  \/ RunGate(w) \/ Report(w) \/ FailWork(w) \/ Release(w) \/ Vanish(w)

Operated ==
  \/ \E b \in Id :
       \/ ReapRead(b) \/ Reap(b)
       \/ FileFix(b) \/ Approve(b) \/ RetryAnalysis(b) \/ CompleteAgain(b)
  \/ \E s \in Subject : RetrySubject(s)

Next ==
  \/ \E p \in Reporter : Reported(p)
  \/ \E w \in Worker : Worked(w)
  \/ \E p \in Process : Pin(p) \/ Crash(p)
  \/ Operated

Spec == Init /\ [][Next]_vars

-----------------------------------------------------------------------------
(* Properties.                                                              *)

\* The investigations of one bead form a line: the first has no predecessor,
\* and each later one is keyed after the one immediately before it.  A fork
\* would be two investigations of one recurrence, from two racing reporters
\* (create_rca_task, find_closed_rca_root, the natural key).
RecurrencesChain ==
  \A s \in Subject : \A r \in RootsOf(s) :
    /\ beads[r].after # 0 => beads[r].after \in RootsOf(s) /\ beads[r].after < r
    /\ \A q \in RootsOf(s) : q < r => q <= beads[r].after

\* A bead has one open investigation (_fail_with_rca: "reuses its original
\* root instead of opening a second one"): a second is open only because the
\* earlier one was put back to work after it had been closed, by an operator's
\* retry or by a write of the reaper or of the release that came too late.
OneOpenRoot ==
  \A s \in Subject : \A q, r \in RootsOf(s) \cap OpenAnalyses :
    q < r => q \in reopened

\* The investigation a report of a failure is answered with was filed after
\* the report looked for one, or was open while it looked: never one that was
\* over before the failure (find_existing_rca_root, "a closed root is a
\* finished investigation").
AnswerIsCurrent ==
  \A p \in Reporter :
    calls[p].stage = "pin" => calls[p].bead \notin calls[p].over

\* An analysis is done only with something that carries it forward, a
\* follow-up bead, a later phase or the escalation, unless it was completed
\* before its gate was pinned (terminal_action_verify, rca-check).
AnalysisLeavesTrace ==
  \A b \in Analyses :
    beads[b].status = "done" => b \in ungated \/ HasTerminalAction(b)

\* A person is called in only when every cycle was tried, each with a plan
\* that was drawn up and came to a verdict (_loop_or_escalate).
EscalatesAfterEveryCycle ==
  \A t \in Id : beads[t].phase = "escalated" =>
    \A c \in 1..MaxCycle : \A phase \in {"analyze", "verify_plan"} :
      \E b \in Id : /\ b < t /\ RootOf(b) = beads[t].root
                    /\ beads[b].phase = phase /\ beads[b].cycle = c

\* What advance_rca's docstring says of a rejected plan: the bead it returns
\* is the next analysis of this investigation.
NextCycleIsOwn ==
  \A w \in Worker : calls[w].stage = "pin" =>
    beads[calls[w].bead].root = work[w].root

\* What tests/test_rca.py says of a later cycle: it needs its own terminal
\* action, one filed since it began.
LaterCycleNeedsItsOwn ==
  \A b \in Analyses :
    beads[b].status = "done" /\ beads[b].cycle > 1 /\ b \notin ungated =>
      \E t \in Id : t > b /\ Follows(t, b)

-----------------------------------------------------------------------------
(* The inductive invariant these rest on.                                   *)

\* Ids are handed out in order.
FiledInOrder ==
  \A b \in Id : /\ b > filed => beads[b] = Absent
                /\ b <= filed => beads[b].phase # "absent"
                /\ beads[b].root <= filed

\* The reaper read what it is about to write.
ReadIsFiled == \A b \in reaping : b <= filed

\* A phase has a cycle, and a root is its own rca_root once it is pinned.
PhasesAreCounted ==
  \A b \in Id : /\ beads[b].phase \in Phase => beads[b].cycle >= 1
                /\ b \in Analyses /\ beads[b].cycle = 1 => beads[b].root \in {0, b}

\* What a call under way has read is still so.
CallHolds(p) ==
  LET c == calls[p]
  IN /\ c.stage \in {"find", "prior", "create", "fold"} =>
          p \in Reporter /\ c.subject \in Subject
     /\ c.stage = "prior" => c.over \subseteq RootsOf(c.subject)
     /\ c.stage = "create" =>
          /\ c.bead \in RootsOf(c.subject) \cup {0}
          /\ \A d \in c.over : d <= c.bead
          /\ c.bead \in OpenAnalyses => c.bead \in reopened
     /\ c.stage \in {"fold", "pin"} => c.bead \in Analyses
     /\ c.stage = "pin" /\ p \in Reporter =>
          beads[c.bead].cycle = 1 /\ c.bead \notin c.over

\* What an agent works on is a phase of an investigation, and a gate that let
\* it pass had seen what follows it.
JobHolds(w) ==
  LET j == work[w]
  IN /\ j.bead # 0 => beads[j.bead].phase \in Phase /\ j.root \in 1..filed
     /\ j.gate # "unread" => j.bead # 0
     /\ j.gate = "passed" => HasTerminalAction(j.bead)

\* Every investigation but the latest has a successor keyed after it, and the
\* first of a line is keyed after none.
Succeeded ==
  \A s \in Subject : \A q \in RootsOf(s) \cup {0} :
    (\E r \in RootsOf(s) : q < r) => \E r \in RootsOf(s) : beads[r].after = q

\* Only what puts back a closed bead opens an investigation that has a successor.
Superseded ==
  \A s \in Subject : \A q, r \in RootsOf(s) :
    q < r /\ q \in OpenAnalyses => q \in reopened

IInv ==
  /\ TypeOK
  /\ FiledInOrder
  /\ ReadIsFiled
  /\ PhasesAreCounted
  /\ \A p \in Process : CallHolds(p)
  /\ \A w \in Worker : JobHolds(w)
  /\ Succeeded
  /\ Superseded
  /\ RecurrencesChain
  /\ AnalysisLeavesTrace

\* Bead b's investigation had a phase of a cycle by the time b was filed.
Reached(b, cycle, phase) ==
  \E d \in Id : /\ d <= b /\ RootOf(d) = RootOf(b)
                /\ beads[d].phase = phase /\ beads[d].cycle = cycle

\* A bead is of a cycle only after the cycles before it were analysed and came
\* to a plan, and of a phase only after those before it.
CyclesAreTried ==
  \A b \in Id : beads[b].phase \in Phase =>
    \A c \in 1..beads[b].cycle : \A phase \in {"analyze", "verify_plan"} :
      c < beads[b].cycle \/ Index(phase) <= Index(beads[b].phase) =>
        Reached(b, c, phase)

\* An agent files under the root of the bead it was given.
JobsKnowTheirRoot ==
  \A w \in Worker : work[w].bead # 0 => work[w].root = RootOf(work[w].bead)

TriedInv == JobsKnowTheirRoot /\ CyclesAreTried /\ EscalatesAfterEveryCycle
=============================================================================
