------------------------------ MODULE BeadStore ------------------------------
(***************************************************************************)
(* The bead store of agentco_harness/beads.py: every task is one record of *)
(* a JSONL file, and every program of the node (daemon cycle, CLI, remote  *)
(* workers over SSH, the worked agents themselves) changes it through      *)
(* Beads.update().                                                         *)
(*                                                                         *)
(* The file lock is held only across update()'s read-modify-write.  What   *)
(* comes before it (a verb's own look at the bead, the verify gate, a      *)
(* deterministic check that can run for minutes) reads the file without    *)
(* the lock.  An API call is therefore a record in "calls" that moves      *)
(*                                                                         *)
(*     idle --verb's read--> "gate" --gate's read--> "write" --lock--> idle*)
(*                                                                         *)
(* with every other call free to write in between.  A call whose target    *)
(* status has no pre-lock policy goes straight to "write".                 *)
(***************************************************************************)
EXTENDS Integers, FiniteSets

CONSTANTS
  Bead,           \* task ids
  Agent,          \* executors that claim: "claude", "forge", a worker node
  Person,         \* people, the human: executors and operators
  Verifier,       \* declarations.verifiers(): who may answer a gate
  SelfReporting,  \* SELF_REPORTING_EXECUTORS
  AttestedGate,   \* human and judged gates: answered by an attestation
  CheckedGate,    \* deterministic gates: answered by running a command
  KindOf,         \* what classifies a bead when it carries no gate
  Capable,        \* the agents whose manifest covers a bead's requires
  Filing,         \* the ways a bead is filed: see Create
  Call,           \* slots for API calls in flight
  Verb,           \* the verbs this deployment uses
  MaxAttempt,     \* bound on lease_attempt
  None, Unread    \* no value; gate_at_read before the gate was read

AllVerb == {"create", "rca", "claim", "reap", "auth", "report", "complete", "close",
            "approve_verify", "reject_verify", "retire", "cancel", "decline",
            "approve", "retry", "annotate"}

Gate == AttestedGate \cup CheckedGate
Actor == Agent \cup Person
Kind == {"agent", "rca", "routine", "plain"}

Status == {"pending", "pending_approval", "in_progress", "done", "failed",
           "skipped", "awaiting_verify", "verify_failed", "cancelled"}

ASSUME StoreAssumption ==
  /\ MaxAttempt \in Nat
  /\ Verifier \subseteq Actor
  /\ SelfReporting \subseteq Agent
  /\ KindOf \in [Bead -> Kind]
  /\ Capable \in [Bead -> SUBSET Agent]
  /\ Filing \subseteq [gate: Gate \cup {None}, agent: Agent \cup {None},
                       owner: Person \cup {None},
                       status: {"pending", "pending_approval"}]
  /\ AttestedGate \cap CheckedGate = {}
  /\ Verb \subseteq AllVerb
  /\ None \notin Bead \cup Actor \cup Gate
  /\ Unread \notin Gate \cup {None}

VARIABLES
  beads,   \* the store file: one record per bead
  calls,   \* API calls in flight, with what each read
  handed   \* history: every lease handed out, [bead, attempt, agent]

vars == <<beads, calls, handed>>

-----------------------------------------------------------------------------
(* Records.  "meta" keeps the metadata keys the gate and the lease protocol *)
(* read; "report" is the idempotency key of metadata.lease_report, which a  *)
(* worker derives from its attempt (0: no key).                             *)

Verdict == [gate: Gate \cup {None}, passed: {"none", "yes", "no", "parked"}]

Meta == [gate: Gate \cup {None}, approval: Actor \cup {None},
         verdict: Verdict, report: 0..MaxAttempt]

Task == [status: Status \cup {"absent"}, agent: Agent \cup {None},
         owner: Actor \cup {None}, holder: Agent \cup {None},
         expiry: {"none", "future", "past"}, attempt: 0..MaxAttempt, meta: Meta]

Request == [verb: AllVerb \cup {"none"}, bead: Bead \cup {None},
            phase: {"idle", "adopt", "reread", "gate", "write"},
            to: Status \cup {"keep"}, writes: BOOLEAN, meta: Meta,
            attest: Actor \cup {None}, fence: 0..MaxAttempt,
            grant: 0..MaxAttempt, read: Gate \cup {None, Unread},
            who: Actor \cup {None}]

Grant == [bead: Bead, attempt: 1..MaxAttempt, agent: Agent]

NoVerdict == [gate |-> None, passed |-> "none"]
FreshMeta == [gate |-> None, approval |-> None, verdict |-> NoVerdict, report |-> 0]

Absent == [status |-> "absent", agent |-> None, owner |-> None, holder |-> None,
           expiry |-> "none", attempt |-> 0, meta |-> FreshMeta]

NoCall == [verb |-> "none", bead |-> None, phase |-> "idle", to |-> "keep",
           writes |-> FALSE, meta |-> FreshMeta, attest |-> None, fence |-> 0,
           grant |-> 0, read |-> Unread, who |-> None]

TypeOK ==
  /\ beads \in [Bead -> Task]
  /\ calls \in [Call -> Request]
  /\ handed \subseteq Grant

-----------------------------------------------------------------------------
(* What the store reads off one bead.                                       *)

Closed == {"done", "cancelled", "skipped"}

LeaseActive(t) == t.holder # None /\ t.expiry = "future"

RecordedExecutor(t) == IF t.agent # None THEN t.agent ELSE t.owner

\* _approval_answers_gate: a declared verifier who is not the executor.
AnswersGate(t, by) == by \in Verifier /\ by # RecordedExecutor(t)

\* _classify_specless_done: what a DONE with no gate to satisfy amounts to.
SpeclessClass(b, t) ==
  IF t.agent \notin SelfReporting \/ KindOf[b] = "routine" THEN "none"
  ELSE IF KindOf[b] = "agent" THEN "await" ELSE "unverified"

\* TERMINAL_GATE_POLICY: the statuses update() consults the gate for.
Consulted == {"done", "skipped"}
PhaseFor(to) == IF to \in Consulted THEN "gate" ELSE "write"

\* _without_gate_answers with GATE_RELEASING_KEYS: what update() drops from
\* any metadata a caller hands it.
Stripped(m) == [m EXCEPT !.approval = None]

-----------------------------------------------------------------------------
(* Filing.                                                                  *)

Init ==
  /\ beads = [b \in Bead |-> Absent]
  /\ calls = [c \in Call |-> NoCall]
  /\ handed = {}

Filed(f) == [Absent EXCEPT !.status = f.status, !.agent = f.agent,
                           !.owner = f.owner, !.meta.gate = f.gate]

\* create(), for a filer that pins the gate in the filing itself.
Create(b) ==
  /\ "create" \in Verb
  /\ beads[b].status = "absent"
  /\ \E f \in Filing : beads' = [beads EXCEPT ![b] = Filed(f)]
  /\ UNCHANGED <<calls, handed>>

\* create_rca_task: the bead is filed with no gate, and a second write made
\* from the filer's own copy pins the gate that names the bead's id.
CreateRca(c, b) ==
  /\ "rca" \in Verb
  /\ KindOf[b] = "rca"
  /\ beads[b].status = "absent"
  /\ calls[c].phase = "idle"
  /\ \E a \in SelfReporting, g \in CheckedGate :
       /\ beads' = [beads EXCEPT ![b] = [Absent EXCEPT !.status = "pending", !.agent = a]]
       /\ calls' = [calls EXCEPT ![c] =
            [NoCall EXCEPT !.verb = "rca", !.bead = b, !.phase = "write",
                           !.writes = TRUE, !.meta = [FreshMeta EXCEPT !.gate = g]]]
  /\ UNCHANGED handed

-----------------------------------------------------------------------------
(* The lease.                                                               *)

\* (A mutant of CanClaim: work whose lease ran out is claimed from its holder.)
CanClaimIfLapsed(t) == t.status \in {"pending", "in_progress"} /\ ~LeaseActive(t)
CanClaim(t) == t.status = "pending" /\ ~LeaseActive(t)

ClaimedSameAttempt(t, a) ==
  [t EXCEPT !.status = "in_progress", !.agent = a, !.holder = a, !.expiry = "future"]
Claimed(t, a) == [t EXCEPT !.status = "in_progress", !.agent = a, !.holder = a,
                           !.expiry = "future", !.attempt = @ + 1]

\* claim(): the compare-and-set runs as update()'s precheck, under the lock,
\* and IN_PROGRESS has no pre-lock policy, so the whole verb is one step.
Claim(a, b) ==
  /\ "claim" \in Verb
  /\ beads[b].attempt < MaxAttempt
  /\ CanClaim(beads[b])
  /\ a \in Capable[b]
  /\ beads' = [beads EXCEPT ![b] = Claimed(@, a)]
  /\ handed' = handed \cup {[bead |-> b, attempt |-> beads'[b].attempt, agent |-> a]}
  /\ UNCHANGED calls

\* The clock passes lease_expires_at.
Expire(b) ==
  /\ LeaseActive(beads[b])
  /\ beads' = [beads EXCEPT ![b].expiry = "past"]
  /\ UNCHANGED <<calls, handed>>

\* reap_expired_leases: the pass selects its beads from a read without the
\* lock, then updates each one unconditionally.
ReapableIfActive(t) == t.status = "in_progress" /\ LeaseActive(t)
Reapable(t) == t.status = "in_progress" /\ t.holder # None /\ t.expiry = "past"

ReapRead(c, b) ==
  /\ "reap" \in Verb
  /\ calls[c].phase = "idle"
  /\ Reapable(beads[b])
  /\ calls' = [calls EXCEPT ![c] = [NoCall EXCEPT !.verb = "reap", !.bead = b,
                                       !.phase = "write", !.to = "pending"]]
  /\ UNCHANGED <<beads, handed>>

\* _fail_claude on an auth outage: the executor hands its bead back with a
\* blind update(), neither fenced nor conditional on the status.
ReleasedLeaseOnly(t) == [t EXCEPT !.holder = None, !.expiry = "none"]
Released(t) == [t EXCEPT !.status = "pending", !.holder = None, !.expiry = "none"]

AuthRelease(g) ==
  /\ "auth" \in Verb
  /\ g.agent \in SelfReporting
  /\ beads' = [beads EXCEPT ![g.bead] = Released(@)]
  /\ UNCHANGED <<calls, handed>>

-----------------------------------------------------------------------------
(* Reporting.                                                               *)

\* The fenced completion both report_result callers build; "grant" is the
\* attempt the caller was handed, which only the history properties look at.
ReportCall(b, t, to, fence, grant, key) ==
  [NoCall EXCEPT !.verb = "report", !.bead = b, !.phase = PhaseFor(to), !.to = to,
                 !.writes = TRUE, !.fence = fence, !.grant = grant,
                 !.meta = [Stripped(t.meta) EXCEPT !.report = key]]

\* report_result by a worker, with the attempt it was handed.  A key already
\* on the record makes the call a no-op.
Report(c, g, keyed) ==
  LET t == beads[g.bead]
      key == IF keyed THEN g.attempt ELSE 0
  IN /\ "report" \in Verb
     /\ calls[c].phase = "idle"
     /\ keyed => t.meta.report # key
     /\ \E to \in {"done", "failed"} :
          calls' = [calls EXCEPT ![c] = ReportCall(g.bead, t, to, g.attempt, g.attempt, key)]
     /\ UNCHANGED <<beads, handed>>

\* `agentco tasks complete`, by an operator (grant 0) or by the agent a
\* store-backed execution works through.  With nobody recorded on the bead
\* the command first records its caller as the owner.
Complete(c, b, p, grant) ==
  /\ "complete" \in Verb
  /\ calls[c].phase = "idle"
  /\ beads[b].status # "absent"
  /\ calls' = [calls EXCEPT ![c] =
       [NoCall EXCEPT !.verb = "complete", !.bead = b, !.who = p, !.grant = grant,
          !.phase = IF RecordedExecutor(beads[b]) = None THEN "adopt" ELSE "reread"]]
  /\ UNCHANGED <<beads, handed>>

CompleteAdopt(c) ==
  /\ calls[c].phase = "adopt"
  /\ beads' = [beads EXCEPT ![calls[c].bead].owner = calls[c].who]
  /\ calls' = [calls EXCEPT ![c].phase = "reread"]
  /\ UNCHANGED handed

\* ... and then reports against whatever attempt the bead is on by now.
CompleteRead(c) ==
  LET b == calls[c].bead  t == beads[b] IN
  /\ calls[c].phase = "reread"
  /\ calls' = [calls EXCEPT ![c] =
       [ReportCall(b, t, "done", t.attempt, calls[c].grant, 0)
          EXCEPT !.verb = "complete"]]
  /\ UNCHANGED <<beads, handed>>

\* Beads.complete(), as the RCA chain closes its root: no lease, no metadata.
Close(c, b) ==
  /\ "close" \in Verb
  /\ calls[c].phase = "idle"
  /\ KindOf[b] = "rca"
  /\ beads[b].status # "absent"
  /\ calls' = [calls EXCEPT ![c] = [NoCall EXCEPT !.verb = "close", !.bead = b,
                                       !.phase = "gate", !.to = "done"]]
  /\ UNCHANGED <<beads, handed>>

-----------------------------------------------------------------------------
(* Verdicts, closures and edits: each reads the bead, refuses on what it    *)
(* read, and leaves the write to update().                                  *)

Start(c, verb, b, to, m) ==
  /\ verb \in Verb
  /\ calls[c].phase = "idle"
  /\ calls' = [calls EXCEPT ![c] =
       [NoCall EXCEPT !.verb = verb, !.bead = b, !.phase = PhaseFor(to), !.to = to,
                      !.writes = TRUE, !.meta = Stripped(m)]]
  /\ UNCHANGED <<beads, handed>>

ApproveVerify(c, v, b) ==
  /\ "approve_verify" \in Verb
  /\ calls[c].phase = "idle"
  /\ beads[b].status = "awaiting_verify"
  /\ RecordedExecutor(beads[b]) # None
  /\ v \in Verifier
  /\ v # RecordedExecutor(beads[b])
  /\ calls' = [calls EXCEPT ![c] =
       [NoCall EXCEPT !.verb = "approve_verify", !.bead = b, !.phase = "gate",
                      !.to = "done", !.writes = TRUE, !.attest = v,
                      !.meta = [Stripped(beads[b].meta) EXCEPT !.verdict.passed =
                                  IF @ = "none" THEN @ ELSE "yes"]]]
  /\ UNCHANGED <<beads, handed>>

RejectVerify(c, v, b) ==
  /\ beads[b].status = "awaiting_verify"
  /\ v \in Verifier
  /\ Start(c, "reject_verify", b, "verify_failed",
           [beads[b].meta EXCEPT !.verdict.passed = "no"])

Retire(c, b) ==
  /\ beads[b].status \notin Closed \cup {"absent"}
  /\ beads[b].meta.gate = None
  /\ Start(c, "retire", b, "skipped", beads[b].meta)

Cancel(c, p, b) ==
  /\ beads[b].status \notin Closed \cup {"absent"}
  /\ p # RecordedExecutor(beads[b])
  /\ Start(c, "cancel", b, "cancelled", beads[b].meta)

\* humans.decline_task: back to the queue, or terminally out of it.
Decline(c, b) ==
  /\ beads[b].owner # None
  /\ beads[b].status = "pending"
  /\ \E to \in {"pending", "skipped"} : Start(c, "decline", b, to, beads[b].meta)

\* approve(): the agent-filed bead passes its human approval.
Approve(c, b) ==
  /\ beads[b].status = "pending_approval"
  /\ Start(c, "approve", b, "pending", beads[b].meta)

\* `agentco tasks retry`: a status write that carries no metadata.
Retry(c, b) ==
  /\ "retry" \in Verb
  /\ calls[c].phase = "idle"
  /\ beads[b].status = "failed"
  /\ calls' = [calls EXCEPT ![c] = [NoCall EXCEPT !.verb = "retry", !.bead = b,
                                       !.phase = "write", !.to = "pending"]]
  /\ UNCHANGED <<beads, handed>>

\* annotate(): merges a key into the metadata it read and writes all of it.
Annotate(c, b) ==
  /\ beads[b].status # "absent"
  /\ Start(c, "annotate", b, "keep", beads[b].meta)

-----------------------------------------------------------------------------
(* update(), before the lock: the gate pinned on the bead decides what a    *)
(* DONE amounts to, and SKIPPED is refused to gated work.                   *)

Grading(c) == calls[c].phase = "gate" /\ calls[c].to = "done"

PinnedGate(c) == beads[calls[c].bead].meta.gate

\* The metadata the verdict is stamped on: the caller's, else the bead's.
Carried(c) == IF calls[c].writes THEN calls[c].meta ELSE beads[calls[c].bead].meta

Stamp(c, to, by, passed) ==
  calls' = [calls EXCEPT ![c] =
    [@ EXCEPT !.phase = "write", !.to = to, !.writes = TRUE, !.read = PinnedGate(c),
              !.meta = [Carried(c) EXCEPT
                          !.approval = IF by = None THEN @ ELSE by,
                          !.verdict = [gate |-> PinnedGate(c), passed |-> passed]]]]

GateAttested(c) ==
  LET t == beads[calls[c].bead]  by == calls[c].attest IN
  /\ Grading(c)
  /\ PinnedGate(c) \in AttestedGate
  /\ IF AnswersGate(t, by) THEN Stamp(c, "done", by, "yes")
                           ELSE Stamp(c, "awaiting_verify", None, "parked")
  /\ UNCHANGED <<beads, handed>>

\* _run_deterministic_check: the command's outcome is the environment's.
GateChecked(c) ==
  /\ Grading(c)
  /\ PinnedGate(c) \in CheckedGate
  /\ \/ Stamp(c, "done", None, "yes")
     \/ Stamp(c, "verify_failed", None, "no")
  /\ UNCHANGED <<beads, handed>>

GateAbsent(c) ==
  LET b == calls[c].bead  class == SpeclessClass(b, beads[b]) IN
  /\ Grading(c)
  /\ PinnedGate(c) = None
  /\ \/ /\ class = "none"
        /\ calls' = [calls EXCEPT ![c].phase = "write", ![c].read = None]
     \/ class = "unverified" /\ Stamp(c, "done", None, "parked")
     \/ class = "await" /\ Stamp(c, "awaiting_verify", None, "parked")
  /\ UNCHANGED <<beads, handed>>

SkipConsulted(c) ==
  /\ calls[c].phase = "gate"
  /\ calls[c].to = "skipped"
  /\ calls' = [calls EXCEPT ![c] =
       IF PinnedGate(c) = None THEN [@ EXCEPT !.phase = "write"] ELSE NoCall]
  /\ UNCHANGED <<beads, handed>>

-----------------------------------------------------------------------------
(* update(), under the lock.                                                *)

Fenced == {"report", "complete"}
Releasing == Fenced \cup {"reap"}

\* report_result's precheck.
FenceHoldsIfHeld(t, call) == t.holder # None \/ RecordedExecutor(t) # None
FenceHolds(t, call) ==
  /\ t.attempt = call.fence
  /\ t.holder # None \/ RecordedExecutor(t) # None

\* The gate that was enforced is the gate that is pinned now.
GateStandsIfPinned(t, call) == call.read \in {Unread, None} \/ t.meta.gate = call.read
GateStands(t, call) == call.read = Unread \/ t.meta.gate = call.read

\* Metadata may not replace or drop a pinned gate.
PinRespectedIfCarried(t, call) ==
  call.writes /\ t.meta.gate # None => call.meta.gate \in {None, t.meta.gate}
PinRespected(t, call) ==
  call.writes /\ t.meta.gate # None => call.meta.gate = t.meta.gate

MayWrite(t, call) ==
  /\ call.verb \in Fenced => FenceHolds(t, call)
  /\ GateStands(t, call)
  /\ PinRespected(t, call)

WrittenVerbatim(t, call) ==
  LET frees == call.verb \in Releasing IN
  [t EXCEPT !.status = call.to,
            !.meta = IF call.writes THEN call.meta ELSE @,
            !.holder = IF frees THEN None ELSE @,
            !.expiry = IF frees THEN "none" ELSE @,
            !.owner = IF call.verb = "decline" THEN None ELSE @]
Written(t, call) ==
  LET frees == call.verb \in Releasing IN
  [t EXCEPT !.status = IF call.to = "keep" THEN @ ELSE call.to,
            !.meta = IF call.writes THEN call.meta ELSE @,
            !.holder = IF frees THEN None ELSE @,
            !.expiry = IF frees THEN "none" ELSE @,
            !.owner = IF call.verb = "decline" THEN None ELSE @]

Land(c) ==
  /\ calls[c].phase = "write"
  /\ MayWrite(beads[calls[c].bead], calls[c])
  /\ beads' = [beads EXCEPT ![calls[c].bead] = Written(@, calls[c])]
  /\ calls' = [calls EXCEPT ![c] = NoCall]
  /\ UNCHANGED handed

\* The precheck or a contract check raised: nothing is written.
Refuse(c) ==
  /\ calls[c].phase = "write"
  /\ ~MayWrite(beads[calls[c].bead], calls[c])
  /\ calls' = [calls EXCEPT ![c] = NoCall]
  /\ UNCHANGED <<beads, handed>>

-----------------------------------------------------------------------------
Open(c, b) ==
  \/ CreateRca(c, b)
  \/ Close(c, b)
  \/ ReapRead(c, b)
  \/ \E p \in Person : Complete(c, b, p, 0)
  \/ \E v \in Verifier : ApproveVerify(c, v, b) \/ RejectVerify(c, v, b)
  \/ \E p \in Actor : Cancel(c, p, b)
  \/ Retire(c, b)
  \/ Decline(c, b)
  \/ Approve(c, b)
  \/ Retry(c, b)
  \/ Annotate(c, b)

Deliver(c, g) ==
  \/ \E keyed \in BOOLEAN : Report(c, g, keyed)
  \/ Complete(c, g.bead, g.agent, g.attempt)

Proceed(c) ==
  \/ CompleteAdopt(c)
  \/ CompleteRead(c)
  \/ GateAttested(c)
  \/ GateChecked(c)
  \/ GateAbsent(c)
  \/ SkipConsulted(c)
  \/ Land(c)
  \/ Refuse(c)

Next ==
  \/ \E b \in Bead : Create(b) \/ Expire(b)
  \/ \E a \in Agent, b \in Bead : Claim(a, b)
  \/ \E g \in handed : AuthRelease(g)
  \/ \E c \in Call, b \in Bead : Open(c, b)
  \/ \E c \in Call, g \in handed : Deliver(c, g)
  \/ \E c \in Call : Proceed(c)

Spec == Init /\ [][Next]_vars

\* Time passes; a call that has begun runs to its end; the daemon keeps
\* cycling.  The reap is strongly fair because call slots are this model's
\* bound on concurrency: the daemon's own process never waits for one.
Fairness ==
  /\ \A b \in Bead : WF_vars(Expire(b)) /\ SF_vars(\E c \in Call : ReapRead(c, b))
  /\ \A c \in Call : WF_vars(Proceed(c))

FairSpec == Spec /\ Fairness

-----------------------------------------------------------------------------
(* Safety.                                                                  *)

\* Every claim takes an attempt number of its own and no write ever takes one
\* back: the attempts handed out on a bead are exactly 1..lease_attempt, one
\* agent each (report_result: "the count is the history of how many times
\* this bead was handed out, and nothing should erase it").
EveryHandoutHasItsAttempt ==
  /\ \A g, h \in handed : g.bead = h.bead /\ g.attempt = h.attempt => g = h
  /\ \A g \in handed : g.attempt <= beads[g.bead].attempt
  /\ \A b \in Bead : \A n \in 1..beads[b].attempt :
       \E g \in handed : g.bead = b /\ g.attempt = n

\* A bead in progress is held by the agent its current attempt was handed to,
\* whatever writes raced: the reaper only looks at held beads, so one in
\* progress with nobody on it would be stuck for good.
InProgressIsLeased ==
  \A b \in Bead : beads[b].status = "in_progress" =>
    [bead |-> b, attempt |-> beads[b].attempt, agent |-> beads[b].holder] \in handed

\* What a call may be waiting to write, by what it read: it takes nothing into
\* IN_PROGRESS; what releases a lease names the status it leaves the bead in;
\* and a DONE past the gate carries the passing verdict of the gate it read,
\* with a declared verifier's name where that gate asks for one.
CarriesEvidence(call) ==
  /\ call.writes
  /\ call.meta.verdict = [gate |-> call.read, passed |-> "yes"]
  /\ call.read \in AttestedGate => call.meta.approval \in Verifier

Sound(call) ==
  /\ call.phase # "idle" => call.bead \in Bead
  /\ call.to # "in_progress"
  /\ call.phase \in {"gate", "write"} /\ call.verb \in Releasing => call.to # "keep"
  /\ call.phase = "write" /\ call.to = "done" =>
       call.read # Unread /\ (call.read \in Gate => CarriesEvidence(call))

\* Every call in flight, whatever was written since it read, is about a filed
\* bead and carries to the lock the evidence its write will need.
CallsInFlight ==
  \A c \in Call :
    /\ Sound(calls[c])
    /\ calls[c].phase # "idle" => beads[calls[c].bead].status # "absent"

\* A bead nobody has filed has no history.
UnfiledIsBlank == \A b \in Bead : beads[b].status = "absent" => beads[b] = Absent

\* The inductive invariant: what the store relies on between any two steps.
IInv == TypeOK /\ CallsInFlight /\ UnfiledIsBlank /\ EveryHandoutHasItsAttempt
               /\ InProgressIsLeased

\* The fence: once a bead has been handed out again, nothing reported under
\* an earlier attempt is written, however long before the report was sent.
SupersededReportNeverLands ==
  [][\A c \in Call : calls[c].verb = "report" /\ Land(c) =>
       \A g \in handed : g.bead = calls[c].bead => g.attempt <= calls[c].fence]_vars

\* Self-reported work of the agent class with no gate is parked for a human:
\* the executor was looked up before the lock, and whoever the bead was handed
\* to in the meantime, no completion of theirs slips past as DONE.
SelfReportIsParked ==
  [][\A c \in Call : calls[c].verb \in Fenced /\ Land(c) =>
       LET b == calls[c].bead IN
       KindOf[b] = "agent" /\ beads[b].agent \in SelfReporting /\ beads[b].meta.gate = None
         => beads'[b].status # "done"]_vars

\* What SelfReportIsParked rests on: a fence is never ahead of its bead, and a
\* completion that found no gate on agent-class work, and still has the attempt
\* it was read under, was read of an executor that does not report itself.
Graded(call) ==
  LET t == beads[call.bead] IN
  /\ call.verb \in Fenced /\ call.phase \in {"gate", "write"} => call.fence <= t.attempt
  /\ /\ call.verb \in Fenced /\ call.phase = "write" /\ call.to = "done"
     /\ call.read = None /\ KindOf[call.bead] = "agent" /\ call.fence = t.attempt
     => t.agent \notin SelfReporting

CallsAreGraded == \A c \in Call : Graded(calls[c])

\* A gate, once pinned, is pinned for good: no metadata write built from a
\* read older than the pin drops or replaces it.
GateIsPinned ==
  [][\A b \in Bead : beads[b].meta.gate # None =>
       beads'[b].meta.gate = beads[b].meta.gate]_vars

\* The only road to DONE for gated work: the write that lands it carries a
\* passing verdict of the very gate pinned at that moment, and for a human or
\* judged gate the name of a declared verifier, even when the gate was pinned
\* after the completion had looked for one.
DoneIsEarned ==
  [][\A b \in Bead :
       /\ beads[b].status # "done" /\ beads'[b].status = "done"
       /\ beads[b].meta.gate # None
       => /\ beads'[b].meta.verdict = [gate |-> beads[b].meta.gate, passed |-> "yes"]
          /\ beads[b].meta.gate \in AttestedGate => beads'[b].meta.approval \in Verifier]_vars

\* The store seen as who has which bead: whom attempt n of b was handed to is
\* read off the history.
HandedTo(b, n) ==
  CHOOSE a \in Agent : [bead |-> b, attempt |-> n, agent |-> a] \in handed

Store == INSTANCE Custody WITH
  Item <- Bead, Nobody <- None, Able <- Capable,
  waiting <- {b \in Bead : CanClaim(beads[b])},
  by <- [b \in Bead |-> IF beads[b].status = "in_progress" THEN beads[b].holder ELSE None],
  log <- [b \in Bead |-> [n \in 1..beads[b].attempt |-> HandedTo(b, n)]]

\* Seen so, every step of every overlapping call hands a waiting bead to one
\* able agent, takes it back, or moves it between hand-outs: whatever was read
\* before the lock, no bead goes from one agent's hands to another's, and no
\* write puts out or reorders who had it (before claim was a compare-and-set,
\* its docstring says, two claimants "both executed").
ImplementsCustody == Store!Spec

-----------------------------------------------------------------------------
(* Liveness.                                                                *)

\* A worker that dies does not take its bead along: whatever races its end,
\* a bead leaves IN_PROGRESS, by a report or by the reaper.
NothingStuckInProgress ==
  \A b \in Bead : beads[b].status = "in_progress" ~> beads[b].status # "in_progress"

-----------------------------------------------------------------------------
(* What comments and docstrings of beads.py say, and the code does not.     *)

\* reap_expired_leases: "Only IN_PROGRESS is reaped. A terminal bead's lease
\* is history" (and a live lease is nobody's to reap).
ReapSparesLiveAndClosed ==
  [][\A c \in Call : calls[c].verb = "reap" /\ Land(c) =>
       LET t == beads[calls[c].bead] IN t.status \notin Closed /\ ~LeaseActive(t)]_vars

\* LeaseError: the report of a worker whose lease expired and was reaped is
\* "rejected loudly".
ReapedReportIsRejected ==
  [][\A c \in Call : calls[c].verb = "report" /\ Land(c) =>
       beads[calls[c].bead].status # "pending"]_vars

\* CANCELLED is terminal, "gated work ... abandoned WITHOUT ever completing".
CancelledIsFinal ==
  [][\A b \in Bead : beads[b].status = "cancelled" => beads'[b].status = "cancelled"]_vars

\* approve_verify: approval of an AWAITING_VERIFY bead takes it to DONE.
ApprovalReleases ==
  [][\A c \in Call : calls[c].verb = "approve_verify" /\ Land(c) =>
       beads'[calls[c].bead].status = "done"]_vars

\* Orchestrator._claim: a completion is fenced on the attempt it was issued
\* under, and the number is not re-read at the end.
CompletesOwnAttempt ==
  [][\A c \in Call : calls[c].grant > 0 /\ Land(c) =>
       calls[c].grant = beads[calls[c].bead].attempt]_vars

\* report_result: a repeat of a recorded key does not run the gate again or
\* write a second time.
KeyAppliesOnce ==
  [][\A c \in Call : calls[c].verb = "report" /\ calls[c].meta.report > 0 /\ Land(c) =>
       beads[calls[c].bead].meta.report # calls[c].meta.report]_vars

\* approve_verify: any status but AWAITING_VERIFY is refused.
ApprovesOnlyParked ==
  [][\A c \in Call : calls[c].verb = "approve_verify" /\ Land(c) =>
       beads[calls[c].bead].status = "awaiting_verify"]_vars
=============================================================================
