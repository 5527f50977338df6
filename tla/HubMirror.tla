------------------------------ MODULE HubMirror ------------------------------
(***************************************************************************)
(* A node as a participant of a coordination plane: hub_client.py.         *)
(*                                                                         *)
(* The plane owns the queue.  A pull leases one of its items to this node  *)
(* under an attempt number and mirrors it as a bead; what becomes of the   *)
(* bead is reported under that attempt, by a completion hook in the        *)
(* process that ran it or by a sweep over all mirrors.  Any number of      *)
(* pulls and reporters run at once; each reads the beads without a lock,   *)
(* and none of them holds one over a request.                              *)
(*                                                                         *)
(* The plane is not part of this repository: it is modelled from what the  *)
(* client relies on.  It leases an item to one node at a time, counts its  *)
(* leases, and refuses a report that is not under the lease it is holding. *)
(***************************************************************************)
EXTENDS Integers, Sequences, FiniteSets

CONSTANTS
  Item,         \* work items of the plane
  Gate,         \* their gates: "none", "deterministic" or "human"
  Puller,       \* processes that run `hub pull`
  Reporter,     \* processes that run a completion hook or `hub sync`
  Limit,        \* a pull's limit
  MaxAttempt,   \* bound on the leases of an item
  MaxFault      \* bound on answers lost, processes that die and mirrors retried

ASSUME HubAssumption ==
  /\ Gate \in [Item -> {"none", "deterministic", "human"}]
  /\ Limit \in Nat /\ MaxAttempt \in Nat /\ MaxFault \in Nat

VARIABLES
  plane,        \* the items: attempt, lease and outcome
  beads,        \* tasks.jsonl: the mirrors, in file order
  pullers,      \* the pulls under way
  reporters,    \* the hooks and sweeps under way
  faults        \* how many of these there were

vars == <<plane, beads, pullers, reporters, faults>>

NoOutcome == "none"
Ending == {"done", "failed"}

PlaneItem == [attempt : 0..MaxAttempt, lease : {"ready", "leased", "elsewhere", "closed"},
              outcome : Ending \cup {NoOutcome}]

\* metadata.hub keeps the item, the attempt and the receipt; metadata.verify
\* the gate and metadata.verify_result what became of it.
Mirror == [item : Item, attempt : 0..MaxAttempt, verify : {"none", "deterministic", "human"},
           status : {"pending", "in_progress", "awaiting_verify"} \cup Ending,
           proved : BOOLEAN, receipt : Ending \cup {NoOutcome}]

Idle == [at |-> "idle"]
Leased == [item : Item, attempt : 0..MaxAttempt]

\* A pull: how many rounds of its loop are left, and the item in its hands.
Left == Nat \ {0}
Pull == [at : {"asking"}, left : Left] \cup [at : {"leased", "absent"}, left : Left, got : Leased]

\* A reporter: the beads it has still to report, as it read them.
Snapshot == [index : Nat, bead : Mirror]
Report == [at : {"sweeping", "hooked", "receipt"}, todo : SUBSET Snapshot]

TypeOK ==
  /\ plane \in [Item -> PlaneItem]
  /\ beads \in Seq(Mirror)
  /\ pullers \in [Puller -> Pull \cup {Idle}]
  /\ reporters \in [Reporter -> Report \cup {Idle}]
  /\ faults \in 0..MaxFault

Init ==
  /\ plane = [i \in Item |-> [attempt |-> 0, lease |-> "ready", outcome |-> NoOutcome]]
  /\ beads = <<>>
  /\ pullers = [p \in Puller |-> Idle]
  /\ reporters = [r \in Reporter |-> Idle]
  /\ faults = 0

Fault == faults < MaxFault /\ faults' = faults + 1
PullerGoes(p, r) == pullers' = [pullers EXCEPT ![p] = r]
ReporterGoes(r, s) == reporters' = [reporters EXCEPT ![r] = s]

-----------------------------------------------------------------------------
(* The plane.                                                               *)

\* The lease runs out; this node or another may have the item next.
LeaseRunsOut(i) ==
  /\ plane[i].lease \in {"leased", "elsewhere"}
  /\ plane[i].attempt < MaxAttempt
  /\ plane' = [plane EXCEPT ![i].lease = "ready"]
  /\ UNCHANGED <<beads, pullers, reporters, faults>>

LeasedElsewhere(i) ==
  /\ plane[i].lease = "ready" /\ plane[i].attempt < MaxAttempt
  /\ plane' = [plane EXCEPT ![i].lease = "elsewhere", ![i].attempt = @ + 1]
  /\ UNCHANGED <<beads, pullers, reporters, faults>>

\* A report the plane takes: under the lease it is holding, and attested
\* when the item is gated.
Takes(i, attempt, status, attested) ==
  /\ plane[i].lease = "leased" /\ plane[i].attempt = attempt
  /\ status = "done" /\ Gate[i] # "none" => attested

\* The report of an outcome it has: it may answer as it did the first time.
Repeats(i, attempt, status) ==
  plane[i].lease = "closed" /\ plane[i].attempt = attempt /\ plane[i].outcome = status

-----------------------------------------------------------------------------
(* pull_and_mirror.                                                         *)

AtLeast1(n) == IF n < 1 THEN 1 ELSE n

StartPull(p) ==
  /\ pullers[p] = Idle
  /\ PullerGoes(p, [at |-> "asking", left |-> AtLeast1(Limit)])
  /\ UNCHANGED <<plane, beads, reporters, faults>>

\* The next round of the loop, or the end of it.
Round(left) == IF left = 1 THEN Idle ELSE [at |-> "asking", left |-> left - 1]

\* The item's holder, as find_by_natural_key and the index of create see it.
Holders(i) == {n \in DOMAIN beads : beads[n].item = i}

\* pull: an item that is ready, under its next attempt, or "empty".
AskPlane(p) ==
  /\ pullers[p].at = "asking"
  /\ \/ \E i \in Item :
          /\ plane[i].lease = "ready" /\ plane[i].attempt < MaxAttempt
          /\ plane' = [plane EXCEPT ![i].lease = "leased", ![i].attempt = @ + 1]
          /\ \/ PullerGoes(p, [at |-> "leased", left |-> pullers[p].left,
                               got |-> [item |-> i, attempt |-> plane[i].attempt + 1]])
                /\ UNCHANGED faults
             \/ Fault /\ PullerGoes(p, Idle)                  \* the answer is lost
     \/ /\ \A i \in Item : plane[i].lease # "ready" \/ plane[i].attempt = MaxAttempt
        /\ PullerGoes(p, Idle) /\ UNCHANGED <<plane, faults>>
  /\ UNCHANGED <<beads, reporters>>

\* mirror, its read: a bead that holds the item is returned as it is, with
\* the attempt it was filed under.
FindMirror(p) ==
  /\ pullers[p].at = "leased"
  /\ IF Holders(pullers[p].got.item) = {}
     THEN PullerGoes(p, [pullers[p] EXCEPT !.at = "absent"])
     ELSE PullerGoes(p, Round(pullers[p].left))
  /\ UNCHANGED <<plane, beads, reporters, faults>>

NewMirror(got) ==
  [item |-> got.item, attempt |-> got.attempt, verify |-> Gate[got.item],
   status |-> "pending", proved |-> FALSE, receipt |-> NoOutcome]

\* (A mutant of FileMirror: what was read before the lock is good enough.)
FileMirrorAsRead(p) ==
  /\ pullers[p].at = "absent"
  /\ beads' = Append(beads, NewMirror(pullers[p].got))
  /\ PullerGoes(p, Round(pullers[p].left))
  /\ UNCHANGED <<plane, reporters, faults>>

\* mirror, its write: create looks again under the lock.
FileMirror(p) ==
  /\ pullers[p].at = "absent"
  /\ beads' = IF Holders(pullers[p].got.item) = {}
              THEN Append(beads, NewMirror(pullers[p].got)) ELSE beads
  /\ PullerGoes(p, Round(pullers[p].left))
  /\ UNCHANGED <<plane, reporters, faults>>

PullDies(p) ==
  /\ pullers[p] # Idle
  /\ Fault
  /\ PullerGoes(p, Idle)
  /\ UNCHANGED <<plane, beads, reporters>>

-----------------------------------------------------------------------------
(* The mirror as a bead: BeadStore has the verbs, these are their ends.     *)

SnapshotOf(n, bead) == [index |-> n, bead |-> bead]
Unreported(bead) == bead.status \in Ending /\ bead.receipt = NoOutcome

Start(n) ==
  /\ beads[n].status = "pending"
  /\ beads' = [beads EXCEPT ![n].status = "in_progress"]
  /\ UNCHANGED <<plane, pullers, reporters, faults>>

Fail(n) ==
  /\ beads[n].status = "in_progress"
  /\ beads' = [beads EXCEPT ![n].status = "failed"]
  /\ UNCHANGED <<plane, pullers, reporters, faults>>

\* Done by a road with no hook on it: the command line, prompt mode.
Done(n) ==
  /\ beads[n].status = "in_progress" /\ beads[n].verify # "human"
  /\ beads' = [beads EXCEPT ![n].status = "done", ![n].proved = @ \/ beads[n].verify # "none"]
  /\ UNCHANGED <<plane, pullers, reporters, faults>>

\* Done in a cycle, which goes on to its hooks with the bead it read back.
DoneInCycle(n, r) ==
  /\ beads[n].status = "in_progress" /\ beads[n].verify # "human"
  /\ reporters[r] = Idle
  /\ LET bead == [beads[n] EXCEPT !.status = "done", !.proved = @ \/ beads[n].verify # "none"]
     IN /\ beads' = [beads EXCEPT ![n] = bead]
        /\ ReporterGoes(r, IF Unreported(bead) THEN [at |-> "hooked", todo |-> {SnapshotOf(n, bead)}]
                            ELSE Idle)
  /\ UNCHANGED <<plane, pullers, faults>>

Park(n) ==
  /\ beads[n].status = "in_progress" /\ beads[n].verify = "human"
  /\ beads' = [beads EXCEPT ![n].status = "awaiting_verify"]
  /\ UNCHANGED <<plane, pullers, reporters, faults>>

ApproveVerify(n) ==
  /\ beads[n].status = "awaiting_verify"
  /\ beads' = [beads EXCEPT ![n].status = "done", ![n].proved = TRUE]
  /\ UNCHANGED <<plane, pullers, reporters, faults>>

\* tasks retry: the receipt of the failure stays.
Retry(n) ==
  /\ beads[n].status = "failed"
  /\ Fault
  /\ beads' = [beads EXCEPT ![n].status = "pending"]
  /\ UNCHANGED <<plane, pullers, reporters>>

-----------------------------------------------------------------------------
(* report_back, from the hook and from the sweep.                           *)

\* The mirrors that are to be reported, and the one whose turn it is.
Unheard == {SnapshotOf(n, beads[n]) : n \in {n \in DOMAIN beads : Unreported(beads[n])}}
First(todo) == {s \in todo : \A t \in todo : s.index <= t.index}

Sweeping(r, todo) ==
  ReporterGoes(r, IF todo = {} THEN Idle ELSE [at |-> "sweeping", todo |-> todo])

\* (A mutant of StartSync: the sweep is for completions.)
StartSyncOfDone(r) ==
  /\ reporters[r] = Idle
  /\ \E s \in Unheard : s.bead.status = "done"
  /\ Sweeping(r, {s \in Unheard : s.bead.status = "done"})
  /\ UNCHANGED <<plane, beads, pullers, faults>>

\* sync reads the beads once and keeps those it will report.
StartSync(r) ==
  /\ reporters[r] = Idle
  /\ Unheard # {}
  /\ Sweeping(r, Unheard)
  /\ UNCHANGED <<plane, beads, pullers, faults>>

\* attestation_for: any bead with a gate and a record of it has one.
Attestation(bead) == bead.status = "done" /\ bead.verify # "none" /\ bead.proved

\* (A mutant of Send: the receipt is written first.)
SendAfterReceipt(r) ==
  /\ reporters[r].at \in {"sweeping", "hooked"}
  /\ \E s \in First(reporters[r].todo) :
       beads' = [beads EXCEPT ![s.index].receipt = s.bead.status]
  /\ ReporterGoes(r, [reporters[r] EXCEPT !.at = "receipt"])
  /\ UNCHANGED <<plane, pullers, faults>>

\* report, taken or as known: answered, or the answer lost.
Heard(r, b) ==
  /\ \/ Takes(b.item, b.attempt, b.status, Attestation(b))
     \/ Repeats(b.item, b.attempt, b.status)
  /\ plane' = [plane EXCEPT ![b.item].lease = "closed", ![b.item].outcome = b.status]
  /\ \/ ReporterGoes(r, [reporters[r] EXCEPT !.at = "receipt"]) /\ UNCHANGED faults
     \/ Fault /\ ReporterGoes(r, Idle)

\* report, refused, or never there.
Unheeded(r, b) ==
  /\ UNCHANGED plane
  /\ \/ ~Takes(b.item, b.attempt, b.status, Attestation(b)) /\ UNCHANGED faults
     \/ Fault
  /\ ReporterGoes(r, Idle)

\* report: whatever is not an answer ends the hook, and the whole sweep.
Send(r) ==
  /\ reporters[r].at \in {"sweeping", "hooked"}
  /\ \E s \in First(reporters[r].todo) : Heard(r, s.bead) \/ Unheeded(r, s.bead)
  /\ UNCHANGED <<beads, pullers>>

\* annotate: metadata.hub as it was read, with the receipt; then the next.
WriteReceipt(r) ==
  /\ reporters[r].at = "receipt"
  /\ \E s \in First(reporters[r].todo) :
       /\ beads' = [beads EXCEPT ![s.index].receipt = s.bead.status]
       /\ Sweeping(r, reporters[r].todo \ {s})
  /\ UNCHANGED <<plane, pullers, faults>>

ReporterDies(r) ==
  /\ reporters[r] # Idle
  /\ Fault
  /\ ReporterGoes(r, Idle)
  /\ UNCHANGED <<plane, beads, pullers>>

-----------------------------------------------------------------------------
Work(n) ==
  Start(n) \/ Fail(n) \/ Done(n) \/ Park(n) \/ ApproveVerify(n) \/ Retry(n)
    \/ (\E r \in Reporter : DoneInCycle(n, r))
Pulling(p) == StartPull(p) \/ AskPlane(p) \/ FindMirror(p) \/ FileMirror(p) \/ PullDies(p)
Reporting(r) == StartSync(r) \/ Send(r) \/ WriteReceipt(r) \/ ReporterDies(r)

Next ==
  \/ \E i \in Item : LeaseRunsOut(i) \/ LeasedElsewhere(i)
  \/ \E p \in Puller : Pulling(p)
  \/ \E n \in DOMAIN beads : Work(n)
  \/ \E r \in Reporter : Reporting(r)

Spec == Init /\ [][Next]_vars

\* Somebody or something goes on running `hub sync`, and no answer takes
\* forever.
Fairness ==
  \A r \in Reporter : WF_vars(StartSync(r)) /\ WF_vars(Send(r)) /\ WF_vars(WriteReceipt(r))

FairSpec == Spec /\ Fairness

-----------------------------------------------------------------------------
(* Properties.                                                              *)

\* A receipt on a mirror (hub_client.py:351) says what the plane has: whatever
\* was lost, raced or retried, the item is closed with that outcome.
ReceiptMeansHeard ==
  \A n \in DOMAIN beads :
    beads[n].receipt # NoOutcome =>
      plane[beads[n].item].lease = "closed" /\ plane[beads[n].item].outcome = beads[n].receipt

\* "Idempotent on the plane's item id: pulling twice returns the same bead
\* rather than filing a second one" (hub_client.py:214).  Two pulls may be out
\* with the same item, one under a lease that ran out, and both have found no
\* mirror of it; the work is still filed once.
MirroredOnce ==
  \A m, n \in DOMAIN beads : beads[m].item = beads[n].item => m = n

\* What goes out with the report whose turn it is.
Sent(r) == IF reporters[r].at \in {"sweeping", "hooked"} THEN First(reporters[r].todo) ELSE {}

\* The gate the plane keeps beside the item is lifted onto its mirror, so no
\* report of work behind a deterministic gate is refused for want of an
\* attestation (hub_client.py:230), whichever road the bead took to DONE.
CheckedDoneIsAttested ==
  \A r \in Reporter : \A s \in Sent(r) :
    s.bead.status = "done" /\ Gate[s.bead.item] = "deterministic" => Attestation(s.bead)

\* attestation_for: "Only a deterministic gate this process ran produces one
\* ... Judged and human gates are answered on the plane by the party the gate
\* names, never by the executor" (hub_client.py:306).
OnlyChecksAttest ==
  \A r \in Reporter : \A s \in Sent(r) : Attestation(s.bead) => Gate[s.bead.item] = "deterministic"

\* What the plane would take of a mirror now.
Reportable(n) ==
  /\ Unreported(beads[n])
  /\ plane[beads[n].item].lease = "leased" /\ plane[beads[n].item].attempt = beads[n].attempt

\* A mirror before it in the file whose report the plane no longer takes.
RefusedBefore(n) ==
  \E m \in DOMAIN beads :
    m < n /\ Unreported(beads[m]) /\ ~Reportable(m)

\* A plane that holds the lease of an outcome hears it (hub_client.py:359),
\* unless the lease runs out, the work is retried, or the sweeps never get
\* past a mirror before it that is refused.
HeardUnlessRefusedBefore ==
  \A n \in 1..Cardinality(Item) :
    (n \in DOMAIN beads /\ Reportable(n)) ~>
      (n \in DOMAIN beads /\ (~Reportable(n) \/ RefusedBefore(n)))

\* sync: "Report every mirrored bead with an unreported terminal outcome."
\* (hub_client.py:360).  The plane holds the lease and would take the report.
SweepReportsEvery ==
  \A n \in 1..Cardinality(Item) :
    (n \in DOMAIN beads /\ Reportable(n)) ~>
      (n \in DOMAIN beads /\ ~Reportable(n))

-----------------------------------------------------------------------------
(* The inductive invariant.                                                 *)

\* The gate of its item is on every mirror, and what got past it is proved.
GateIsLifted(bead) ==
  /\ bead.verify = Gate[bead.item]
  /\ bead.status = "done" /\ bead.verify # "none" => bead.proved

\* What a reporter has read: the outcome of a mirror that is still of that item.
ReadingHolds(s) ==
  /\ s.index \in DOMAIN beads /\ beads[s.index].item = s.bead.item
  /\ s.bead.status \in Ending
  /\ GateIsLifted(s.bead)

\* A receipt is written only once the plane has closed the item so.
AnswerHolds(s) ==
  plane[s.bead.item].lease = "closed" /\ plane[s.bead.item].outcome = s.bead.status

MirrorsLifted == \A n \in DOMAIN beads : GateIsLifted(beads[n])

ReportersHold ==
  \A r \in Reporter : reporters[r] # Idle =>
    /\ \A s \in reporters[r].todo : ReadingHolds(s)
    /\ \A s, t \in reporters[r].todo : s.index = t.index => s = t
    /\ reporters[r].at = "receipt" => \A s \in First(reporters[r].todo) : AnswerHolds(s)

IInv == TypeOK /\ MirroredOnce /\ MirrorsLifted /\ ReportersHold /\ ReceiptMeansHeard
=============================================================================
