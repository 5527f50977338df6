--------------------------- MODULE HubMirrorProofs ---------------------------
(* Proofs about HubMirror: a receipt on a mirror means that the plane has    *)
(* the outcome, an item is mirrored once, and no report of work behind a     *)
(* deterministic gate goes out without its attestation, for every set of     *)
(* items, pulls and reporters and every bound.                               *)
EXTENDS HubMirror, TLAPS

-----------------------------------------------------------------------------
(* Types.                                                                   *)

\* The first snapshots of a reading are snapshots of it.
LEMMA FirstIsRead == ASSUME NEW todo PROVE First(todo) \subseteq todo
  BY DEF First

\* A reading of well-typed mirrors is a set of snapshots.
LEMMA UnheardType ==
  ASSUME beads \in Seq(Mirror)
  PROVE  Unheard \in SUBSET Snapshot
  BY DEF Unheard, SnapshotOf, Snapshot

\* A bead that is changed into a mirror leaves a sequence of mirrors.
LEMMA MirrorChanged ==
  ASSUME beads \in Seq(Mirror), NEW n \in DOMAIN beads, NEW bead \in Mirror
  PROVE  /\ [beads EXCEPT ![n] = bead] \in Seq(Mirror)
         /\ beads[n] \in Mirror
         /\ n \in Nat
  OBVIOUS

LEMMA FaultType ==
  ASSUME faults \in 0..MaxFault, Fault PROVE faults' \in 0..MaxFault
  BY HubAssumption DEF Fault

LEMMA InitType == Init => TypeOK
  BY HubAssumption DEF Init, TypeOK, PlaneItem, Mirror, NoOutcome, Ending, Idle

\* What a reporter becomes when it goes on with a set of snapshots.
LEMMA SweepingType ==
  ASSUME TypeOK, NEW r \in Reporter, NEW todo \in SUBSET Snapshot, Sweeping(r, todo)
  PROVE  reporters' \in [Reporter -> Report \cup {Idle}]
  BY DEF TypeOK, Sweeping, ReporterGoes, Report, Idle

LEMMA PlaneType ==
  ASSUME TypeOK, NEW i \in Item, LeaseRunsOut(i) \/ LeasedElsewhere(i)
  PROVE  TypeOK'
  <1>1. CASE LeaseRunsOut(i)
    BY <1>1 DEF LeaseRunsOut, TypeOK, PlaneItem
  <1>2. CASE LeasedElsewhere(i)
    <2>1. plane[i] \in PlaneItem /\ plane[i].attempt + 1 \in 0..MaxAttempt
      BY <1>2, HubAssumption DEF LeasedElsewhere, TypeOK, PlaneItem
    <2>2. plane' = [plane EXCEPT ![i] = [plane[i] EXCEPT !.lease = "elsewhere", !.attempt = @ + 1]]
      BY <1>2 DEF LeasedElsewhere, TypeOK
    <2>3. plane' \in [Item -> PlaneItem]
      BY <2>1, <2>2 DEF TypeOK, PlaneItem
    <2> QED BY <1>2, <2>3 DEF LeasedElsewhere, TypeOK
  <1> QED BY <1>1, <1>2

LEMMA PullType ==
  ASSUME TypeOK, NEW p \in Puller, Pulling(p)
  PROVE  TypeOK'
  <1>1. CASE StartPull(p)
    BY <1>1, HubAssumption DEF StartPull, PullerGoes, AtLeast1, TypeOK, Pull, Left
  <1>2. CASE AskPlane(p)
    <2>1. pullers[p] \in Pull /\ pullers[p].left \in Left
      BY <1>2 DEF AskPlane, TypeOK, Pull, Idle
    <2>2. ASSUME NEW i \in Item, plane[i].lease = "ready", plane[i].attempt < MaxAttempt,
                 plane' = [plane EXCEPT ![i].lease = "leased", ![i].attempt = @ + 1]
          PROVE  /\ plane' \in [Item -> PlaneItem]
                 /\ [item |-> i, attempt |-> plane[i].attempt + 1] \in Leased
      <3>1. plane[i] \in PlaneItem /\ plane[i].attempt + 1 \in 0..MaxAttempt
        BY <2>2, HubAssumption DEF TypeOK, PlaneItem
      <3>2. plane' = [plane EXCEPT ![i] = [plane[i] EXCEPT !.lease = "leased", !.attempt = @ + 1]]
        BY <2>2 DEF TypeOK
      <3> QED BY <3>1, <3>2 DEF TypeOK, PlaneItem, Leased
    <2>3. CASE \E i \in Item :
                 /\ plane[i].lease = "ready" /\ plane[i].attempt < MaxAttempt
                 /\ plane' = [plane EXCEPT ![i].lease = "leased", ![i].attempt = @ + 1]
                 /\ \/ PullerGoes(p, [at |-> "leased", left |-> pullers[p].left,
                                      got |-> [item |-> i, attempt |-> plane[i].attempt + 1]])
                       /\ UNCHANGED faults
                    \/ Fault /\ PullerGoes(p, Idle)
      <3>1. PICK i \in Item :
              /\ plane[i].lease = "ready" /\ plane[i].attempt < MaxAttempt
              /\ plane' = [plane EXCEPT ![i].lease = "leased", ![i].attempt = @ + 1]
              /\ \/ PullerGoes(p, [at |-> "leased", left |-> pullers[p].left,
                                   got |-> [item |-> i, attempt |-> plane[i].attempt + 1]])
                    /\ UNCHANGED faults
                 \/ Fault /\ PullerGoes(p, Idle)
        BY <2>3
      <3> DEFINE got == [item |-> i, attempt |-> plane[i].attempt + 1]
      <3>2. plane' \in [Item -> PlaneItem] /\ got \in Leased
        BY <2>2, <3>1
      <3>3. [at |-> "leased", left |-> pullers[p].left, got |-> got] \in Pull
        BY <2>1, <3>2 DEF Pull
      <3>4. pullers' \in [Puller -> Pull \cup {Idle}] /\ faults' \in 0..MaxFault
        BY <3>1, <3>3, FaultType DEF PullerGoes, TypeOK
      <3> QED BY <1>2, <3>2, <3>4 DEF AskPlane, TypeOK
    <2>4. CASE PullerGoes(p, Idle) /\ UNCHANGED <<plane, faults>>
      BY <1>2, <2>4 DEF AskPlane, PullerGoes, TypeOK
    <2> QED BY <1>2, <2>3, <2>4 DEF AskPlane
  <1>3. CASE FindMirror(p)
    <2>1. pullers[p] \in [at : {"leased"}, left : Left, got : Leased]
      BY <1>3 DEF FindMirror, TypeOK, Pull, Idle
    <2>2. [pullers[p] EXCEPT !.at = "absent"] \in Pull
      BY <2>1 DEF Pull
    <2>3. Round(pullers[p].left) \in Pull \cup {Idle}
      BY <2>1 DEF Round, Pull, Left
    <2> QED BY <1>3, <2>2, <2>3 DEF FindMirror, PullerGoes, TypeOK
  <1>4. CASE FileMirror(p)
    <2>1. pullers[p].got \in Leased /\ pullers[p].left \in Left
      BY <1>4 DEF FileMirror, TypeOK, Pull, Leased, Idle
    <2>2. NewMirror(pullers[p].got) \in Mirror
      BY <2>1, HubAssumption DEF NewMirror, Mirror, Leased, NoOutcome, Ending
    <2>3. beads' \in Seq(Mirror)
      BY <1>4, <2>2 DEF FileMirror, TypeOK
    <2> QED BY <1>4, <2>1, <2>3 DEF FileMirror, PullerGoes, Round, TypeOK, Pull, Left, Idle
  <1>5. CASE PullDies(p)
    BY <1>5, FaultType DEF PullDies, PullerGoes, TypeOK, Idle
  <1> QED BY <1>1, <1>2, <1>3, <1>4, <1>5 DEF Pulling

LEMMA WorkType ==
  ASSUME TypeOK, NEW n \in DOMAIN beads, Work(n)
  PROVE  TypeOK'
  <1> DEFINE Became(status, proved) == [beads[n] EXCEPT !.status = status, !.proved = proved]
  <1>0. /\ beads[n] \in Mirror /\ n \in Nat
        /\ \A bead \in Mirror : [beads EXCEPT ![n] = bead] \in Seq(Mirror)
    BY MirrorChanged DEF TypeOK
  <1>a. ASSUME NEW status \in {"pending", "in_progress", "awaiting_verify"} \cup Ending,
               NEW proved \in BOOLEAN
        PROVE  /\ Became(status, proved) \in Mirror
               /\ [beads EXCEPT ![n] = Became(status, proved)] \in Seq(Mirror)
    <2>1. Became(status, proved) \in Mirror
      BY <1>0 DEF Mirror
    <2> QED BY <1>0, <2>1
  <1>b. beads[n].proved \in BOOLEAN /\ (beads[n].proved \/ beads[n].verify # "none") \in BOOLEAN
    BY <1>0 DEF Mirror
  <1> HIDE DEF Became
  <1>1. CASE Start(n)
    <2>1. beads' = [beads EXCEPT ![n] = Became("in_progress", beads[n].proved)]
      BY <1>1 DEF Start, Became
    <2>2. beads' \in Seq(Mirror)
      BY <1>a, <1>b, <2>1 DEF Ending
    <2> QED BY <1>1, <2>2 DEF Start, TypeOK
  <1>2. CASE Fail(n)
    <2>1. beads' = [beads EXCEPT ![n] = Became("failed", beads[n].proved)]
      BY <1>2 DEF Fail, Became
    <2>2. beads' \in Seq(Mirror)
      BY <1>a, <1>b, <2>1 DEF Ending
    <2> QED BY <1>2, <2>2 DEF Fail, TypeOK
  <1>3. CASE Done(n)
    <2>1. beads' = [beads EXCEPT ![n] = Became("done", beads[n].proved \/ beads[n].verify # "none")]
      BY <1>3 DEF Done, Became
    <2>2. beads' \in Seq(Mirror)
      BY <1>a, <1>b, <2>1 DEF Ending
    <2> QED BY <1>3, <2>2 DEF Done, TypeOK
  <1>4. CASE Park(n)
    <2>1. beads' = [beads EXCEPT ![n] = Became("awaiting_verify", beads[n].proved)]
      BY <1>4 DEF Park, Became
    <2>2. beads' \in Seq(Mirror)
      BY <1>a, <1>b, <2>1 DEF Ending
    <2> QED BY <1>4, <2>2 DEF Park, TypeOK
  <1>5. CASE ApproveVerify(n)
    <2>1. beads' = [beads EXCEPT ![n] = Became("done", TRUE)]
      BY <1>5 DEF ApproveVerify, Became
    <2>2. beads' \in Seq(Mirror)
      BY <1>a, <1>b, <2>1 DEF Ending
    <2> QED BY <1>5, <2>2 DEF ApproveVerify, TypeOK
  <1>6. CASE Retry(n)
    <2>1. beads' = [beads EXCEPT ![n] = Became("pending", beads[n].proved)]
      BY <1>6 DEF Retry, Became
    <2>2. beads' \in Seq(Mirror)
      BY <1>a, <1>b, <2>1 DEF Ending
    <2> QED BY <1>6, <2>2, FaultType DEF Retry, TypeOK
  <1>7. ASSUME NEW r \in Reporter, DoneInCycle(n, r) PROVE TypeOK'
    <2> DEFINE bead == Became("done", beads[n].proved \/ beads[n].verify # "none")
    <2>1. bead \in Mirror /\ [beads EXCEPT ![n] = bead] \in Seq(Mirror)
      BY <1>a, <1>b DEF Ending
    <2>2. /\ beads' = [beads EXCEPT ![n] = bead]
          /\ ReporterGoes(r, IF Unreported(bead)
                              THEN [at |-> "hooked", todo |-> {SnapshotOf(n, bead)}] ELSE Idle)
      BY <1>7 DEF DoneInCycle, Became
    <2>3. [at |-> "hooked", todo |-> {SnapshotOf(n, bead)}] \in Report
      BY <1>0, <2>1 DEF Report, Snapshot, SnapshotOf
    <2>4. reporters' \in [Reporter -> Report \cup {Idle}]
      BY <2>2, <2>3 DEF ReporterGoes, TypeOK
    <2> QED BY <1>7, <2>1, <2>2, <2>4 DEF DoneInCycle, TypeOK
  <1> QED BY <1>1, <1>2, <1>3, <1>4, <1>5, <1>6, <1>7 DEF Work

LEMMA ReportType ==
  ASSUME TypeOK, NEW r \in Reporter, Reporting(r),
         reporters[r] # Idle => \A s \in reporters[r].todo : ReadingHolds(s)
  PROVE  TypeOK'
  <1>1. CASE StartSync(r)
    BY <1>1, UnheardType, SweepingType DEF StartSync, TypeOK
  <1>2. CASE Send(r)
    <2>1. reporters[r] \in Report
      BY <1>2 DEF Send, TypeOK, Report, Idle
    <2>2. PICK s \in First(reporters[r].todo) : Heard(r, s.bead) \/ Unheeded(r, s.bead)
      BY <1>2 DEF Send
    <2>3. s \in Snapshot
      BY <2>1, <2>2, FirstIsRead DEF Report
    <2>4. CASE Heard(r, s.bead)
      <3>1. [reporters[r] EXCEPT !.at = "receipt"] \in Report
        BY <2>1 DEF Report
      <3>2. reporters' \in [Reporter -> Report \cup {Idle}] /\ faults' \in 0..MaxFault
        BY <2>4, <3>1, FaultType DEF Heard, ReporterGoes, TypeOK
      <3>3. s.bead \in Mirror /\ s.bead.status \in Ending
        BY <1>2, <2>1, <2>2, <2>3, FirstIsRead DEF Report, Idle, ReadingHolds, Snapshot
      <3>4. plane' \in [Item -> PlaneItem]
        <4>1. plane[s.bead.item] \in PlaneItem /\ s.bead.item \in Item
          BY <3>3 DEF TypeOK, Mirror
        <4>2. plane' = [plane EXCEPT ![s.bead.item] =
                          [plane[s.bead.item] EXCEPT !.lease = "closed", !.outcome = s.bead.status]]
          BY <2>4, <4>1 DEF Heard, TypeOK
        <4> QED BY <3>3, <4>1, <4>2 DEF TypeOK, PlaneItem
      <3> QED BY <1>2, <3>2, <3>4 DEF Send, TypeOK
    <2>5. CASE Unheeded(r, s.bead)
      BY <1>2, <2>5, FaultType DEF Send, Unheeded, ReporterGoes, TypeOK
    <2> QED BY <2>2, <2>4, <2>5
  <1>3. CASE WriteReceipt(r)
    <2>1. reporters[r] \in Report
      BY <1>3 DEF WriteReceipt, TypeOK, Report, Idle
    <2>2. PICK s \in First(reporters[r].todo) :
            /\ beads' = [beads EXCEPT ![s.index].receipt = s.bead.status]
            /\ Sweeping(r, reporters[r].todo \ {s})
      BY <1>3 DEF WriteReceipt
    <2>3. s \in Snapshot /\ ReadingHolds(s)
      BY <1>3, <2>1, <2>2, FirstIsRead DEF Report, Idle
    <2>4. beads' \in Seq(Mirror)
      <3>1. [beads[s.index] EXCEPT !.receipt = s.bead.status] \in Mirror
        BY <2>3, MirrorChanged DEF TypeOK, Snapshot, Mirror, ReadingHolds
      <3>2. beads' = [beads EXCEPT ![s.index] = [beads[s.index] EXCEPT !.receipt = s.bead.status]]
        BY <2>2, <2>3 DEF TypeOK, ReadingHolds
      <3> QED BY <2>3, <3>1, <3>2, MirrorChanged DEF TypeOK, ReadingHolds
    <2>5. reporters' \in [Reporter -> Report \cup {Idle}]
      BY <2>1, <2>2, SweepingType DEF Report
    <2> QED BY <1>3, <2>4, <2>5 DEF WriteReceipt, TypeOK
  <1>4. CASE ReporterDies(r)
    BY <1>4, FaultType DEF ReporterDies, ReporterGoes, TypeOK, Idle
  <1> QED BY <1>1, <1>2, <1>3, <1>4 DEF Reporting

-----------------------------------------------------------------------------
(* What no step changes.                                                    *)

\* An item the plane has closed stays closed, with its outcome.
LEMMA ClosedStays ==
  ASSUME TypeOK, [Next]_vars, NEW i \in Item, plane[i].lease = "closed"
  PROVE  plane'[i].lease = "closed" /\ plane'[i].outcome = plane[i].outcome
  <1>1. ASSUME NEW j \in Item, LeaseRunsOut(j) \/ LeasedElsewhere(j)
        PROVE  plane'[i] = plane[i]
    BY <1>1 DEF LeaseRunsOut, LeasedElsewhere, TypeOK
  <1>2. ASSUME NEW p \in Puller, Pulling(p) PROVE plane'[i] = plane[i]
    BY <1>2 DEF Pulling, StartPull, AskPlane, FindMirror, FileMirror, PullDies, TypeOK
  <1>3. ASSUME NEW n \in DOMAIN beads, Work(n) PROVE plane' = plane
    BY <1>3 DEF Work, Start, Fail, Done, Park, ApproveVerify, Retry, DoneInCycle
  <1>4. ASSUME NEW r \in Reporter, Reporting(r), ~Send(r) PROVE plane' = plane
    BY <1>4 DEF Reporting, StartSync, WriteReceipt, ReporterDies
  <1>5. ASSUME NEW r \in Reporter, Send(r)
        PROVE  plane'[i].lease = "closed" /\ plane'[i].outcome = plane[i].outcome
    <2>1. PICK s \in First(reporters[r].todo) : Heard(r, s.bead) \/ Unheeded(r, s.bead)
      BY <1>5 DEF Send
    <2>2. CASE Heard(r, s.bead) /\ s.bead.item = i
      <3>1. plane[i].outcome = s.bead.status
        BY <2>2 DEF Heard, Takes, Repeats
      <3> QED BY <2>2, <3>1 DEF Heard, TypeOK, PlaneItem
    <2>3. CASE Heard(r, s.bead) /\ s.bead.item # i
      BY <2>3 DEF Heard, TypeOK
    <2> QED BY <2>1, <2>2, <2>3 DEF Unheeded
  <1> QED BY <1>1, <1>2, <1>3, <1>4, <1>5 DEF Next, vars

\* A mirror stays in the file, and is of the item it was filed for.
LEMMA MirrorStays ==
  ASSUME TypeOK, [Next]_vars, NEW n \in DOMAIN beads
  PROVE  n \in DOMAIN beads' /\ beads'[n].item = beads[n].item
  <1>1. ASSUME NEW j \in Item, LeaseRunsOut(j) \/ LeasedElsewhere(j) PROVE beads' = beads
    BY <1>1 DEF LeaseRunsOut, LeasedElsewhere
  <1>2. ASSUME NEW p \in Puller, Pulling(p), ~FileMirror(p) PROVE beads' = beads
    BY <1>2 DEF Pulling, StartPull, AskPlane, FindMirror, PullDies
  <1>3. ASSUME NEW p \in Puller, FileMirror(p)
        PROVE  n \in DOMAIN beads' /\ beads'[n] = beads[n]
    BY <1>3 DEF FileMirror, TypeOK
  <1>4. ASSUME NEW m \in DOMAIN beads, Work(m)
        PROVE  n \in DOMAIN beads' /\ beads'[n].item = beads[n].item
    <2> DEFINE Of(f) == DOMAIN f = DOMAIN beads /\ \A k \in DOMAIN beads : f[k].item = beads[k].item
    <2>0. beads[m] \in Mirror
      BY DEF TypeOK
    <2> SUFFICES Of(beads')
      OBVIOUS
    <2>1. CASE Start(m)
      BY <2>0, <2>1 DEF Start, Mirror
    <2>2. CASE Fail(m)
      BY <2>0, <2>2 DEF Fail, Mirror
    <2>3. CASE Done(m)
      BY <2>0, <2>3 DEF Done, Mirror
    <2>4. CASE Park(m)
      BY <2>0, <2>4 DEF Park, Mirror
    <2>5. CASE ApproveVerify(m)
      BY <2>0, <2>5 DEF ApproveVerify, Mirror
    <2>6. CASE Retry(m)
      BY <2>0, <2>6 DEF Retry, Mirror
    <2>7. CASE \E r \in Reporter : DoneInCycle(m, r)
      BY <2>0, <2>7 DEF DoneInCycle, Mirror
    <2> QED BY <1>4, <2>1, <2>2, <2>3, <2>4, <2>5, <2>6, <2>7 DEF Work
  <1>5. ASSUME NEW r \in Reporter, Reporting(r), ~WriteReceipt(r) PROVE beads' = beads
    BY <1>5 DEF Reporting, StartSync, Send, ReporterDies
  <1>6. ASSUME NEW r \in Reporter, WriteReceipt(r)
        PROVE  n \in DOMAIN beads' /\ beads'[n].item = beads[n].item
    <2>1. PICK s \in First(reporters[r].todo) :
            beads' = [beads EXCEPT ![s.index].receipt = s.bead.status]
      BY <1>6 DEF WriteReceipt
    <2> QED BY <2>1 DEF TypeOK, Mirror
  <1> QED BY <1>1, <1>2, <1>3, <1>4, <1>5, <1>6 DEF Next, vars

\* Only FileMirror lengthens the file, and it looks under the lock.
LEMMA OnceStep ==
  ASSUME TypeOK, MirroredOnce, [Next]_vars
  PROVE  MirroredOnce'
  <1>1. CASE DOMAIN beads' \subseteq DOMAIN beads
    BY <1>1, MirrorStays DEF MirroredOnce
  <1>2. ASSUME NEW p \in Puller, FileMirror(p) PROVE MirroredOnce'
    <2>1. CASE Holders(pullers[p].got.item) # {}
      BY <1>2, <2>1 DEF FileMirror, MirroredOnce
    <2>2. CASE Holders(pullers[p].got.item) = {}
      <3> DEFINE k == Len(beads) + 1
      <3>1. /\ DOMAIN beads' = 1..k /\ DOMAIN beads = 1..(k - 1) /\ k \in Nat
            /\ beads'[k].item = pullers[p].got.item
            /\ \A n \in DOMAIN beads : beads'[n] = beads[n]
        BY <1>2, <2>2 DEF FileMirror, NewMirror, TypeOK
      <3>2. \A n \in DOMAIN beads : beads[n].item # pullers[p].got.item
        BY <2>2 DEF Holders
      <3>3. \A n \in DOMAIN beads' : n = k \/ n \in DOMAIN beads
        BY <3>1
      <3> QED BY <3>1, <3>2, <3>3 DEF MirroredOnce
    <2> QED BY <2>1, <2>2
  <1>3. ASSUME NEW m \in DOMAIN beads, Work(m) PROVE DOMAIN beads' = DOMAIN beads
    BY <1>3 DEF Work, Start, Fail, Done, Park, ApproveVerify, Retry, DoneInCycle, TypeOK
  <1>4. ASSUME NEW r \in Reporter, WriteReceipt(r) PROVE DOMAIN beads' = DOMAIN beads
    BY <1>4 DEF WriteReceipt, TypeOK
  <1> QED
    BY <1>1, <1>2, <1>3, <1>4
    DEF Next, vars, LeaseRunsOut, LeasedElsewhere, Pulling, StartPull, AskPlane, FindMirror,
        PullDies, Reporting, StartSync, Send, ReporterDies

-----------------------------------------------------------------------------
(* The gate on the mirrors.                                                 *)

LEMMA LiftedStep ==
  ASSUME TypeOK, MirrorsLifted, [Next]_vars
  PROVE  MirrorsLifted'
  <1> SUFFICES ASSUME beads' # beads PROVE MirrorsLifted'
    BY DEF MirrorsLifted, GateIsLifted
  <1>1. ASSUME NEW p \in Puller, FileMirror(p) PROVE MirrorsLifted'
    BY <1>1 DEF FileMirror, NewMirror, MirrorsLifted, GateIsLifted, TypeOK
  <1>2. ASSUME NEW m \in DOMAIN beads, Work(m) PROVE MirrorsLifted'
    <2>0. beads[m] \in Mirror /\ GateIsLifted(beads[m])
      BY DEF TypeOK, MirrorsLifted
    <2> SUFFICES /\ DOMAIN beads' = DOMAIN beads /\ GateIsLifted(beads'[m])
                 /\ \A k \in DOMAIN beads : k # m => beads'[k] = beads[k]
      BY DEF MirrorsLifted, GateIsLifted
    <2>1. CASE Start(m)
      BY <2>0, <2>1 DEF Start, Mirror, GateIsLifted
    <2>2. CASE Fail(m)
      BY <2>0, <2>2 DEF Fail, Mirror, GateIsLifted
    <2>3. CASE Done(m)
      BY <2>0, <2>3 DEF Done, Mirror, GateIsLifted
    <2>4. CASE Park(m)
      BY <2>0, <2>4 DEF Park, Mirror, GateIsLifted
    <2>5. CASE ApproveVerify(m)
      BY <2>0, <2>5 DEF ApproveVerify, Mirror, GateIsLifted
    <2>6. CASE Retry(m)
      BY <2>0, <2>6 DEF Retry, Mirror, GateIsLifted
    <2>7. CASE \E r \in Reporter : DoneInCycle(m, r)
      BY <2>0, <2>7 DEF DoneInCycle, Mirror, GateIsLifted
    <2> QED BY <1>2, <2>1, <2>2, <2>3, <2>4, <2>5, <2>6, <2>7 DEF Work
  <1>3. ASSUME NEW r \in Reporter, WriteReceipt(r) PROVE MirrorsLifted'
    <2>1. PICK s \in First(reporters[r].todo) :
            beads' = [beads EXCEPT ![s.index].receipt = s.bead.status]
      BY <1>3 DEF WriteReceipt
    <2> QED BY <2>1 DEF MirrorsLifted, GateIsLifted, TypeOK, Mirror
  <1> QED
    BY <1>1, <1>2, <1>3
    DEF Next, vars, LeaseRunsOut, LeasedElsewhere, Pulling, StartPull, AskPlane, FindMirror,
        PullDies, Reporting, StartSync, Send, ReporterDies

-----------------------------------------------------------------------------
(* What reporters have read and been answered.                              *)

\* What was read and answered holds in the next state too.
LEMMA ReadingStays ==
  ASSUME TypeOK, [Next]_vars, NEW s \in Snapshot, ReadingHolds(s)
  PROVE  ReadingHolds(s)' /\ (AnswerHolds(s) => AnswerHolds(s)')
  <1>1. s.bead.item \in Item
    BY DEF Snapshot, Mirror
  <1>2. s.index \in DOMAIN beads' /\ beads'[s.index].item = s.bead.item
    BY MirrorStays DEF ReadingHolds
  <1>3. AnswerHolds(s) => AnswerHolds(s)'
    BY <1>1, ClosedStays DEF AnswerHolds
  <1> QED BY <1>2, <1>3 DEF ReadingHolds, GateIsLifted

\* A sweep reads what holds.
LEMMA UnheardHolds ==
  ASSUME TypeOK, MirrorsLifted
  PROVE  /\ \A s \in Unheard : s \in Snapshot /\ ReadingHolds(s)
         /\ \A s, t \in Unheard : s.index = t.index => s = t
  BY UnheardType
  DEF Unheard, SnapshotOf, Unreported, ReadingHolds, MirrorsLifted, GateIsLifted, TypeOK

LEMMA ReportersStep ==
  ASSUME TypeOK, MirrorsLifted, ReportersHold, [Next]_vars
  PROVE  ReportersHold'
  <1> DEFINE Holds(r) ==
        reporters'[r] # Idle =>
          /\ \A s \in reporters'[r].todo : ReadingHolds(s)'
          /\ \A s, t \in reporters'[r].todo : s.index = t.index => s = t
          /\ reporters'[r].at = "receipt" =>
               \A s \in First(reporters'[r].todo) : AnswerHolds(s)'
  <1> SUFFICES ASSUME NEW q \in Reporter PROVE Holds(q)
    BY DEF ReportersHold
  <1>0. ASSUME reporters'[q] = reporters[q], reporters[q] # Idle PROVE Holds(q)
    <2>0. reporters[q] \in Report
      BY <1>0 DEF TypeOK
    <2>1. \A s \in reporters[q].todo : s \in Snapshot /\ ReadingHolds(s)
      BY <1>0, <2>0 DEF Report, ReportersHold
    <2>2. \A s \in reporters[q].todo : ReadingHolds(s)' /\ (AnswerHolds(s) => AnswerHolds(s)')
      BY <2>1, ReadingStays
    <2> QED BY <1>0, <2>2, FirstIsRead DEF ReportersHold
  <1>1. ASSUME NEW m \in DOMAIN beads, NEW r \in Reporter, DoneInCycle(m, r), q = r
        PROVE  Holds(q)
    <2> DEFINE bead == [beads[m] EXCEPT !.status = "done", !.proved = @ \/ beads[m].verify # "none"]
    <2>1. beads' = [beads EXCEPT ![m] = bead]
      BY <1>1 DEF DoneInCycle
    <2>2. CASE Unreported(bead)
      <3>1. reporters'[q] = [at |-> "hooked", todo |-> {SnapshotOf(m, bead)}]
        BY <1>1, <2>2 DEF DoneInCycle, ReporterGoes, TypeOK
      <3>2. beads[m] \in Mirror /\ MirrorsLifted'
        BY LiftedStep DEF TypeOK
      <3>3. beads'[m] = bead /\ m \in DOMAIN beads' /\ GateIsLifted(bead)
        BY <2>1, <3>2 DEF MirrorsLifted, TypeOK, GateIsLifted
      <3>4. PICK s : s = SnapshotOf(m, bead)
        OBVIOUS
      <3>5. ReadingHolds(s)'
        BY <2>2, <3>3, <3>4 DEF ReadingHolds, SnapshotOf, Unreported, GateIsLifted
      <3> QED BY <3>1, <3>4, <3>5
    <2>3. CASE ~Unreported(bead)
      BY <1>1, <2>3 DEF DoneInCycle, ReporterGoes, TypeOK
    <2> QED BY <2>2, <2>3
  <1>2. ASSUME StartSync(q) PROVE Holds(q)
    <2>1. reporters'[q] = Idle \/ reporters'[q] = [at |-> "sweeping", todo |-> Unheard]
      BY <1>2 DEF StartSync, Sweeping, ReporterGoes, TypeOK
    <2>2. \A s \in Unheard : ReadingHolds(s)'
      BY UnheardHolds, ReadingStays
    <2> QED BY <2>1, <2>2, UnheardHolds
  <1>3. ASSUME Send(q) PROVE Holds(q)
    <2>1. reporters[q] \in Report /\ reporters[q] # Idle
      BY <1>3 DEF Send, TypeOK, Report, Idle
    <2>2. PICK s \in First(reporters[q].todo) : Heard(q, s.bead) \/ Unheeded(q, s.bead)
      BY <1>3 DEF Send
    <2>3. CASE reporters'[q] = Idle
      BY <2>3
    <2>4. CASE Heard(q, s.bead) /\ reporters'[q] = [reporters[q] EXCEPT !.at = "receipt"]
      <3>1. reporters'[q].todo = reporters[q].todo
        BY <2>1, <2>4 DEF Report
      <3>2. \A t \in reporters[q].todo : ReadingHolds(t)'
        BY <2>1, ReadingStays DEF Report, ReportersHold
      <3>3. AnswerHolds(s)'
        <4>1. s.bead.item \in Item
          BY <2>1, <2>2, FirstIsRead DEF Report, Snapshot, Mirror
        <4> QED BY <2>4, <4>1 DEF Heard, AnswerHolds, TypeOK, PlaneItem
      <3>4. \A t \in First(reporters[q].todo) : t = s
        <4>1. \A t \in reporters[q].todo : t.index \in Nat
          BY <2>1 DEF Report, Snapshot
        <4> QED BY <2>1, <2>2, <4>1 DEF First, ReportersHold
      <3> QED BY <2>1, <3>1, <3>2, <3>3, <3>4 DEF ReportersHold
    <2> QED BY <2>1, <2>2, <2>3, <2>4 DEF Heard, Unheeded, ReporterGoes, TypeOK
  <1>4. ASSUME WriteReceipt(q) PROVE Holds(q)
    <2>1. reporters[q] \in Report /\ reporters[q] # Idle
      BY <1>4 DEF WriteReceipt, TypeOK, Report, Idle
    <2>2. PICK s \in First(reporters[q].todo) : Sweeping(q, reporters[q].todo \ {s})
      BY <1>4 DEF WriteReceipt
    <2>3. \/ reporters'[q] = Idle
          \/ reporters'[q] = [at |-> "sweeping", todo |-> reporters[q].todo \ {s}]
      BY <2>2 DEF Sweeping, ReporterGoes, TypeOK
    <2>4. \A t \in reporters[q].todo : ReadingHolds(t)'
      BY <2>1, ReadingStays DEF Report, ReportersHold
    <2> QED BY <2>1, <2>3, <2>4 DEF ReportersHold
  <1>5. ASSUME ReporterDies(q) PROVE Holds(q)
    BY <1>5 DEF ReporterDies, ReporterGoes, TypeOK
  <1>6. CASE reporters'[q] = reporters[q]
    <2>1. CASE reporters[q] = Idle
      BY <1>6, <2>1
    <2> QED BY <1>0, <1>6, <2>1
  <1>7. ASSUME NEW r \in Reporter, Reporting(r), r # q PROVE reporters'[q] = reporters[q]
    BY <1>7
    DEF Reporting, StartSync, Send, Heard, Unheeded, WriteReceipt, ReporterDies, Sweeping,
        ReporterGoes, TypeOK
  <1>8. ASSUME NEW m \in DOMAIN beads, NEW r \in Reporter, DoneInCycle(m, r), r # q
        PROVE  reporters'[q] = reporters[q]
    BY <1>8 DEF DoneInCycle, ReporterGoes, TypeOK
  <1>9. ASSUME NEW m \in DOMAIN beads, Work(m), reporters'[q] # reporters[q]
        PROVE  \E r \in Reporter : DoneInCycle(m, r)
    BY <1>9 DEF Work, Start, Fail, Done, Park, ApproveVerify, Retry
  <1>10. \/ \E i \in Item : LeaseRunsOut(i) \/ LeasedElsewhere(i)
         \/ \E p \in Puller : Pulling(p)
         \/ UNCHANGED vars
         => reporters' = reporters
    BY DEF LeaseRunsOut, LeasedElsewhere, Pulling, StartPull, AskPlane, FindMirror, FileMirror,
        PullDies, vars
  <1> HIDE DEF Holds
  <1> QED
    BY <1>1, <1>2, <1>3, <1>4, <1>5, <1>6, <1>7, <1>8, <1>9, <1>10 DEF Next, Reporting

-----------------------------------------------------------------------------
(* The receipts.                                                            *)

LEMMA ReceiptsStep ==
  ASSUME IInv, [Next]_vars
  PROVE  ReceiptMeansHeard'
  <1> SUFFICES ASSUME NEW n \in DOMAIN beads', beads'[n].receipt # NoOutcome
               PROVE  /\ plane'[beads'[n].item].lease = "closed"
                      /\ plane'[beads'[n].item].outcome = beads'[n].receipt
    BY DEF ReceiptMeansHeard
  <1> USE DEF IInv
  <1>1. CASE n \in DOMAIN beads /\ beads'[n].receipt = beads[n].receipt
    <2>0. beads[n] \in Mirror
      BY <1>1 DEF TypeOK
    <2>1. beads[n].item \in Item /\ beads'[n].item = beads[n].item
      BY <1>1, <2>0, MirrorStays DEF Mirror
    <2> QED BY <1>1, <2>1, ClosedStays DEF ReceiptMeansHeard
  <1>2. ASSUME NEW r \in Reporter, WriteReceipt(r),
               ~(n \in DOMAIN beads /\ beads'[n].receipt = beads[n].receipt)
        PROVE  /\ plane'[beads'[n].item].lease = "closed"
               /\ plane'[beads'[n].item].outcome = beads'[n].receipt
    <2>1. reporters[r] \in Report /\ reporters[r] # Idle
      BY <1>2 DEF WriteReceipt, TypeOK, Report, Idle
    <2>2. PICK s \in First(reporters[r].todo) :
            beads' = [beads EXCEPT ![s.index].receipt = s.bead.status]
      BY <1>2 DEF WriteReceipt
    <2>3. ReadingHolds(s) /\ AnswerHolds(s)
      BY <1>2, <2>1, <2>2, FirstIsRead DEF WriteReceipt, ReportersHold
    <2>4. n = s.index /\ beads'[n].receipt = s.bead.status /\ beads'[n].item = s.bead.item
      BY <1>2, <2>2, <2>3 DEF ReadingHolds, TypeOK, Mirror
    <2> QED BY <1>2, <2>3, <2>4 DEF AnswerHolds, WriteReceipt
  <1>3. ASSUME NEW p \in Puller, FileMirror(p)
        PROVE  n \in DOMAIN beads /\ beads'[n].receipt = beads[n].receipt
    BY <1>3 DEF FileMirror, NewMirror, TypeOK
  <1>4. ASSUME NEW m \in DOMAIN beads, Work(m)
        PROVE  n \in DOMAIN beads /\ beads'[n].receipt = beads[n].receipt
    <2>0. beads[m] \in Mirror
      BY DEF TypeOK
    <2> SUFFICES /\ DOMAIN beads' = DOMAIN beads
                 /\ \A k \in DOMAIN beads : beads'[k].receipt = beads[k].receipt
      OBVIOUS
    <2>1. CASE Start(m)
      BY <2>0, <2>1 DEF Start, Mirror
    <2>2. CASE Fail(m)
      BY <2>0, <2>2 DEF Fail, Mirror
    <2>3. CASE Done(m)
      BY <2>0, <2>3 DEF Done, Mirror
    <2>4. CASE Park(m)
      BY <2>0, <2>4 DEF Park, Mirror
    <2>5. CASE ApproveVerify(m)
      BY <2>0, <2>5 DEF ApproveVerify, Mirror
    <2>6. CASE Retry(m)
      BY <2>0, <2>6 DEF Retry, Mirror
    <2>7. CASE \E r \in Reporter : DoneInCycle(m, r)
      BY <2>0, <2>7 DEF DoneInCycle, Mirror
    <2> QED BY <1>4, <2>1, <2>2, <2>3, <2>4, <2>5, <2>6, <2>7 DEF Work
  <1>5. CASE beads' = beads
    BY <1>1, <1>5
  <1> QED
    BY <1>1, <1>2, <1>3, <1>4, <1>5
    DEF Next, vars, LeaseRunsOut, LeasedElsewhere, Pulling, StartPull, AskPlane, FindMirror,
        PullDies, Reporting, StartSync, Send, ReporterDies

-----------------------------------------------------------------------------
(* The invariants.                                                          *)

\* HubMirror's inductive invariant holds in every reachable state.
THEOREM HubInvariance == Spec => []IInv
  <1>1. Init => IInv
    <2> SUFFICES ASSUME Init PROVE IInv
      OBVIOUS
    <2>1. beads = <<>> /\ \A r \in Reporter : reporters[r] = Idle
      BY DEF Init
    <2> QED BY <2>1, InitType DEF IInv, MirroredOnce, MirrorsLifted, ReportersHold, ReceiptMeansHeard
  <1>2. IInv /\ [Next]_vars => IInv'
    <2> SUFFICES ASSUME IInv, [Next]_vars PROVE IInv'
      OBVIOUS
    <2>1. TypeOK'
      <3>1. CASE UNCHANGED vars
        BY <3>1 DEF IInv, TypeOK, vars
      <3> QED BY <3>1, PlaneType, PullType, WorkType, ReportType DEF IInv, ReportersHold, Next
    <2> QED BY <2>1, OnceStep, LiftedStep, ReportersStep, ReceiptsStep DEF IInv
  <1> QED BY <1>1, <1>2, PTL DEF Spec

\* A receipt on a mirror (report_back) says what the plane has, whatever was
\* lost, raced or retried.
THEOREM ReceiptsAreHeard == Spec => []ReceiptMeansHeard
  <1>1. IInv => ReceiptMeansHeard
    BY DEF IInv
  <1> QED BY <1>1, HubInvariance, PTL

\* However many pulls race for it and however often its lease is issued again,
\* an item of the plane is one bead (mirror, and create's look under the lock).
THEOREM ItemsAreMirroredOnce == Spec => []MirroredOnce
  <1>1. IInv => MirroredOnce
    BY DEF IInv
  <1> QED BY <1>1, HubInvariance, PTL

\* No report of work behind a deterministic gate goes out without its
\* attestation (mirror, attestation_for), whichever road the bead took to DONE.
THEOREM ChecksAreAttested == Spec => []CheckedDoneIsAttested
  <1>1. IInv => CheckedDoneIsAttested
    BY FirstIsRead
    DEF IInv, ReportersHold, ReadingHolds, GateIsLifted, CheckedDoneIsAttested, Sent,
        Attestation, Idle
  <1> QED BY <1>1, HubInvariance, PTL
=============================================================================
