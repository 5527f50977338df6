------------------------------- MODULE RunTree -------------------------------
(***************************************************************************)
(* A run of a procedure: AsopStore.run files a parent bead and one bead    *)
(* per step, a step whose body is another procedure gets a container with  *)
(* that procedure's steps below it, and Beads._on_step_closed closes       *)
(* containers and parent as their steps land DONE.                         *)
(*                                                                         *)
(* Each create and each update takes the store lock on its own, so the     *)
(* daemon and people work a tree that is still being filed.  The cascade   *)
(* holds the lock but rewrites the file once per level; readers take no    *)
(* lock, and the process can die between two of its writes.                *)
(*                                                                         *)
(* A bead's own lease and gate are module BeadStore's.  Here a step is     *)
(* claimed, reported and approved with as much of them as the tree sees.   *)
(***************************************************************************)
EXTENDS Integers, Sequences, SequencesExt, FiniteSets

CONSTANTS
  Procedure,   \* the active versions of the ASOP store
  StepsOf,     \* their steps
  Runnable,    \* those a run is filed of
  Filable,     \* those that exist with every role bound
  MaxDepth,    \* MAX_SUBTASK_DEPTH
  MaxBead,     \* bound: beads the store holds
  MaxAttempt,  \* bound on lease_attempt
  Call,        \* slots for API calls in flight
  Outcome,     \* what working a gated step can amount to
  Verb,        \* the verbs used on the tree
  None         \* a step with no nested procedure; no verb

AllVerb == {"complete", "approve", "retry", "reap", "cancel", "pin", "refuse", "crash"}

Bead == 1..MaxBead
NoBead == 0

Status == {"absent", "pending", "in_progress", "done", "failed", "cancelled",
           "awaiting_verify", "verify_failed"}

Step == [uses: Procedure \cup {None}, after: SUBSET Bead, role: {"agent", "human"}]

ASSUME TreeAssumption ==
  /\ MaxDepth \in Nat /\ MaxBead \in Nat /\ MaxAttempt \in Nat
  /\ StepsOf \in [Procedure -> Seq(Step)]
  /\ \A p \in Procedure : \A i \in 1..Len(StepsOf[p]) : StepsOf[p][i].after \subseteq 1..(i - 1)
  /\ Runnable \subseteq Filable /\ Filable \subseteq Procedure
  /\ Outcome \subseteq {"done", "awaiting_verify", "verify_failed", "failed"}
  /\ Verb \subseteq AllVerb
  /\ None \notin Procedure \cup AllVerb

VARIABLES
  beads,     \* the store file
  filed,     \* how many beads have been appended to it
  filer,     \* AsopStore.run and its recursion
  closing,   \* the bead whose _on_step_closed runs next; the lock is held
  offered,   \* what the cycle still has of the ready() list it took
  work,      \* leases out with an agent: <<bead, attempt>>
  calls,     \* API calls between their look at the bead and the lock
  released,  \* history: beads that have been DONE
  lost       \* history: parents whose closing died with the lock's holder

vars == <<beads, filed, filer, closing, offered, work, calls, released, lost>>

-----------------------------------------------------------------------------
\* The metadata keys the tree turns on: a gate, dispatch_refusal,
\* run_closed_at with run_review, and run_steps_done_at.
Key == {"verify", "refused", "closed", "steps_done"}

Task == [status: Status, parent: 0..MaxBead, blockers: SUBSET Bead, step: BOOLEAN,
         owner: {"none", "agent", "human"}, attempt: 0..MaxAttempt, meta: SUBSET Key]

Absent == [status |-> "absent", parent |-> NoBead, blockers |-> {}, step |-> FALSE,
           owner |-> "none", attempt |-> 0, meta |-> {}]

Frame == [of: Procedure, parent: Bead, ids: Seq(Bead)]
Filer == [phase: {"idle", "filing", "filed", "refused", "crashed"}, stack: Seq(Frame)]

Request == [verb: AllVerb \cup {None}, bead: 0..MaxBead, seen: SUBSET Key]
NoCall == [verb |-> None, bead |-> NoBead, seen |-> {}]

TypeOK ==
  /\ beads \in [Bead -> Task]
  /\ filed \in 0..MaxBead
  /\ filer \in Filer
  /\ closing \in 0..MaxBead
  /\ offered \subseteq Bead
  /\ work \subseteq Bead \X (1..MaxAttempt)
  /\ calls \in [Call -> Request]
  /\ released \subseteq Bead
  /\ lost \subseteq Bead

Closed == {"done", "cancelled"}
Filed == 1..filed
Children(p) == {b \in Filed : beads[b].parent = p}
Done(b) == beads[b].status = "done"
LockFree == closing = NoBead

\* Beads._depth_in: generations above a bead, its root being at 0.
Depth[b \in 0..MaxBead] ==
  IF b = NoBead \/ beads[b].parent = NoBead THEN 0 ELSE 1 + Depth[beads[b].parent]

Init ==
  /\ beads = [b \in Bead |-> Absent]
  /\ filed = 0
  /\ filer = [phase |-> "idle", stack |-> <<>>]
  /\ closing = NoBead
  /\ offered = {}
  /\ work = {}
  /\ calls = [c \in Call |-> NoCall]
  /\ released = {}
  /\ lost = {}

-----------------------------------------------------------------------------
(* Filing.                                                                  *)

Top == Last(filer.stack)
Turn == Len(Top.ids) + 1
StepNow == StepsOf[Top.of][Turn]

Push(p, b) == [filer EXCEPT !.stack = Append(@, [of |-> p, parent |-> b, ids |-> <<>>])]

\* The id of the step just filed goes into the frame that filed it.
Noted(stack, b) == Append(Front(stack), [Last(stack) EXCEPT !.ids = Append(@, b)])

\* Beads.create: one append under the lock.
Append1(t) ==
  /\ LockFree /\ filed < MaxBead
  /\ filed' = filed + 1
  /\ beads' = [beads EXCEPT ![filed + 1] = t]
  /\ UNCHANGED <<closing, offered, work, calls, released, lost>>

StartRun ==
  /\ filer.phase = "idle"
  /\ Append1([Absent EXCEPT !.status = "pending"])
  /\ \E p \in Runnable : filer' = [Push(p, filed + 1) EXCEPT !.phase = "filing"]

\* (A mutant of Blockers: a step also waits for the run it belongs to.)
BlockersAndParent(s) == {Top.ids[a] : a \in s.after} \cup {Top.parent}

\* blocked_by of a step: the beads of the steps it is after.
Blockers(s) == {Top.ids[a] : a \in s.after}

Filing == filer.phase = "filing" /\ Turn <= Len(StepsOf[Top.of])

TooDeep == Depth[Top.parent] + 1 > MaxDepth

StepBead(s) ==
  [status |-> "pending", parent |-> Top.parent, blockers |-> Blockers(s), step |-> TRUE,
   owner |-> s.role, attempt |-> 0, meta |-> {"verify"}]

FileStep ==
  /\ Filing /\ StepNow.uses = None /\ ~TooDeep
  /\ Append1(StepBead(StepNow))
  /\ filer' = [filer EXCEPT !.stack = Noted(@, filed + 1)]

FileContainer ==
  /\ Filing /\ StepNow.uses \in Filable /\ ~TooDeep
  /\ Append1([StepBead(StepNow) EXCEPT !.owner = "none", !.meta = {}])
  /\ filer' = Push(StepNow.uses, filed + 1)

\* What was filed before a refusal stays filed.
Refuse ==
  /\ filer' = [phase |-> "refused", stack |-> <<>>]
  /\ UNCHANGED <<beads, filed, closing, offered, work, calls, released, lost>>

\* The inner version does not exist, or leaves a role unbound.
RefuseInner == Filing /\ StepNow.uses \notin Filable \cup {None} /\ Refuse

\* create raises DepthLimitError.
RefuseDepth == Filing /\ StepNow.uses \in Filable \cup {None} /\ TooDeep /\ LockFree /\ Refuse

\* The last line of _file_steps: the parent gets its steps as blocked_by.
BlockParent ==
  /\ filer.phase = "filing" /\ Turn > Len(StepsOf[Top.of])
  /\ LockFree
  /\ beads' = [beads EXCEPT ![Top.parent].blockers = {Top.ids[i] : i \in DOMAIN Top.ids}]
  /\ filer' = IF Len(filer.stack) = 1 THEN [phase |-> "filed", stack |-> <<>>]
              ELSE [filer EXCEPT !.stack = Noted(Front(@), Top.parent)]
  /\ UNCHANGED <<filed, closing, offered, work, calls, released, lost>>

File == StartRun \/ FileStep \/ FileContainer \/ RefuseInner \/ RefuseDepth \/ BlockParent

-----------------------------------------------------------------------------
(* A write that lands, and the cascade it may start.                        *)

\* The tail of Beads.update: the hook runs on the transition into DONE only.
Write(b, t) ==
  /\ LockFree
  /\ beads' = [beads EXCEPT ![b] = t]
  /\ closing' = IF t.status = "done" /\ ~Done(b) THEN b ELSE NoBead
  /\ released' = IF t.status = "done" THEN released \cup {b} ELSE released

AllDone(p) == \A b \in Children(p) : Done(b)

\* (A mutant of Cascade: a parent it closes is not looked at in its turn.)
CascadeOneLevel ==
  LET p == beads[closing].parent
      closes == beads[closing].step /\ p # NoBead /\ ~Done(p) /\ AllDone(p)
  IN /\ ~LockFree
     /\ closing' = NoBead
     /\ beads' = IF closes THEN [beads EXCEPT ![p].status = "done", ![p].meta = @ \cup {"closed"}]
                 ELSE beads
     /\ released' = IF closes THEN released \cup {p} ELSE released
     /\ UNCHANGED <<filed, filer, offered, work, calls, lost>>

\* One level of _on_step_closed, which ends in one rewrite of the file.
Cascade ==
  LET t == beads[closing]
      p == t.parent
      hooked == t.step /\ p # NoBead
      closes == hooked /\ ~Done(p) /\ AllDone(p)
  IN /\ ~LockFree
     /\ \/ /\ closes /\ "verify" \notin beads[p].meta
           /\ beads' = [beads EXCEPT ![p].status = "done", ![p].meta = @ \cup {"closed"}]
           /\ closing' = p
           /\ released' = released \cup {p}
        \/ /\ closes /\ "verify" \in beads[p].meta
           /\ beads' = [beads EXCEPT ![p].meta = @ \cup {"steps_done"}]
           /\ closing' = NoBead
           /\ UNCHANGED released
        \/ /\ ~closes
           /\ closing' = NoBead
           /\ UNCHANGED <<beads, released>>
     /\ UNCHANGED <<filed, filer, offered, work, calls, lost>>

\* The process that holds the lock dies: the lock goes with it.
CrashInCascade ==
  /\ "crash" \in Verb /\ ~LockFree
  /\ closing' = NoBead
  /\ lost' = lost \cup ({beads[closing].parent} \ {NoBead})
  /\ UNCHANGED <<beads, filed, filer, offered, work, calls, released>>

CrashInFiling ==
  /\ "crash" \in Verb /\ filer.phase = "filing"
  /\ filer' = [phase |-> "crashed", stack |-> <<>>]
  /\ UNCHANGED <<beads, filed, closing, offered, work, calls, released, lost>>

-----------------------------------------------------------------------------
(* The daemon cycle.  It takes ready() once and works through that list.    *)

\* (A mutant of Ready: a blocker releases once its agent has reported.)
ReadyOnceReported(b) ==
  LET t == beads[b] IN
  /\ t.status = "pending" /\ t.owner # "human" /\ "refused" \notin t.meta
  /\ \A a \in t.blockers : beads[a].status \notin {"pending", "in_progress"}

\* Beads.ready: blocked only by what is DONE.
Ready(b) ==
  LET t == beads[b] IN
  /\ t.status = "pending" /\ t.owner # "human" /\ "refused" \notin t.meta
  /\ \A a \in t.blockers : Done(a)

TakeReady ==
  /\ offered = {}
  /\ offered' = {b \in Filed : Ready(b)}
  /\ offered' # {}
  /\ UNCHANGED <<beads, filed, filer, closing, work, calls, released, lost>>

\* Beads.claim on a step that names an agent; a lost claim is dropped.
Dispatch(b) ==
  /\ b \in offered /\ beads[b].owner = "agent" /\ LockFree
  /\ offered' = offered \ {b}
  /\ \/ /\ beads[b].status = "pending" /\ beads[b].attempt < MaxAttempt
        /\ LET n == beads[b].attempt + 1 IN
           /\ beads' = [beads EXCEPT ![b].status = "in_progress", ![b].attempt = n]
           /\ work' = work \cup {<<b, n>>}
     \/ /\ beads[b].status # "pending"
        /\ UNCHANGED <<beads, work>>
  /\ UNCHANGED <<filed, filer, closing, calls, released, lost>>

Begin(c, v, b) == calls[c] = NoCall
  /\ calls' = [calls EXCEPT ![c] = [verb |-> v, bead |-> b, seen |-> beads[b].meta]]

\* _execute_task with no assigned_agent: refuse_dispatch("no_executor").
RefuseDispatch(c, b) ==
  /\ b \in offered /\ beads[b].owner # "agent" /\ "refuse" \in Verb
  /\ offered' = offered \ {b}
  /\ Begin(c, "refuse", b)
  /\ UNCHANGED <<beads, filed, filer, closing, work, released, lost>>

\* What DONE amounts to on a bead: a gated one answers its gate first.
Outcomes(b) == IF "verify" \in beads[b].meta THEN Outcome ELSE {"done"}

\* report_result: the fence is the attempt.
Report(w, s) ==
  LET b == w[1] IN
  /\ w \in work /\ s \in Outcomes(b)
  /\ work' = work \ {w}
  /\ \/ /\ beads[b].attempt = w[2]
        /\ Write(b, [beads[b] EXCEPT !.status = s])
     \/ /\ beads[b].attempt # w[2] /\ LockFree
        /\ UNCHANGED <<beads, closing, released>>
  /\ UNCHANGED <<filed, filer, offered, calls, lost>>

-----------------------------------------------------------------------------
(* People and the reaper: each looks at the bead without the lock.          *)

MayBegin(v, b) ==
  LET t == beads[b] IN
  CASE v = "complete" -> t.owner = "human"
    [] v = "approve" -> t.status = "awaiting_verify"
    [] v = "retry" -> t.status = "failed"
    [] v = "reap" -> t.status = "in_progress"
    [] v = "cancel" -> t.status \notin Closed
    [] v = "pin" -> ~t.step
    [] OTHER -> FALSE

Look(c, v, b) ==
  /\ v \in Verb /\ b \in Filed /\ MayBegin(v, b)
  /\ Begin(c, v, b)
  /\ UNCHANGED <<beads, filed, filer, closing, offered, work, released, lost>>

\* `tasks complete` on a bead nobody executes first names the operator.
TakeOn(c, b) ==
  /\ "complete" \in Verb /\ b \in Filed /\ LockFree
  /\ beads[b].owner = "none"
  /\ beads' = [beads EXCEPT ![b].owner = "human"]
  /\ Begin(c, "complete", b)
  /\ UNCHANGED <<filed, filer, closing, offered, work, released, lost>>

\* The metadata a verb hands update(): what it saw, with its own key.
Carried(r) ==
  CASE r.verb = "refuse" -> r.seen \cup {"refused"}
    [] r.verb = "pin" -> r.seen \cup {"verify"}
    [] r.verb \in {"approve", "cancel"} -> r.seen
    [] OTHER -> beads[r.bead].meta

\* update() raises rather than drop a gate pinned since.
KeepsGate(r) == "verify" \in beads[r.bead].meta => "verify" \in Carried(r)

\* The bead as a verb writes it.
Written(r) ==
  LET t == [beads[r.bead] EXCEPT !.meta = Carried(r)] IN
  CASE r.verb = "complete" -> {[t EXCEPT !.status = s] : s \in Outcomes(r.bead) \ {"failed"}}
    [] r.verb = "approve" -> {[t EXCEPT !.status = "done"]}
    [] r.verb \in {"retry", "reap"} -> {[t EXCEPT !.status = "pending"]}
    [] r.verb = "cancel" -> {[t EXCEPT !.status = "cancelled"]}
    [] OTHER -> {t}

Land(c) ==
  LET r == calls[c] IN
  /\ r # NoCall /\ LockFree
  /\ calls' = [calls EXCEPT ![c] = NoCall]
  /\ \/ KeepsGate(r) /\ \E t \in Written(r) : Write(r.bead, t)
     \/ ~KeepsGate(r) /\ UNCHANGED <<beads, closing, released>>
  /\ UNCHANGED <<filed, filer, offered, work, lost>>

Next ==
  \/ File
  \/ Cascade
  \/ CrashInCascade \/ CrashInFiling
  \/ TakeReady
  \/ \E b \in Bead : Dispatch(b)
  \/ \E w \in work : \E s \in Outcome \cup {"done"} : Report(w, s)
  \/ \E c \in Call, b \in Bead : RefuseDispatch(c, b) \/ TakeOn(c, b)
  \/ \E c \in Call, v \in Verb, b \in Bead : Look(c, v, b)
  \/ \E c \in Call : Land(c)

Spec == Init /\ [][Next]_vars

-----------------------------------------------------------------------------
(* What holds of the tree.                                                  *)

\* Work starts in order: a bead with an agent, now or before, had every bead
\* it is blocked by released by then.  AWAITING_VERIFY and VERIFY_FAILED
\* release nothing.
WorkInOrder ==
  \A b \in Filed : beads[b].owner = "agent" /\ beads[b].attempt > 0
                    => beads[b].blockers \subseteq released

\* What makes that inductive: the filer adds only below beads no agent owns,
\* the cycle's list was ready when taken, and calls are about filed beads.
FilerSound ==
  /\ filer.phase = "filing" => filer.stack # <<>>
  /\ \A i \in DOMAIN filer.stack : LET p == filer.stack[i].parent IN
       p \in Filed /\ beads[p].owner # "agent"
OfferedInOrder ==
  \A b \in offered : b \in Filed /\ (beads[b].owner = "agent" => beads[b].blockers \subseteq released)
DoneIsReleased == \A b \in Bead : Done(b) => b \in released
CallsOnFiled == \A c \in Call : calls[c] = NoCall \/ calls[c].bead \in Filed

IInv == TypeOK /\ FilerSound /\ OfferedInOrder /\ DoneIsReleased /\ CallsOnFiled /\ WorkInOrder

\* ASOP.md 5.5 as whoever takes the lock sees it: a parent with all its steps
\* filed and done is closed, or carries a gate of its own that it waits for,
\* unless the process that was to close it died with the lock.
FinishedIsClosed ==
  LockFree /\ filer.phase = "filed" =>
    \A p \in Filed : /\ Children(p) # {} /\ AllDone(p)
                     /\ beads[p].status = "pending"
                     => "verify" \in beads[p].meta \/ p \in lost

\* What makes that inductive: a parent is never an agent's, so it is neither
\* handed out nor failed, and no retry or reap sets it back; and while the lock
\* is held it is the parent of the bead being looked at that is finished.
ParentsAreFiled ==
  /\ closing # NoBead => closing \in Filed
  /\ \A b \in Filed : beads[b].parent # NoBead =>
       /\ beads[b].step /\ beads[b].parent \in Filed
       /\ beads[beads[b].parent].owner # "agent"
AgentsWorkTheirOwn ==
  /\ \A b \in Filed : beads[b].status \in {"in_progress", "failed"} => beads[b].owner = "agent"
  /\ \A w \in work : w[1] \in Filed /\ beads[w[1]].owner = "agent"
  /\ \A c \in Call : calls[c].verb \in {"retry", "reap"} => beads[calls[c].bead].owner = "agent"
FinishedIsSeen ==
  \A p \in Filed : Children(p) # {} /\ AllDone(p) /\ beads[p].status = "pending" =>
    \/ "verify" \in beads[p].meta \/ p \in lost
    \/ ~LockFree /\ beads[closing].parent = p

ClosingInv == ParentsAreFiled /\ AgentsWorkTheirOwn /\ FinishedIsSeen

\* A run that is filed closes, whoever interleaves with its filing.
RunCloses == filer.phase = "filed" ~> Done(1)

\* The filer goes on, an agent comes back with its report, a caller that
\* waits for the lock gets it.  The daemon and the people are strongly fair
\* only because the call slots, which are the model's, may be taken.
Daemon == TakeReady \/ \E b \in Bead : Dispatch(b) \/ \E c \in Call : RefuseDispatch(c, b)
Working == \E w \in work : \E s \in Outcome : Report(w, s)
Landing == \E c \in Call : Land(c)
Finishing(b) == \E c \in Call : beads[b].status = "pending" /\ Look(c, "complete", b)

Fairness ==
  /\ WF_vars(Cascade) /\ WF_vars(File) /\ WF_vars(Working) /\ WF_vars(Landing)
  /\ SF_vars(Daemon)
  /\ \A b \in Bead \ {1} : SF_vars(Finishing(b))

FairSpec == Spec /\ Fairness

-----------------------------------------------------------------------------
(* What the documents say, and the code does not do: see README.            *)

Whole(p) == \A i \in DOMAIN filer.stack : filer.stack[i].parent # p
ParentHeldOpen == \A p \in Filed : Done(p) => Whole(p)
NoReaderSeesItOpen ==
  filer.phase = "filed" =>
    \A p \in Filed : /\ Children(p) # {} /\ AllDone(p) /\ beads[p].status = "pending"
                     => "verify" \in beads[p].meta
RefusalFilesNothing == filer.phase = "refused" => filed = 0
CancelledRunStays ==
  [][\A b \in Bead : beads[b].status = "cancelled" => beads'[b].status = "cancelled"]_vars
ReviewIsKept ==
  [][\A b \in Bead : "closed" \in beads[b].meta => "closed" \in beads'[b].meta]_vars
=============================================================================
