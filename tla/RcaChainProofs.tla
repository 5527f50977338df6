---------------------------- MODULE RcaChainProofs ----------------------------
(***************************************************************************)
(* Theorems about RcaChain, for every set of subjects, messages, reporters *)
(* and agents and every bound: a bead's investigations form a line, one of *)
(* them is open, a report is answered by a current one, and no gated       *)
(* analysis is done without something that follows it.                     *)
(***************************************************************************)
EXTENDS RcaChain, TLAPS, WellFoundedInduction

-----------------------------------------------------------------------------
(* The first and the latest of a set of beads.                              *)

LEMMA LeastExists ==
  ASSUME NEW S \in SUBSET Nat, S # {} PROVE \E m \in S : \A k \in S : m <= k
<1>1. PICK m \in S : \A k \in S : <<k, m>> \notin OpToRel(<, Nat)
  BY WFMin, NatLessThanWellFounded
<1>2. \A k \in S : ~(k < m)
  BY <1>1 DEF OpToRel
<1> QED BY <1>2

LEMMA GreatestExists ==
  ASSUME NEW N \in Nat, NEW S \in SUBSET (1..N), S # {}
  PROVE \E m \in S : \A k \in S : k <= m
<1> DEFINE T == {N - k : k \in S}
<1>1. T \in SUBSET Nat /\ T # {}
  <2>1. \A k \in S : N - k \in Nat
    OBVIOUS
  <2>2. PICK k \in S : TRUE
    OBVIOUS
  <2>3. N - k \in T
    OBVIOUS
  <2> QED BY <2>1, <2>3
<1>2. PICK x \in T : \A y \in T : x <= y
  BY <1>1, LeastExists
<1>3. PICK m \in S : x = N - m
  BY <1>2
<1>4. \A k \in S : N - m <= N - k
  BY <1>2, <1>3
<1> QED BY <1>4

LEMMA FirstIn == ASSUME NEW S \in SUBSET Id, S # {} PROVE First(S) \in S
<1>1. \E b \in S : \A c \in S : b <= c
  BY LeastExists DEF Id
<1> QED BY <1>1 DEF First

LEMMA LatestIn ==
  ASSUME NEW S \in SUBSET Id, S # {}
  PROVE Latest(S) \in S /\ \A c \in S : c <= Latest(S)
<1>1. \E b \in S : \A c \in S : c <= b
  BY GreatestExists, RcaAssumption DEF Id
<1> QED BY <1>1 DEF Latest

-----------------------------------------------------------------------------
(* Types.                                                                   *)

LEMMA Blanks == Absent \in Bead /\ Idle \in Step /\ Free \in Job
  BY RcaAssumption DEF Absent, Idle, Free, Bead, Step, Job, Phase, Id

LEMMA FiledType ==
  ASSUME TypeOK, NEW r \in Bead, File(r)
  PROVE beads' \in [Id -> Bead] /\ filed' \in 0..MaxBeads
  BY RcaAssumption DEF TypeOK, File, Id

LEMMA RewrittenType ==
  ASSUME TypeOK, NEW b \in Id, NEW r \in Bead, beads' = [beads EXCEPT ![b] = r]
  PROVE beads' \in [Id -> Bead]
  BY DEF TypeOK

LEMMA CalledType ==
  ASSUME TypeOK, NEW p \in Process, NEW r \in Step, calls' = [calls EXCEPT ![p] = r]
  PROVE calls' \in [Process -> Step]
  BY DEF TypeOK

LEMMA AnalysisType ==
  ASSUME NEW s \in Subject \cup {None}, NEW e \in Error \cup {None},
         NEW cycle \in 0..MaxCycle, NEW root \in 0..MaxBeads, NEW after \in 0..MaxBeads
  PROVE Analysis(s, e, cycle, root, after) \in Bead
  BY Blanks DEF Analysis, Bead, Phase, Absent

LEMMA RootOfType == ASSUME TypeOK, NEW b \in Id PROVE RootOf(b) \in Id
  BY DEF TypeOK, Bead, RootOf, Id

LEMMA PriorType ==
  ASSUME NEW s
  PROVE /\ Prior(s) \in 0..MaxBeads
        /\ Prior(s) # 0 => Prior(s) \in RootsOf(s) \ OpenAnalyses
        /\ \A d \in RootsOf(s) \ OpenAnalyses : d <= Prior(s)
<1> DEFINE closed == RootsOf(s) \ OpenAnalyses
<1>1. closed \in SUBSET Id
  BY DEF RootsOf, Analyses
<1>2. CASE closed = {}
  BY <1>2, RcaAssumption DEF Prior
<1>3. CASE closed # {}
  <2>1. Latest(closed) \in closed /\ \A c \in closed : c <= Latest(closed)
    BY <1>1, <1>3, LatestIn
  <2>2. Prior(s) = Latest(closed)
    BY <1>3 DEF Prior
  <2>3. Latest(closed) \in 0..MaxBeads
    BY <1>1, <2>1, RcaAssumption DEF Id
  <2> QED BY <2>1, <2>2, <2>3
<1> QED BY <1>2, <1>3

LEMMA HoldersIn ==
  ASSUME NEW s, NEW cycle, NEW after, Holders(s, cycle, after) # {}
  PROVE First(Holders(s, cycle, after)) \in Holders(s, cycle, after)
  BY FirstIn DEF Holders, Analyses

\* A call that files or finds an analysis goes on to pin it.
LEMMA CreateType ==
  ASSUME TypeOK, NEW p \in Process, NEW c \in Step, NEW r \in Bead,
         CreateOrReturn(p, c, r)
  PROVE /\ beads' \in [Id -> Bead] /\ filed' \in 0..MaxBeads
        /\ calls' \in [Process -> Step]
<1> DEFINE held == Holders(r.for, r.cycle, r.after)
<1>1. CASE held # {}
  <2>1. First(held) \in Id
    BY <1>1, HoldersIn DEF Holders, Analyses
  <2>2. First(held) \in 0..MaxBeads /\ beads[First(held)].also \in SUBSET Subject
    <3>1. ASSUME NEW b \in Id
          PROVE b \in 0..MaxBeads /\ beads[b].also \in SUBSET Subject
      BY RcaAssumption DEF TypeOK, Bead, Id
    <3> HIDE DEF held
    <3> QED BY <2>1, <3>1
  <2>3. [c EXCEPT !.stage = "pin", !.bead = First(held),
                  !.also = beads[First(held)].also] \in Step
    BY <2>2 DEF Step
  <2>4. UNCHANGED <<beads, filed>>
    BY <1>1 DEF CreateOrReturn
  <2> QED BY <1>1, <2>3, <2>4, CalledType DEF CreateOrReturn, TypeOK
<1>2. CASE held = {}
  <2>1. File(r) /\ calls' = [calls EXCEPT ![p] =
                     [c EXCEPT !.stage = "pin", !.bead = filed + 1, !.also = {}]]
    BY <1>2 DEF CreateOrReturn
  <2>2. filed + 1 \in 0..MaxBeads
    BY <2>1, RcaAssumption DEF File, TypeOK
  <2>3. [c EXCEPT !.stage = "pin", !.bead = filed + 1, !.also = {}] \in Step
    BY <2>2 DEF Step
  <2> QED BY <2>1, <2>3, CalledType, FiledType
<1> QED BY <1>1, <1>2

LEMMA ReportedType ==
  ASSUME TypeOK, \A q \in Process : CallHolds(q), NEW p \in Reporter, Reported(p)
  PROVE TypeOK'
<1> p \in Process
  BY DEF Process
<1>0. calls[p] \in Step
  BY DEF TypeOK
<1>1. ASSUME NEW s \in Subject, NEW e \in Error, Begin(p, s, e)
      PROVE reports' \in 0..MaxReports /\ calls' \in [Process -> Step]
  <2>1. [Idle EXCEPT !.stage = "find", !.subject = s, !.error = e] \in Step
    BY Blanks DEF Step, Idle
  <2>2. calls' \in [Process -> Step]
    BY <1>1, <2>1, CalledType DEF Begin
  <2> QED BY <1>1, <2>2, RcaAssumption DEF Begin, TypeOK
<1>2. ASSUME NEW s \in Subject, NEW e \in Error, Fail(p, s, e) \/ AskForRca(p, s, e)
      PROVE TypeOK'
  BY <1>1, <1>2 DEF Fail, AskForRca, TypeOK
<1>3. CASE FindExisting(p)
  <2> DEFINE c == calls[p]
             found == Existing(c.subject, c.error)
             r == First(found)
  <2>1. c.stage = "find" /\ c.subject \in Subject
    BY <1>3 DEF FindExisting, CallHolds
  <2>2. found \in SUBSET Id
    BY DEF Existing, OpenAnalyses, Analyses
  <2>3. [c EXCEPT !.stage = "prior", !.over = RootsOf(c.subject)] \in Step
    BY <1>0 DEF Step, RootsOf, Analyses
  <2>4. ASSUME found # {}
        PROVE [c EXCEPT !.stage = "fold", !.bead = r, !.also = beads[r].also] \in Step
    <3>1. r \in Id
      BY <2>2, <2>4, FirstIn
    <3>2. r \in 0..MaxBeads /\ beads[r].also \in SUBSET Subject
      BY <3>1, RcaAssumption DEF TypeOK, Bead, Id
    <3> QED BY <1>0, <3>2 DEF Step
  <2>5. PICK n \in Step : calls' = [calls EXCEPT ![p] = n]
    BY <1>3, <2>3, <2>4, Blanks DEF FindExisting
  <2> QED BY <1>3, <2>5, CalledType DEF FindExisting, TypeOK
<1>4. CASE Fold(p)
  <2> DEFINE c == calls[p]
             n == [beads[c.bead] EXCEPT !.also = c.also \cup {c.subject}]
  <2>1. c.bead \in Id /\ c.subject \in Subject
    BY <1>4 DEF Fold, CallHolds, Analyses
  <2>2. n \in Bead
    BY <1>0, <2>1 DEF TypeOK, Bead, Step
  <2>3. beads' = [beads EXCEPT ![c.bead] = n]
    BY <1>4 DEF Fold
  <2>4. beads' \in [Id -> Bead]
    BY <2>1, <2>2, <2>3, RewrittenType
  <2>5. calls' \in [Process -> Step]
    BY <1>4, Blanks, CalledType DEF Fold
  <2> QED BY <1>4, <2>4, <2>5 DEF Fold, TypeOK
<1>5. CASE FindPrior(p)
  <2>1. [calls[p] EXCEPT !.stage = "create", !.bead = Prior(calls[p].subject),
                         !.over = @ \ OpenAnalyses] \in Step
    BY <1>0, PriorType DEF Step
  <2> QED BY <1>5, <2>1, CalledType DEF FindPrior, TypeOK
<1>6. CASE CreateRoot(p)
  <2> DEFINE c == calls[p]
             r == Analysis(c.subject, c.error, 1, 0, c.bead)
  <2>1. r \in Bead
    BY <1>0, RcaAssumption, AnalysisType DEF Step
  <2>2. CreateOrReturn(p, c, r)
    BY <1>6 DEF CreateRoot
  <2> QED BY <1>0, <1>6, <2>1, <2>2, CreateType DEF CreateRoot, TypeOK
<1> QED BY <1>2, <1>3, <1>4, <1>5, <1>6 DEF Reported

LEMMA PinCrashType ==
  ASSUME TypeOK, NEW p \in Process, CallHolds(p), Pin(p) \/ Crash(p)
  PROVE TypeOK'
<1>0. calls[p] \in Step /\ calls' \in [Process -> Step]
  BY Blanks, CalledType DEF Pin, Crash, TypeOK
<1>1. CASE Pin(p)
  <2> DEFINE c == calls[p]
             root == IF p \in Reporter THEN c.bead ELSE beads[c.bead].root
             n == [beads[c.bead] EXCEPT !.gated = TRUE, !.also = c.also, !.root = root]
  <2>1. c.bead \in Id /\ c.bead \in 0..MaxBeads
    BY <1>0, <1>1 DEF Pin, CallHolds, Analyses, Step
  <2>2. n \in Bead
    <3>1. beads[c.bead] \in Bead
      BY <2>1 DEF TypeOK
    <3>2. root \in 0..MaxBeads /\ c.also \in SUBSET Subject
      BY <1>0, <2>1, <3>1 DEF Bead, Step
    <3> HIDE DEF root, c
    <3> QED BY <3>1, <3>2 DEF Bead
  <2>3. beads' = [beads EXCEPT ![c.bead] = n]
    BY <1>1 DEF Pin
  <2>4. beads' \in [Id -> Bead]
    BY <2>1, <2>2, <2>3, RewrittenType
  <2> QED BY <1>0, <1>1, <2>4 DEF Pin, TypeOK
<1> QED BY <1>0, <1>1 DEF Crash, TypeOK

LEMMA StatusType ==
  ASSUME TypeOK, NEW b \in Id, NEW to,
         to \in {"pending", "pending_approval", "in_progress", "done",
                 "failed", "verify_failed"},
         beads' = [beads EXCEPT ![b].status = to]
  PROVE beads' \in [Id -> Bead]
<1>1. [beads[b] EXCEPT !.status = to] \in Bead
  BY DEF TypeOK, Bead
<1> QED BY <1>1, RewrittenType

LEMMA PutBackType ==
  ASSUME TypeOK, NEW b \in Id, PutBack(b)
  PROVE /\ beads' \in [Id -> Bead] /\ reopened' \subseteq Id
        /\ UNCHANGED <<filed, subject, reports, leases, calls, ungated>>
<1>1. beads' \in [Id -> Bead]
  BY StatusType DEF PutBack
<1> QED BY <1>1 DEF PutBack, TypeOK

LEMMA OperatedType ==
  ASSUME TypeOK, Operated
  PROVE TypeOK'
<1>1. ASSUME NEW b \in Id, FileFix(b)
      PROVE TypeOK'
  <2>1. PICK parent \in {b, RootOf(b)} :
          File([Absent EXCEPT !.phase = "fix", !.parent = parent])
    BY <1>1 DEF FileFix
  <2>2. parent \in 0..MaxBeads
    BY <2>1, RootOfType, RcaAssumption DEF Id
  <2>3. [Absent EXCEPT !.phase = "fix", !.parent = parent] \in Bead
    BY <2>2, Blanks DEF Bead, Absent
  <2> QED BY <1>1, <2>1, <2>3, FiledType DEF FileFix, TypeOK
<1>2. ASSUME NEW b \in Id, Approve(b) \/ RetryAnalysis(b) \/ CompleteAgain(b)
      PROVE TypeOK'
  <2>1. beads' \in [Id -> Bead]
    BY <1>2, StatusType DEF Approve, RetryAnalysis, CompleteAgain, SetStatus
  <2>2. reopened' \subseteq Id
    BY <1>2 DEF Approve, RetryAnalysis, CompleteAgain, TypeOK
  <2> QED BY <1>2, <2>1, <2>2
          DEF Approve, RetryAnalysis, CompleteAgain, SetStatus, TypeOK
<1>4. ASSUME NEW b \in Id, ReapRead(b)
      PROVE TypeOK'
  BY <1>4 DEF ReapRead, TypeOK
<1>5. ASSUME NEW b \in Id, Reap(b)
      PROVE TypeOK'
  BY <1>5, PutBackType DEF Reap, TypeOK
<1>3. ASSUME NEW s \in Subject, RetrySubject(s)
      PROVE TypeOK'
  BY <1>3 DEF RetrySubject, TypeOK
<1> QED BY <1>1, <1>2, <1>3, <1>4, <1>5 DEF Operated

LEMMA WorkedType ==
  ASSUME IInv, NEW w \in Worker, Worked(w)
  PROVE TypeOK'
<1> USE DEF IInv
<1> DEFINE j == work[w]
           b == beads[j.bead]
<1>0. /\ j \in Job /\ w \in Process /\ w \in Worker \cup {None}
      /\ j.bead # 0 => j.bead \in Id /\ j.root \in Id /\ b \in Bead
  BY RcaAssumption DEF TypeOK, Process, Job, Id, JobHolds
<1> HIDE DEF j
<1>1. ASSUME NEW d \in Id, Claim(w, d)
      PROVE TypeOK'
  <2>1. [beads[d] EXCEPT !.status = "in_progress", !.lease = w] \in Bead
    <3>1. beads[d] \in Bead
      BY DEF TypeOK
    <3> QED BY <1>0, <3>1 DEF Bead
  <2>2. beads' = [beads EXCEPT ![d] =
                    [beads[d] EXCEPT !.status = "in_progress", !.lease = w]]
    BY <1>1 DEF Claim
  <2>3. beads' \in [Id -> Bead]
    BY <2>1, <2>2, RewrittenType
  <2>4. d \in 0..MaxBeads /\ RootOf(d) \in 0..MaxBeads
    BY RootOfType, RcaAssumption DEF Id
  <2>5. [Free EXCEPT !.bead = d, !.root = RootOf(d)] \in Job
    BY <2>4, Blanks DEF Job
  <2>6. work' \in [Worker -> Job]
    BY <1>1, <2>5 DEF Claim, TypeOK
  <2>7. leases' \in 0..MaxLeases
    BY <1>1, RcaAssumption DEF Claim, TypeOK
  <2> QED BY <1>1, <2>3, <2>6, <2>7 DEF Claim, TypeOK
<1>2. ASSUME Advances(w)
      PROVE /\ work' \in [Worker -> Job] /\ j.bead # 0
            /\ UNCHANGED <<subject, reports, leases, reopened, reaping>>
  BY <1>0, <1>2 DEF Advances, Working, TypeOK, Job, j
<1>3. CASE Advance(w)
  <2> DEFINE phase == Successor[b.phase]
             status == IF phase = "execute" THEN "pending_approval" ELSE "pending"
             r == [Absent EXCEPT !.phase = phase, !.for = b.for, !.cycle = b.cycle,
                     !.root = j.root, !.parent = j.root, !.status = status]
  <2>1. Advances(w) /\ File(r) /\ b.phase \in DOMAIN Successor
        /\ UNCHANGED <<calls, ungated>>
    BY <1>3 DEF Advance, j
  <2>2. phase \in Phase
    BY <2>1 DEF Successor, Phase
  <2>3. r \in Bead
    <3>1. j.root \in 0..MaxBeads /\ b.for \in Subject \cup {None} /\ b.cycle \in 0..MaxCycle
      BY <1>0, <1>2, <2>1 DEF Job, Bead
    <3>2. status \in {"pending", "pending_approval"}
      OBVIOUS
    <3> HIDE DEF phase, status, b
    <3> QED BY <2>2, <3>1, <3>2, Blanks DEF Bead
  <2>4. beads' \in [Id -> Bead] /\ filed' \in 0..MaxBeads
    BY <2>1, <2>3, FiledType
  <2> QED BY <1>2, <2>1, <2>4 DEF TypeOK
<1>4. CASE Fixed(w)
  <2>1. Advances(w)
    BY <1>4 DEF Fixed
  <2>2. j.root \in Id
    BY <1>0, <1>2, <2>1
  <2>3. beads' \in [Id -> Bead]
    BY <1>4, <2>2, StatusType DEF Fixed, j
  <2>4. ungated' \subseteq Id /\ UNCHANGED <<filed, calls>>
    BY <1>4, <2>2 DEF Fixed, TypeOK, j
  <2> QED BY <1>2, <2>1, <2>3, <2>4 DEF TypeOK
<1>5. CASE NextCycle(w)
  <2> DEFINE r == Analysis(b.for, beads[j.root].error, b.cycle + 1, j.root, 0)
  <2>1. Advances(w) /\ b.cycle + 1 <= MaxCycle /\ CreateOrReturn(w, Idle, r)
        /\ UNCHANGED ungated
    BY <1>5 DEF NextCycle, j
  <2>2. r \in Bead
    <3>1. /\ j.root \in 0..MaxBeads /\ b.for \in Subject \cup {None}
          /\ b.cycle + 1 \in 0..MaxCycle /\ 0 \in 0..MaxBeads
      BY <1>0, <1>2, <2>1, RcaAssumption DEF Job, Bead
    <3>2. beads[j.root].error \in Error \cup {None}
      BY <1>0, <1>2, <2>1 DEF TypeOK, Bead
    <3> QED BY <3>1, <3>2, AnalysisType
  <2>3. /\ beads' \in [Id -> Bead] /\ filed' \in 0..MaxBeads
        /\ calls' \in [Process -> Step]
    BY <1>0, <2>1, <2>2, CreateType, Blanks
  <2> QED BY <1>2, <2>1, <2>3 DEF TypeOK
<1>6. CASE Escalate(w)
  <2> DEFINE r == [Absent EXCEPT !.phase = "escalated", !.for = b.for, !.root = j.root,
                                 !.parent = j.root]
  <2>1. Advances(w) /\ File(r) /\ UNCHANGED <<calls, ungated>>
    BY <1>6 DEF Escalate, j
  <2>2. r \in Bead
    <3>1. j.root \in 0..MaxBeads /\ b.for \in Subject \cup {None}
      BY <1>0, <1>2, <2>1 DEF Job, Bead
    <3> QED BY <3>1, Blanks DEF Bead
  <2>3. beads' \in [Id -> Bead] /\ filed' \in 0..MaxBeads
    BY <2>1, <2>2, FiledType
  <2> QED BY <1>2, <2>1, <2>3 DEF TypeOK
<1>7. CASE RunGate(w)
  BY <1>7 DEF RunGate, TypeOK, Job
<1>8. CASE Report(w)
  <2>1. work' \in [Worker -> Job]
    BY <1>8, Blanks DEF Report, TypeOK, Job
  <2>2. j.bead \in Id
    BY <1>0, <1>8 DEF Report, JobHolds, j
  <2>3. beads' \in [Id -> Bead] /\ ungated' \subseteq Id
    BY <1>8, <2>2, StatusType DEF Report, TypeOK, j
  <2> QED BY <1>8, <2>1, <2>3 DEF Report, TypeOK
<1>9. CASE FailWork(w)
  <2>1. work' \in [Worker -> Job]
    BY <1>9, Blanks DEF FailWork, TypeOK
  <2>2. j.bead \in Id
    BY <1>0, <1>9 DEF FailWork, Working, j
  <2>3. beads' \in [Id -> Bead]
    BY <1>9, <2>2, StatusType DEF FailWork, TypeOK, j
  <2> QED BY <1>9, <2>1, <2>3 DEF FailWork, TypeOK
<1>10. CASE Vanish(w)
  BY <1>10, Blanks DEF Vanish, TypeOK
<1>11. CASE Release(w)
  <2>1. work' \in [Worker -> Job]
    BY <1>11, Blanks DEF Release, TypeOK
  <2>2. j.bead \in Id /\ PutBack(j.bead) /\ UNCHANGED reaping
    BY <1>0, <1>11 DEF Release, Working, j
  <2>3. /\ beads' \in [Id -> Bead] /\ reopened' \subseteq Id
        /\ UNCHANGED <<filed, subject, reports, leases, calls, ungated>>
    BY <2>2, PutBackType
  <2> QED BY <2>1, <2>2, <2>3 DEF TypeOK
<1> QED BY <1>1, <1>3, <1>4, <1>5, <1>6, <1>7, <1>8, <1>9, <1>10, <1>11 DEF Worked

-----------------------------------------------------------------------------
(* What any step does to the beads: those filed keep what identifies them,  *)
(* open only by what is recorded as that, and are done only with a trace;   *)
(* one may be filed.                                                        *)

Same(b) ==
  /\ beads'[b].phase = beads[b].phase
  /\ beads'[b].for = beads[b].for
  /\ beads'[b].cycle = beads[b].cycle
  /\ beads'[b].after = beads[b].after
  /\ beads'[b].parent = beads[b].parent
  /\ \/ beads'[b].root = beads[b].root
     \/ beads[b].root = 0 /\ beads'[b].root = b

Old(b) ==
  /\ Same(b)
  /\ beads'[b].status \in Open => beads[b].status \in Open \/ b \in reopened'
  /\ beads'[b].status = "done" =>
       beads[b].status = "done" \/ b \in ungated' \/ HasTerminalAction(b)

\* The line of s ends at a, and a is over.
LineEnds(s, a) ==
  /\ a \in RootsOf(s) \cup {0}
  /\ \A r \in RootsOf(s) : beads[r].after # a
  /\ a \in OpenAnalyses => a \in reopened

Fresh(r) ==
  /\ r.phase # "absent" /\ r.status # "done" /\ r.root <= filed
  /\ r.phase \in Phase => r.cycle >= 1
  /\ r.phase = "analyze" /\ r.cycle = 1 => r.root = 0 /\ LineEnds(r.for, r.after)

Evolve ==
  /\ reopened \subseteq reopened' /\ ungated \subseteq ungated'
  /\ \A b \in Id : b <= filed => Old(b)
  /\ \/ /\ filed' = filed
        /\ \A b \in Id : b > filed => beads'[b] = Absent
     \/ /\ filed + 1 \in Id /\ filed' = filed + 1
        /\ \A b \in Id : b > filed + 1 => beads'[b] = Absent
        /\ Fresh(beads'[filed + 1])

LEMMA FilingEvolves ==
  ASSUME IInv, NEW r \in Bead, File(r), Fresh(r),
         reopened \subseteq reopened', ungated \subseteq ungated'
  PROVE Evolve
<1>1. filed \in 0..MaxBeads /\ beads \in [Id -> Bead]
  BY DEF IInv, TypeOK
<1>2. filed + 1 \in Id /\ filed' = filed + 1
  BY <1>1, RcaAssumption DEF File, Id
<1>3. beads'[filed + 1] = r /\ \A b \in Id : b # filed + 1 => beads'[b] = beads[b]
  BY <1>1, <1>2 DEF File
<1>4. \A b \in Id : b <= filed => Old(b)
  BY <1>1, <1>3 DEF Old, Same, Id
<1>5. \A b \in Id : b > filed + 1 => beads'[b] = Absent
  BY <1>1, <1>3 DEF IInv, FiledInOrder, Id
<1> QED BY <1>2, <1>3, <1>4, <1>5 DEF Evolve

LEMMA EditEvolves ==
  ASSUME IInv, NEW b \in Id, b <= filed, Old(b), UNCHANGED filed,
         \A d \in Id : d # b => beads'[d] = beads[d],
         reopened \subseteq reopened', ungated \subseteq ungated'
  PROVE Evolve
<1>1. \A d \in Id : d <= filed => Old(d)
  <2> TAKE d \in Id
  <2>1. CASE d = b
    BY <2>1
  <2>2. CASE d # b
    BY <2>2 DEF Old, Same
  <2> QED BY <2>1, <2>2
<1>2. \A d \in Id : d > filed => beads'[d] = Absent
  BY DEF IInv, TypeOK, FiledInOrder, Id
<1> QED BY <1>1, <1>2 DEF Evolve

LEMMA StutterEvolves ==
  ASSUME IInv, UNCHANGED <<beads, filed>>,
         reopened \subseteq reopened', ungated \subseteq ungated'
  PROVE Evolve
  BY DEF IInv, FiledInOrder, Evolve, Old, Same

\* A new status leaves the rest of a bead alone.
LEMMA StatusEvolves ==
  ASSUME IInv, NEW b \in Id, b <= filed, NEW to, beads' = [beads EXCEPT ![b].status = to],
         UNCHANGED filed, reopened \subseteq reopened', ungated \subseteq ungated',
         to \in Open => beads[b].status \in Open \/ b \in reopened',
         to = "done" => b \in ungated' \/ HasTerminalAction(b)
  PROVE Evolve
<1>1. beads \in [Id -> Bead]
  BY DEF IInv, TypeOK
<1>2. beads'[b] = [beads[b] EXCEPT !.status = to] /\ beads[b] \in Bead
  BY <1>1
<1>3. Old(b)
  BY <1>2 DEF Old, Same, Bead
<1>4. \A d \in Id : d # b => beads'[d] = beads[d]
  BY <1>1
<1> QED BY <1>3, <1>4, EditEvolves

\* Beads that were filed.
LEMMA FiledBeads ==
  ASSUME IInv, NEW b \in Id, beads[b].phase # "absent" \/ b \in Analyses
  PROVE b <= filed
  BY DEF IInv, TypeOK, FiledInOrder, Absent, Analyses, Id

LEMMA CreateEvolves ==
  ASSUME IInv, NEW p \in Process, NEW c, NEW r \in Bead, CreateOrReturn(p, c, r),
         Holders(r.for, r.cycle, r.after) = {} => Fresh(r),
         UNCHANGED <<ungated, reopened>>
  PROVE Evolve
  BY FilingEvolves, StutterEvolves DEF CreateOrReturn

LEMMA ReportedEvolves ==
  ASSUME IInv, NEW p \in Reporter, Reported(p)
  PROVE Evolve
<1>0. p \in Process /\ CallHolds(p) /\ calls[p] \in Step /\ filed \in Nat
  BY DEF IInv, TypeOK, Process
<1>1. CASE Fold(p)
  <2> DEFINE d == calls[p].bead
             n == [beads[d] EXCEPT !.also = calls[p].also \cup {calls[p].subject}]
  <2>1. d \in Analyses /\ d \in Id /\ d <= filed
    BY <1>0, <1>1, FiledBeads DEF Fold, CallHolds, Analyses
  <2>2. beads[d] \in Bead /\ beads' = [beads EXCEPT ![d] = n] /\ beads \in [Id -> Bead]
    BY <1>1, <2>1 DEF Fold, IInv, TypeOK
  <2>3. beads'[d] = n /\ \A b \in Id : b # d => beads'[b] = beads[b]
    BY <2>1, <2>2
  <2>4. Old(d)
    BY <2>2, <2>3 DEF Old, Same, Bead
  <2> HIDE DEF d
  <2> QED BY <1>1, <2>1, <2>3, <2>4, EditEvolves DEF Fold
<1>2. CASE CreateRoot(p)
  <2> DEFINE c == calls[p]
             r == Analysis(c.subject, c.error, 1, 0, c.bead)
  <2>1. /\ CreateOrReturn(p, c, r) /\ UNCHANGED <<ungated, reopened>>
        /\ c.stage = "create"
    BY <1>2 DEF CreateRoot
  <2>2. r \in Bead
    BY <1>0, RcaAssumption, AnalysisType DEF Step
  <2>3. /\ r.phase = "analyze" /\ r.status = "pending" /\ r.for = c.subject
        /\ r.cycle = 1 /\ r.root = 0 /\ r.after = c.bead
    BY DEF Analysis, Absent
  <2>4. ASSUME Holders(r.for, r.cycle, r.after) = {} PROVE Fresh(r)
    <3>1. \A b \in RootsOf(c.subject) : beads[b].after # c.bead
      BY <2>3, <2>4 DEF Holders, RootsOf
    <3>2. LineEnds(c.subject, c.bead)
      BY <1>0, <2>1, <3>1 DEF LineEnds, CallHolds
    <3> QED BY <1>0, <2>3, <3>2 DEF Fresh
  <2> HIDE DEF r
  <2> QED BY <1>0, <2>1, <2>2, <2>4, CreateEvolves
<1>3. CASE \/ \E s \in Subject, e \in Error : Fail(p, s, e) \/ AskForRca(p, s, e)
           \/ FindExisting(p) \/ FindPrior(p)
  BY <1>3, StutterEvolves DEF Fail, AskForRca, FindExisting, FindPrior
<1> QED BY <1>1, <1>2, <1>3 DEF Reported

LEMMA PinCrashEvolves ==
  ASSUME IInv, NEW p \in Process, Pin(p) \/ Crash(p)
  PROVE Evolve
<1>1. CASE Pin(p)
  <2> DEFINE d == calls[p].bead
             root == IF p \in Reporter THEN d ELSE beads[d].root
             n == [beads[d] EXCEPT !.gated = TRUE, !.also = calls[p].also, !.root = root]
  <2>1. /\ d \in Analyses /\ d \in Id /\ d <= filed
        /\ p \in Reporter => beads[d].cycle = 1
    BY <1>1, FiledBeads DEF Pin, IInv, CallHolds, Analyses
  <2>2. beads[d] \in Bead /\ beads' = [beads EXCEPT ![d] = n] /\ beads \in [Id -> Bead]
    BY <1>1, <2>1 DEF Pin, IInv, TypeOK
  <2>3. beads'[d] = n /\ \A b \in Id : b # d => beads'[b] = beads[b]
    BY <2>1, <2>2
  <2>4. root = beads[d].root \/ (beads[d].root = 0 /\ root = d)
    BY <2>1 DEF IInv, PhasesAreCounted
  <2>5. Old(d)
    <3> HIDE DEF root, d
    <3> QED BY <2>2, <2>3, <2>4 DEF Old, Same, Bead
  <2> HIDE DEF d
  <2> QED BY <1>1, <2>1, <2>3, <2>5, EditEvolves DEF Pin
<1>2. CASE Crash(p)
  BY <1>2, StutterEvolves DEF Crash
<1> QED BY <1>1, <1>2

LEMMA PutBackEvolves ==
  ASSUME IInv, NEW b \in Id, b <= filed, PutBack(b)
  PROVE Evolve
<1>1. /\ beads' = [beads EXCEPT ![b].status = "pending"] /\ UNCHANGED <<filed, ungated>>
      /\ reopened \subseteq reopened'
      /\ beads[b].status \in Open \/ b \in reopened'
  BY DEF PutBack
<1> DEFINE to == "pending"
<1>2. /\ beads' = [beads EXCEPT ![b].status = to] /\ to # "done"
      /\ to \in Open => beads[b].status \in Open \/ b \in reopened'
      /\ UNCHANGED filed /\ ungated \subseteq ungated'
  BY <1>1
<1> HIDE DEF to
<1> QED BY <1>1, <1>2, StatusEvolves

LEMMA OperatedEvolves ==
  ASSUME IInv, Operated
  PROVE Evolve
<1>1. ASSUME NEW b \in Id, FileFix(b)
      PROVE Evolve
  <2>1. PICK parent \in {b, RootOf(b)} :
          File([Absent EXCEPT !.phase = "fix", !.parent = parent])
    BY <1>1 DEF FileFix
  <2> DEFINE r == [Absent EXCEPT !.phase = "fix", !.parent = parent]
  <2>2. parent \in 0..MaxBeads
    BY <2>1, RootOfType, RcaAssumption DEF Id, IInv
  <2>3. r \in Bead
    BY <2>2, Blanks DEF Bead, Absent
  <2>4. Fresh(r)
    BY DEF Fresh, Absent, Phase, IInv, TypeOK
  <2> HIDE DEF r
  <2> QED BY <1>1, <2>1, <2>3, <2>4, FilingEvolves DEF FileFix, r
<1>2. ASSUME NEW b \in Id, NEW from, NEW to, SetStatus(b, from, to),
             reopened \subseteq reopened',
             to \in Open => from \in Open \/ b \in reopened',
             to = "done" => HasTerminalAction(b)
      PROVE Evolve
  <2>1. b <= filed
    BY <1>2, FiledBeads DEF SetStatus, Phase
  <2>2. /\ beads' = [beads EXCEPT ![b].status = to] /\ beads[b].status = from
        /\ UNCHANGED filed /\ ungated \subseteq ungated'
    BY <1>2 DEF SetStatus
  <2>3. to \in Open => beads[b].status \in Open \/ b \in reopened'
    BY <1>2, <2>2
  <2>4. to = "done" => b \in ungated' \/ HasTerminalAction(b)
    BY <1>2
  <2> QED BY <1>2, <2>1, <2>2, <2>3, <2>4, StatusEvolves
<1>3. ASSUME NEW b \in Id, Approve(b)
      PROVE Evolve
  BY <1>2, <1>3 DEF Approve, Open
<1>4. ASSUME NEW b \in Id, RetryAnalysis(b)
      PROVE Evolve
  BY <1>2, <1>4 DEF RetryAnalysis
<1>5. ASSUME NEW b \in Id, CompleteAgain(b)
      PROVE Evolve
  BY <1>2, <1>5 DEF CompleteAgain, Open
<1>6. ASSUME NEW s \in Subject, RetrySubject(s)
      PROVE Evolve
  BY <1>6, StutterEvolves DEF RetrySubject
<1>7. ASSUME NEW b \in Id, ReapRead(b)
      PROVE Evolve
  BY <1>7, StutterEvolves DEF ReapRead
<1>8. ASSUME NEW b \in Id, Reap(b)
      PROVE Evolve
  BY <1>8, PutBackEvolves DEF Reap, IInv, ReadIsFiled
<1> QED BY <1>1, <1>3, <1>4, <1>5, <1>6, <1>7, <1>8 DEF Operated

LEMMA WorkedEvolves ==
  ASSUME IInv, NEW w \in Worker, Worked(w)
  PROVE Evolve
<1> DEFINE j == work[w]
           b == beads[j.bead]
<1>0. /\ j \in Job /\ w \in Process /\ JobHolds(w) /\ filed \in 0..MaxBeads
      /\ j.bead # 0 => /\ j.bead \in Id /\ j.bead <= filed /\ b \in Bead
                       /\ b.phase \in Phase /\ b.cycle >= 1
                       /\ j.root \in 1..filed /\ j.root \in Id
  <2>1. /\ j \in Job /\ w \in Process /\ JobHolds(w) /\ filed \in 0..MaxBeads
        /\ j.bead # 0 => j.bead \in Id
    BY RcaAssumption DEF IInv, TypeOK, Process, Job, Id
  <2>2. ASSUME j.bead # 0
        PROVE b \in Bead /\ b.phase \in Phase /\ b.cycle >= 1 /\ j.bead <= filed
    BY <2>1, <2>2, FiledBeads DEF IInv, TypeOK, JobHolds, PhasesAreCounted, Phase
  <2>3. ASSUME j.bead # 0
        PROVE j.root \in 1..filed /\ j.root \in Id
    BY <2>1, <2>3, RcaAssumption DEF JobHolds, Id
  <2> QED BY <2>1, <2>2, <2>3
<1> HIDE DEF j
<1>1. ASSUME NEW d \in Id, Claim(w, d)
      PROVE Evolve
  <2> DEFINE n == [beads[d] EXCEPT !.status = "in_progress", !.lease = w]
  <2>1. /\ beads' = [beads EXCEPT ![d] = n] /\ beads[d].status = "pending"
        /\ beads \in [Id -> Bead] /\ UNCHANGED <<filed, ungated, reopened>>
        /\ beads[d].phase \in Phase
    BY <1>1 DEF Claim, IInv, TypeOK
  <2>2. d <= filed
    BY <2>1, FiledBeads DEF Phase
  <2>3. beads'[d] = n /\ beads[d] \in Bead /\ \A e \in Id : e # d => beads'[e] = beads[e]
    BY <2>1
  <2>4. Old(d)
    BY <2>1, <2>3 DEF Old, Same, Bead, Open
  <2> HIDE DEF n
  <2> QED BY <2>1, <2>2, <2>3, <2>4, EditEvolves
<1>2. ASSUME Advances(w)
      PROVE j.bead # 0 /\ UNCHANGED reopened
  BY <1>2 DEF Advances, Working, j
<1>3. CASE Advance(w)
  <2> DEFINE phase == Successor[b.phase]
             status == IF phase = "execute" THEN "pending_approval" ELSE "pending"
             r == [Absent EXCEPT !.phase = phase, !.for = b.for, !.cycle = b.cycle,
                     !.root = j.root, !.parent = j.root, !.status = status]
  <2>1. Advances(w) /\ File(r) /\ b.phase \in DOMAIN Successor /\ UNCHANGED ungated
    BY <1>3 DEF Advance, j
  <2>2. phase \in Phase \ {"analyze"} /\ status \in {"pending", "pending_approval"}
    BY <2>1 DEF Successor, Phase
  <2>3. r \in Bead
    <3>1. j.root \in 0..MaxBeads /\ b.for \in Subject \cup {None} /\ b.cycle \in 0..MaxCycle
      BY <1>0, <1>2, <2>1 DEF Job, Bead
    <3> HIDE DEF phase, status, b
    <3> QED BY <2>2, <3>1, Blanks DEF Bead
  <2>4. /\ r.phase = phase /\ r.status = status /\ r.root = j.root
        /\ r.cycle = b.cycle
    BY DEF Absent
  <2>5. Fresh(r)
    <3>1. b.cycle >= 1 /\ j.root <= filed
      BY <1>0, <1>2, <2>1
    <3> HIDE DEF r, phase, status, b
    <3> QED BY <2>2, <2>4, <3>1 DEF Fresh, Phase
  <2> HIDE DEF r
  <2> QED BY <1>2, <2>1, <2>3, <2>5, FilingEvolves
<1>4. CASE Fixed(w)
  <2> DEFINE root == j.root
             to == IF beads[root].gated /\ ~HasTerminalAction(root)
                     THEN "verify_failed" ELSE "done"
  <2>1. /\ Advances(w) /\ beads' = [beads EXCEPT ![root].status = to] /\ UNCHANGED filed
        /\ ungated' = IF beads[root].gated THEN ungated ELSE ungated \cup {root}
    BY <1>4 DEF Fixed, j
  <2>2. root \in Id /\ root <= filed /\ UNCHANGED reopened
    BY <1>0, <1>2, <2>1
  <2>3. ungated \subseteq ungated' /\ to \notin Open
    BY <2>1 DEF Open
  <2>4. to = "done" => root \in ungated' \/ HasTerminalAction(root)
    BY <2>1
  <2> HIDE DEF to, root
  <2> QED BY <2>1, <2>2, <2>3, <2>4, StatusEvolves
<1>5. CASE NextCycle(w)
  <2> DEFINE r == Analysis(b.for, beads[j.root].error, b.cycle + 1, j.root, 0)
  <2>1. Advances(w) /\ b.cycle + 1 <= MaxCycle /\ CreateOrReturn(w, Idle, r)
        /\ UNCHANGED ungated
    BY <1>5 DEF NextCycle, j
  <2>2. r \in Bead
    <3>1. /\ j.root \in 0..MaxBeads /\ b.for \in Subject \cup {None}
          /\ b.cycle + 1 \in 0..MaxCycle /\ 0 \in 0..MaxBeads
      BY <1>0, <1>2, <2>1, RcaAssumption DEF Job, Bead
    <3>2. beads[j.root].error \in Error \cup {None}
      BY <1>0, <1>2, <2>1 DEF IInv, TypeOK, Bead
    <3> QED BY <3>1, <3>2, AnalysisType
  <2>3. /\ r.phase = "analyze" /\ r.status = "pending" /\ r.cycle = b.cycle + 1
        /\ r.root = j.root
    BY DEF Analysis, Absent
  <2>4. Fresh(r)
    <3>1. b.cycle >= 1 /\ b.cycle \in Nat /\ j.root <= filed
      BY <1>0, <1>2, <2>1, RcaAssumption DEF Bead
    <3> HIDE DEF r, b
    <3> QED BY <2>3, <3>1 DEF Fresh
  <2> HIDE DEF r
  <2> QED BY <1>0, <1>2, <2>1, <2>2, <2>4, CreateEvolves
<1>6. CASE Escalate(w)
  <2> DEFINE r == [Absent EXCEPT !.phase = "escalated", !.for = b.for, !.root = j.root,
                                 !.parent = j.root]
  <2>1. Advances(w) /\ File(r) /\ UNCHANGED ungated
    BY <1>6 DEF Escalate, j
  <2>2. r \in Bead
    <3>1. j.root \in 0..MaxBeads /\ b.for \in Subject \cup {None}
      BY <1>0, <1>2, <2>1 DEF Job, Bead
    <3> QED BY <3>1, Blanks DEF Bead
  <2>3. Fresh(r)
    <3>1. j.root <= filed
      BY <1>0, <1>2, <2>1
    <3> QED BY <3>1 DEF Fresh, Absent, Phase
  <2> HIDE DEF r
  <2> QED BY <1>2, <2>1, <2>2, <2>3, FilingEvolves
<1>7. CASE RunGate(w) \/ Vanish(w)
  BY <1>7, StutterEvolves DEF RunGate, Vanish
<1>8. CASE Report(w)
  <2> DEFINE d == j.bead
             to == IF j.gate = "failed" THEN "verify_failed" ELSE "done"
  <2>1. UNCHANGED <<filed, reopened>> /\ d \in Id /\ d <= filed
    BY <1>0, <1>8 DEF Report, JobHolds, j
  <2>2. CASE UNCHANGED <<beads, ungated>>
    BY <2>1, <2>2, StutterEvolves
  <2>3. CASE ~UNCHANGED <<beads, ungated>>
    <3>1. /\ beads' = [beads EXCEPT ![d].status = to]
          /\ ungated' = IF beads[d].gated THEN ungated ELSE ungated \cup {d}
          /\ beads[d].gated = (j.gate # "none") /\ j.gate # "unread"
      BY <1>0, <1>8, <2>1, <2>3 DEF Report, IInv, TypeOK, Bead, Job, j
    <3>2. to = "done" => d \in ungated' \/ HasTerminalAction(d)
      <4>1. CASE j.gate = "none"
        BY <3>1, <4>1
      <4>2. CASE j.gate = "passed"
        BY <1>0, <4>2 DEF JobHolds, j
      <4> QED BY <1>0, <3>1, <4>1, <4>2 DEF Job
    <3>3. ungated \subseteq ungated' /\ to \notin Open
      BY <3>1 DEF Open
    <3> HIDE DEF to, d
    <3> QED BY <2>1, <3>1, <3>2, <3>3, StatusEvolves
  <2> QED BY <2>2, <2>3
<1>9. CASE FailWork(w)
  <2>1. /\ UNCHANGED <<filed, ungated, reopened>> /\ j.bead \in Id /\ j.bead <= filed
        /\ \/ UNCHANGED beads
           \/ beads' = [beads EXCEPT ![j.bead].status = "failed"]
    BY <1>0, <1>9 DEF FailWork, Working, j
  <2> QED BY <2>1, StutterEvolves, StatusEvolves DEF Open
<1>10. CASE Release(w)
  <2>1. PutBack(j.bead) /\ j.bead \in Id /\ j.bead <= filed
    BY <1>0, <1>10 DEF Release, Working, j
  <2> QED BY <2>1, PutBackEvolves
<1> QED BY <1>1, <1>3, <1>4, <1>5, <1>6, <1>7, <1>8, <1>9, <1>10 DEF Worked

LEMMA NextEvolves == IInv /\ Next => Evolve
<1> SUFFICES ASSUME IInv, Next PROVE Evolve
  OBVIOUS
<1>1. ASSUME NEW p \in Reporter, Reported(p) PROVE Evolve
  BY <1>1, ReportedEvolves
<1>2. ASSUME NEW w \in Worker, Worked(w) PROVE Evolve
  BY <1>2, WorkedEvolves
<1>3. ASSUME NEW p \in Process, Pin(p) \/ Crash(p) PROVE Evolve
  BY <1>3, PinCrashEvolves
<1>4. ASSUME Operated PROVE Evolve
  BY <1>4, OperatedEvolves
<1> QED BY <1>1, <1>2, <1>3, <1>4 DEF Next

-----------------------------------------------------------------------------
(* What stays true of the beads.                                            *)

LEMMA AnalysesStay ==
  ASSUME IInv, Evolve
  PROVE /\ \A b \in Analyses : b \in Id /\ b <= filed
        /\ Analyses \subseteq Analyses'
        /\ \A b \in Analyses : b \in OpenAnalyses' => b \in OpenAnalyses \/ b \in reopened'
        /\ \A b \in Analyses' : b \in Analyses \/ (b = filed + 1 /\ filed' = filed + 1)
<1>1. \A b \in Analyses : b \in Id /\ b <= filed
  BY FiledBeads DEF Analyses
<1>2. \A b \in Analyses : b \in Analyses' /\ Old(b)
  BY <1>1 DEF Evolve, Old, Same, Analyses
<1>3. \A b \in Analyses : b \in OpenAnalyses' => b \in OpenAnalyses \/ b \in reopened'
  BY <1>2 DEF Old, OpenAnalyses
<1>4. ASSUME NEW b \in Analyses'
      PROVE b \in Analyses \/ (b = filed + 1 /\ filed' = filed + 1)
  <2>1. b \in Id /\ beads'[b].phase = "analyze"
    BY <1>4 DEF Analyses
  <2>2. b <= filed => b \in Analyses
    BY <2>1 DEF Evolve, Old, Same, Analyses
  <2>3. beads'[b] # Absent
    BY <2>1 DEF Absent
  <2>4. filed \in Nat /\ b \in Nat
    BY <2>1, RcaAssumption DEF IInv, TypeOK, Id
  <2> QED BY <2>1, <2>2, <2>3, <2>4 DEF Evolve
<1> QED BY <1>1, <1>2, <1>3, <1>4

LEMMA RootsStay ==
  ASSUME IInv, Evolve, NEW s
  PROVE /\ \A r \in RootsOf(s) : /\ r \in RootsOf(s)' /\ r \in Id /\ r <= filed
                                 /\ beads'[r].after = beads[r].after
        /\ \A r \in RootsOf(s)' :
             \/ r \in RootsOf(s)
             \/ r = filed + 1 /\ LineEnds(s, beads'[r].after)
<1>1. \A r \in RootsOf(s) : r \in Id /\ r <= filed /\ r \in Analyses /\ r \in Analyses'
  BY AnalysesStay DEF RootsOf
<1>2. \A r \in RootsOf(s) : r \in RootsOf(s)' /\ beads'[r].after = beads[r].after
  BY <1>1 DEF RootsOf, Evolve, Old, Same
<1>3. ASSUME NEW r \in RootsOf(s)', r \notin RootsOf(s)
      PROVE r = filed + 1 /\ LineEnds(s, beads'[r].after)
  <2>1. r \in Id /\ beads'[r].phase = "analyze" /\ beads'[r].for = s /\ beads'[r].cycle = 1
    BY DEF RootsOf, Analyses
  <2>2. r \in Analyses'
    BY <2>1 DEF Analyses
  <2>3. r \notin Analyses
    BY <1>3, <2>1, AnalysesStay DEF RootsOf, Evolve, Old, Same
  <2>4. r = filed + 1 /\ filed' = filed + 1
    BY <2>2, <2>3, AnalysesStay
  <2>5. Fresh(beads'[r])
    BY <2>4 DEF Evolve, IInv, TypeOK
  <2> QED BY <2>1, <2>4, <2>5 DEF Fresh
<1> QED BY <1>1, <1>2, <1>3

\* What carries an investigation forward is never taken back.
LEMMA TraceStays ==
  ASSUME IInv, Evolve, NEW b \in Id, b <= filed, HasTerminalAction(b)
  PROVE HasTerminalAction(b)'
<1>1. PICK t \in Id : Follows(t, b)
  BY DEF HasTerminalAction
<1>2. b \in 1..MaxBeads /\ RootOf(b) # 0 /\ RootOf(b)' = RootOf(b)
  BY DEF RootOf, Evolve, Old, Same, Id
<1>3. beads[t] # Absent
  BY <1>1, <1>2 DEF Follows, Absent, Index
<1>4. t <= filed
  BY <1>3 DEF IInv, TypeOK, FiledInOrder, Id
<1>5. Same(t) /\ Same(b)
  BY <1>4 DEF Evolve, Old
<1>6. Follows(t, b)'
  BY <1>1, <1>2, <1>5 DEF Follows, Same, Index
<1> QED BY <1>6 DEF HasTerminalAction

-----------------------------------------------------------------------------
(* The parts of the invariant that speak of the beads alone.                *)

LEMMA OrderStays ==
  ASSUME IInv, TypeOK', Evolve
  PROVE FiledInOrder' /\ PhasesAreCounted'
<1>0. filed \in Nat /\ filed' \in Nat /\ filed <= filed' /\ filed' <= filed + 1
  BY DEF Evolve, IInv, TypeOK
<1>1. FiledInOrder'
  <2> SUFFICES ASSUME NEW b \in Id
               PROVE /\ b > filed' => beads'[b] = Absent
                     /\ b <= filed' => beads'[b].phase # "absent"
                     /\ beads'[b].root <= filed'
    BY DEF FiledInOrder
  <2>0. b \in Nat
    BY DEF Id
  <2>1. CASE b <= filed
    <3>1. Same(b) /\ beads[b].phase # "absent" /\ beads[b].root <= filed /\ beads[b] \in Bead
      BY <2>1 DEF Evolve, Old, IInv, TypeOK, FiledInOrder
    <3>2. beads[b].root \in Nat /\ beads'[b].root <= filed
      BY <2>1, <3>1, RcaAssumption DEF Same, Bead
    <3>3. beads'[b].root \in Nat
      BY <3>1, <3>2, <2>0 DEF Same
    <3> QED BY <1>0, <2>0, <2>1, <3>1, <3>2, <3>3 DEF Same
  <2>2. CASE b > filed'
    <3>1. beads'[b] = Absent
      BY <1>0, <2>0, <2>2 DEF Evolve
    <3> QED BY <1>0, <2>0, <2>2, <3>1 DEF Absent
  <2>3. CASE b = filed + 1 /\ b <= filed'
    <3>1. Fresh(beads'[b]) /\ beads'[b].root \in Nat
      BY <1>0, <2>3, RcaAssumption DEF Evolve, TypeOK, Bead
    <3> QED BY <1>0, <2>3, <3>1 DEF Fresh
  <2> QED BY <1>0, <2>0, <2>1, <2>2, <2>3
<1>2. PhasesAreCounted'
  <2> SUFFICES ASSUME NEW b \in Id
               PROVE /\ beads'[b].phase \in Phase => beads'[b].cycle >= 1
                     /\ beads'[b].phase = "analyze" /\ beads'[b].cycle = 1 =>
                          beads'[b].root \in {0, b}
    BY DEF PhasesAreCounted, Analyses
  <2>1. CASE b <= filed
    BY <2>1 DEF Evolve, Old, Same, IInv, PhasesAreCounted, Analyses
  <2>2. CASE b > filed
    <3>1. CASE beads'[b] = Absent
      BY <3>1 DEF Absent, Phase
    <3>2. CASE Fresh(beads'[b])
      BY <3>2 DEF Fresh
    <3> QED BY <1>0, <2>2, <3>1, <3>2 DEF Evolve, Id
  <2> QED BY <1>0, <2>1, <2>2 DEF Id
<1> QED BY <1>1, <1>2

LEMMA TracesLeft ==
  ASSUME IInv, Evolve
  PROVE AnalysisLeavesTrace'
<1> SUFFICES ASSUME NEW b \in Analyses', beads'[b].status = "done", b \notin ungated'
             PROVE HasTerminalAction(b)'
  BY DEF AnalysisLeavesTrace
<1>1. CASE b \in Analyses
  <2>1. b \in Id /\ b <= filed /\ Old(b) /\ b \notin ungated
    BY <1>1, AnalysesStay DEF Evolve
  <2>2. HasTerminalAction(b)
    BY <1>1, <2>1 DEF Old, IInv, AnalysisLeavesTrace
  <2> QED BY <2>1, <2>2, TraceStays
<1>2. CASE b \notin Analyses
  <2>1. b = filed + 1 /\ filed' = filed + 1
    BY <1>2, AnalysesStay
  <2> QED BY <2>1 DEF Evolve, Fresh, IInv, TypeOK
<1> QED BY <1>1, <1>2

LEMMA LineStays ==
  ASSUME IInv, Evolve
  PROVE Succeeded' /\ RecurrencesChain' /\ Superseded'
<1>0. filed \in Nat
  BY DEF IInv, TypeOK
<1>older. ASSUME NEW s, NEW r \in RootsOf(s)', NEW q \in RootsOf(s)', q < r
      PROVE q \in RootsOf(s)
  <2>1. r \in 1..filed + 1 /\ q \in 1..filed + 1
    BY <1>0, RootsStay DEF Id
  <2> QED BY <1>0, <1>older, <2>1, RootsStay
\* The line of s ends at its latest root.
<1>1. ASSUME NEW s \in Subject, NEW a, LineEnds(s, a), NEW q \in RootsOf(s) \cup {0}
      PROVE /\ a \in 0..filed /\ q \in 0..filed
            /\ q <= a
  <2>1. a \in 0..filed /\ q \in 0..filed
    BY <1>0, <1>1, RootsStay DEF LineEnds, Id
  <2>2. ASSUME a < q PROVE FALSE
    <3>1. q \in RootsOf(s)
      BY <1>1, <2>1, <2>2
    <3>2. \E r \in RootsOf(s) : beads[r].after = a
      BY <1>1, <2>2, <3>1 DEF LineEnds, IInv, Succeeded
    <3> QED BY <1>1, <3>2 DEF LineEnds
  <2> QED BY <2>1, <2>2
<1>2. ASSUME NEW s \in Subject, NEW q \in RootsOf(s)' \cup {0}, NEW r \in RootsOf(s)', q < r
      PROVE \E t \in RootsOf(s)' : beads'[t].after = q
  <2>1. q \in RootsOf(s) \cup {0}
    BY <1>2, <1>older
  <2>2. CASE \E t \in RootsOf(s) : q < t
    <3>1. PICK t \in RootsOf(s) : beads[t].after = q
      BY <2>1, <2>2 DEF IInv, Succeeded
    <3> QED BY <3>1, RootsStay
  <2>3. CASE ~\E t \in RootsOf(s) : q < t
    <3>1. LineEnds(s, beads'[r].after)
      BY <1>2, <2>3, RootsStay
    <3> DEFINE a == beads'[r].after
    <3>2. a \in 0..filed /\ q \in 0..filed /\ q <= a
      BY <1>1, <2>1, <3>1
    <3>3. a = 0 \/ ~(q < a)
      BY <2>3, <3>1 DEF LineEnds
    <3>4. a = q
      BY <1>0, <3>2, <3>3
    <3> QED BY <1>2, <3>4
  <2> QED BY <2>2, <2>3
<1>3. Succeeded'
  BY <1>2 DEF Succeeded
<1>4. ASSUME NEW s \in Subject, NEW r \in RootsOf(s)'
      PROVE /\ beads'[r].after # 0 => beads'[r].after \in RootsOf(s)' /\ beads'[r].after < r
            /\ \A q \in RootsOf(s)' : q < r => q <= beads'[r].after
  <2> DEFINE a == beads'[r].after
  <2>1. CASE r \in RootsOf(s)
    <3>1. a = beads[r].after /\ r \in 1..filed
      BY <1>0, <2>1, RootsStay DEF Id
    <3>2. /\ beads[r].after # 0 => beads[r].after \in RootsOf(s) /\ beads[r].after < r
          /\ \A q \in RootsOf(s) : q < r => q <= beads[r].after
      BY <2>1 DEF IInv, RecurrencesChain
    <3>3. \A q \in RootsOf(s)' : q < r => q \in RootsOf(s)
      BY <1>4, <1>older
    <3>4. \A q \in RootsOf(s) : q \in RootsOf(s)'
      BY RootsStay
    <3> HIDE DEF a
    <3>5. a # 0 => a \in RootsOf(s)' /\ a < r
      BY <3>1, <3>2, <3>4
    <3>6. \A q \in RootsOf(s)' : q < r => q <= a
      BY <3>1, <3>2, <3>3
    <3> QED BY <3>5, <3>6 DEF a
  <2>2. CASE r \notin RootsOf(s)
    <3>1. r = filed + 1 /\ LineEnds(s, a)
      BY <2>2, RootsStay
    <3>2. a \in 0..filed /\ a \in RootsOf(s) \cup {0}
      BY <1>1, <3>1 DEF LineEnds
    <3>3. a # 0 => a \in RootsOf(s)' /\ a < r
      BY <1>0, <3>1, <3>2, RootsStay
    <3>4. ASSUME NEW q \in RootsOf(s)', q < r PROVE q <= a
      <4>1. q \in RootsOf(s)
        BY <1>0, <3>1, <3>4, RootsStay
      <4> QED BY <1>1, <3>1, <4>1
    <3> QED BY <3>3, <3>4
  <2> QED BY <2>1, <2>2
<1>5. RecurrencesChain'
  BY <1>4 DEF RecurrencesChain
<1>6. ASSUME NEW s \in Subject, NEW q \in RootsOf(s)', NEW r \in RootsOf(s)', q < r,
             q \in OpenAnalyses'
      PROVE q \in reopened'
  <2>1. q \in RootsOf(s) /\ q \in Analyses /\ q \in 1..filed
    <3>1. q \in RootsOf(s)
      BY <1>6, <1>older
    <3> QED BY <1>0, <3>1, RootsStay DEF RootsOf, Id
  <2>2. q \in OpenAnalyses \/ q \in reopened'
    BY <1>6, <2>1, AnalysesStay
  <2>3. CASE r \in RootsOf(s)
    BY <1>6, <2>1, <2>2, <2>3 DEF IInv, Superseded, Evolve
  <2>4. CASE r \notin RootsOf(s)
    <3> DEFINE a == beads'[r].after
    <3>1. LineEnds(s, a)
      BY <2>4, RootsStay
    <3>2. q <= a /\ a \in 0..filed
      BY <1>1, <2>1, <3>1
    <3>3. CASE q = a
      BY <2>2, <3>1, <3>3 DEF LineEnds, Evolve
    <3>4. CASE q < a
      <4>1. a \in RootsOf(s)
        BY <2>1, <3>1, <3>4 DEF LineEnds
      <4> QED BY <2>1, <2>2, <3>4, <4>1 DEF IInv, Superseded, Evolve
    <3> QED BY <2>1, <3>2, <3>3, <3>4
  <2> QED BY <2>3, <2>4
<1>7. Superseded'
  BY <1>6 DEF Superseded
<1> QED BY <1>3, <1>5, <1>7

-----------------------------------------------------------------------------
(* The parts that speak of calls and of agents at work.                     *)

LEMMA CallStays ==
  ASSUME IInv, Evolve, NEW p \in Process, calls'[p] = calls[p]
  PROVE CallHolds(p)'
<1> DEFINE c == calls[p]
<1>0. CallHolds(p)
  BY DEF IInv
<1>1. ASSUME c.stage = "prior" PROVE c.over \subseteq RootsOf(c.subject)'
  BY <1>0, <1>1, RootsStay DEF CallHolds
<1>2. ASSUME c.stage = "create"
      PROVE /\ c.bead \in RootsOf(c.subject)' \cup {0}
            /\ \A d \in c.over : d <= c.bead
            /\ c.bead \in OpenAnalyses' => c.bead \in reopened'
  <2>1. /\ c.bead \in RootsOf(c.subject) \cup {0} /\ \A d \in c.over : d <= c.bead
        /\ c.bead \in OpenAnalyses => c.bead \in reopened
    BY <1>0, <1>2 DEF CallHolds
  <2>2. CASE c.bead = 0
    BY <2>1, <2>2 DEF OpenAnalyses, Analyses, Id
  <2>3. CASE c.bead \in RootsOf(c.subject)
    <3>1. c.bead \in Analyses /\ c.bead \in RootsOf(c.subject)'
      BY <2>3, RootsStay DEF RootsOf
    <3> QED BY <2>1, <3>1, AnalysesStay DEF Evolve
  <2> QED BY <2>1, <2>2, <2>3
<1>3. ASSUME c.stage \in {"fold", "pin"} PROVE c.bead \in Analyses'
  BY <1>0, <1>3, AnalysesStay DEF CallHolds
<1>4. ASSUME c.stage = "pin", p \in Reporter
      PROVE beads'[c.bead].cycle = 1 /\ c.bead \notin c.over
  <2>1. c.bead \in Analyses /\ beads[c.bead].cycle = 1 /\ c.bead \notin c.over
    BY <1>0, <1>4 DEF CallHolds
  <2>2. c.bead \in Id /\ c.bead <= filed
    BY <2>1, AnalysesStay
  <2> QED BY <2>1, <2>2 DEF Evolve, Old, Same
<1> QED BY <1>0, <1>1, <1>2, <1>3, <1>4 DEF CallHolds

\* A call that has found or filed its analysis.
LEMMA CreatedHolds ==
  ASSUME IInv, TypeOK', Evolve, NEW p \in Process, NEW c \in Step, NEW r \in Bead,
         r.phase = "analyze", CreateOrReturn(p, c, r),
         p \in Reporter => /\ r.cycle = 1 /\ r.after = c.bead /\ r.for = c.subject
                           /\ c.subject \in Subject /\ c.bead \in 0..filed
                           /\ \A d \in c.over : d <= c.bead
  PROVE CallHolds(p)'
<1> DEFINE held == Holders(r.for, r.cycle, r.after)
           n == calls'[p]
<1>0. filed \in 0..MaxBeads /\ beads \in [Id -> Bead] /\ calls \in [Process -> Step]
  BY DEF IInv, TypeOK
<1>1. CASE held # {}
  <2> DEFINE h == First(held)
  <2>1. n = [c EXCEPT !.stage = "pin", !.bead = h, !.also = beads[h].also]
    BY <1>0, <1>1 DEF CreateOrReturn
  <2>2. h \in held
    BY <1>1, HoldersIn
  <2>3. /\ h \in Analyses /\ beads[h].for = r.for /\ beads[h].cycle = r.cycle
        /\ beads[h].after = r.after
    BY <2>2 DEF Holders
  <2> HIDE DEF h
  <2>4. n.stage = "pin" /\ n.bead = h /\ n.over = c.over
    BY <2>1 DEF Step
  <2>5. h \in Id /\ h <= filed /\ h \in Analyses'
    BY <2>3, AnalysesStay
  <2>6. ASSUME p \in Reporter PROVE beads'[h].cycle = 1 /\ h \notin c.over
    <3>1. beads'[h].cycle = 1
      BY <2>3, <2>5, <2>6 DEF Evolve, Old, Same
    <3>2. h \in RootsOf(c.subject)
      BY <2>3, <2>6 DEF RootsOf
    <3>3. c.bead < h
      <4>1. c.bead # 0 => c.bead < h
        BY <2>3, <2>6, <3>2 DEF IInv, RecurrencesChain
      <4> QED BY <2>5, <2>6, <4>1 DEF Id
    <3>4. \A d \in c.over : d <= c.bead
      BY <2>6
    <3>5. h \notin c.over
      BY <1>0, <2>5, <2>6, <3>3, <3>4 DEF Id
    <3> QED BY <3>1, <3>5
  <2> QED BY <2>4, <2>5, <2>6 DEF CallHolds
<1>2. CASE held = {}
  <2>1. File(r) /\ n = [c EXCEPT !.stage = "pin", !.bead = filed + 1, !.also = {}]
    BY <1>0, <1>2 DEF CreateOrReturn
  <2>2. n.stage = "pin" /\ n.bead = filed + 1 /\ n.over = c.over
    BY <2>1 DEF Step
  <2>3. filed + 1 \in Id /\ beads'[filed + 1] = r
    BY <1>0, <2>1, RcaAssumption DEF File, Id
  <2>4. filed + 1 \in Analyses'
    BY <2>3 DEF Analyses
  <2>5. ASSUME p \in Reporter PROVE beads'[filed + 1].cycle = 1 /\ filed + 1 \notin c.over
    BY <1>0, <2>3, <2>5
  <2> QED BY <2>2, <2>4, <2>5 DEF CallHolds
<1> QED BY <1>1, <1>2

LEMMA ReportedHolds ==
  ASSUME IInv, TypeOK', Evolve, NEW p \in Reporter, Reported(p)
  PROVE CallHolds(p)'
<1> DEFINE c == calls[p]
<1>0. p \in Process /\ c \in Step /\ CallHolds(p) /\ calls \in [Process -> Step]
  BY DEF IInv, TypeOK, Process
<1>1. ASSUME NEW s \in Subject, NEW e \in Error, Fail(p, s, e) \/ AskForRca(p, s, e)
      PROVE CallHolds(p)'
  <2>1. calls'[p] = [Idle EXCEPT !.stage = "find", !.subject = s, !.error = e]
    BY <1>0, <1>1 DEF Fail, AskForRca, Begin
  <2>2. calls'[p].stage = "find" /\ calls'[p].subject = s
    BY <2>1 DEF Idle
  <2> QED BY <2>2 DEF CallHolds
<1>2. CASE FindExisting(p)
  <2> DEFINE found == Existing(c.subject, c.error)
             r == First(found)
  <2>1. c.stage = "find" /\ c.subject \in Subject
    BY <1>0, <1>2 DEF FindExisting, CallHolds
  <2>2. found \subseteq Analyses /\ found \in SUBSET Id
    BY DEF Existing, OpenAnalyses, Analyses
  <2>3. CASE found = {}
    <3>1. calls'[p] = [c EXCEPT !.stage = "prior", !.over = RootsOf(c.subject)]
      BY <1>0, <1>2, <2>3 DEF FindExisting
    <3>2. /\ calls'[p].stage = "prior" /\ calls'[p].subject = c.subject
          /\ calls'[p].over = RootsOf(c.subject)
      BY <1>0, <3>1 DEF Step
    <3>3. PICK s \in Subject : s = c.subject
      BY <2>1
    <3>4. RootsOf(s) \subseteq RootsOf(s)'
      BY RootsStay
    <3>5. calls'[p].subject = s /\ calls'[p].over \subseteq RootsOf(s)'
      BY <3>2, <3>3, <3>4
    <3>6. (calls[p].over \subseteq RootsOf(calls[p].subject))'
      BY <3>5
    <3> QED BY <3>2, <3>5, <3>6 DEF CallHolds
  <2>4. CASE found # {}
    <3>1. r \in Analyses'
      BY <2>2, <2>4, FirstIn, AnalysesStay
    <3>2. \/ calls'[p] = Idle
          \/ calls'[p] = [c EXCEPT !.stage = "fold", !.bead = r, !.also = beads[r].also]
      BY <1>0, <1>2, <2>4 DEF FindExisting
    <3>3. CASE calls'[p] = Idle
      BY <3>3 DEF CallHolds, Idle
    <3>4. CASE calls'[p] # Idle
      <4>1. /\ calls'[p].stage = "fold" /\ calls'[p].subject = c.subject
            /\ calls'[p].bead = r
        BY <1>0, <3>2, <3>4 DEF Step
      <4> QED BY <2>1, <3>1, <4>1 DEF CallHolds
    <3> QED BY <3>3, <3>4
  <2> QED BY <2>3, <2>4
<1>3. CASE Fold(p)
  <2>1. calls'[p] = Idle
    BY <1>0, <1>3 DEF Fold
  <2> QED BY <2>1 DEF CallHolds, Idle
<1>4. CASE FindPrior(p)
  <2> DEFINE a == Prior(c.subject)
             n == [c EXCEPT !.stage = "create", !.bead = a, !.over = @ \ OpenAnalyses]
  <2>1. calls'[p] = n /\ c.stage = "prior" /\ UNCHANGED <<beads, reopened>>
    BY <1>0, <1>4 DEF FindPrior
  <2>2. n.stage = "create" /\ n.subject = c.subject /\ n.bead = a
        /\ n.over = c.over \ OpenAnalyses
    BY <1>0 DEF Step
  <2>3. c.over \subseteq RootsOf(c.subject) /\ c.subject \in Subject
    BY <1>0, <2>1 DEF CallHolds
  <2>4. /\ a # 0 => a \in RootsOf(c.subject) \ OpenAnalyses
        /\ \A d \in RootsOf(c.subject) \ OpenAnalyses : d <= a
    BY PriorType
  <2>5. 0 \notin OpenAnalyses
    BY DEF OpenAnalyses, Analyses, Id
  <2>6. PICK s \in Subject : s = c.subject
    BY <2>3
  <2>7. RootsOf(s)' = RootsOf(s) /\ OpenAnalyses' = OpenAnalyses
    BY <2>1 DEF RootsOf, OpenAnalyses, Analyses
  <2> HIDE DEF a, n
  <2>8. /\ calls'[p].stage = "create" /\ calls'[p].subject = s
        /\ calls'[p].bead \in RootsOf(s)' \cup {0}
        /\ \A d \in calls'[p].over : d <= calls'[p].bead
        /\ calls'[p].bead \notin OpenAnalyses'
    BY <2>1, <2>2, <2>3, <2>4, <2>5, <2>6, <2>7
  <2>9. (calls[p].bead \in RootsOf(calls[p].subject) \cup {0})'
    BY <2>8
  <2> QED BY <2>8, <2>9 DEF CallHolds
<1>5. CASE CreateRoot(p)
  <2> DEFINE r == Analysis(c.subject, c.error, 1, 0, c.bead)
  <2>1. CreateOrReturn(p, c, r) /\ c.stage = "create"
    BY <1>5 DEF CreateRoot
  <2>2. r \in Bead
    BY <1>0, RcaAssumption, AnalysisType DEF Step
  <2>3. r.phase = "analyze" /\ r.for = c.subject /\ r.cycle = 1 /\ r.after = c.bead
    BY DEF Analysis, Absent
  <2>4. /\ c.subject \in Subject /\ c.bead \in RootsOf(c.subject) \cup {0}
        /\ \A d \in c.over : d <= c.bead
    BY <1>0, <2>1 DEF CallHolds
  <2>5. c.bead \in 0..filed
    BY <2>4, RootsStay DEF IInv, TypeOK, Id
  <2> HIDE DEF r
  <2> QED BY <1>0, <2>1, <2>2, <2>3, <2>4, <2>5, CreatedHolds
<1> QED BY <1>1, <1>2, <1>3, <1>4, <1>5 DEF Reported

LEMMA JobStays ==
  ASSUME IInv, TypeOK', Evolve, NEW w \in Worker,
         \/ work'[w] = work[w]
         \/ /\ work'[w].bead = work[w].bead /\ work'[w].root = work[w].root
            /\ work'[w].gate \in {work[w].gate, "unread"}
         \/ work'[w] = Free
  PROVE JobHolds(w)'
<1> DEFINE j == work[w]
           n == work'[w]
<1>0. j \in Job /\ JobHolds(w) /\ filed \in Nat /\ filed' \in Nat /\ filed <= filed'
  BY DEF IInv, TypeOK, Evolve
<1>1. CASE n = Free
  BY <1>1 DEF JobHolds, Free
<1>2. CASE n.bead = j.bead /\ n.root = j.root /\ n.gate \in {j.gate, "unread"}
  <2>1. ASSUME j.bead # 0
        PROVE /\ j.bead \in Id /\ j.bead <= filed /\ Same(j.bead)
              /\ beads[j.bead].phase \in Phase /\ j.root \in 1..filed
    <3>1. j.bead \in Id /\ beads[j.bead].phase \in Phase /\ j.root \in 1..filed
      BY <1>0, <2>1 DEF Job, JobHolds, Id
    <3>2. j.bead <= filed
      BY <3>1, FiledBeads DEF Phase
    <3> QED BY <3>1, <3>2 DEF Evolve, Old
  <2>2. n.bead # 0 => beads'[n.bead].phase \in Phase /\ n.root \in 1..filed'
    BY <1>0, <1>2, <2>1 DEF Same
  <2>3. n.gate # "unread" => n.bead # 0
    BY <1>0, <1>2 DEF JobHolds
  <2>4. ASSUME n.gate = "passed" PROVE HasTerminalAction(work[w].bead)'
    <3>1. j.gate = "passed" /\ j.bead # 0 /\ HasTerminalAction(j.bead)
      BY <1>0, <1>2, <2>4 DEF JobHolds
    <3>2. PICK b \in Id : b = j.bead /\ b <= filed
      BY <2>1, <3>1
    <3>3. HasTerminalAction(b)'
      BY <3>1, <3>2, TraceStays
    <3>4. b = n.bead
      BY <1>2, <3>2
    <3> QED BY <3>3, <3>4
  <2> QED BY <2>2, <2>3, <2>4 DEF JobHolds
<1> QED BY <1>1, <1>2

LEMMA WorkedHolds ==
  ASSUME IInv, TypeOK', Evolve, NEW w \in Worker, Worked(w)
  PROVE JobHolds(w)' /\ CallHolds(w)'
<1>0. /\ w \in Process /\ w \notin Reporter /\ work \in [Worker -> Job] /\ JobHolds(w)
      /\ filed \in Nat /\ filed' \in Nat /\ filed <= filed'
  BY RcaAssumption DEF IInv, TypeOK, Process, Evolve
<1>1. ASSUME UNCHANGED calls PROVE CallHolds(w)'
  BY <1>0, <1>1, CallStays
<1>2. ASSUME NEW b \in Id, Claim(w, b)
      PROVE JobHolds(w)' /\ CallHolds(w)'
  <2>1. /\ work'[w] = [Free EXCEPT !.bead = b, !.root = RootOf(b)]
        /\ beads[b].phase \in Phase
    BY <1>0, <1>2 DEF Claim
  <2>2. b <= filed /\ RootOf(b) \in 1..filed /\ Same(b)
    <3>1. b <= filed
      BY <2>1, FiledBeads DEF Phase
    <3>2. RootOf(b) \in Id
      BY RootOfType DEF IInv
    <3> QED BY <1>0, <3>1, <3>2 DEF RootOf, IInv, FiledInOrder, Evolve, Old, Id
  <2>3. work'[w].bead = b /\ work'[w].root = RootOf(b) /\ work'[w].gate = "unread"
    BY <2>1 DEF Free
  <2>4. beads'[b].phase \in Phase /\ RootOf(b) \in 1..filed'
    BY <1>0, <2>1, <2>2 DEF Same
  <2>5. JobHolds(w)'
    BY <2>3, <2>4 DEF JobHolds
  <2> QED BY <1>1, <1>2, <2>5 DEF Claim
<1>3. ASSUME Advances(w) PROVE JobHolds(w)'
  <2>1. work'[w] = [work[w] EXCEPT !.advanced = TRUE] /\ work[w] \in Job
    BY <1>0, <1>3 DEF Advances
  <2>2. /\ work'[w].bead = work[w].bead /\ work'[w].root = work[w].root
        /\ work'[w].gate = work[w].gate
    BY <2>1 DEF Job
  <2> QED BY <2>2, JobStays
<1>4. CASE Advance(w) \/ Fixed(w) \/ Escalate(w)
  BY <1>1, <1>3, <1>4 DEF Advance, Fixed, Escalate
<1>5. CASE NextCycle(w)
  <2> DEFINE b == beads[work[w].bead]
             r == Analysis(b.for, beads[work[w].root].error, b.cycle + 1, work[w].root, 0)
  <2>1. Advances(w) /\ b.cycle + 1 <= MaxCycle /\ CreateOrReturn(w, Idle, r)
    BY <1>5 DEF NextCycle
  <2>2. r \in Bead
    <3>1. /\ work[w] \in Job /\ work[w].bead \in Id /\ work[w].root \in Id
      BY <1>0, <2>1, RcaAssumption DEF IInv, TypeOK, Advances, Working, Job, JobHolds, Id
    <3>2. b \in Bead /\ beads[work[w].root] \in Bead
      BY <3>1 DEF IInv, TypeOK
    <3>3. /\ work[w].root \in 0..MaxBeads /\ b.for \in Subject \cup {None}
          /\ b.cycle + 1 \in 0..MaxCycle /\ 0 \in 0..MaxBeads
          /\ beads[work[w].root].error \in Error \cup {None}
      BY <2>1, <3>1, <3>2, RcaAssumption DEF Job, Bead
    <3> QED BY <3>3, AnalysisType
  <2>3. r.phase = "analyze"
    BY DEF Analysis, Absent
  <2> HIDE DEF r
  <2>4. CallHolds(w)'
    BY <1>0, <2>1, <2>2, <2>3, Blanks, CreatedHolds
  <2> QED BY <1>3, <2>1, <2>4
<1>6. CASE RunGate(w)
  <2> DEFINE j == work[w]
             gate == IF ~beads[j.bead].gated THEN "none"
                     ELSE IF HasTerminalAction(j.bead) THEN "passed" ELSE "failed"
  <2>1. /\ work'[w] = [j EXCEPT !.gate = gate] /\ j \in Job /\ j.bead # 0
        /\ UNCHANGED <<beads, filed, calls>>
    BY <1>0, <1>6 DEF RunGate, Working
  <2>2. work'[w].bead = j.bead /\ work'[w].root = j.root /\ work'[w].gate = gate
    BY <2>1 DEF Job
  <2>3. beads[j.bead].phase \in Phase /\ j.root \in 1..filed
    BY <1>0, <2>1 DEF JobHolds
  <2>4. gate = "passed" => HasTerminalAction(j.bead)
    OBVIOUS
  <2> HIDE DEF j, gate
  <2>5. PICK b : b = j.bead
    OBVIOUS
  <2>6. HasTerminalAction(b)' <=> HasTerminalAction(b)
    BY <2>1 DEF HasTerminalAction, Follows, RootOf
  <2>7. gate = "passed" => HasTerminalAction(work[w].bead)'
    BY <2>2, <2>4, <2>5, <2>6
  <2>8. beads'[work'[w].bead].phase \in Phase /\ work'[w].root \in 1..filed'
    BY <2>1, <2>2, <2>3
  <2>9. JobHolds(w)'
    BY <2>1, <2>2, <2>7, <2>8 DEF JobHolds
  <2> QED BY <1>1, <2>1, <2>9
<1>7. CASE Report(w)
  <2>1. \/ work'[w] = Free
        \/ work'[w] = [work[w] EXCEPT !.gate = "unread"] /\ work[w] \in Job
    BY <1>0, <1>7 DEF Report
  <2>2. JobHolds(w)'
    BY <2>1, JobStays DEF Job
  <2> QED BY <1>1, <1>7, <2>2 DEF Report
<1>8. CASE FailWork(w) \/ Vanish(w) \/ Release(w)
  <2>1. work'[w] = Free /\ UNCHANGED calls
    BY <1>0, <1>8 DEF FailWork, Vanish, Release, PutBack
  <2> QED BY <1>1, <2>1, JobStays
<1> QED BY <1>2, <1>4, <1>5, <1>6, <1>7, <1>8 DEF Worked

\* A step concerns one process: the calls and jobs of the others are as before.
LEMMA HoldsStays ==
  ASSUME IInv, TypeOK', Evolve, Next
  PROVE /\ \A p \in Process : CallHolds(p)'
        /\ \A w \in Worker : JobHolds(w)'
<1>0. calls \in [Process -> Step] /\ work \in [Worker -> Job]
  BY DEF IInv, TypeOK
<1>1. ASSUME NEW p \in Reporter, Reported(p)
      PROVE /\ \A q \in Process : CallHolds(q)'
            /\ \A w \in Worker : JobHolds(w)'
  <2>1. UNCHANGED work
    BY <1>1 DEF Reported, Fail, AskForRca, FindExisting, Fold, FindPrior, CreateRoot
  <2>2. \A q \in Process : q # p => calls'[q] = calls[q]
    BY <1>0, <1>1 DEF Reported, Fail, AskForRca, Begin, FindExisting, Fold,
                      FindPrior, CreateRoot, CreateOrReturn
  <2>3. CallHolds(p)'
    BY <1>1, ReportedHolds
  <2> QED BY <2>1, <2>2, <2>3, CallStays, JobStays
<1>2. ASSUME NEW w \in Worker, Worked(w)
      PROVE /\ \A q \in Process : CallHolds(q)'
            /\ \A v \in Worker : JobHolds(v)'
  <2>1. \A q \in Process : q # w => calls'[q] = calls[q]
    BY <1>0, <1>2 DEF Worked, Claim, Advance, Fixed, NextCycle, Escalate, RunGate,
                      Report, FailWork, Release, PutBack, Vanish, CreateOrReturn
  <2>2. \A v \in Worker : v # w => work'[v] = work[v]
    BY <1>0, <1>2 DEF Worked, Claim, Advance, Fixed, NextCycle, Escalate, Advances,
                      RunGate, Report, FailWork, Release, Vanish
  <2>3. JobHolds(w)' /\ CallHolds(w)'
    BY <1>2, WorkedHolds
  <2> QED BY <2>1, <2>2, <2>3, CallStays, JobStays
<1>3. ASSUME NEW p \in Process, Pin(p) \/ Crash(p)
      PROVE /\ \A q \in Process : CallHolds(q)'
            /\ \A w \in Worker : JobHolds(w)'
  <2>1. UNCHANGED work /\ calls' = [calls EXCEPT ![p] = Idle]
    BY <1>3 DEF Pin, Crash
  <2>2. CallHolds(p)'
    BY <1>0, <2>1 DEF CallHolds, Idle
  <2>3. \A q \in Process : q # p => calls'[q] = calls[q]
    BY <1>0, <2>1
  <2> QED BY <2>1, <2>2, <2>3, CallStays, JobStays
<1>4. ASSUME Operated
      PROVE /\ \A q \in Process : CallHolds(q)'
            /\ \A w \in Worker : JobHolds(w)'
  <2>1. UNCHANGED <<calls, work>>
    BY <1>4 DEF Operated, FileFix, ReapRead, Reap, PutBack, Approve, RetryAnalysis, CompleteAgain,
                SetStatus, RetrySubject
  <2> QED BY <2>1, CallStays, JobStays
<1> QED BY <1>1, <1>2, <1>3, <1>4 DEF Next

LEMMA NextType == IInv /\ Next => TypeOK'
<1> SUFFICES ASSUME IInv, Next PROVE TypeOK'
  OBVIOUS
<1> USE DEF IInv
<1>1. ASSUME NEW p \in Reporter, Reported(p) PROVE TypeOK'
  BY <1>1, ReportedType
<1>2. ASSUME NEW w \in Worker, Worked(w) PROVE TypeOK'
  BY <1>2, WorkedType
<1>3. ASSUME NEW p \in Process, Pin(p) \/ Crash(p) PROVE TypeOK'
  BY <1>3, PinCrashType
<1>4. ASSUME Operated PROVE TypeOK'
  BY <1>4, OperatedType
<1> QED BY <1>1, <1>2, <1>3, <1>4 DEF Next

\* What the reaper has read was filed.
LEMMA ReadStays ==
  ASSUME IInv, TypeOK', Evolve, Next
  PROVE ReadIsFiled'
<1>0. filed \in Nat /\ filed' \in Nat /\ filed <= filed' /\ reaping \subseteq Id
  BY DEF IInv, TypeOK, Evolve
<1>1. ASSUME NEW b \in reaping' PROVE b <= filed
  <2>1. CASE b \in reaping
    BY <2>1 DEF IInv, ReadIsFiled
  <2>2. CASE b \notin reaping
    <3>1. \E d \in Id : ReapRead(d)
      BY <1>1, <2>2 DEF Next, Reported, Fail, AskForRca, FindExisting, Fold, FindPrior,
         CreateRoot, Worked, Claim, Advance, Fixed, NextCycle, Escalate, Advances,
         RunGate, Report, FailWork, Release, Vanish, Pin, Crash, Operated, FileFix,
         Reap, Approve, RetryAnalysis, CompleteAgain, SetStatus, RetrySubject
    <3>2. PICK d \in Id : ReapRead(d)
      BY <3>1
    <3>3. b = d /\ beads[d].phase \in Phase
      BY <1>1, <2>2, <3>2 DEF ReapRead
    <3> QED BY <3>3, FiledBeads DEF Phase
  <2> QED BY <2>1, <2>2
<1>2. ASSUME NEW b \in reaping' PROVE b <= filed'
  <2>1. b <= filed
    BY <1>1, <1>2
  <2>2. b \in Nat
    BY <1>2 DEF TypeOK, Id
  <2> QED BY <1>0, <2>1, <2>2
<1> QED BY <1>2 DEF ReadIsFiled

-----------------------------------------------------------------------------
(* Every cycle is tried before a person is called in: what a filed bead     *)
(* carries on, and why the trail behind it is complete.                     *)

\* A new bead of an investigation opens it, or is the step after a phase b.
Continues(r) ==
  r.phase \in Phase \cup {"escalated"} =>
    \/ r.phase = "analyze" /\ r.cycle = 1
    \/ \E b \in Id :
         /\ b <= filed /\ beads[b].phase \in Phase /\ r.root = RootOf(b)
         /\ \/ /\ beads[b].phase \in DOMAIN Successor
               /\ r.phase = Successor[beads[b].phase] /\ r.cycle = beads[b].cycle
            \/ /\ beads[b].phase \in {"verify_plan", "validate"}
               /\ r.phase = "analyze" /\ r.cycle = beads[b].cycle + 1
            \/ /\ beads[b].phase \in {"verify_plan", "validate"}
               /\ r.phase = "escalated" /\ beads[b].cycle = MaxCycle

LEMMA FiledIs ==
  ASSUME IInv, NEW r, File(r)
  PROVE filed + 1 \in Id /\ beads'[filed + 1] = r
<1>1. filed \in 0..MaxBeads /\ beads \in [Id -> Bead]
  BY DEF IInv, TypeOK
<1>2. filed + 1 \in Id
  BY <1>1, RcaAssumption DEF File, Id
<1> QED BY <1>1, <1>2 DEF File

LEMMA FiledContinues ==
  ASSUME IInv, JobsKnowTheirRoot, Next, filed' # filed
  PROVE Continues(beads'[filed + 1])
<1>1. ASSUME NEW p \in Reporter, CreateRoot(p) PROVE Continues(beads'[filed + 1])
  <2> DEFINE r == Analysis(calls[p].subject, calls[p].error, 1, 0, calls[p].bead)
  <2>1. File(r)
    BY <1>1 DEF CreateRoot, CreateOrReturn
  <2>2. r.phase = "analyze" /\ r.cycle = 1
    BY DEF Analysis, Absent
  <2> HIDE DEF r
  <2> QED BY <2>1, <2>2, FiledIs DEF Continues
<1>2. ASSUME NEW w \in Worker, Advances(w)
      PROVE /\ work[w].bead \in Id /\ work[w].bead <= filed
            /\ beads[work[w].bead].phase \in Phase /\ beads[work[w].bead] \in Bead
            /\ work[w].root = RootOf(work[w].bead)
  <2>1. work[w].bead # 0 /\ work[w].bead \in Id
    BY <1>2, RcaAssumption DEF Advances, Working, IInv, TypeOK, Job, Id
  <2>2. beads[work[w].bead].phase \in Phase
    BY <2>1 DEF IInv, JobHolds
  <2>3. work[w].bead <= filed
    BY <2>1, <2>2, FiledBeads DEF Phase
  <2> QED BY <2>1, <2>2, <2>3 DEF IInv, TypeOK, JobsKnowTheirRoot
<1>3. ASSUME NEW w \in Worker, Advance(w) PROVE Continues(beads'[filed + 1])
  <2> DEFINE b == beads[work[w].bead]
             phase == Successor[b.phase]
             r == [Absent EXCEPT !.phase = phase, !.for = b.for, !.cycle = b.cycle,
                     !.root = work[w].root, !.parent = work[w].root,
                     !.status = IF phase = "execute" THEN "pending_approval"
                                ELSE "pending"]
  <2>1. Advances(w) /\ File(r) /\ b.phase \in DOMAIN Successor
    BY <1>3 DEF Advance
  <2>2. r.phase = phase /\ r.cycle = b.cycle /\ r.root = work[w].root
    BY DEF Absent
  <2>3. beads'[filed + 1] = r
    BY <2>1, FiledIs
  <2> HIDE DEF r
  <2> QED BY <1>2, <2>1, <2>2, <2>3 DEF Continues
<1>4. ASSUME NEW w \in Worker, NextCycle(w) PROVE Continues(beads'[filed + 1])
  <2> DEFINE b == beads[work[w].bead]
             r == Analysis(b.for, beads[work[w].root].error, b.cycle + 1, work[w].root, 0)
  <2>1. Advances(w) /\ File(r) /\ b.phase \in {"verify_plan", "validate"}
    BY <1>4 DEF NextCycle, CreateOrReturn
  <2>2. r.phase = "analyze" /\ r.cycle = b.cycle + 1 /\ r.root = work[w].root
    BY DEF Analysis, Absent
  <2>3. beads'[filed + 1] = r
    BY <2>1, FiledIs
  <2> HIDE DEF r
  <2> QED BY <1>2, <2>1, <2>2, <2>3 DEF Continues
<1>5. ASSUME NEW w \in Worker, Escalate(w) PROVE Continues(beads'[filed + 1])
  <2> DEFINE b == beads[work[w].bead]
             r == [Absent EXCEPT !.phase = "escalated", !.for = b.for,
                     !.root = work[w].root, !.parent = work[w].root]
  <2>1. /\ Advances(w) /\ File(r) /\ b.phase \in {"verify_plan", "validate"}
        /\ b.cycle + 1 > MaxCycle
    BY <1>5 DEF Escalate
  <2>2. r.phase = "escalated" /\ r.root = work[w].root
    BY DEF Absent
  <2>3. b.cycle = MaxCycle
    BY <1>2, <2>1, RcaAssumption DEF Bead
  <2>4. beads'[filed + 1] = r
    BY <2>1, FiledIs
  <2> HIDE DEF r
  <2> QED BY <1>2, <2>1, <2>2, <2>3, <2>4 DEF Continues
<1>6. ASSUME NEW b \in Id, FileFix(b) PROVE Continues(beads'[filed + 1])
  <2>1. PICK parent : File([Absent EXCEPT !.phase = "fix", !.parent = parent])
    BY <1>6 DEF FileFix
  <2> DEFINE r == [Absent EXCEPT !.phase = "fix", !.parent = parent]
  <2>2. r.phase = "fix"
    BY DEF Absent
  <2> HIDE DEF r
  <2>3. beads'[filed + 1] = r
    BY <2>1, FiledIs DEF r
  <2> QED BY <2>2, <2>3 DEF Continues, Phase
<1>7. ASSUME NEW p \in Reporter, Reported(p) PROVE CreateRoot(p)
  BY <1>7 DEF Reported, Fail, AskForRca, FindExisting, Fold, FindPrior
<1>8. ASSUME NEW w \in Worker, Worked(w) PROVE Advance(w) \/ NextCycle(w) \/ Escalate(w)
  BY <1>8 DEF Worked, Claim, Fixed, RunGate, Report, FailWork, Release, PutBack, Vanish
<1>9. ASSUME Operated PROVE \E b \in Id : FileFix(b)
  BY <1>9 DEF Operated, ReapRead, Reap, PutBack, Approve, RetryAnalysis, CompleteAgain, SetStatus,
              RetrySubject
<1>10. \A p \in Process : ~Pin(p) /\ ~Crash(p)
  BY DEF Pin, Crash
<1> QED BY <1>1, <1>3, <1>4, <1>5, <1>6, <1>7, <1>8, <1>9, <1>10 DEF Next

\* A filed bead keeps its root, its phase and its cycle.
LEMMA PlaceKept ==
  ASSUME IInv, Evolve, NEW b \in Id, b <= filed
  PROVE /\ RootOf(b)' = RootOf(b) /\ beads'[b].phase = beads[b].phase
        /\ beads'[b].cycle = beads[b].cycle
        /\ beads[b].root # 0 => beads'[b].root = beads[b].root
  BY DEF Evolve, Old, Same, RootOf, Id

LEMMA ReachedStays ==
  ASSUME IInv, Evolve, NEW b \in Id, b <= filed, NEW c, NEW phase, Reached(b, c, phase)
  PROVE Reached(b, c, phase)'
<1>1. PICK d \in Id : /\ d <= b /\ RootOf(d) = RootOf(b)
                      /\ beads[d].phase = phase /\ beads[d].cycle = c
  BY DEF Reached
<1>2. d <= filed
  BY <1>1 DEF IInv, TypeOK, Id
<1> QED BY <1>1, <1>2, PlaceKept DEF Reached

\* The bead a step files has the whole trail of its investigation behind it.
LEMMA NewTrail ==
  ASSUME IInv, TypeOK', Evolve, CyclesAreTried, filed' = filed + 1,
         NEW n \in Id, n = filed + 1, Continues(beads'[n])
  PROVE /\ beads'[n].phase \in Phase =>
             \A c \in 1..beads'[n].cycle : \A phase \in {"analyze", "verify_plan"} :
               c < beads'[n].cycle \/ Index(phase) <= Index(beads'[n].phase) =>
                 Reached(n, c, phase)'
        /\ beads'[n].phase = "escalated" =>
             \A c \in 1..MaxCycle : \A phase \in {"analyze", "verify_plan"} :
               \E d \in Id : /\ d < n /\ RootOf(d)' = beads'[n].root
                             /\ beads'[d].phase = phase /\ beads'[d].cycle = c
<1> DEFINE r == beads'[n]
<1>0. filed \in Nat /\ r \in Bead /\ r.cycle \in Nat
  BY RcaAssumption DEF IInv, TypeOK, Bead
<1>own. ASSUME NEW phase, NEW c, r.phase = phase, r.cycle = c PROVE Reached(n, c, phase)'
  BY <1>own DEF Reached, Id
<1>1. CASE r.phase = "analyze" /\ r.cycle = 1
  <2>1. \A c \in 1..1 : c = 1
    OBVIOUS
  <2>2. ~(Index("verify_plan") <= Index("analyze"))
    BY DEF Index
  <2>3. Reached(n, 1, "analyze")'
    BY <1>1, <1>own
  <2> HIDE DEF r
  <2> QED BY <1>1, <2>1, <2>2, <2>3 DEF r
<1>2. ASSUME NEW b \in Id, b <= filed, beads[b].phase \in Phase, r.root = RootOf(b),
             \/ /\ beads[b].phase \in DOMAIN Successor
                /\ r.phase = Successor[beads[b].phase] /\ r.cycle = beads[b].cycle
             \/ /\ beads[b].phase \in {"verify_plan", "validate"}
                /\ r.phase = "analyze" /\ r.cycle = beads[b].cycle + 1
             \/ /\ beads[b].phase \in {"verify_plan", "validate"}
                /\ r.phase = "escalated" /\ beads[b].cycle = MaxCycle
      PROVE /\ r.phase \in Phase =>
                 \A c \in 1..r.cycle : \A phase \in {"analyze", "verify_plan"} :
                   c < r.cycle \/ Index(phase) <= Index(r.phase) => Reached(n, c, phase)'
            /\ r.phase = "escalated" =>
                 \A c \in 1..MaxCycle : \A phase \in {"analyze", "verify_plan"} :
                   \E d \in Id : /\ d < n /\ RootOf(d)' = r.root
                                 /\ beads'[d].phase = phase /\ beads'[d].cycle = c
  <2>0. beads[b].cycle \in Nat /\ beads[b].cycle >= 1 /\ RootOf(b) \in Id
    BY <1>2, RootOfType, RcaAssumption DEF IInv, TypeOK, Bead, PhasesAreCounted
  <2>1. RootOf(n)' = RootOf(b)
    BY <1>2, <2>0 DEF RootOf, Id
  \* What b's trail holds, the new bead's trail holds.
  <2>2. ASSUME NEW c, NEW phase, Reached(b, c, phase)
        PROVE \E d \in Id : /\ d < n /\ d <= n /\ RootOf(d)' = RootOf(b)
                            /\ beads'[d].phase = phase /\ beads'[d].cycle = c
    <3>1. PICK d \in Id : /\ d <= b /\ RootOf(d) = RootOf(b)
                          /\ beads[d].phase = phase /\ beads[d].cycle = c
      BY <2>2 DEF Reached
    <3>2. d <= filed /\ d < n /\ d <= n
      BY <1>0, <1>2, <3>1 DEF Id
    <3> QED BY <3>1, <3>2, PlaceKept
  <2>3. ASSUME NEW c, NEW phase, Reached(b, c, phase) PROVE Reached(n, c, phase)'
    BY <2>1, <2>2, <2>3 DEF Reached
  <2>4. ASSUME NEW c \in 1..beads[b].cycle, NEW phase \in {"analyze", "verify_plan"},
               c < beads[b].cycle \/ Index(phase) <= Index(beads[b].phase)
        PROVE Reached(b, c, phase)
    BY <1>2, <2>4 DEF CyclesAreTried
  <2>5. /\ Index("analyze") = 1 /\ Index("verify_plan") = 2
        /\ Index("execute") = 3 /\ Index("validate") = 4
    BY DEF Index
  <2>6. ASSUME beads[b].phase \in DOMAIN Successor, r.phase = Successor[beads[b].phase],
               r.cycle = beads[b].cycle
        PROVE \A c \in 1..r.cycle : \A phase \in {"analyze", "verify_plan"} :
                c < r.cycle \/ Index(phase) <= Index(r.phase) => Reached(n, c, phase)'
    <3> SUFFICES ASSUME NEW c \in 1..r.cycle, NEW phase \in {"analyze", "verify_plan"},
                        c < r.cycle \/ Index(phase) <= Index(r.phase)
                 PROVE Reached(n, c, phase)'
      OBVIOUS
    <3>1. \/ beads[b].phase = "analyze" /\ r.phase = "verify_plan"
          \/ beads[b].phase = "verify_plan" /\ r.phase = "execute"
          \/ beads[b].phase = "execute" /\ r.phase = "validate"
      BY <2>6 DEF Successor
    <3>2. CASE c < r.cycle \/ Index(phase) <= Index(beads[b].phase)
      BY <2>3, <2>4, <2>6, <3>2
    <3>3. CASE ~(c < r.cycle) /\ ~(Index(phase) <= Index(beads[b].phase))
      <4>1. phase = "verify_plan" /\ r.phase = "verify_plan" /\ c = r.cycle
        BY <2>0, <2>5, <2>6, <3>1, <3>3
      <4> QED BY <4>1, <1>own
    <3> QED BY <3>2, <3>3
  <2>7. ASSUME beads[b].phase \in {"verify_plan", "validate"}, NEW c \in 1..beads[b].cycle,
               NEW phase \in {"analyze", "verify_plan"}
        PROVE Reached(b, c, phase)
    <3>1. Index(phase) <= Index(beads[b].phase)
      BY <2>5, <2>7
    <3> QED BY <2>4, <3>1
  <2>8. ASSUME beads[b].phase \in {"verify_plan", "validate"}, r.phase = "analyze",
               r.cycle = beads[b].cycle + 1
        PROVE \A c \in 1..r.cycle : \A phase \in {"analyze", "verify_plan"} :
                c < r.cycle \/ Index(phase) <= Index(r.phase) => Reached(n, c, phase)'
    <3> SUFFICES ASSUME NEW c \in 1..r.cycle, NEW phase \in {"analyze", "verify_plan"},
                        c < r.cycle \/ Index(phase) <= Index(r.phase)
                 PROVE Reached(n, c, phase)'
      OBVIOUS
    <3>1. CASE c \in 1..beads[b].cycle
      BY <2>3, <2>7, <2>8, <3>1
    <3>2. CASE c = r.cycle
      <4>1. phase = "analyze"
        BY <2>0, <2>5, <2>8, <3>2
      <4> QED BY <2>8, <3>2, <4>1, <1>own
    <3> QED BY <2>0, <2>8, <3>1, <3>2
  <2>9. ASSUME beads[b].phase \in {"verify_plan", "validate"}, beads[b].cycle = MaxCycle
        PROVE \A c \in 1..MaxCycle : \A phase \in {"analyze", "verify_plan"} :
                \E d \in Id : /\ d < n /\ RootOf(d)' = r.root
                              /\ beads'[d].phase = phase /\ beads'[d].cycle = c
    BY <1>2, <2>2, <2>7, <2>9
  <2>10. beads[b].phase \in DOMAIN Successor => Successor[beads[b].phase] # "escalated"
    BY DEF Successor
  <2>11. "analyze" # "escalated" /\ "escalated" \notin Phase
    BY DEF Phase
  <2> HIDE DEF r
  <2>12. CASE /\ beads[b].phase \in DOMAIN Successor
              /\ r.phase = Successor[beads[b].phase] /\ r.cycle = beads[b].cycle
    BY <2>6, <2>10, <2>12
  <2>13. CASE /\ beads[b].phase \in {"verify_plan", "validate"}
              /\ r.phase = "analyze" /\ r.cycle = beads[b].cycle + 1
    BY <2>8, <2>11, <2>13
  <2>14. CASE /\ beads[b].phase \in {"verify_plan", "validate"}
              /\ r.phase = "escalated" /\ beads[b].cycle = MaxCycle
    BY <2>9, <2>11, <2>14
  <2> QED BY <1>2, <2>12, <2>13, <2>14
<1>3. CASE r.phase \in Phase \cup {"escalated"}
  <2>1. \/ r.phase = "analyze" /\ r.cycle = 1
        \/ \E b \in Id :
             /\ b <= filed /\ beads[b].phase \in Phase /\ r.root = RootOf(b)
             /\ \/ /\ beads[b].phase \in DOMAIN Successor
                   /\ r.phase = Successor[beads[b].phase] /\ r.cycle = beads[b].cycle
                \/ /\ beads[b].phase \in {"verify_plan", "validate"}
                   /\ r.phase = "analyze" /\ r.cycle = beads[b].cycle + 1
                \/ /\ beads[b].phase \in {"verify_plan", "validate"}
                   /\ r.phase = "escalated" /\ beads[b].cycle = MaxCycle
    BY <1>3 DEF Continues
  <2> QED BY <1>1, <1>2, <2>1
<1> QED BY <1>3

LEMMA TrailsStay ==
  ASSUME IInv, TypeOK', Evolve, CyclesAreTried, EscalatesAfterEveryCycle,
         filed' # filed => Continues(beads'[filed + 1])
  PROVE CyclesAreTried' /\ EscalatesAfterEveryCycle'
<1>0. filed \in Nat /\ (filed' = filed \/ filed' = filed + 1) /\ filed' \in Nat
  BY DEF Evolve, IInv, TypeOK
<1>1. ASSUME NEW b \in Id, b <= filed, beads'[b].phase \in Phase,
             NEW c \in 1..beads'[b].cycle, NEW phase \in {"analyze", "verify_plan"},
             c < beads'[b].cycle \/ Index(phase) <= Index(beads'[b].phase)
      PROVE Reached(b, c, phase)'
  BY <1>1, PlaceKept, ReachedStays DEF CyclesAreTried
<1>2. ASSUME NEW t \in Id, t <= filed, beads'[t].phase = "escalated",
             NEW c \in 1..MaxCycle, NEW phase \in {"analyze", "verify_plan"}
      PROVE \E b \in Id : /\ b < t /\ RootOf(b)' = beads'[t].root
                          /\ beads'[b].phase = phase /\ beads'[b].cycle = c
  <2>1. PICK b \in Id : /\ b < t /\ RootOf(b) = beads[t].root
                        /\ beads[b].phase = phase /\ beads[b].cycle = c
    BY <1>2, PlaceKept DEF EscalatesAfterEveryCycle
  <2>2. b <= filed /\ RootOf(b) \in Id /\ 0 \notin Id
    BY <1>0, <1>2, <2>1, RootOfType DEF IInv, Id
  <2>3. beads[t].root # 0
    BY <2>1, <2>2
  <2> QED BY <1>2, <2>1, <2>2, <2>3, PlaceKept
<1>3. ASSUME NEW b \in Id, b > filed, beads'[b].phase # "absent"
      PROVE filed' = filed + 1 /\ b = filed + 1
  BY <1>0, <1>3 DEF Evolve, Absent, Id
<1>4. CyclesAreTried'
  <2> SUFFICES ASSUME NEW b \in Id, beads'[b].phase \in Phase,
                      NEW c \in 1..beads'[b].cycle, NEW phase \in {"analyze", "verify_plan"},
                      c < beads'[b].cycle \/ Index(phase) <= Index(beads'[b].phase)
               PROVE Reached(b, c, phase)'
    BY DEF CyclesAreTried
  <2>1. CASE b <= filed
    BY <1>1, <2>1
  <2>2. CASE b > filed
    <3>1. filed' = filed + 1 /\ b = filed + 1
      BY <1>3, <2>2 DEF Phase
    <3>2. Continues(beads'[b])
      BY <1>0, <3>1
    <3> QED BY <3>1, <3>2, NewTrail
  <2> QED BY <1>0, <2>1, <2>2 DEF Id
<1>5. EscalatesAfterEveryCycle'
  <2> SUFFICES ASSUME NEW t \in Id, beads'[t].phase = "escalated",
                      NEW c \in 1..MaxCycle, NEW phase \in {"analyze", "verify_plan"}
               PROVE \E b \in Id : /\ b < t /\ RootOf(b)' = beads'[t].root
                                   /\ beads'[b].phase = phase /\ beads'[b].cycle = c
    BY DEF EscalatesAfterEveryCycle
  <2>1. CASE t <= filed
    BY <1>2, <2>1
  <2>2. CASE t > filed
    <3>1. filed' = filed + 1 /\ t = filed + 1
      BY <1>3, <2>2
    <3>2. Continues(beads'[t])
      BY <1>0, <3>1
    <3> QED BY <3>1, <3>2, NewTrail
  <2> QED BY <1>0, <2>1, <2>2 DEF Id
<1> QED BY <1>4, <1>5

LEMMA JobsStay ==
  ASSUME IInv, TypeOK', Evolve, JobsKnowTheirRoot, [Next]_vars
  PROVE JobsKnowTheirRoot'
<1>0. work \in [Worker -> Job]
  BY DEF IInv, TypeOK
<1>1. ASSUME NEW w \in Worker
      PROVE \/ work'[w] = Free
            \/ work'[w].bead = work[w].bead /\ work'[w].root = work[w].root
            \/ \E b \in Id : /\ beads[b].phase \in Phase
                             /\ work'[w].bead = b /\ work'[w].root = RootOf(b)
  <2>1. ASSUME NEW v \in Worker, Worked(v)
        PROVE \/ work'[w] = Free
              \/ work'[w].bead = work[w].bead /\ work'[w].root = work[w].root
              \/ \E b \in Id : /\ beads[b].phase \in Phase
                               /\ work'[w].bead = b /\ work'[w].root = RootOf(b)
    <3>1. ASSUME NEW b \in Id, Claim(v, b), v = w
          PROVE /\ beads[b].phase \in Phase
                /\ work'[w].bead = b /\ work'[w].root = RootOf(b)
      BY <1>0, <3>1 DEF Claim, Free
    <3>2. work[w] \in Job
      BY <1>0
    <3>3. v # w => work'[w] = work[w]
      BY <1>0, <2>1 DEF Worked, Claim, Advance, Fixed, NextCycle, Escalate, Advances,
                        RunGate, Report, FailWork, Release, PutBack, Vanish
    <3>4. CASE v = w /\ \A b \in Id : ~Claim(v, b)
      BY <1>0, <2>1, <3>2, <3>4 DEF Worked, Advance, Fixed, NextCycle, Escalate,
                        Advances, RunGate, Report, FailWork, Release, PutBack, Vanish, Job
    <3> QED BY <3>1, <3>3, <3>4
  <2>2. ASSUME ~\E v \in Worker : Worked(v) PROVE UNCHANGED work
    BY <2>2 DEF Next, vars, Reported, Fail, AskForRca, FindExisting, Fold, FindPrior,
                CreateRoot, Pin, Crash, Operated, FileFix, ReapRead, Reap, PutBack, Approve,
                RetryAnalysis, CompleteAgain, SetStatus, RetrySubject
  <2> QED BY <2>1, <2>2
<1>2. ASSUME NEW b \in Id, beads[b].phase \in Phase PROVE RootOf(b)' = RootOf(b)
  BY <1>2, FiledBeads, PlaceKept DEF Phase
<1>3. ASSUME NEW w \in Worker, work[w].bead # 0
      PROVE work[w].bead \in Id /\ beads[work[w].bead].phase \in Phase
  BY <1>0, <1>3, RcaAssumption DEF IInv, JobHolds, Job, Id
<1>4. ASSUME NEW w \in Worker, work'[w].bead # 0
      PROVE \E b \in Id : /\ beads[b].phase \in Phase
                          /\ work'[w].bead = b /\ work'[w].root = RootOf(b)
  <2>1. CASE work'[w] = Free
    BY <1>4, <2>1 DEF Free
  <2>2. CASE work'[w].bead = work[w].bead /\ work'[w].root = work[w].root
    BY <1>3, <1>4, <2>2 DEF JobsKnowTheirRoot
  <2> QED BY <1>1, <2>1, <2>2
<1>5. ASSUME NEW w \in Worker, (work[w].bead # 0)'
      PROVE (work[w].root = RootOf(work[w].bead))'
  <2>1. PICK b \in Id : /\ beads[b].phase \in Phase
                        /\ work'[w].bead = b /\ work'[w].root = RootOf(b)
    BY <1>4, <1>5
  <2>2. work'[w].root = RootOf(b)'
    BY <1>2, <2>1
  <2> QED BY <2>1, <2>2 DEF RootOf
<1> QED BY <1>5 DEF JobsKnowTheirRoot

LEMMA InitTried == Init => TriedInv
<1> SUFFICES ASSUME Init PROVE TriedInv
  OBVIOUS
<1>1. \A b \in Id : beads[b].phase = "absent"
  BY DEF Init, Absent
<1> QED BY <1>1 DEF Init, TriedInv, JobsKnowTheirRoot, CyclesAreTried,
                    EscalatesAfterEveryCycle, Phase, Free

LEMMA NextTried == IInv /\ TriedInv /\ [Next]_vars => TriedInv'
<1> SUFFICES ASSUME IInv, TriedInv, [Next]_vars PROVE TriedInv'
  OBVIOUS
<1>1. TypeOK' /\ Evolve
  <2>1. CASE UNCHANGED vars
    BY <2>1, StutterEvolves DEF vars, IInv, TypeOK
  <2>2. CASE Next
    BY <2>2, NextType, NextEvolves
  <2> QED BY <2>1, <2>2
<1>2. filed' # filed => Continues(beads'[filed + 1])
  BY FiledContinues DEF vars, TriedInv
<1> QED BY <1>1, <1>2, TrailsStay, JobsStay DEF TriedInv

-----------------------------------------------------------------------------
(* The theorems.                                                            *)

LEMMA InitIInv == Init => IInv
<1> SUFFICES ASSUME Init PROVE IInv
  OBVIOUS
<1>1. \A b \in Id : beads[b] = Absent
  BY DEF Init
<1>2. Analyses = {}
  BY <1>1 DEF Analyses, Absent
<1>3. \A s : RootsOf(s) = {}
  BY <1>2 DEF RootsOf
<1>4. TypeOK
  BY Blanks, RcaAssumption DEF Init, TypeOK
<1>5. FiledInOrder /\ PhasesAreCounted /\ ReadIsFiled
  BY <1>1, <1>2 DEF Init, FiledInOrder, PhasesAreCounted, ReadIsFiled, Absent, Phase, Id
<1>6. \A p \in Process : CallHolds(p)
  BY DEF Init, CallHolds, Idle
<1>7. \A w \in Worker : JobHolds(w)
  BY DEF Init, JobHolds, Free
<1>8. Succeeded /\ Superseded /\ RecurrencesChain /\ AnalysisLeavesTrace
  BY <1>2, <1>3 DEF Succeeded, Superseded, RecurrencesChain, AnalysisLeavesTrace
<1> QED BY <1>4, <1>5, <1>6, <1>7, <1>8 DEF IInv

LEMMA NextIInv == IInv /\ [Next]_vars => IInv'
<1> SUFFICES ASSUME IInv, [Next]_vars PROVE IInv'
  OBVIOUS
<1>1. CASE Next
  <2>1. TypeOK' /\ Evolve
    BY <1>1, NextType, NextEvolves
  <2> QED BY <1>1, <2>1, OrderStays, ReadStays, TracesLeft, LineStays, HoldsStays DEF IInv
<1>2. CASE UNCHANGED vars
  <2>1. TypeOK' /\ Evolve
    BY <1>2, StutterEvolves DEF vars, IInv, TypeOK
  <2>2. calls' = calls /\ work' = work /\ ReadIsFiled'
    BY <1>2 DEF vars, IInv, ReadIsFiled
  <2> QED BY <2>1, <2>2, OrderStays, TracesLeft, LineStays, CallStays, JobStays DEF IInv
<1> QED BY <1>1, <1>2

\* The invariant above holds in every reachable state: the ids, what calls and
\* agents have read, and the line of investigations are as they should be.
THEOREM RcaInvariance == Spec => []IInv
  BY InitIInv, NextIInv, PTL DEF Spec

\* The investigations of a bead form one line, however many processes report
\* its failures at once, and die (create_rca_task, the natural key).
THEOREM OneLine == Spec => []RecurrencesChain
<1>1. IInv => RecurrencesChain
  BY DEF IInv
<1> QED BY <1>1, RcaInvariance, PTL

\* A bead has one open investigation, but for one that was put back to work
\* after it had been closed, by a retry or by a write that came too late.
THEOREM OneRootIsOpen == Spec => []OneOpenRoot
<1>1. IInv => OneOpenRoot
  BY DEF IInv, Superseded, OneOpenRoot
<1> QED BY <1>1, RcaInvariance, PTL

\* A report of a failure is never answered with an investigation that was over
\* before it (find_existing_rca_root, find_closed_rca_root).
THEOREM AnswersAreCurrent == Spec => []AnswerIsCurrent
<1>1. IInv => AnswerIsCurrent
  BY DEF IInv, CallHolds, AnswerIsCurrent, Process
<1> QED BY <1>1, RcaInvariance, PTL

\* No gated analysis is done without something that carries it forward
\* (terminal_action_verify, rca-check).
THEOREM TraceIsLeft == Spec => []AnalysisLeavesTrace
<1>1. IInv => AnalysisLeavesTrace
  BY DEF IInv
<1> QED BY <1>1, RcaInvariance, PTL

\* Every reachable state is well typed.
THEOREM RcaTypeCorrect == Spec => []TypeOK
<1>1. IInv => TypeOK
  BY DEF IInv
<1> QED BY <1>1, RcaInvariance, PTL

\* A person is called in only after every cycle was analysed and planned
\* (_loop_or_escalate): each bead has the whole trail of its investigation
\* behind it, however the agents' steps interleave.
THEOREM EveryCycleIsTried == Spec => []EscalatesAfterEveryCycle
<1>1. Spec => []TriedInv
  BY InitTried, NextTried, RcaInvariance, PTL DEF Spec
<1>2. TriedInv => EscalatesAfterEveryCycle
  BY DEF TriedInv
<1> QED BY <1>1, <1>2, PTL
=============================================================================
