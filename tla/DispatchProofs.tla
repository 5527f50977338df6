--------------------------- MODULE DispatchProofs ---------------------------
(***************************************************************************)
(* Theorems about Dispatch, for every set of beads, of cycles and workers, *)
(* every way beads are filed and every bound: what is proposed is worked   *)
(* on only once approved, and every failure gets its analysis; then, on    *)
(* top of that, what a bead's routing allows (a fault of it is never       *)
(* reported as a failure), and what the gate of the backoff counts.  And   *)
(* about ChildWatch, where outages can be told from the evidence: no false *)
(* alarm, and none missing.                                                *)
(***************************************************************************)
EXTENDS DispatchMC, TLAPS

-----------------------------------------------------------------------------
(* What the steps build is a bead and a pass.                               *)

LEMMA FormType == ASSUME NEW f \in Filing
  PROVE /\ f.lane \in Lane /\ f.bar \in Bar
        /\ f.gated \in BOOLEAN /\ f.analysis \in BOOLEAN
        /\ [f EXCEPT !.bar = "none"] \in Filing
        /\ [f EXCEPT !.bar = "approval"] \in Filing
BY DEF Filing, Fits, Bar

LEMMA FiledType == ASSUME NEW f \in Filing, NEW st \in Status, NEW pd \in BOOLEAN
  PROVE Filed(f, st, pd) \in Task
BY DispatchAssumption DEF Filed, Task, Filing

LEMMA TaskSteps == ASSUME NEW t \in Task, NEW p \in Proc, NEW st \in Status
  PROVE /\ Reaped(t) \in Task /\ Ended(t, st) \in Task /\ Claimed(t, p) \in Task
        /\ [Ended(t, st) EXCEPT !.answered = FALSE] \in Task
        /\ [t EXCEPT !.refused = TRUE] \in Task
        /\ [t EXCEPT !.refused = FALSE] \in Task
        /\ [t EXCEPT !.status = st] \in Task
        /\ [t EXCEPT !.expiry = "past"] \in Task
<1>1. Reaped(t) \in Task
  BY DEF Task, Reaped, Status
<1>2. Ended(t, st) \in Task /\ [Ended(t, st) EXCEPT !.answered = FALSE] \in Task
  BY DEF Task, Ended
<1>3. Claimed(t, p) \in Task
  <2>1. t.attempt \in Nat
    BY Zenon DEF Task
  <2>2. t.attempt + 1 \in Nat
    BY <2>1
  <2> QED BY <2>2 DEF Task, Claimed, Status
<1>4. [t EXCEPT !.refused = TRUE] \in Task /\ [t EXCEPT !.refused = FALSE] \in Task
  BY DEF Task
<1>5. [t EXCEPT !.status = st] \in Task /\ [t EXCEPT !.expiry = "past"] \in Task
  BY DEF Task
<1> QED BY <1>1, <1>2, <1>3, <1>4, <1>5

LEMMA IdleType == Idle \in Pass /\ [Idle EXCEPT !.at = "select"] \in Pass
BY DEF Idle, Pass

LEMMA PassSteps == ASSUME NEW r \in Pass
  PROVE /\ Onward(r) \in Pass /\ Worked(r) \in Pass
        /\ [Onward(r) EXCEPT !.outage = TRUE] \in Pass
BY DEF Onward, Worked, Pass

LEMMA LandingType == ASSUME NEW t \in Task
  PROVE Landing(t) \subseteq {"done", "parked"}
BY DEF Landing

-----------------------------------------------------------------------------
(* The steps keep the types.                                                *)

\* One step changes one bead, or one pass, or one of each.
LEMMA BeadsType == ASSUME TypeOK, NEW b \in Bead, NEW t \in Task
  PROVE [beads EXCEPT ![b] = t] \in [Bead -> Task]
BY DEF TypeOK

LEMMA PassesType == ASSUME TypeOK, NEW p \in Proc, NEW r \in Pass
  PROVE [pr EXCEPT ![p] = r] \in [Proc -> Pass]
BY DEF TypeOK

LEMMA Members == ASSUME TypeOK
  PROVE /\ \A b \in Bead : beads[b] \in Task
        /\ \A p \in Proc : pr[p] \in Pass
BY DEF TypeOK

LEMMA TakenType == ASSUME TypeOK, NEW p \in Proc, NEW b \in Bead
  PROVE /\ Taken(p, b) \in Pass
        /\ [Taken(p, b) EXCEPT !.at = "fail"] \in Pass
        /\ [Taken(p, b) EXCEPT !.at = "run"] \in Pass
        /\ [Taken(p, b) EXCEPT !.at = "fail", !.guard = TRUE] \in Pass
        /\ \A n \in Nat : /\ [Taken(p, b) EXCEPT !.at = "run", !.attempt = n] \in Pass
                          /\ [Taken(p, b) EXCEPT !.at = "fail", !.guard = TRUE,
                                                 !.attempt = n] \in Pass
<1>1. pr[p] \in Pass
  BY Members
<1>2. Taken(p, b) \in Pass
  BY <1>1 DEF Taken, Pass
<1> QED BY <1>2 DEF Pass

LEMMA FailTypes == ASSUME TypeOK, NEW p \in Proc
  PROVE Failing(p) \in Pass /\ Guarding(p) \in Pass
<1>1. pr[p] \in Pass
  BY Members
<1> QED BY <1>1 DEF Failing, Guarding, Pass

LEMMA NextAttempt == ASSUME TypeOK, NEW b \in Bead
  PROVE beads[b].attempt \in Nat /\ beads[b].attempt + 1 \in Nat
<1>1. beads[b].attempt \in Nat
  BY Members DEF Task
<1> QED BY <1>1

LEMMA OneBead ==
  ASSUME TypeOK, NEW b \in Bead, NEW t \in Task, beads' = [beads EXCEPT ![b] = t]
  PROVE beads' \in [Bead -> Task]
BY BeadsType

LEMMA OnePass ==
  ASSUME TypeOK, NEW p \in Proc, NEW r \in Pass, Go(p, r)
  PROVE pr' \in [Proc -> Pass]
BY PassesType DEF Go

LEMMA DispatchTypes ==
  ASSUME TypeOK, NEW p \in Proc, NEW b \in Bead, Dispatching(p, b)
  PROVE TypeOK'
<1>0. /\ beads[b] \in Task /\ Taken(p, b) \in Pass
      /\ Onward(Taken(p, b)) \in Pass /\ Worked(Taken(p, b)) \in Pass
  BY Members, TakenType, PassSteps
<1>1. CASE Defer(p, b)
  BY <1>0, <1>1, PassesType DEF Defer, Go, TypeOK, clock, history
<1>2. CASE Refuse(p, b)
  <2>1. beads' = [beads EXCEPT ![b] = [beads[b] EXCEPT !.refused = TRUE]]
    BY <1>2 DEF Refuse
  <2>2. [beads[b] EXCEPT !.refused = TRUE] \in Task
    BY <1>0 DEF Task
  <2>3. beads' \in [Bead -> Task]
    BY <2>1, <2>2, BeadsType
  <2> QED BY <1>0, <1>2, <2>3, PassesType DEF Refuse, Go, TypeOK, clock, history
<1>3. CASE Leave(p, b)
  BY <1>0, <1>3, PassesType DEF Leave, Go, TypeOK, clock, history
<1>4. CASE UnknownChild(p, b)
  BY <1>4, TakenType, PassesType DEF UnknownChild, Go, TypeOK, clock, history
<1>5. CASE ClaimRaises(p, b)
  BY <1>5, TakenType, PassesType DEF ClaimRaises, Go, TypeOK, clock, history
<1>6. CASE ClaimWon(p, b)
  <2>1. beads' \in [Bead -> Task]
    BY <1>6, <1>0, BeadsType, TaskSteps, "done" \in Status DEF ClaimWon, Status
  <2>2. beads[b].attempt + 1 \in Nat
    BY NextAttempt
  <2>3. pr' \in [Proc -> Pass]
    <3> DEFINE n == beads[b].attempt + 1
    <3>1. \/ Go(p, [Taken(p, b) EXCEPT !.at = "fail", !.guard = TRUE, !.attempt = n])
          \/ Go(p, [Taken(p, b) EXCEPT !.at = "run", !.attempt = n])
      BY <1>6 DEF ClaimWon
    <3>2. /\ [Taken(p, b) EXCEPT !.at = "fail", !.guard = TRUE, !.attempt = n] \in Pass
          /\ [Taken(p, b) EXCEPT !.at = "run", !.attempt = n] \in Pass
      BY <2>2, TakenType
    <3> HIDE DEF n
    <3> QED BY <3>1, <3>2, OnePass
  <2>4. tried' \subseteq Bead
    BY <1>6 DEF ClaimWon, TypeOK
  <2> QED BY <1>6, <2>1, <2>3, <2>4 DEF ClaimWon, TypeOK, clock
<1>7. CASE ClaimLost(p, b)
  <2>0. \/ Go(p, [Taken(p, b) EXCEPT !.at = "run"])
        \/ Go(p, Worked(Taken(p, b)))
    BY <1>7 DEF ClaimLost
  <2>1. pr' \in [Proc -> Pass]
    BY <1>0, <2>0, TakenType, OnePass
  <2>2. tried' \subseteq Bead
    BY <1>7 DEF ClaimLost, TypeOK
  <2> QED BY <1>7, <2>1, <2>2 DEF ClaimLost, TypeOK, clock
<1> QED BY <1>1, <1>2, <1>3, <1>4, <1>5, <1>6, <1>7 DEF Dispatching

\* The execution, of a pass with a bead in hand.
LEMMA ExecutionTypes ==
  ASSUME TypeOK, InHandIsBead, NEW p \in Proc,
         Executing(p) \/ SelfComplete(p) \/ Propose(p)
  PROVE TypeOK'
<1>0. pr[p] \in Pass /\ Onward(pr[p]) \in Pass /\ Worked(pr[p]) \in Pass
      /\ [Onward(pr[p]) EXCEPT !.outage = TRUE] \in Pass
      /\ Failing(p) \in Pass /\ Guarding(p) \in Pass
  BY Members, PassSteps, FailTypes
<1>00. Running(p) => pr[p].bead \in Bead /\ beads[pr[p].bead] \in Task
  BY Members DEF InHandIsBead, Running
<1>1. CASE Return(p)
  <2>1. [pr[p] EXCEPT !.at = IF RunLane(p) \in SelfCompleting THEN "check" ELSE "report"] \in Pass
    BY <1>0 DEF Pass
  <2>2. pr' \in [Proc -> Pass]
    BY <1>1, <2>1, OnePass DEF Return
  <2> QED BY <1>1, <2>2 DEF Return, TypeOK, clock, history
<1>2. CASE ReturnError(p)
  <2>1. pr' \in [Proc -> Pass]
    BY <1>0, <1>2, OnePass DEF ReturnError
  <2> QED BY <1>2, <2>1 DEF ReturnError, TypeOK, clock, history
<1>3. CASE Unconfigured(p)
  <2>1. [beads[pr[p].bead] EXCEPT !.refused = TRUE] \in Task
    BY <1>00, <1>3, TaskSteps, "done" \in Status DEF Unconfigured, Status
  <2>2. beads' = [beads EXCEPT ![pr[p].bead] = [beads[pr[p].bead] EXCEPT !.refused = TRUE]]
    BY <1>3 DEF Unconfigured
  <2>3. beads' \in [Bead -> Task]
    BY <1>00, <1>3, <2>1, <2>2, OneBead DEF Unconfigured
  <2>4. pr' \in [Proc -> Pass]
    BY <1>0, <1>3, OnePass DEF Unconfigured
  <2> QED BY <1>3, <2>3, <2>4 DEF Unconfigured, TypeOK, clock, history
<1>4. CASE AuthOutage(p)
  <2>1. Reaped(beads[pr[p].bead]) \in Task
    BY <1>00, <1>4, TaskSteps, "done" \in Status DEF AuthOutage, Status
  <2>2. beads' \in [Bead -> Task]
    BY <1>00, <1>4, <2>1, OneBead DEF AuthOutage
  <2>3. pr' \in [Proc -> Pass]
    BY <1>0, <1>4, OnePass DEF AuthOutage
  <2>4. trouble' \in 0..MaxTrouble
    BY <1>4, DispatchAssumption DEF AuthOutage, TypeOK
  <2> QED BY <1>4, <2>2, <2>3, <2>4 DEF AuthOutage, TypeOK, clock
<1>5. CASE SelfComplete(p)
  <2>1. PICK s \in Landing(Mine(p)) : beads' = [beads EXCEPT ![pr[p].bead] = Ended(beads[pr[p].bead], s)]
    BY <1>5 DEF SelfComplete
  <2>2. s \in Status
    BY <2>1 DEF Landing, Status
  <2>3. beads' \in [Bead -> Task]
    BY <1>00, <1>5, <2>1, <2>2, TaskSteps, OneBead DEF SelfComplete, Proc
  <2> QED BY <1>5, <2>3 DEF SelfComplete, TypeOK, clock, history
<1>6. CASE Propose(p)
  <2>1. PICK c \in Bead, f \in Form : FileProposal(c, f)
    BY <1>6 DEF Propose
  <2>2. Filed([f EXCEPT !.bar = "approval"], "waiting", TRUE) \in Task
    BY DispatchAssumption, FormType, FiledType DEF Status
  <2>3. beads' \in [Bead -> Task]
    BY <2>1, <2>2, OneBead DEF FileProposal
  <2> QED BY <1>6, <2>3 DEF Propose, TypeOK, history
<1> QED BY <1>1, <1>2, <1>3, <1>4, <1>5, <1>6 DEF Executing

LEMMA ClosingTypes ==
  ASSUME TypeOK, InHandIsBead, NEW p \in Proc, Closing(p) \/ Decompose(p)
  PROVE TypeOK'
<1>0. pr[p] \in Pass /\ Onward(pr[p]) \in Pass /\ Worked(pr[p]) \in Pass
      /\ Failing(p) \in Pass /\ Guarding(p) \in Pass /\ Idle \in Pass
  BY Members, PassSteps, FailTypes, IdleType
<1>00. pr[p].at \in {"report", "check", "decide", "fail", "write", "rca"}
         => pr[p].bead \in Bead /\ beads[pr[p].bead] \in Task
  BY Members DEF InHandIsBead
<1>01. \A a \in {"decide", "rca"} : [pr[p] EXCEPT !.at = a] \in Pass
  BY <1>0 DEF Pass
<1>1. CASE Report(p)
  <2>1. CASE Mine(p).attempt = pr[p].attempt
    <3>1. PICK s \in Landing(Mine(p)) : beads' = [beads EXCEPT ![pr[p].bead] = Ended(beads[pr[p].bead], s)]
      BY <1>1, <2>1 DEF Report
    <3>2. s \in Status
      BY <3>1 DEF Landing, Status
    <3>3. beads' \in [Bead -> Task]
      BY <1>00, <1>1, <3>1, <3>2, TaskSteps, OneBead DEF Report, Proc
    <3>4. pr' \in [Proc -> Pass]
      BY <1>0, <1>1, <2>1, OnePass DEF Report
    <3> QED BY <1>1, <3>3, <3>4 DEF Report, TypeOK, clock, history
  <2>2. CASE Mine(p).attempt # pr[p].attempt
    <3>1. pr' \in [Proc -> Pass]
      BY <1>0, <1>1, <2>2, OnePass DEF Report
    <3> QED BY <1>1, <2>2, <3>1 DEF Report, TypeOK, clock, history
  <2> QED BY <2>1, <2>2
<1>2. CASE Check(p)
  <2>1. pr' \in [Proc -> Pass]
    BY <1>0, <1>01, <1>2, OnePass DEF Check
  <2> QED BY <1>2, <2>1 DEF Check, TypeOK, clock, history
<1>3. CASE Decide(p)
  <2>1. pr' \in [Proc -> Pass]
    BY <1>0, <1>3, OnePass DEF Decide
  <2> QED BY <1>3, <2>1 DEF Decide, TypeOK, clock, history
<1>4. CASE FailRead(p)
  <2>0. Mine(p).attempt \in Nat
    BY <1>00, <1>4 DEF FailRead, Mine, Task
  <2>1. CASE Mine(p).agent
    <3>1. [pr[p] EXCEPT !.at = "write",
             !.fence = IF pr[p].fence = 0 THEN Mine(p).attempt ELSE pr[p].fence] \in Pass
      BY <1>0, <2>0 DEF Pass
    <3>2. pr' \in [Proc -> Pass]
      BY <1>4, <2>1, <3>1, OnePass DEF FailRead
    <3> QED BY <1>4, <2>1, <3>2 DEF FailRead, TypeOK, clock, history
  <2>2. CASE ~Mine(p).agent
    <3>1. [beads[pr[p].bead] EXCEPT !.refused = TRUE] \in Task
      BY <1>00, <1>4 DEF FailRead, Task
    <3>2. beads' \in [Bead -> Task]
      BY <1>00, <1>4, <2>2, <3>1, OneBead DEF FailRead
    <3>3. pr' \in [Proc -> Pass]
      BY <1>01, <1>4, <2>2, OnePass DEF FailRead
    <3> QED BY <1>4, <3>2, <3>3 DEF FailRead, TypeOK, clock, history
  <2> QED BY <2>1, <2>2
<1>5. CASE FailWrite(p)
  <2>1. [Ended(beads[pr[p].bead], "failed") EXCEPT !.answered = FALSE] \in Task
    BY <1>00, <1>5, TaskSteps, "failed" \in Status DEF FailWrite, FailLands, Status
  <2>2. beads' \in [Bead -> Task]
    BY <1>00, <1>5, <2>1, OneBead DEF FailWrite, FailLands
  <2>3. pr' \in [Proc -> Pass]
    BY <1>01, <1>5, OnePass DEF FailWrite
  <2> QED BY <1>5, <2>2, <2>3 DEF FailWrite, TypeOK, clock, history
<1>6. CASE FailRaises(p)
  <2>1. pr' \in [Proc -> Pass]
    BY <1>0, <1>6, OnePass DEF FailRaises
  <2> QED BY <1>6, <2>1 DEF FailRaises, TypeOK, clock, history
<1>7. CASE Analyse(p)
  <2>1. \E v \in BOOLEAN :
          beads' = [beads EXCEPT ![pr[p].bead] = [beads[pr[p].bead] EXCEPT !.answered = v]]
    <3>1. (beads[pr[p].bead].answered \/ ~Mine(p).form.analysis) \in BOOLEAN
      OBVIOUS
    <3> QED BY <1>7, <3>1 DEF Analyse
  <2>2. \A v \in BOOLEAN : [beads[pr[p].bead] EXCEPT !.answered = v] \in Task
    BY <1>00, <1>7 DEF Analyse, Task
  <2>3. beads' \in [Bead -> Task]
    BY <1>00, <1>7, <2>1, <2>2, OneBead DEF Analyse
  <2>4. pr' \in [Proc -> Pass]
    BY <1>0, <1>7, OnePass DEF Analyse
  <2> QED BY <1>7, <2>3, <2>4 DEF Analyse, TypeOK, clock, history
<1>8. CASE Finish(p)
  <2>1. pr' \in [Proc -> Pass]
    BY <1>0, <1>8, OnePass DEF Finish
  <2>2. stretch' \in 0..MaxRest /\ rest' \in 0..MaxRest /\ fresh' \in BOOLEAN
    <3> DEFINE longer == IF 2 * stretch + 1 > MaxRest THEN MaxRest ELSE 2 * stretch + 1
    <3>1. MaxRest \in Nat /\ stretch \in 0..MaxRest
      BY DispatchAssumption DEF TypeOK
    <3>2. longer \in 0..MaxRest /\ 0 \in 0..MaxRest
      BY <3>1
    <3>3. CASE p \in Cycler
      <4>1. /\ stretch' = 0 \/ stretch' = longer
            /\ rest' = stretch' /\ fresh' = FALSE
        BY <1>8, <3>3 DEF Finish
      <4> HIDE DEF longer
      <4> QED BY <3>2, <4>1
    <3>4. CASE p \notin Cycler
      BY <1>8, <3>4 DEF Finish, TypeOK, clock
    <3> QED BY <3>3, <3>4
  <2> QED BY <1>8, <2>1, <2>2 DEF Finish, TypeOK, history
<1>9. CASE Decompose(p)
  <2>1. PICK c \in Bead, f \in Form : FileProposal(c, f)
    BY <1>9 DEF Decompose
  <2>2. Filed([f EXCEPT !.bar = "approval"], "waiting", TRUE) \in Task
    BY DispatchAssumption, FormType, FiledType DEF Status
  <2>3. beads' \in [Bead -> Task]
    BY <2>1, <2>2, OneBead DEF FileProposal
  <2>4. pr' \in [Proc -> Pass]
    BY <1>0, <1>9, OnePass DEF Decompose
  <2> QED BY <1>9, <2>3, <2>4 DEF Decompose, TypeOK, history
<1> QED BY <1>1, <1>2, <1>3, <1>4, <1>5, <1>6, <1>7, <1>8, <1>9 DEF Closing

LEMMA SnapshotType ==
  ASSUME NEW p \in Proc, NEW r \in Pass, NEW q \in SUBSET Bead
  PROVE /\ Snapshot(p, r, q) \in Pass
        /\ Snapshot(p, r, q).at = "pick" /\ Snapshot(p, r, q).queue = q
        /\ Snapshot(p, r, q).bead = r.bead
<1> DEFINE u == {b \in q : InProcess(p, b) /\ ~beads[b].agent}
<1>1. u \subseteq Bead
  OBVIOUS
<1>2. Snapshot(p, r, q) = [r EXCEPT !.at = "pick", !.queue = q, !.unnamed = u]
  BY DEF Snapshot
<1> HIDE DEF u
<1> QED BY <1>1, <1>2 DEF Pass

\* Where a bead goes is put right, for a bead that may get a name on the way,
\* or goes wrong, for a bead nobody has in hand.
LEMMA Rerouted ==
  ASSUME TypeOK, NEW b \in Bead, Unrefuse(b) \/ Misconfigure(b)
  PROVE  \E t \in Task :
           /\ beads' = [beads EXCEPT ![b] = t]
           /\ t.status = beads[b].status /\ t.proposed = beads[b].proposed
           /\ t.answered = beads[b].answered /\ t.attempt = beads[b].attempt
           /\ t.form.analysis = beads[b].form.analysis
           /\ beads[b].form.named => t.form.named
           /\ beads[b].agent => t.agent
           /\ t.agent => beads[b].agent \/ t.form.named
           /\ \/ t.form.bar \in {BarOf(b), "none"}
              \/ \A p \in Proc : pr[p].bead # b
<1>0. beads[b] \in Task /\ beads[b].form \in Filing
  BY Members DEF Task
<1>1. CASE Unrefuse(b)
  <2>1. PICK a \in BOOLEAN : beads' = [beads EXCEPT ![b] = Corrected(beads[b], a)]
    BY <1>1 DEF Unrefuse
  <2> DEFINE n == beads[b].form.named \/ a
             g == beads[b].agent \/ a
             v == IF BarOf(b) = "approval" THEN BarOf(b) ELSE "none"
             f == [beads[b].form EXCEPT !.named = n, !.bar = v]
             t == [beads[b] EXCEPT !.refused = FALSE, !.agent = g, !.form = f]
  <2>2. n \in BOOLEAN /\ g \in BOOLEAN /\ (beads[b].form.named => n) /\ (beads[b].agent => g)
        /\ (g => beads[b].agent \/ n)
    BY <1>0 DEF Task, Filing
  <2>3. v \in Bar /\ Fits(beads[b].form.lane, v)
    BY <1>0 DEF Filing, Fits, Bar, BarOf
  <2>4. beads' = [beads EXCEPT ![b] = t]
    BY <2>1, Zenon DEF Corrected, BarOf
  <2>7. v \in {BarOf(b), "none"}
    OBVIOUS
  <2> HIDE DEF n, g, v
  <2>5. f \in Filing /\ f.named = n /\ f.bar = v /\ f.analysis = beads[b].form.analysis
    BY <1>0, <2>2, <2>3 DEF Filing
  <2> HIDE DEF f
  <2>6. /\ t \in Task /\ t.status = beads[b].status /\ t.proposed = beads[b].proposed
        /\ t.answered = beads[b].answered /\ t.attempt = beads[b].attempt
        /\ t.form = f /\ t.agent = g
    BY <1>0, <2>2, <2>5 DEF Task
  <2> HIDE DEF t
  <2> QED BY <2>2, <2>4, <2>5, <2>6, <2>7
<1>2. CASE Misconfigure(b)
  <2>1. PICK v \in Bar : LET f == [beads[b].form EXCEPT !.bar = v] IN
          f \in Form /\ beads' = [beads EXCEPT ![b].form = f]
    BY <1>2 DEF Misconfigure
  <2> DEFINE f == [beads[b].form EXCEPT !.bar = v]
             t == [beads[b] EXCEPT !.form = f]
  <2>2. f \in Filing /\ beads' = [beads EXCEPT ![b] = t]
    BY <2>1, DispatchAssumption
  <2>3. f.named = beads[b].form.named /\ f.analysis = beads[b].form.analysis
    BY <1>0 DEF Filing
  <2> HIDE DEF f
  <2>4. /\ t \in Task /\ t.status = beads[b].status /\ t.proposed = beads[b].proposed
        /\ t.answered = beads[b].answered /\ t.attempt = beads[b].attempt
        /\ t.form = f /\ t.agent = beads[b].agent
    BY <1>0, <2>2 DEF Task
  <2>5. \A p \in Proc : pr[p].bead # b
    BY <1>2 DEF Misconfigure
  <2> HIDE DEF t
  <2> QED BY <2>2, <2>3, <2>4, <2>5
<1> QED BY <1>1, <1>2

\* The start of a pass, its death, and everybody else.
LEMMA OtherTypes ==
  ASSUME TypeOK, NEW p \in Proc,
         Wake(p) \/ Skip(p) \/ Select(p) \/ StartWork(p) \/ Crash(p)
  PROVE TypeOK'
<1>0. pr[p] \in Pass /\ Idle \in Pass
  BY Members, IdleType
<1>1. CASE Wake(p)
  <2>1. \A b \in Bead : Reaped(beads[b]) \in Task
    BY Members, TaskSteps, "done" \in Status DEF Status
  <2>2. beads' \in [Bead -> Task]
    BY <1>1, <2>1, Members DEF Wake
  <2>3. pr' \in [Proc -> Pass]
    BY <1>1, IdleType, OnePass DEF Wake
  <2> QED BY <1>1, <2>2, <2>3 DEF Wake, TypeOK, clock, history
<1>2. CASE Skip(p)
  BY <1>2, DispatchAssumption DEF Skip, TypeOK, history
<1>3. CASE Select(p)
  <2>1. PICK q \in SUBSET Bead : SelectQueue(p, q)
    BY <1>3 DEF Select
  <2>2. Snapshot(p, pr[p], q) \in Pass
    BY <1>0, SnapshotType
  <2>3. pr' \in [Proc -> Pass]
    BY <2>1, <2>2, OnePass DEF SelectQueue
  <2> QED BY <2>1, <2>3 DEF SelectQueue, TypeOK, clock, history
<1>4. CASE StartWork(p)
  <2>1. PICK q \in SUBSET ReadyNow : Go(p, Snapshot(p, Idle, q))
    BY <1>4 DEF StartWork
  <2>2. Snapshot(p, Idle, q) \in Pass
    BY <1>0, SnapshotType DEF ReadyNow
  <2>3. pr' \in [Proc -> Pass]
    BY <2>1, <2>2, OnePass
  <2> QED BY <1>4, <2>3 DEF StartWork, TypeOK, clock, history
<1>5. CASE Crash(p)
  <2>1. pr' \in [Proc -> Pass]
    BY <1>0, <1>5, OnePass DEF Crash
  <2>2. trouble' \in 0..MaxTrouble
    BY <1>5, DispatchAssumption DEF Crash, TypeOK
  <2> QED BY <1>5, <2>1, <2>2 DEF Crash, TypeOK, clock
<1> QED BY <1>1, <1>2, <1>3, <1>4, <1>5

LEMMA PeopleTypes ==
  ASSUME TypeOK, NEW b \in Bead,
         File(b) \/ Approve(b) \/ Unrefuse(b) \/ Misconfigure(b) \/ Retry(b) \/ Expire(b)
  PROVE TypeOK'
<1>0. beads[b] \in Task /\ beads[b].form \in Filing
  BY Members DEF Task
<1>1. CASE File(b)
  <2>1. PICK f \in Form : beads' = [beads EXCEPT ![b] = Filed(f, "pending", FALSE)]
    BY <1>1 DEF File
  <2>2. Filed(f, "pending", FALSE) \in Task
    BY DispatchAssumption, FiledType DEF Status
  <2>3. beads' \in [Bead -> Task]
    BY <2>1, <2>2, OneBead
  <2> QED BY <1>1, <2>3 DEF File, TypeOK, history
<1>2. CASE Approve(b)
  <2>1. [beads[b] EXCEPT !.status = "pending",
                         !.form = [beads[b].form EXCEPT !.bar = "none"]] \in Task
    BY <1>0, FormType DEF Task, Status
  <2>2. beads' = [beads EXCEPT ![b] = [beads[b] EXCEPT !.status = "pending",
                         !.form = [beads[b].form EXCEPT !.bar = "none"]]]
    BY <1>0, <1>2 DEF Approve, TypeOK, Task
  <2>3. beads' \in [Bead -> Task]
    BY <2>1, <2>2, OneBead
  <2> QED BY <1>2, <2>3 DEF Approve, TypeOK, clock
<1>3. CASE Unrefuse(b) \/ Misconfigure(b)
  <2>1. beads' \in [Bead -> Task]
    BY <1>3, Rerouted, OneBead
  <2> QED BY <1>3, <2>1 DEF Unrefuse, Misconfigure, TypeOK, clock, history
<1>4. CASE Retry(b)
  <2>1. [beads[b] EXCEPT !.status = "pending"] \in Task
    BY <1>0 DEF Task, Status
  <2>2. beads' = [beads EXCEPT ![b] = [beads[b] EXCEPT !.status = "pending"]]
    BY <1>4 DEF Retry
  <2>3. beads' \in [Bead -> Task]
    BY <2>1, <2>2, OneBead
  <2>4. trouble' \in 0..MaxTrouble
    BY <1>4, DispatchAssumption DEF Retry, TypeOK
  <2> QED BY <1>4, <2>3, <2>4 DEF Retry, TypeOK, clock
<1>5. CASE Expire(b)
  <2>1. [beads[b] EXCEPT !.expiry = "past"] \in Task
    BY <1>0 DEF Task
  <2>2. beads' = [beads EXCEPT ![b] = [beads[b] EXCEPT !.expiry = "past"]]
    BY <1>5 DEF Expire
  <2>3. beads' \in [Bead -> Task]
    BY <2>1, <2>2, OneBead
  <2>4. trouble' \in 0..MaxTrouble
    BY <1>5, DispatchAssumption DEF Expire, TypeOK
  <2> QED BY <1>5, <2>3, <2>4 DEF Expire, TypeOK, clock
<1> QED BY <1>1, <1>2, <1>3, <1>4, <1>5

-----------------------------------------------------------------------------
(* The steps keep the rest.                                                 *)

\* What a step may do to a bead: it stays filed and approved, it becomes live
\* and proposed only by an approval, and it fails without an analysis only if
\* a pass is about to open one.
Unpaid(b) == beads[b].status = "failed" /\ ~beads[b].form.analysis /\ ~beads[b].answered

Bound(b) ==
  /\ Live(b) => Live(b)'
  /\ Live(b)' /\ beads'[b].proposed => (Live(b) /\ beads[b].proposed) \/ b \in approved'
  /\ Unpaid(b)' => Unpaid(b) \/ \E p \in Proc : pr'[p].at = "rca" /\ pr'[p].bead = b

\* What it may do to a pass: keep, drop or take in hand what it holds.
Holds(p, r) ==
  /\ r.queue \subseteq pr[p].queue
  /\ r.bead \in pr[p].queue \cup {pr[p].bead, None}
  /\ r.at \notin {"idle", "select", "pick"} => r.bead \in Bead

Moves(p) ==
  /\ pr[p].at # "rca"
  /\ \E r \in Pass : Go(p, r) /\ Holds(p, r)

LEMMA AnyStepKeeps ==
  ASSUME IInv,
         \A b \in Bead : Bound(b),
         approved \subseteq approved',
         \A b \in tried' : b \in tried \/ (b \in Bead /\ Live(b)),
         tried \subseteq Bead,
         InHandIsBead',
         \A q \in Proc, b \in Bead : b \in pr'[q].queue \/ b = pr'[q].bead => Live(b)',
         crashed => crashed',
         ~crashed' => \A q \in Proc : pr[q].at = "rca" =>
           pr'[q] = pr[q] \/ \A b \in Bead : b = pr[q].bead => ~Unpaid(b)'
  PROVE HeldIsLive' /\ LiveIsApproved' /\ OnlyApprovedRuns' /\ EveryFailureIsAnalysed'
<1>3. HeldIsLive'
  <2>2. \A b \in tried' : Live(b)'
    BY DEF Bound, IInv, HeldIsLive
  <2> QED BY <2>2 DEF HeldIsLive
<1>4. LiveIsApproved'
  <2> SUFFICES ASSUME NEW b \in Bead, Live(b)', beads'[b].proposed
               PROVE b \in approved'
    BY DEF LiveIsApproved
  <2> QED BY DEF Bound, IInv, LiveIsApproved
<1>5. OnlyApprovedRuns'
  <2> SUFFICES ASSUME NEW b \in tried', beads'[b].proposed
               PROVE b \in approved'
    BY DEF OnlyApprovedRuns
  <2>1. b \in Bead /\ Live(b)'
    BY <1>3 DEF HeldIsLive
  <2> QED BY <1>4, <2>1 DEF LiveIsApproved
<1>6. EveryFailureIsAnalysed'
  <2> SUFFICES ASSUME ~crashed', NEW b \in Bead, Unpaid(b)'
               PROVE \E p \in Proc : pr'[p].at = "rca" /\ pr'[p].bead = b
    BY DEF EveryFailureIsAnalysed, AnalysisComes, Unpaid
  <2>1. CASE Unpaid(b)
    <3>1. PICK q \in Proc : pr[q].at = "rca" /\ pr[q].bead = b
      BY <2>1 DEF IInv, EveryFailureIsAnalysed, AnalysisComes, Unpaid
    <3>2. pr'[q] = pr[q]
      BY <3>1
    <3> QED BY <3>1, <3>2
  <2>2. CASE ~Unpaid(b)
    BY <2>2 DEF Bound
  <2> QED BY <2>1, <2>2
<1> QED BY <1>3, <1>4, <1>5, <1>6

LEMMA StepKeeps ==
  ASSUME IInv,
         \A b \in Bead : Bound(b),
         approved \subseteq approved',
         \A b \in tried' : b \in tried \/ (b \in Bead /\ Live(b)),
         tried \subseteq Bead,
         crashed => crashed',
         pr' = pr \/ \E p \in Proc : Moves(p)
  PROVE InHandIsBead' /\ HeldIsLive' /\ LiveIsApproved' /\ OnlyApprovedRuns'
        /\ EveryFailureIsAnalysed'
<1>1. InHandIsBead'
  BY DEF IInv, InHandIsBead, Moves, Holds, Go, TypeOK
<1>2. \A p \in Proc, b \in Bead : b \in pr'[p].queue \/ b = pr'[p].bead => Live(b)
  <2>1. CASE pr' = pr
    BY <2>1 DEF IInv, HeldIsLive
  <2>2. ASSUME NEW p \in Proc, Moves(p)
        PROVE \A q \in Proc, b \in Bead : b \in pr'[q].queue \/ b = pr'[q].bead => Live(b)
    <3>1. PICK r \in Pass : Go(p, r) /\ Holds(p, r)
      BY <2>2 DEF Moves
    <3>2. \A b \in Bead : b \in r.queue \/ b = r.bead => Live(b)
      BY <3>1, DispatchAssumption DEF Holds, IInv, HeldIsLive
    <3> QED BY <3>1, <3>2 DEF Go, IInv, HeldIsLive, TypeOK
  <2> QED BY <2>1, <2>2
<1>3. \A p \in Proc, b \in Bead : b \in pr'[p].queue \/ b = pr'[p].bead => Live(b)'
  BY <1>2 DEF Bound
<1>4. \A q \in Proc : pr[q].at = "rca" => pr'[q] = pr[q]
  BY DEF Moves, Go, IInv, TypeOK
<1> QED BY <1>1, <1>3, <1>4, AnyStepKeeps

\* The beads that a step leaves alone, or changes in one of three ways.
LEMMA SameBeads == ASSUME beads' = beads
  PROVE \A b \in Bead : Bound(b)
BY DEF Bound, Live, Unpaid

LEMMA LiveBead ==
  ASSUME TypeOK, NEW x \in Bead, NEW t \in Task, beads' = [beads EXCEPT ![x] = t],
         Live(x), t.status \notin {"absent", "waiting"}, t.proposed = beads[x].proposed,
         \/ t.status # "failed"
         \/ /\ t.status = beads[x].status /\ t.form.analysis = beads[x].form.analysis
            /\ beads[x].answered => t.answered
         \/ \E p \in Proc : pr'[p].at = "rca" /\ pr'[p].bead = x
  PROVE \A b \in Bead : Bound(b)
<1>1. beads'[x] = t /\ \A b \in Bead \ {x} : beads'[b] = beads[b]
  BY DEF TypeOK
<1>2. \A b \in Bead \ {x} : Bound(b)
  BY <1>1 DEF Bound, Live, Unpaid
<1>3. Bound(x)
  BY <1>1 DEF Bound, Live, Unpaid
<1> QED BY <1>2, <1>3

LEMMA NewBead ==
  ASSUME TypeOK, NEW x \in Bead, NEW t \in Task, beads' = [beads EXCEPT ![x] = t],
         ~Live(x), t.status # "failed",
         t.status = "waiting" \/ ~t.proposed \/ x \in approved'
  PROVE \A b \in Bead : Bound(b)
<1>1. beads'[x] = t /\ \A b \in Bead \ {x} : beads'[b] = beads[b]
  BY DEF TypeOK
<1>2. \A b \in Bead \ {x} : Bound(b)
  BY <1>1 DEF Bound, Live, Unpaid
<1>3. Bound(x)
  BY <1>1 DEF Bound, Live, Unpaid
<1> QED BY <1>2, <1>3

\* A pass moves: off its bead, onto a bead of its queue, or on with its bead.
LEMMA PassOn ==
  ASSUME TypeOK, NEW p \in Proc, NEW r \in Pass, Go(p, r), pr[p].at # "rca",
         r.queue \subseteq pr[p].queue,
         \/ r.at = "pick" /\ r.bead = None
         \/ r.bead \in pr[p].queue
         \/ r.bead = pr[p].bead /\ pr[p].bead \in Bead
  PROVE Moves(p)
<1>1. pr[p].queue \subseteq Bead
  BY Members DEF Pass
<1> QED BY <1>1 DEF Moves, Holds

LEMMA Records ==
  ASSUME TypeOK, NEW p \in Proc, NEW b \in Bead
  PROVE /\ Onward(pr[p]).queue = pr[p].queue /\ Onward(pr[p]).at = "pick"
        /\ Onward(pr[p]).bead = None
        /\ Worked(pr[p]).queue = pr[p].queue /\ Worked(pr[p]).at = "pick"
        /\ Worked(pr[p]).bead = None
        /\ Failing(p).queue = pr[p].queue /\ Failing(p).bead = pr[p].bead
        /\ Guarding(p).queue = pr[p].queue /\ Guarding(p).bead = pr[p].bead
        /\ Taken(p, b).queue = pr[p].queue \ {b} /\ Taken(p, b).bead = b
        /\ Onward(Taken(p, b)).queue = pr[p].queue \ {b}
        /\ Onward(Taken(p, b)).at = "pick" /\ Onward(Taken(p, b)).bead = None
        /\ Worked(Taken(p, b)).queue = pr[p].queue \ {b}
        /\ Worked(Taken(p, b)).at = "pick" /\ Worked(Taken(p, b)).bead = None
<1>1. pr[p] \in Pass
  BY Members
<1>2. Taken(p, b) \in Pass
  BY TakenType
<1>3. /\ Onward(pr[p]).queue = pr[p].queue /\ Onward(pr[p]).at = "pick"
      /\ Onward(pr[p]).bead = None
  BY <1>1 DEF Onward, Pass
<1>4. /\ Worked(pr[p]).queue = pr[p].queue /\ Worked(pr[p]).at = "pick"
      /\ Worked(pr[p]).bead = None
  BY <1>1 DEF Worked, Onward, Pass
<1>5. /\ Failing(p).queue = pr[p].queue /\ Failing(p).bead = pr[p].bead
      /\ Guarding(p).queue = pr[p].queue /\ Guarding(p).bead = pr[p].bead
  BY <1>1 DEF Failing, Guarding, Pass
<1>6. Taken(p, b).queue = pr[p].queue \ {b} /\ Taken(p, b).bead = b
  BY <1>1 DEF Taken, Pass
<1>7. /\ Onward(Taken(p, b)).queue = pr[p].queue \ {b}
      /\ Onward(Taken(p, b)).at = "pick" /\ Onward(Taken(p, b)).bead = None
  BY <1>2, <1>6 DEF Onward, Pass
<1>8. /\ Worked(Taken(p, b)).queue = pr[p].queue \ {b}
      /\ Worked(Taken(p, b)).at = "pick" /\ Worked(Taken(p, b)).bead = None
  BY <1>2, <1>6 DEF Worked, Onward, Pass
<1> QED BY <1>3, <1>4, <1>5, <1>6, <1>7, <1>8

LEMMA Marked == ASSUME NEW r \in Pass, NEW n \in Nat, NEW a \in {"fail", "run"}
  PROVE /\ [r EXCEPT !.at = a] \in Pass
        /\ [r EXCEPT !.at = a].bead = r.bead /\ [r EXCEPT !.at = a].queue = r.queue
        /\ [r EXCEPT !.at = a, !.guard = TRUE] \in Pass
        /\ [r EXCEPT !.at = a, !.guard = TRUE].bead = r.bead
        /\ [r EXCEPT !.at = a, !.guard = TRUE].queue = r.queue
        /\ [r EXCEPT !.at = a, !.attempt = n] \in Pass
        /\ [r EXCEPT !.at = a, !.attempt = n].bead = r.bead
        /\ [r EXCEPT !.at = a, !.attempt = n].queue = r.queue
        /\ [r EXCEPT !.at = a, !.guard = TRUE, !.attempt = n] \in Pass
        /\ [r EXCEPT !.at = a, !.guard = TRUE, !.attempt = n].bead = r.bead
        /\ [r EXCEPT !.at = a, !.guard = TRUE, !.attempt = n].queue = r.queue
BY DEF Pass

LEMMA DispatchKeeps ==
  ASSUME IInv, NEW p \in Proc, NEW b \in Bead, Dispatching(p, b)
  PROVE IInv'
<1>1. TypeOK /\ TypeOK'
  BY DispatchTypes DEF IInv
<1>2. pr[p].at = "pick" /\ b \in pr[p].queue
  BY DEF Dispatching, Defer, Refuse, Leave, UnknownChild, ClaimRaises, ClaimWon, ClaimLost,
         Claimable, Taking
<1>3. Live(b) /\ beads[b] \in Task /\ tried \subseteq Bead
  BY <1>1, <1>2, Members DEF IInv, HeldIsLive, TypeOK
<1>4. /\ Onward(Taken(p, b)) \in Pass /\ Worked(Taken(p, b)) \in Pass /\ Taken(p, b) \in Pass
  BY <1>1, TakenType, PassSteps
<1>5. Moves(p)
  <2>1. Go(p, Onward(Taken(p, b))) \/ Go(p, Worked(Taken(p, b))) => Moves(p)
    BY <1>1, <1>2, <1>4, Records, PassOn
  <2>2. ASSUME NEW r \in Pass, Go(p, r), r.bead = b, r.queue = pr[p].queue \ {b}
        PROVE Moves(p)
    BY <1>1, <1>2, <2>2, PassOn
  <2>3. ASSUME NEW r \in Pass, Go(p, r), r.bead = Taken(p, b).bead,
               r.queue = Taken(p, b).queue
        PROVE Moves(p)
    BY <1>1, <2>2, <2>3, Records
  <2>4. CASE Defer(p, b) \/ Refuse(p, b) \/ Leave(p, b)
    BY <2>1, <2>4 DEF Defer, Refuse, Leave
  <2>5. CASE UnknownChild(p, b) \/ ClaimRaises(p, b)
    BY <1>4, <2>3, <2>5, Marked, 0 \in Nat DEF UnknownChild, ClaimRaises
  <2>6. CASE ClaimWon(p, b)
    <3> DEFINE n == beads[b].attempt + 1
    <3>1. \/ Go(p, [Taken(p, b) EXCEPT !.at = "fail", !.guard = TRUE, !.attempt = n])
          \/ Go(p, [Taken(p, b) EXCEPT !.at = "run", !.attempt = n])
      BY <2>6 DEF ClaimWon
    <3>2. n \in Nat
      BY <1>1, NextAttempt
    <3> HIDE DEF n
    <3> QED BY <1>4, <2>3, <3>1, <3>2, Marked
  <2>7. CASE ClaimLost(p, b)
    <3>1. \/ Go(p, [Taken(p, b) EXCEPT !.at = "run"])
          \/ Go(p, Worked(Taken(p, b)))
      BY <2>7 DEF ClaimLost
    <3> QED BY <1>4, <2>1, <2>3, <3>1, Marked, 0 \in Nat
  <2> QED BY <2>4, <2>5, <2>6, <2>7 DEF Dispatching
<1>6. \A x \in Bead : Bound(x)
  <2>1. CASE Defer(p, b) \/ Leave(p, b) \/ UnknownChild(p, b) \/ ClaimRaises(p, b)
             \/ ClaimLost(p, b)
    BY <2>1, SameBeads DEF Defer, Leave, UnknownChild, ClaimRaises, ClaimLost
  <2>2. CASE Refuse(p, b)
    <3> DEFINE t == [beads[b] EXCEPT !.refused = TRUE]
    <3>1. beads' = [beads EXCEPT ![b] = t]
      BY <2>2 DEF Refuse
    <3>2. /\ t \in Task /\ t.status = beads[b].status /\ t.form = beads[b].form
          /\ t.proposed = beads[b].proposed /\ t.answered = beads[b].answered
      BY <1>3 DEF Task
    <3> HIDE DEF t
    <3> QED BY <1>1, <1>3, <3>1, <3>2, LiveBead DEF Live
  <2>3. CASE ClaimWon(p, b)
    <3> DEFINE t == Claimed(beads[b], p)
    <3>1. beads' = [beads EXCEPT ![b] = t]
      BY <2>3 DEF ClaimWon
    <3>2. t \in Task
      BY <1>3, TaskSteps, "done" \in Status DEF Status
    <3>3. t.status = "in_progress" /\ t.proposed = beads[b].proposed
      BY <1>3 DEF Claimed, Task
    <3> HIDE DEF t
    <3> QED BY <1>1, <1>3, <3>1, <3>2, <3>3, LiveBead
  <2> QED BY <2>1, <2>2, <2>3 DEF Dispatching
<1>7. /\ approved' = approved /\ crashed' = crashed
      /\ tried' = tried \/ tried' = tried \cup {b}
  BY DEF Dispatching, Defer, Refuse, Leave, UnknownChild, ClaimRaises, ClaimWon, ClaimLost,
         history
<1>8. \A x \in tried' : x \in tried \/ (x \in Bead /\ Live(x))
  BY <1>3, <1>7
<1>9. InHandIsBead' /\ HeldIsLive' /\ LiveIsApproved' /\ OnlyApprovedRuns'
      /\ EveryFailureIsAnalysed'
  BY <1>3, <1>5, <1>6, <1>7, <1>8, StepKeeps
<1> QED BY <1>1, <1>9 DEF IInv

LEMMA ExecutionKeeps ==
  ASSUME IInv, NEW p \in Proc, Executing(p) \/ SelfComplete(p)
  PROVE IInv'
<1>1. TypeOK /\ TypeOK'
  BY ExecutionTypes DEF IInv
<1>2. pr[p].at = "run"
  BY DEF Executing, Return, ReturnError, Unconfigured, AuthOutage, SelfComplete, Running
<1>3. /\ pr[p].bead \in Bead /\ Live(pr[p].bead) /\ beads[pr[p].bead] \in Task
      /\ tried \subseteq Bead
  BY <1>1, <1>2, Members DEF IInv, InHandIsBead, HeldIsLive, TypeOK
<1>4. pr' = pr \/ Moves(p)
  <2>1. /\ pr[p] \in Pass /\ Onward(pr[p]) \in Pass /\ Worked(pr[p]) \in Pass
        /\ Failing(p) \in Pass /\ Guarding(p) \in Pass
    BY <1>1, Members, PassSteps, FailTypes
  <2>2. ASSUME NEW r \in Pass, Go(p, r), r.bead = pr[p].bead, r.queue = pr[p].queue
        PROVE Moves(p)
    BY <1>1, <1>2, <1>3, <2>2, PassOn
  <2>3. Go(p, Failing(p)) \/ Go(p, Guarding(p)) => Moves(p)
    <3>1. /\ Failing(p).bead = pr[p].bead /\ Failing(p).queue = pr[p].queue
          /\ Guarding(p).bead = pr[p].bead /\ Guarding(p).queue = pr[p].queue
      BY <1>1, <1>3, Records
    <3> QED BY <2>1, <2>2, <3>1
  <2>4. CASE Return(p)
    <3> DEFINE r == [pr[p] EXCEPT !.at = IF RunLane(p) \in SelfCompleting THEN "check" ELSE "report"]
    <3>1. r \in Pass /\ r.bead = pr[p].bead /\ r.queue = pr[p].queue
      BY <2>1 DEF Pass
    <3>2. Go(p, r)
      BY <2>4 DEF Return
    <3> HIDE DEF r
    <3> QED BY <2>2, <3>1, <3>2
  <2>5. CASE ReturnError(p)
    BY <2>3, <2>5 DEF ReturnError
  <2>6. CASE Unconfigured(p)
    BY <1>1, <1>2, <1>3, <2>1, <2>6, Records, PassOn DEF Unconfigured
  <2>7. CASE AuthOutage(p)
    <3> DEFINE r == [Onward(pr[p]) EXCEPT !.outage = TRUE]
    <3>1. r \in Pass /\ r.at = "pick" /\ r.bead = None /\ r.queue = pr[p].queue
      BY <1>1, <1>3, <2>1, Records DEF Pass
    <3>2. Go(p, r)
      BY <2>7 DEF AuthOutage
    <3> HIDE DEF r
    <3> QED BY <1>1, <1>2, <3>1, <3>2, PassOn
  <2>8. CASE SelfComplete(p)
    BY <2>8 DEF SelfComplete
  <2> QED BY <2>4, <2>5, <2>6, <2>7, <2>8 DEF Executing
<1>5. \A x \in Bead : Bound(x)
  <2>1. CASE Return(p) \/ ReturnError(p)
    BY <2>1, SameBeads DEF Return, ReturnError
  <2>2. CASE Unconfigured(p)
    <3> DEFINE t == [beads[pr[p].bead] EXCEPT !.refused = TRUE]
    <3>1. beads' = [beads EXCEPT ![pr[p].bead] = t]
      BY <2>2 DEF Unconfigured
    <3>2. /\ t \in Task /\ t.status = beads[pr[p].bead].status /\ t.form = beads[pr[p].bead].form
          /\ t.proposed = beads[pr[p].bead].proposed /\ t.answered = beads[pr[p].bead].answered
      BY <1>3 DEF Task
    <3> HIDE DEF t
    <3> QED BY <1>1, <1>3, <3>1, <3>2, LiveBead DEF Live
  <2>3. CASE AuthOutage(p)
    <3> DEFINE t == Reaped(beads[pr[p].bead])
    <3>1. beads' = [beads EXCEPT ![pr[p].bead] = t]
      BY <2>3 DEF AuthOutage
    <3>2. t \in Task
      BY <1>3, TaskSteps, "done" \in Status DEF Status
    <3>3. t.status = "pending" /\ t.proposed = beads[pr[p].bead].proposed
      BY <1>3 DEF Reaped, Task
    <3> HIDE DEF t
    <3> QED BY <1>1, <1>3, <3>1, <3>2, <3>3, LiveBead
  <2>4. CASE SelfComplete(p)
    <3>1. PICK s \in {"done", "parked"} : beads' = [beads EXCEPT ![pr[p].bead] = Ended(beads[pr[p].bead], s)]
      BY <1>3, <2>4, LandingType DEF SelfComplete, Mine
    <3> DEFINE t == Ended(beads[pr[p].bead], s)
    <3>2. t \in Task
      BY <1>3, TaskSteps DEF Status
    <3>3. t.status = s /\ t.proposed = beads[pr[p].bead].proposed
      BY <1>3 DEF Ended, Task
    <3>4. beads' = [beads EXCEPT ![pr[p].bead] = t]
      BY <3>1
    <3> HIDE DEF t
    <3> QED BY <1>1, <1>3, <3>2, <3>3, <3>4, LiveBead
  <2> QED BY <2>1, <2>2, <2>3, <2>4 DEF Executing
<1>6. /\ approved' = approved /\ crashed' = crashed /\ tried' = tried
  BY DEF Executing, Return, ReturnError, Unconfigured, AuthOutage, SelfComplete, history
<1>7a. \A x \in tried' : x \in tried \/ (x \in Bead /\ Live(x))
  BY <1>6
<1>7. InHandIsBead' /\ HeldIsLive' /\ LiveIsApproved' /\ OnlyApprovedRuns'
      /\ EveryFailureIsAnalysed'
  BY <1>3, <1>4, <1>5, <1>6, <1>7a, StepKeeps
<1> QED BY <1>1, <1>7 DEF IInv

LEMMA ProposalKeeps ==
  ASSUME IInv, NEW p \in Proc, Propose(p) \/ Decompose(p)
  PROVE IInv'
<1>1. TypeOK /\ TypeOK'
  BY ExecutionTypes, ClosingTypes DEF IInv
<1>2. pr[p].at \in {"run", "decide"} /\ pr[p].bead \in Bead /\ pr[p] \in Pass
  BY <1>1, Members DEF Propose, Decompose, Running, IInv, InHandIsBead
<1>3. PICK c \in Bead, f \in Form : beads[c].status = "absent" /\ FileProposal(c, f)
  BY DEF Propose, Decompose
<1>4. \A x \in Bead : Bound(x)
  <2> DEFINE t == Filed([f EXCEPT !.bar = "approval"], "waiting", TRUE)
  <2>1. t \in Task
    BY DispatchAssumption, FormType, FiledType DEF Status
  <2>2. t.status = "waiting"
    BY DEF Filed
  <2>3. beads' = [beads EXCEPT ![c] = t] /\ ~Live(c)
    BY <1>3 DEF FileProposal, Live
  <2> HIDE DEF t
  <2> QED BY <1>1, <2>1, <2>2, <2>3, NewBead
<1>5. pr' = pr \/ Moves(p)
  <2>1. CASE Propose(p)
    BY <2>1 DEF Propose
  <2>2. CASE Decompose(p)
    <3>1. Go(p, pr[p]) \/ Go(p, Worked(pr[p]))
      BY <2>2 DEF Decompose
    <3>2. Worked(pr[p]) \in Pass
      BY <1>2, PassSteps
    <3>3. /\ Worked(pr[p]).at = "pick" /\ Worked(pr[p]).bead = None
          /\ Worked(pr[p]).queue = pr[p].queue
      BY <1>1, <1>2, Records
    <3> QED BY <1>1, <1>2, <3>1, <3>2, <3>3, PassOn
  <2> QED BY <2>1, <2>2
<1>6. /\ approved' = approved /\ crashed' = crashed /\ tried' = tried /\ tried \subseteq Bead
  BY <1>1 DEF Propose, Decompose, history, TypeOK
<1>7. \A x \in tried' : x \in tried \/ (x \in Bead /\ Live(x))
  BY <1>6
<1>8. InHandIsBead' /\ HeldIsLive' /\ LiveIsApproved' /\ OnlyApprovedRuns'
      /\ EveryFailureIsAnalysed'
  BY <1>4, <1>5, <1>6, <1>7, StepKeeps
<1> QED BY <1>1, <1>8 DEF IInv

\* What closes an execution, but for the opening of the analysis.
LEMMA ClosingKeeps ==
  ASSUME IInv, NEW p \in Proc, Closing(p), ~Analyse(p), ~Finish(p)
  PROVE IInv'
<1>1. TypeOK /\ TypeOK'
  BY ClosingTypes DEF IInv
<1>2. pr[p].at \in {"report", "check", "decide", "fail", "write"}
  BY DEF Closing, Report, Check, Decide, FailRead, FailWrite, FailRaises, FailLands
<1>3. /\ pr[p].bead \in Bead /\ Live(pr[p].bead) /\ beads[pr[p].bead] \in Task
      /\ tried \subseteq Bead
  BY <1>1, <1>2, Members DEF IInv, InHandIsBead, HeldIsLive, TypeOK
<1>4. /\ pr[p] \in Pass /\ Worked(pr[p]) \in Pass /\ Idle \in Pass
      /\ Failing(p) \in Pass /\ Guarding(p) \in Pass
  BY <1>1, Members, PassSteps, FailTypes, IdleType
<1>5. ASSUME NEW r \in Pass, Go(p, r), r.bead = pr[p].bead, r.queue = pr[p].queue
      PROVE Moves(p)
  BY <1>1, <1>2, <1>3, <1>5, PassOn
<1>6. /\ Failing(p).bead = pr[p].bead /\ Failing(p).queue = pr[p].queue
      /\ Guarding(p).bead = pr[p].bead /\ Guarding(p).queue = pr[p].queue
      /\ Worked(pr[p]).at = "pick" /\ Worked(pr[p]).bead = None
      /\ Worked(pr[p]).queue = pr[p].queue
  BY <1>1, <1>3, Records
<1>7. Go(p, Failing(p)) \/ Go(p, Guarding(p)) \/ Go(p, Worked(pr[p])) \/ Go(p, Idle) => Moves(p)
  <2>1. Go(p, Failing(p)) \/ Go(p, Guarding(p)) => Moves(p)
    BY <1>4, <1>5, <1>6
  <2>2. Go(p, Worked(pr[p])) => Moves(p)
    BY <1>1, <1>2, <1>4, <1>6, PassOn
  <2>3. Holds(p, Idle)
    BY DEF Idle, Holds
  <2> QED BY <1>2, <1>4, <2>1, <2>2, <2>3 DEF Moves
<1>8. \A a \in {"decide", "rca"} :
        /\ [pr[p] EXCEPT !.at = a] \in Pass
        /\ [pr[p] EXCEPT !.at = a].at = a
        /\ [pr[p] EXCEPT !.at = a].bead = pr[p].bead
        /\ [pr[p] EXCEPT !.at = a].queue = pr[p].queue
  BY <1>4 DEF Pass
<1>9. Moves(p)
  <2>1. CASE Report(p) \/ FailRaises(p)
    BY <1>7, <2>1 DEF Report, FailRaises
  <2>2. CASE Check(p) \/ Decide(p)
    BY <1>5, <1>7, <1>8, <2>2 DEF Check, Decide
  <2>3. CASE FailWrite(p)
    BY <1>5, <1>8, <2>3 DEF FailWrite
  <2>4. CASE FailRead(p)
    <3>1. CASE ~Mine(p).agent
      BY <1>5, <1>8, <2>4, <3>1 DEF FailRead
    <3>2. CASE Mine(p).agent
      <4> DEFINE n == IF pr[p].fence = 0 THEN Mine(p).attempt ELSE pr[p].fence
                 r == [pr[p] EXCEPT !.at = "write", !.fence = n]
      <4>1. Go(p, r)
        BY <2>4, <3>2 DEF FailRead
      <4>2. Mine(p).attempt \in Nat
        BY <1>3 DEF Mine, Task
      <4>3. pr[p].fence \in Nat
        BY <1>4 DEF Pass
      <4>4. n \in Nat
        BY <4>2, <4>3
      <4> HIDE DEF n
      <4>5. r \in Pass /\ r.bead = pr[p].bead /\ r.queue = pr[p].queue
        BY <1>4, <4>4 DEF Pass
      <4> HIDE DEF r
      <4> QED BY <1>5, <4>1, <4>5
    <3> QED BY <3>1, <3>2
  <2> QED BY <2>1, <2>2, <2>3, <2>4 DEF Closing
<1>10. \A x \in Bead : Bound(x)
  <2>1. CASE Check(p) \/ Decide(p) \/ FailRaises(p)
    BY <2>1, SameBeads DEF Check, Decide, FailRaises
  <2>2. CASE Report(p)
    <3>1. CASE beads' = beads
      BY <3>1, SameBeads
    <3>2. CASE beads' # beads
      <4>1. PICK s \in {"done", "parked"} : beads' = [beads EXCEPT ![pr[p].bead] = Ended(beads[pr[p].bead], s)]
        BY <1>3, <2>2, <3>2, LandingType DEF Report, Mine
      <4> DEFINE t == Ended(beads[pr[p].bead], s)
      <4>2. t \in Task
        BY <1>3, TaskSteps DEF Status
      <4>3. t.status = s /\ t.proposed = beads[pr[p].bead].proposed
        BY <1>3 DEF Ended, Task
      <4>4. beads' = [beads EXCEPT ![pr[p].bead] = t]
        BY <4>1
      <4> HIDE DEF t
      <4> QED BY <1>1, <1>3, <4>2, <4>3, <4>4, LiveBead
    <3> QED BY <3>1, <3>2
  <2>3. CASE FailRead(p)
    <3>1. CASE beads' = beads
      BY <3>1, SameBeads
    <3>2. CASE beads' # beads
      <4> DEFINE t == [beads[pr[p].bead] EXCEPT !.refused = TRUE]
      <4>1. beads' = [beads EXCEPT ![pr[p].bead] = t]
        BY <2>3, <3>2 DEF FailRead
      <4>2. /\ t \in Task /\ t.status = beads[pr[p].bead].status
            /\ t.form = beads[pr[p].bead].form /\ t.proposed = beads[pr[p].bead].proposed
            /\ t.answered = beads[pr[p].bead].answered
        BY <1>3 DEF Task
      <4> HIDE DEF t
      <4> QED BY <1>1, <1>3, <4>1, <4>2, LiveBead DEF Live
    <3> QED BY <3>1, <3>2
  <2>4. CASE FailWrite(p)
    <3> DEFINE t == [Ended(beads[pr[p].bead], "failed") EXCEPT !.answered = FALSE]
    <3>1. beads' = [beads EXCEPT ![pr[p].bead] = t]
      BY <2>4 DEF FailWrite
    <3>2. t \in Task
      BY <1>3, TaskSteps DEF Status
    <3>3. t.status = "failed" /\ t.proposed = beads[pr[p].bead].proposed
      BY <1>3 DEF Ended, Task
    <3>4. pr'[p].at = "rca" /\ pr'[p].bead = pr[p].bead
      BY <1>1, <1>8, <2>4 DEF FailWrite, Go, TypeOK
    <3> HIDE DEF t
    <3> QED BY <1>1, <1>3, <3>1, <3>2, <3>3, <3>4, LiveBead
  <2> QED BY <2>1, <2>2, <2>3, <2>4 DEF Closing
<1>11. /\ approved' = approved /\ crashed' = crashed /\ tried' = tried
  BY DEF Closing, Report, Check, Decide, FailRead, FailWrite, FailRaises, history
<1>12. \A x \in tried' : x \in tried \/ (x \in Bead /\ Live(x))
  BY <1>11
<1>13. InHandIsBead' /\ HeldIsLive' /\ LiveIsApproved' /\ OnlyApprovedRuns'
      /\ EveryFailureIsAnalysed'
  BY <1>3, <1>9, <1>10, <1>11, <1>12, StepKeeps
<1> QED BY <1>1, <1>13 DEF IInv

LEMMA AnalyseKeeps ==
  ASSUME IInv, NEW p \in Proc, Analyse(p)
  PROVE IInv'
<1>1. TypeOK /\ TypeOK'
  BY ClosingTypes DEF IInv, Closing
<1>2. /\ pr[p].at = "rca" /\ pr[p].bead \in Bead /\ pr[p] \in Pass
      /\ Live(pr[p].bead) /\ beads[pr[p].bead] \in Task /\ tried \subseteq Bead
  BY <1>1, Members DEF Analyse, IInv, InHandIsBead, HeldIsLive, TypeOK
<1> DEFINE x == pr[p].bead
           t == [beads[x] EXCEPT !.answered = beads[x].answered \/ ~beads[x].form.analysis]
<1>3. beads' = [beads EXCEPT ![x] = t] /\ Go(p, Worked(pr[p]))
  BY DEF Analyse, Mine
<1>4. t \in Task /\ t.status = beads[x].status /\ t.form = beads[x].form
      /\ t.proposed = beads[x].proposed
      /\ (beads[x].answered => t.answered) /\ (t.answered \/ t.form.analysis)
  <2>1. (beads[x].answered \/ ~beads[x].form.analysis) \in BOOLEAN
    OBVIOUS
  <2>2. \A v \in BOOLEAN :
          LET u == [beads[x] EXCEPT !.answered = v] IN
          u \in Task /\ u.status = beads[x].status /\ u.form = beads[x].form
            /\ u.proposed = beads[x].proposed /\ u.answered = v
    BY <1>2 DEF Task
  <2>3. t.answered = (beads[x].answered \/ ~beads[x].form.analysis)
    BY <2>1, <2>2
  <2> QED BY <2>1, <2>2, <2>3
<1> HIDE DEF t
<1>5. \A b \in Bead : Bound(b)
  <2>1. t.form.analysis = beads[x].form.analysis
    BY <1>4
  <2> QED BY <1>1, <1>2, <1>3, <1>4, <2>1, LiveBead DEF Live
<1>6. \A b \in Bead : b = pr[p].bead => ~Unpaid(b)'
  BY <1>1, <1>2, <1>3, <1>4 DEF Unpaid, TypeOK
<1>7. /\ pr'[p].queue = pr[p].queue /\ pr'[p].at = "pick" /\ pr'[p].bead = None
      /\ \A q \in Proc \ {p} : pr'[q] = pr[q]
  BY <1>1, <1>2, <1>3, Records DEF Go, TypeOK
<1>8. InHandIsBead'
  BY <1>7 DEF IInv, InHandIsBead
<1>9. \A q \in Proc, b \in Bead : b \in pr'[q].queue \/ b = pr'[q].bead => Live(b)'
  <2>1. \A q \in Proc, b \in Bead : b \in pr'[q].queue \/ b = pr'[q].bead => Live(b)
    BY <1>7, DispatchAssumption DEF IInv, HeldIsLive
  <2> QED BY <1>5, <2>1 DEF Bound
<1>10. approved' = approved /\ crashed' = crashed /\ tried' = tried
  BY DEF Analyse, history
<1>11. \A q \in Proc : pr'[q] = pr[q] \/ \A b \in Bead : b = pr[q].bead => ~Unpaid(b)'
  BY <1>6, <1>7
<1>12. \A b \in tried' : b \in tried \/ (b \in Bead /\ Live(b))
  BY <1>10
<1>13. HeldIsLive' /\ LiveIsApproved' /\ OnlyApprovedRuns' /\ EveryFailureIsAnalysed'
  BY <1>2, <1>5, <1>8, <1>9, <1>10, <1>11, <1>12, AnyStepKeeps
<1> QED BY <1>1, <1>8, <1>13 DEF IInv

\* A pass starts, ends or dies.
LEMMA OtherKeeps ==
  ASSUME IInv, NEW p \in Proc,
         Wake(p) \/ Skip(p) \/ Select(p) \/ StartWork(p) \/ Finish(p) \/ Crash(p)
  PROVE IInv'
<1>1. TypeOK /\ TypeOK' /\ tried \subseteq Bead /\ pr[p] \in Pass /\ pr[p].queue \subseteq Bead
  BY OtherTypes, ClosingTypes, Members DEF IInv, Closing, TypeOK, Pass
<1>2. \A b \in Bead : Bound(b)
  <2>1. CASE beads' = beads
    BY <2>1, SameBeads
  <2>2. CASE Wake(p)
    <3> SUFFICES ASSUME NEW b \in Bead PROVE Bound(b)
      OBVIOUS
    <3>1. beads'[b] = IF Reapable(beads[b]) THEN Reaped(beads[b]) ELSE beads[b]
      BY <2>2 DEF Wake
    <3>2. CASE Reapable(beads[b])
      <4>1. /\ beads'[b].status = "pending" /\ beads'[b].proposed = beads[b].proposed
            /\ beads[b].status = "in_progress"
        BY <1>1, <3>1, <3>2, Members DEF Reaped, Reapable, Task
      <4> QED BY <4>1 DEF Bound, Live, Unpaid
    <3>3. CASE ~Reapable(beads[b])
      BY <3>1, <3>3 DEF Bound, Live, Unpaid
    <3> QED BY <3>2, <3>3
  <2> QED BY <2>1, <2>2 DEF Skip, Select, SelectQueue, StartWork, Finish, Crash
<1>3. /\ approved' = approved /\ tried' = tried
      /\ crashed' = crashed \/ (crashed' = TRUE /\ Crash(p))
  BY DEF Wake, Skip, Select, SelectQueue, StartWork, Finish, Crash, history
<1>4. \/ pr' = pr
      \/ /\ \A q \in Proc \ {p} : pr'[q] = pr[q]
         /\ pr'[p].bead \in {None, pr[p].bead} /\ pr'[p].at \in {"idle", "select", "pick"}
         /\ \A b \in Bead : b \in pr'[p].queue => Live(b)
         /\ pr[p].at # "rca" \/ Crash(p)
  <2>0. Idle.at = "idle" /\ Idle.bead = None /\ Idle.queue = {} /\ None \notin Bead
    BY DispatchAssumption DEF Idle
  <2>1. CASE Skip(p)
    BY <2>1 DEF Skip
  <2>2. CASE Wake(p)
    <3>1. LET r == [Idle EXCEPT !.at = "select"] IN r.at = "select" /\ r.bead = None /\ r.queue = {}
      BY DEF Idle
    <3> QED BY <1>1, <2>0, <2>2, <3>1 DEF Wake, Go, TypeOK
  <2>3. CASE Select(p)
    <3>1. PICK q \in SUBSET Bead : SelectQueue(p, q)
      BY <2>3 DEF Select
    <3> DEFINE r == Snapshot(p, pr[p], q)
    <3>2. r.at = "pick" /\ r.bead = pr[p].bead /\ r.queue = q
      BY <1>1, SnapshotType
    <3>3. \A b \in q : Live(b)
      BY <3>1 DEF SelectQueue, Chosen, Offered, ReadyNow, Ready, Live
    <3> QED BY <1>1, <3>1, <3>2, <3>3 DEF SelectQueue, Go, TypeOK
  <2>4. CASE StartWork(p)
    <3>1. PICK q \in SUBSET ReadyNow : Go(p, Snapshot(p, Idle, q))
      BY <2>4 DEF StartWork
    <3> DEFINE r == Snapshot(p, Idle, q)
    <3>2. r.at = "pick" /\ r.bead = None /\ r.queue = q
      BY <2>0, IdleType, SnapshotType DEF ReadyNow
    <3>3. \A b \in q : Live(b)
      BY <3>1 DEF ReadyNow, Ready, Live
    <3> QED BY <1>1, <2>0, <2>4, <3>1, <3>2, <3>3 DEF StartWork, Go, TypeOK
  <2>5. CASE Finish(p)
    BY <1>1, <2>0, <2>5 DEF Finish, Go, TypeOK
  <2>6. CASE Crash(p)
    BY <1>1, <2>0, <2>6 DEF Crash, Go, TypeOK
  <2> QED BY <2>1, <2>2, <2>3, <2>4, <2>5, <2>6
<1>5. InHandIsBead'
  BY <1>4 DEF IInv, InHandIsBead
<1>6. \A q \in Proc, b \in Bead : b \in pr'[q].queue \/ b = pr'[q].bead => Live(b)'
  <2>1. \A q \in Proc, b \in Bead : b \in pr'[q].queue \/ b = pr'[q].bead => Live(b)
    BY <1>4, DispatchAssumption DEF IInv, HeldIsLive
  <2> QED BY <1>2, <2>1 DEF Bound
<1>7. ~crashed' => \A q \in Proc : pr[q].at = "rca" => pr'[q] = pr[q]
  BY <1>3, <1>4 DEF Crash
<1>8. \A b \in tried' : b \in tried \/ (b \in Bead /\ Live(b))
  BY <1>3
<1>9. HeldIsLive' /\ LiveIsApproved' /\ OnlyApprovedRuns' /\ EveryFailureIsAnalysed'
  BY <1>1, <1>2, <1>3, <1>5, <1>6, <1>7, <1>8, AnyStepKeeps
<1> QED BY <1>1, <1>5, <1>9 DEF IInv

LEMMA PeopleKeep ==
  ASSUME IInv, NEW b \in Bead,
         File(b) \/ Approve(b) \/ Unrefuse(b) \/ Misconfigure(b) \/ Retry(b) \/ Expire(b)
  PROVE IInv'
<1>1. TypeOK /\ TypeOK' /\ tried \subseteq Bead /\ beads[b] \in Task /\ beads[b].form \in Filing
  BY PeopleTypes, Members DEF IInv, TypeOK, Task
<1>2. \A x \in Bead : Bound(x)
  <2>1. CASE File(b)
    <3>1. PICK f \in Form : beads' = [beads EXCEPT ![b] = Filed(f, "pending", FALSE)]
      BY <2>1 DEF File
    <3> DEFINE t == Filed(f, "pending", FALSE)
    <3>2. t \in Task
      BY DispatchAssumption, FiledType DEF Status
    <3>3. t.status = "pending" /\ ~t.proposed
      BY DEF Filed
    <3>4. beads' = [beads EXCEPT ![b] = t] /\ ~Live(b)
      BY <2>1, <3>1 DEF File, Live
    <3> HIDE DEF t
    <3> QED BY <1>1, <3>2, <3>3, <3>4, NewBead
  <2>2. CASE Approve(b)
    <3> DEFINE t == [beads[b] EXCEPT !.status = "pending",
                                     !.form = [beads[b].form EXCEPT !.bar = "none"]]
    <3>1. beads' = [beads EXCEPT ![b] = t]
      BY <1>1, <2>2 DEF Approve, TypeOK, Task
    <3>2. t \in Task /\ t.status = "pending"
      BY <1>1, FormType DEF Task, Status
    <3>3. ~Live(b) /\ b \in approved'
      BY <2>2 DEF Approve, Live
    <3> HIDE DEF t
    <3> QED BY <1>1, <3>1, <3>2, <3>3, NewBead
  <2>3. CASE Unrefuse(b) \/ Misconfigure(b)
    <3>1. PICK t \in Task :
            /\ beads' = [beads EXCEPT ![b] = t]
            /\ t.status = beads[b].status /\ t.proposed = beads[b].proposed
            /\ t.answered = beads[b].answered /\ t.form.analysis = beads[b].form.analysis
      BY <1>1, <2>3, Rerouted DEF IInv
    <3>2. beads'[b] = t /\ \A x \in Bead \ {b} : beads'[x] = beads[x]
      BY <1>1, <3>1 DEF TypeOK
    <3> QED BY <3>1, <3>2 DEF Bound, Live, Unpaid
  <2>4. CASE Retry(b)
    <3> DEFINE t == [beads[b] EXCEPT !.status = "pending"]
    <3>1. beads' = [beads EXCEPT ![b] = t] /\ Live(b)
      BY <2>4 DEF Retry, Live
    <3>2. t \in Task /\ t.status = "pending" /\ t.proposed = beads[b].proposed
      BY <1>1 DEF Task, Status
    <3> HIDE DEF t
    <3> QED BY <1>1, <3>1, <3>2, LiveBead
  <2>5. CASE Expire(b)
    <3> DEFINE t == [beads[b] EXCEPT !.expiry = "past"]
    <3>1. beads'[b] = t /\ \A x \in Bead \ {b} : beads'[x] = beads[x]
      BY <1>1, <2>5 DEF Expire, TypeOK
    <3>2. /\ t.status = beads[b].status /\ t.proposed = beads[b].proposed
          /\ t.form = beads[b].form /\ t.answered = beads[b].answered
      BY <1>1 DEF Task
    <3> HIDE DEF t
    <3> QED BY <3>1, <3>2 DEF Bound, Live, Unpaid
  <2> QED BY <2>1, <2>2, <2>3, <2>4, <2>5
<1>3. /\ approved \subseteq approved' /\ crashed' = crashed /\ tried' = tried /\ pr' = pr
  BY DEF File, Approve, Unrefuse, Misconfigure, Retry, Expire, history
<1>4. \A x \in tried' : x \in tried \/ (x \in Bead /\ Live(x))
  BY <1>3
<1>5. InHandIsBead' /\ HeldIsLive' /\ LiveIsApproved' /\ OnlyApprovedRuns'
      /\ EveryFailureIsAnalysed'
  BY <1>1, <1>2, <1>3, <1>4, StepKeeps
<1> QED BY <1>1, <1>5 DEF IInv

-----------------------------------------------------------------------------
(* The theorems.                                                            *)

LEMMA InitKept == Init => IInv
<1> SUFFICES ASSUME Init PROVE IInv
  OBVIOUS
<1>1. Blank \in Filing
  BY DEF Blank, Filing, Fits, Lane, Bar, Backend
<1>2. Filed(Blank, "absent", FALSE) \in Task
  BY <1>1, FiledType DEF Status
<1>3. TypeOK
  <2>1. beads \in [Bead -> Task] /\ pr \in [Proc -> Pass]
    BY <1>2, IdleType DEF Init
  <2>2. 0 \in 0..MaxRest /\ 0 \in 0..MaxTrouble
    BY DispatchAssumption
  <2> QED BY <2>1, <2>2 DEF Init, TypeOK
<1>4. \A b \in Bead : beads[b].status = "absent"
  BY DEF Init, Filed
<1>5. \A p \in Proc : pr[p].at = "idle" /\ pr[p].queue = {} /\ pr[p].bead \notin Bead
  BY DispatchAssumption DEF Init, Idle
<1> QED BY <1>3, <1>4, <1>5 DEF IInv, InHandIsBead, HeldIsLive, LiveIsApproved, Live, OnlyApprovedRuns,
                       EveryFailureIsAnalysed, Init

LEMMA StutterKept == IInv /\ UNCHANGED vars => IInv'
BY DEF IInv, vars, TypeOK, InHandIsBead, HeldIsLive, LiveIsApproved, Live, OnlyApprovedRuns,
       EveryFailureIsAnalysed, AnalysisComes

LEMMA NextKept == IInv /\ Next => IInv'
<1> SUFFICES ASSUME IInv, Next PROVE IInv'
  OBVIOUS
<1>1. ASSUME NEW p \in Proc, NEW b \in Bead, Dispatching(p, b) PROVE IInv'
  BY <1>1, DispatchKeeps
<1>2. ASSUME NEW p \in Proc, Executing(p) \/ SelfComplete(p) PROVE IInv'
  BY <1>2, ExecutionKeeps
<1>3. ASSUME NEW p \in Proc, Closing(p) PROVE IInv'
  BY <1>3, ClosingKeeps, AnalyseKeeps, OtherKeeps
<1>4. ASSUME NEW p \in Proc, Propose(p) \/ Decompose(p) PROVE IInv'
  BY <1>4, ProposalKeeps
<1>5. ASSUME NEW p \in Proc,
             Wake(p) \/ Skip(p) \/ Select(p) \/ StartWork(p) \/ Crash(p) PROVE IInv'
  BY <1>5, OtherKeeps
<1>6. ASSUME NEW b \in Bead,
             File(b) \/ Approve(b) \/ Unrefuse(b) \/ Misconfigure(b) \/ Retry(b) \/ Expire(b) PROVE IInv'
  BY <1>6, PeopleKeep
<1> QED BY <1>1, <1>2, <1>3, <1>4, <1>5, <1>6 DEF Next, Proceed

\* The inductive invariant, whatever is filed, whoever runs and dies: the
\* types, what passes may hold, and the two properties below.
THEOREM DispatchInvariance == Spec => []IInv
<1>1. Init => IInv
  BY InitKept
<1>2. IInv /\ [Next]_vars => IInv'
  BY NextKept, StutterKept
<1> QED BY <1>1, <1>2, PTL DEF Spec

\* Every failure has its analysis, or a pass about to open it, as long as no
\* pass dies in between: on the road of the cycle and on that of work(),
\* from an executor as from the exception guard, and for a bead that several
\* passes fail at once.
THEOREM FailuresAreAnalysed == Spec => []EveryFailureIsAnalysed
<1>1. IInv => EveryFailureIsAnalysed
  BY DEF IInv
<1> QED BY <1>1, DispatchInvariance, PTL

\* No executor works on what an agent proposed before a person approved it.
THEOREM ProposalsAwaitApproval == Spec => []OnlyApprovedRuns
<1>1. IInv => OnlyApprovedRuns
  BY DEF IInv
<1> QED BY <1>1, DispatchInvariance, PTL

\* What an executor has touched, and what a pass holds, was ready once.
THEOREM HeldStaysLive == Spec => []HeldIsLive
<1>1. IInv => HeldIsLive
  BY DEF IInv
<1> QED BY <1>1, DispatchInvariance, PTL

-----------------------------------------------------------------------------
(* What is wrong with the routing of a bead keeps it out of a cycle's hands *)
(* (RoutesInHand), over the invariant above.                                *)

\* What a step may do to the routing of a bead: leave it or put it right, or
\* change it where no pass has the bead in hand; and an agent goes on record by
\* assignment or by a claim, and stays there.
Steady(b) ==
  /\ \/ beads'[b].form.bar \in {BarOf(b), "none"}
     \/ ~Live(b)
     \/ \A p \in Proc : pr'[p] = pr[p] /\ pr[p].bead # b
  /\ Live(b) /\ beads[b].agent => beads'[b].agent
  /\ beads'[b].agent => beads'[b].form.named \/ beads'[b].attempt > 0

\* What it may do to a pass: leave it, put down what it holds, or move on with
\* a bead whose routing lets it.
Admits(p) ==
  \/ pr'[p] = pr[p]
  \/ pr'[p].at \in {"idle", "select", "pick", "rca"}
  \/ \E b \in Bead : /\ pr'[p].bead = b /\ Live(b)
                     /\ Cleared(pr'[p].at, BarOf(b))
                     /\ pr'[p].at = "write" => beads[b].agent

LEMMA RoutesStep ==
  ASSUME IInv, RoutesInHand, \A b \in Bead : Steady(b), \A p \in Cycler : Admits(p)
  PROVE  RoutesInHand'
<1>1. ASSUME NEW p \in Cycler, NEW b \in Bead, b = pr'[p].bead,
             pr'[p].at \notin {"idle", "select", "pick", "rca"}
      PROVE  /\ Cleared(pr'[p].at, beads'[b].form.bar)
             /\ pr'[p].at = "write" => beads'[b].agent
  <2>1. /\ Live(b) /\ Cleared(pr'[p].at, BarOf(b))
        /\ pr'[p].at = "write" => beads[b].agent
    BY <1>1 DEF Admits, IInv, HeldIsLive, RoutesInHand, Proc
  <2>2. beads'[b].form.bar \in {BarOf(b), "none"}
    BY <1>1, <2>1 DEF Steady, Proc
  <2> QED
    BY <2>1, <2>2 DEF Steady, Cleared, Misroute
<1>2. ASSUME NEW p \in Cycler, pr'[p].at \in {"idle", "select", "pick", "rca"}, NEW bar
      PROVE  Cleared(pr'[p].at, bar) /\ pr'[p].at # "write"
  BY <1>2 DEF Cleared
<1>3. \A b \in Bead : beads'[b].agent => beads'[b].form.named \/ beads'[b].attempt > 0
  BY DEF Steady
<1> QED
  BY <1>1, <1>2, <1>3 DEF RoutesInHand, BarOf

LEMMA SameRoutes ==
  ASSUME RoutesInHand, beads' = beads
  PROVE  \A b \in Bead : Steady(b)
BY DEF Steady, RoutesInHand, BarOf

\* A step that changes one bead.
LEMMA SteadyBead ==
  ASSUME TypeOK, RoutesInHand, NEW x \in Bead, NEW t \in Task, beads' = [beads EXCEPT ![x] = t],
         \/ t.form.bar \in {BarOf(x), "none"}
         \/ ~Live(x)
         \/ \A p \in Proc : pr'[p] = pr[p] /\ pr[p].bead # x,
         Live(x) /\ beads[x].agent => t.agent,
         t.agent => t.form.named \/ t.attempt > 0
  PROVE  \A b \in Bead : Steady(b)
<1>1. \A b \in Bead \ {x} : beads'[b] = beads[b]
  BY DEF TypeOK
<1>2. beads'[x] = t
  BY DEF TypeOK
<1>3. Steady(x)
  BY <1>2 DEF Steady
<1> QED
  BY <1>1, <1>3 DEF Steady, RoutesInHand, BarOf

\* One that leaves its form, its agent and its attempts as they were.
LEMMA SteadyChange ==
  ASSUME TypeOK, RoutesInHand, NEW x \in Bead, NEW t \in Task, beads' = [beads EXCEPT ![x] = t],
         t.form = beads[x].form, t.agent = beads[x].agent, t.attempt = beads[x].attempt
  PROVE  \A b \in Bead : Steady(b)
BY SteadyBead DEF RoutesInHand, BarOf

LEMMA OthersAdmit ==
  ASSUME TypeOK, NEW p \in Proc, NEW r \in Pass, Go(p, r),
         \/ r.at \in {"idle", "select", "pick", "rca"}
         \/ /\ r.bead \in Bead /\ Live(r.bead)
            /\ p \in Cycler => Cleared(r.at, BarOf(r.bead))
            /\ r.at = "write" => beads[r.bead].agent
  PROVE  \A q \in Cycler : Admits(q)
<1>1. pr'[p] = r /\ \A q \in Proc \ {p} : pr'[q] = pr[q]
  BY DEF Go, TypeOK
<1> QED
  BY <1>1 DEF Admits, Proc

LEMMA DispatchRoutes ==
  ASSUME IInv, RoutesInHand, NEW p \in Proc, NEW b \in Bead, Dispatching(p, b)
  PROVE  RoutesInHand'
<1>1. pr[p].at = "pick" /\ b \in pr[p].queue
  BY DEF Dispatching, Defer, Refuse, Leave, UnknownChild, ClaimRaises, ClaimWon, ClaimLost,
         Claimable, Taking
<1>2. TypeOK /\ Live(b) /\ beads[b] \in Task /\ beads[b].form \in Filing
  BY <1>1, Members DEF IInv, HeldIsLive, Task
<1>3. /\ Onward(Taken(p, b)) \in Pass /\ Worked(Taken(p, b)) \in Pass /\ Taken(p, b) \in Pass
      /\ Taken(p, b).bead = b
      /\ Onward(Taken(p, b)).at = "pick" /\ Worked(Taken(p, b)).at = "pick"
  BY <1>2, TakenType, PassSteps, Records
<1>4. Fits(LaneOf(b), BarOf(b)) /\ LaneOf(b) \in Lane
  BY <1>2 DEF Filing, LaneOf, BarOf
<1>5. \A q \in Cycler : Admits(q)
  <2>1. ASSUME NEW r \in Pass, Go(p, r), r.at = "pick" PROVE \A q \in Cycler : Admits(q)
    BY <1>2, <2>1, OthersAdmit
  <2>2. ASSUME NEW r \in Pass, Go(p, r), r.bead = b, r.at # "write",
               p \in Cycler => Cleared(r.at, BarOf(b))
        PROVE  \A q \in Cycler : Admits(q)
    BY <1>2, <2>2, OthersAdmit
  <2>3. CASE Defer(p, b) \/ Refuse(p, b) \/ Leave(p, b)
    BY <1>3, <2>1, <2>3 DEF Defer, Refuse, Leave
  <2>4. CASE UnknownChild(p, b)
    <3> DEFINE r == [Taken(p, b) EXCEPT !.at = "fail"]
    <3>1. r \in Pass /\ r.bead = b /\ r.at = "fail"
      BY <1>3 DEF Pass
    <3>2. Go(p, r) /\ BarOf(b) = "child"
      BY <2>4 DEF UnknownChild
    <3>3. Cleared("fail", BarOf(b))
      BY <3>2 DEF Cleared, Misroute
    <3> HIDE DEF r
    <3> QED
      BY <2>2, <3>1, <3>2, <3>3
  <2>5. CASE ClaimRaises(p, b)
    <3> DEFINE r == [Taken(p, b) EXCEPT !.at = "fail", !.guard = TRUE]
    <3>1. r \in Pass /\ r.bead = b /\ r.at = "fail"
      BY <1>3 DEF Pass
    <3>2. Go(p, r) /\ BarOf(b) = "capability"
      BY <2>5 DEF ClaimRaises
    <3>3. Cleared("fail", BarOf(b))
      BY <3>2 DEF Cleared, Misroute
    <3> HIDE DEF r
    <3> QED
      BY <2>2, <3>1, <3>2, <3>3
  <2>6. ASSUME Claimable(p, b), p \in Cycler PROVE Cleared("run", BarOf(b))
    <3>1. ~Barred(p, b) /\ (~InProcess(p, b) => BarOf(b) \notin {"child", "capability"})
      BY <2>6 DEF Claimable
    <3> QED
      BY <1>4, <2>6, <3>1
         DEF Barred, InProcess, LaneOf, BarOf, Fits, Backend, Cleared, Misroute
  <2>7. ASSUME Claimable(p, b), p \in Cycler, NoSuchAgent(p, b) PROVE Cleared("fail", BarOf(b))
    <3>1. LaneOf(b) \notin Backend
      BY <2>7, DispatchAssumption DEF NoSuchAgent, InProcess
    <3> QED
      BY <1>4, <2>6, <2>7, <3>1 DEF Fits, Backend, Cleared, Misroute
  <2>8. CASE ClaimWon(p, b)
    <3> DEFINE n == beads[b].attempt + 1
               f == [Taken(p, b) EXCEPT !.at = "fail", !.guard = TRUE, !.attempt = n]
               r == [Taken(p, b) EXCEPT !.at = "run", !.attempt = n]
    <3>1. n \in Nat
      BY <1>2, NextAttempt
    <3>2. f \in Pass /\ f.bead = b /\ f.at = "fail" /\ r \in Pass /\ r.bead = b /\ r.at = "run"
      <4> HIDE DEF n
      <4> QED
        BY <1>3, <3>1 DEF Pass
    <3>3. Claimable(p, b) /\ (Go(p, r) \/ (NoSuchAgent(p, b) /\ Go(p, f)))
      BY <2>8 DEF ClaimWon
    <3> HIDE DEF f, r
    <3> QED
      BY <2>2, <2>6, <2>7, <3>2, <3>3
  <2>9. CASE ClaimLost(p, b)
    <3> DEFINE r == [Taken(p, b) EXCEPT !.at = "run"]
    <3>1. r \in Pass /\ r.bead = b /\ r.at = "run"
      BY <1>3 DEF Pass
    <3>2. Claimable(p, b) /\ (Go(p, r) \/ Go(p, Worked(Taken(p, b))))
      BY <2>9 DEF ClaimLost
    <3> HIDE DEF r
    <3> QED
      BY <1>3, <2>1, <2>2, <2>6, <3>1, <3>2
  <2> QED
    BY <2>3, <2>4, <2>5, <2>8, <2>9 DEF Dispatching
<1>6. \A x \in Bead : Steady(x)
  <2>1. CASE Defer(p, b) \/ Leave(p, b) \/ UnknownChild(p, b) \/ ClaimRaises(p, b)
             \/ ClaimLost(p, b)
    <3>1. beads' = beads
      BY <2>1 DEF Defer, Leave, UnknownChild, ClaimRaises, ClaimLost
    <3> QED
      BY <3>1, SameRoutes
  <2>2. CASE Refuse(p, b)
    <3> DEFINE t == [beads[b] EXCEPT !.refused = TRUE]
    <3>1. beads' = [beads EXCEPT ![b] = t]
      BY <2>2 DEF Refuse
    <3>2. t \in Task /\ t.form = beads[b].form /\ t.agent = beads[b].agent /\ t.attempt = beads[b].attempt
      BY <1>2 DEF Task
    <3> HIDE DEF t
    <3> QED
      BY <1>2, <3>1, <3>2, SteadyChange
  <2>3. CASE ClaimWon(p, b)
    <3> DEFINE t == Claimed(beads[b], p)
    <3>1. beads' = [beads EXCEPT ![b] = t]
      BY <2>3 DEF ClaimWon
    <3>2. t \in Task
      BY <1>2, TaskSteps, "done" \in Status DEF Status
    <3>3. beads[b].attempt \in Nat
      BY <1>2 DEF Task
    <3>4. t.form = beads[b].form /\ t.agent /\ t.attempt = beads[b].attempt + 1
      BY <1>2 DEF Claimed, Task
    <3> HIDE DEF t
    <3>5. t.attempt > 0
      BY <3>3, <3>4
    <3> QED
      BY <1>2, <3>1, <3>2, <3>4, <3>5, SteadyBead DEF BarOf
  <2> QED
    BY <2>1, <2>2, <2>3 DEF Dispatching
<1> QED
  BY <1>5, <1>6, RoutesStep

LEMMA ExecutionRoutes ==
  ASSUME IInv, RoutesInHand, NEW p \in Proc, Executing(p) \/ SelfComplete(p)
  PROVE  RoutesInHand'
<1>1. pr[p].at = "run"
  BY DEF Executing, Return, ReturnError, Unconfigured, AuthOutage, SelfComplete, Running
<1>2. PICK b \in Bead : b = pr[p].bead
  BY <1>1 DEF IInv, InHandIsBead
<1>3. TypeOK /\ Live(b) /\ beads[b] \in Task /\ pr[p] \in Pass
  BY <1>2, Members DEF IInv, HeldIsLive
<1>4. p \in Cycler => Cleared("run", BarOf(b))
  BY <1>1, <1>2 DEF RoutesInHand
<1>5. /\ Onward(pr[p]) \in Pass /\ Worked(pr[p]) \in Pass /\ Failing(p) \in Pass
      /\ Guarding(p) \in Pass /\ [Onward(pr[p]) EXCEPT !.outage = TRUE] \in Pass
      /\ Worked(pr[p]).at = "pick" /\ Onward(pr[p]).at = "pick"
      /\ Failing(p).bead = b /\ Guarding(p).bead = b
  BY <1>2, <1>3, PassSteps, FailTypes, Records
<1>6. Failing(p).at = "fail" /\ Guarding(p).at = "fail"
  BY <1>3 DEF Failing, Guarding, Pass
<1>7. \A q \in Cycler : Admits(q)
  <2>1. ASSUME BarOf(b) # "credentials", p \in Cycler
        PROVE  Cleared("fail", BarOf(b)) /\ Cleared("check", BarOf(b)) /\ Cleared("report", BarOf(b))
    BY <1>4, <2>1 DEF Cleared
  <2>2. CASE Return(p)
    <3> DEFINE r == [pr[p] EXCEPT !.at = IF RunLane(p) \in SelfCompleting THEN "check" ELSE "report"]
    <3>1. r \in Pass /\ r.at \in {"check", "report"} /\ r.bead = b
      BY <1>2, <1>3 DEF Pass
    <3>2. Go(p, r) /\ BarOf(b) # "credentials"
      BY <1>2, <2>2 DEF Return
    <3> HIDE DEF r
    <3> QED
      BY <1>3, <2>1, <3>1, <3>2, OthersAdmit
  <2>3. CASE ReturnError(p)
    <3>1. (Go(p, Failing(p)) \/ Go(p, Guarding(p))) /\ BarOf(b) # "credentials"
      BY <1>2, <2>3 DEF ReturnError
    <3> QED
      BY <1>3, <1>5, <1>6, <2>1, <3>1, OthersAdmit
  <2>4. CASE Unconfigured(p)
    BY <1>3, <1>5, <2>4, OthersAdmit DEF Unconfigured
  <2>5. CASE AuthOutage(p)
    <3> DEFINE r == [Onward(pr[p]) EXCEPT !.outage = TRUE]
    <3>1. r \in Pass /\ r.at = "pick"
      BY <1>5 DEF Pass
    <3>2. Go(p, r)
      BY <2>5 DEF AuthOutage
    <3> HIDE DEF r
    <3> QED
      BY <1>3, <3>1, <3>2, OthersAdmit
  <2>6. CASE SelfComplete(p)
    BY <2>6 DEF SelfComplete, Admits
  <2> QED
    BY <2>2, <2>3, <2>4, <2>5, <2>6 DEF Executing
<1>8. \A x \in Bead : Steady(x)
  <2>1. CASE Return(p) \/ ReturnError(p)
    BY <2>1, SameRoutes DEF Return, ReturnError
  <2>2. CASE Unconfigured(p)
    <3> DEFINE t == [beads[b] EXCEPT !.refused = TRUE]
    <3>1. beads' = [beads EXCEPT ![b] = t]
      BY <1>2, <2>2 DEF Unconfigured
    <3>2. t \in Task /\ t.form = beads[b].form /\ t.agent = beads[b].agent /\ t.attempt = beads[b].attempt
      BY <1>3 DEF Task
    <3> HIDE DEF t
    <3> QED
      BY <1>3, <3>1, <3>2, SteadyChange
  <2>3. CASE AuthOutage(p)
    <3> DEFINE t == Reaped(beads[b])
    <3>1. beads' = [beads EXCEPT ![b] = t]
      BY <1>2, <2>3 DEF AuthOutage
    <3>2. t \in Task /\ t.form = beads[b].form /\ t.agent = beads[b].agent /\ t.attempt = beads[b].attempt
      BY <1>3 DEF Task, Reaped, Status
    <3> HIDE DEF t
    <3> QED
      BY <1>3, <3>1, <3>2, SteadyChange
  <2>4. CASE SelfComplete(p)
    <3>1. PICK v \in Landing(Mine(p)) : beads' = [beads EXCEPT ![b] = Ended(beads[b], v)]
      BY <1>2, <2>4 DEF SelfComplete
    <3>2. v \in Status
      BY <3>1 DEF Landing, Status
    <3> DEFINE t == Ended(beads[b], v)
    <3>3. t \in Task /\ t.form = beads[b].form /\ t.agent = beads[b].agent /\ t.attempt = beads[b].attempt
      BY <1>3, <3>2 DEF Task, Ended
    <3>4. beads' = [beads EXCEPT ![b] = t]
      BY <3>1
    <3> HIDE DEF t
    <3> QED
      BY <1>3, <3>3, <3>4, SteadyChange
  <2> QED
    BY <2>1, <2>2, <2>3, <2>4 DEF Executing
<1> QED
  BY <1>7, <1>8, RoutesStep

LEMMA ClosingRoutes ==
  ASSUME IInv, RoutesInHand, NEW p \in Proc, Closing(p), ~Finish(p)
  PROVE  RoutesInHand'
<1>1. pr[p].at \in {"report", "check", "decide", "fail", "write", "rca"}
  BY DEF Closing, Report, Check, Decide, FailRead, FailWrite, FailRaises, FailLands, Analyse
<1>2. PICK b \in Bead : b = pr[p].bead
  BY <1>1 DEF IInv, InHandIsBead
<1>3. TypeOK /\ Live(b) /\ beads[b] \in Task /\ pr[p] \in Pass /\ Mine(p) = beads[b]
  BY <1>2, Members DEF IInv, HeldIsLive, Mine
<1>4. p \in Cycler => Cleared(pr[p].at, BarOf(b))
  BY <1>2 DEF RoutesInHand
<1>5. /\ Worked(pr[p]) \in Pass /\ Failing(p) \in Pass /\ Guarding(p) \in Pass /\ Idle \in Pass
      /\ Worked(pr[p]).at = "pick" /\ Failing(p).bead = b /\ Guarding(p).bead = b
  BY <1>2, <1>3, PassSteps, FailTypes, Records, IdleType
<1>6. Failing(p).at = "fail" /\ Guarding(p).at = "fail" /\ Idle.at = "idle"
  BY <1>3 DEF Failing, Guarding, Pass, Idle
<1>7. \A a \in {"decide", "rca"} : LET r == [pr[p] EXCEPT !.at = a] IN
        r \in Pass /\ r.at = a /\ r.bead = b
  BY <1>2, <1>3 DEF Pass
<1>8. \A q \in Cycler : Admits(q)
  <2>1. ASSUME NEW r \in Pass, Go(p, r), r.at \in {"idle", "pick", "rca"}
        PROVE  \A q \in Cycler : Admits(q)
    BY <1>3, <2>1, OthersAdmit
  <2>2. ASSUME NEW r \in Pass, Go(p, r), r.bead = b,
               p \in Cycler => Cleared(r.at, BarOf(b)),
               r.at = "write" => beads[b].agent
        PROVE  \A q \in Cycler : Admits(q)
    BY <1>3, <2>2, OthersAdmit
  <2>3. p \in Cycler /\ pr[p].at \in {"report", "check", "decide", "write"} =>
          Cleared("fail", BarOf(b)) /\ Cleared("decide", BarOf(b))
    BY <1>4 DEF Cleared
  <2>4. CASE Report(p)
    <3>1. pr[p].at = "report" /\ (Go(p, Worked(pr[p])) \/ Go(p, Guarding(p)))
      BY <2>4 DEF Report
    <3> QED
      BY <1>5, <1>6, <2>1, <2>2, <2>3, <3>1
  <2>5. CASE Check(p)
    <3> DEFINE r == [pr[p] EXCEPT !.at = "decide"]
    <3>1. pr[p].at = "check" /\ (Go(p, Failing(p)) \/ Go(p, r) \/ Go(p, Worked(pr[p])))
      BY <2>5 DEF Check
    <3>2. r \in Pass /\ r.at = "decide" /\ r.bead = b
      BY <1>7
    <3> HIDE DEF r
    <3> QED
      BY <1>5, <1>6, <2>1, <2>2, <2>3, <3>1, <3>2
  <2>6. CASE Decide(p)
    <3>1. pr[p].at = "decide" /\ (Go(p, Worked(pr[p])) \/ Go(p, Failing(p)))
      BY <2>6 DEF Decide
    <3> QED
      BY <1>5, <1>6, <2>1, <2>2, <2>3, <3>1
  <2>7. CASE FailRead(p)
    <3>1. CASE ~Mine(p).agent
      <4> DEFINE r == [pr[p] EXCEPT !.at = "rca"]
      <4>1. Go(p, r)
        BY <2>7, <3>1 DEF FailRead
      <4>2. r \in Pass /\ r.at = "rca"
        BY <1>7
      <4> HIDE DEF r
      <4> QED
        BY <2>1, <4>1, <4>2
    <3>2. CASE Mine(p).agent
      <4> DEFINE n == IF pr[p].fence = 0 THEN Mine(p).attempt ELSE pr[p].fence
                 r == [pr[p] EXCEPT !.at = "write", !.fence = n]
      <4>1. Go(p, r) /\ pr[p].at = "fail"
        BY <2>7, <3>2 DEF FailRead
      <4>2. beads[b].attempt \in Nat
        BY <1>3 DEF Task
      <4>3. pr[p].fence \in Nat
        BY <1>3 DEF Pass
      <4>4. n \in Nat
        BY <1>3, <4>2, <4>3
      <4> HIDE DEF n
      <4>5. r \in Pass /\ r.bead = b /\ r.at = "write"
        BY <1>2, <1>3, <4>4 DEF Pass
      <4>6. (p \in Cycler => Cleared("write", BarOf(b))) /\ beads[b].agent
        BY <1>3, <1>4, <3>2, <4>1 DEF Cleared
      <4> HIDE DEF r
      <4> QED
        BY <2>2, <4>1, <4>5, <4>6
    <3> QED
      BY <3>1, <3>2
  <2>8. CASE FailWrite(p)
    <3> DEFINE r == [pr[p] EXCEPT !.at = "rca"]
    <3>1. Go(p, r)
      BY <2>8 DEF FailWrite
    <3>2. r \in Pass /\ r.at = "rca"
      BY <1>7
    <3> HIDE DEF r
    <3> QED
      BY <2>1, <3>1, <3>2
  <2>9. CASE FailRaises(p)
    <3>1. pr[p].at = "write" /\ (Go(p, Guarding(p)) \/ Go(p, Worked(pr[p])) \/ Go(p, Idle))
      BY <2>9 DEF FailRaises
    <3> QED
      BY <1>5, <1>6, <2>1, <2>2, <2>3, <3>1
  <2>10. CASE Analyse(p)
    <3>1. Go(p, Worked(pr[p]))
      BY <2>10 DEF Analyse
    <3> QED
      BY <1>5, <2>1, <3>1
  <2> QED
    BY <2>4, <2>5, <2>6, <2>7, <2>8, <2>9, <2>10 DEF Closing
<1>9. \A x \in Bead : Steady(x)
  <2>1. CASE beads' = beads
    BY <2>1, SameRoutes
  <2>2. CASE Report(p) /\ beads' # beads
    <3>1. PICK v \in {"done", "parked"} : beads' = [beads EXCEPT ![b] = Ended(beads[b], v)]
      BY <1>2, <1>3, <2>2, LandingType DEF Report
    <3> DEFINE t == Ended(beads[b], v)
    <3>2. t \in Task
      BY <1>3, TaskSteps DEF Status
    <3>3. t.form = beads[b].form /\ t.agent = beads[b].agent /\ t.attempt = beads[b].attempt
      BY <1>3 DEF Ended, Task
    <3>4. beads' = [beads EXCEPT ![b] = t]
      BY <3>1
    <3> HIDE DEF t
    <3> QED
      BY <1>3, <3>2, <3>3, <3>4, SteadyChange
  <2>3. CASE FailRead(p) /\ beads' # beads
    <3> DEFINE t == [beads[b] EXCEPT !.refused = TRUE]
    <3>1. beads' = [beads EXCEPT ![b] = t]
      BY <1>2, <2>3 DEF FailRead
    <3>2. t \in Task /\ t.form = beads[b].form /\ t.agent = beads[b].agent /\ t.attempt = beads[b].attempt
      BY <1>3 DEF Task
    <3> HIDE DEF t
    <3> QED
      BY <1>3, <3>1, <3>2, SteadyChange
  <2>4. CASE FailWrite(p)
    <3> DEFINE e == Ended(beads[b], "failed")
               t == [e EXCEPT !.answered = FALSE]
    <3>1. beads' = [beads EXCEPT ![b] = t]
      BY <1>2, <1>3, <2>4 DEF FailWrite
    <3>2. e \in Task /\ t \in Task
      BY <1>3, TaskSteps DEF Status
    <3>3. e.form = beads[b].form /\ e.agent = beads[b].agent /\ e.attempt = beads[b].attempt
      BY <1>3 DEF Ended, Task
    <3> HIDE DEF e
    <3>4. t.form = beads[b].form /\ t.agent = beads[b].agent /\ t.attempt = beads[b].attempt
      BY <3>2, <3>3 DEF Task
    <3> HIDE DEF t
    <3> QED
      BY <1>3, <3>1, <3>2, <3>4, SteadyChange
  <2>5. CASE Analyse(p)
    <3> DEFINE v == beads[b].answered \/ ~beads[b].form.analysis
               t == [beads[b] EXCEPT !.answered = v]
    <3>1. beads' = [beads EXCEPT ![b] = t]
      BY <1>2, <1>3, <2>5 DEF Analyse
    <3>2. v \in BOOLEAN
      OBVIOUS
    <3> HIDE DEF v
    <3>3. t \in Task /\ t.form = beads[b].form /\ t.agent = beads[b].agent /\ t.attempt = beads[b].attempt
      BY <1>3, <3>2 DEF Task
    <3> HIDE DEF t
    <3> QED
      BY <1>3, <3>1, <3>3, SteadyChange
  <2> QED
    BY <2>1, <2>2, <2>3, <2>4, <2>5
       DEF Closing, Check, Decide, FailRaises
<1> QED
  BY <1>8, <1>9, RoutesStep

\* A proposal awaits approval, whatever else is wrong with its routing.
LEMMA ProposalRoutes ==
  ASSUME IInv, RoutesInHand, NEW p \in Proc, Propose(p) \/ Decompose(p)
  PROVE  RoutesInHand'
<1>1. TypeOK /\ pr[p] \in Pass
  BY Members DEF IInv
<1>2. PICK c \in Bead, f \in Form : beads[c].status = "absent" /\ FileProposal(c, f)
  BY DEF Propose, Decompose
<1>3. \A x \in Bead : Steady(x)
  <2> DEFINE g == [f EXCEPT !.bar = "approval"]
             t == Filed(g, "waiting", TRUE)
  <2>1. t.form = g /\ t.agent = g.named
    BY DEF Filed
  <2>2. t \in Task /\ beads' = [beads EXCEPT ![c] = t] /\ ~Live(c)
    BY <1>2, DispatchAssumption, FormType, FiledType DEF FileProposal, Status, Live
  <2> HIDE DEF g, t
  <2> QED
    BY <1>1, <2>1, <2>2, SteadyBead
<1>4. \A q \in Cycler : Admits(q)
  <2>1. Go(p, pr[p]) => pr' = pr
    BY <1>1 DEF Go, TypeOK
  <2>2. Worked(pr[p]) \in Pass /\ Worked(pr[p]).at = "pick"
    BY <1>1, PassSteps, <1>2, Records
  <2>3. CASE pr' = pr
    BY <2>3 DEF Admits
  <2>4. CASE Go(p, Worked(pr[p]))
    BY <1>1, <2>2, <2>4, OthersAdmit
  <2> QED
    BY <2>1, <2>3, <2>4 DEF Propose, Decompose
<1> QED
  BY <1>3, <1>4, RoutesStep

LEMMA OtherRoutes ==
  ASSUME IInv, RoutesInHand, NEW p \in Proc,
         Wake(p) \/ Skip(p) \/ Select(p) \/ StartWork(p) \/ Finish(p) \/ Crash(p)
  PROVE  RoutesInHand'
<1>1. TypeOK /\ pr[p] \in Pass
  BY Members DEF IInv
<1>2. \A x \in Bead : Steady(x)
  <2>1. CASE beads' = beads
    BY <2>1, SameRoutes
  <2>2. CASE Wake(p)
    <3> SUFFICES ASSUME NEW b \in Bead PROVE Steady(b)
      OBVIOUS
    <3>1. beads'[b] \in {beads[b], Reaped(beads[b])}
      BY <2>2 DEF Wake
    <3>2. beads[b] \in Task
      BY <1>1, Members
    <3>3. /\ Reaped(beads[b]).form = beads[b].form /\ Reaped(beads[b]).agent = beads[b].agent
          /\ Reaped(beads[b]).attempt = beads[b].attempt
      BY <3>2 DEF Reaped, Task
    <3> QED
      BY <3>1, <3>3 DEF Steady, RoutesInHand, BarOf
  <2> QED
    BY <2>1, <2>2 DEF Skip, Select, SelectQueue, StartWork, Finish, Crash
<1>3. \/ pr' = pr
      \/ /\ \A q \in Proc \ {p} : pr'[q] = pr[q]
         /\ pr'[p].at \in {"idle", "select", "pick"}
  <2>1. CASE Skip(p)
    BY <2>1 DEF Skip
  <2>2. CASE Wake(p)
    <3>1. [Idle EXCEPT !.at = "select"].at = "select"
      BY DEF Idle
    <3> QED
      BY <1>1, <2>2, <3>1 DEF Wake, Go, TypeOK
  <2>3. CASE Select(p)
    <3>1. PICK q \in SUBSET Bead : SelectQueue(p, q)
      BY <2>3 DEF Select
    <3>2. Snapshot(p, pr[p], q).at = "pick"
      BY <1>1, SnapshotType
    <3> QED
      BY <1>1, <3>1, <3>2 DEF SelectQueue, Go, TypeOK
  <2>4. CASE StartWork(p)
    <3>1. PICK q \in SUBSET ReadyNow : Go(p, Snapshot(p, Idle, q))
      BY <2>4 DEF StartWork
    <3>2. Snapshot(p, Idle, q).at = "pick"
      BY IdleType, SnapshotType DEF ReadyNow
    <3> QED
      BY <1>1, <3>1, <3>2 DEF Go, TypeOK
  <2>5. CASE Finish(p) \/ Crash(p)
    <3>1. Idle.at = "idle"
      BY DEF Idle
    <3> QED
      BY <1>1, <2>5, <3>1 DEF Finish, Crash, Go, TypeOK
  <2> QED
    BY <2>1, <2>2, <2>3, <2>4, <2>5
<1>4. \A q \in Cycler : Admits(q)
  BY <1>3 DEF Admits, Proc
<1> QED
  BY <1>2, <1>4, RoutesStep

LEMMA PeopleRoutes ==
  ASSUME IInv, RoutesInHand, NEW b \in Bead,
         File(b) \/ Approve(b) \/ Unrefuse(b) \/ Misconfigure(b) \/ Retry(b) \/ Expire(b)
  PROVE  RoutesInHand'
<1>1. TypeOK /\ beads[b] \in Task /\ beads[b].form \in Filing
  BY Members DEF IInv, Task
<1>2. \A q \in Cycler : Admits(q)
  BY DEF File, Approve, Unrefuse, Misconfigure, Retry, Expire, Admits
<1>3. \A x \in Bead : Steady(x)
  <2>1. CASE File(b)
    <3>1. PICK f \in Form : beads' = [beads EXCEPT ![b] = Filed(f, "pending", FALSE)]
      BY <2>1 DEF File
    <3>2. f \in Filing
      BY DispatchAssumption
    <3> DEFINE t == Filed(f, "pending", FALSE)
    <3>3. t.form = f /\ t.agent = f.named
      BY DEF Filed
    <3>4. t \in Task /\ beads' = [beads EXCEPT ![b] = t] /\ ~Live(b)
      BY <2>1, <3>1, <3>2, FiledType DEF File, Live, Status
    <3> HIDE DEF t
    <3> QED
      BY <1>1, <3>3, <3>4, SteadyBead
  <2>2. CASE Approve(b)
    <3> DEFINE f == [beads[b].form EXCEPT !.bar = "none"]
               t == [beads[b] EXCEPT !.status = "pending", !.form = f]
    <3>1. f \in Filing /\ f.bar = "none" /\ f.named = beads[b].form.named
      BY <1>1, FormType DEF Filing
    <3>2. beads' = [beads EXCEPT ![b] = t]
      BY <1>1, <2>2 DEF Approve, TypeOK, Task
    <3> HIDE DEF f
    <3>3. /\ t \in Task /\ t.form = f /\ t.agent = beads[b].agent
          /\ t.attempt = beads[b].attempt
      BY <1>1, <3>1 DEF Task, Status
    <3>4. t.agent => t.form.named \/ t.attempt > 0
      BY <3>1, <3>3 DEF RoutesInHand
    <3> HIDE DEF t
    <3> QED
      BY <1>1, <3>1, <3>2, <3>3, <3>4, SteadyBead
  <2>4. CASE Unrefuse(b) \/ Misconfigure(b)
    <3>1. PICK t \in Task :
            /\ beads' = [beads EXCEPT ![b] = t]
            /\ t.attempt = beads[b].attempt
            /\ beads[b].form.named => t.form.named
            /\ beads[b].agent => t.agent
            /\ t.agent => beads[b].agent \/ t.form.named
            /\ t.form.bar \in {BarOf(b), "none"} \/ \A p \in Proc : pr[p].bead # b
      BY <1>1, <2>4, Rerouted
    <3>2. pr' = pr
      BY <2>4 DEF Unrefuse, Misconfigure
    <3>3. t.agent => t.form.named \/ t.attempt > 0
      BY <3>1 DEF RoutesInHand
    <3> QED
      BY <1>1, <3>1, <3>2, <3>3, SteadyBead
  <2>3. CASE Retry(b) \/ Expire(b)
    <3>1. PICK s \in Status, e \in {"none", "future", "past"} :
            beads' = [beads EXCEPT ![b] = [beads[b] EXCEPT !.status = s, !.expiry = e]]
      <4>1. CASE Retry(b)
        <5>1. beads' = [beads EXCEPT ![b] = [beads[b] EXCEPT !.status = "pending"]]
          BY <4>1 DEF Retry
        <5>2. [beads[b] EXCEPT !.status = "pending"]
                = [beads[b] EXCEPT !.status = "pending", !.expiry = beads[b].expiry]
          BY <1>1 DEF Task
        <5> QED
          BY <1>1, <5>1, <5>2 DEF Task, Status
      <4>2. CASE Expire(b)
        <5>1. beads' = [beads EXCEPT ![b] = [beads[b] EXCEPT !.expiry = "past"]]
          BY <4>2 DEF Expire
        <5>2. [beads[b] EXCEPT !.expiry = "past"]
                = [beads[b] EXCEPT !.status = beads[b].status, !.expiry = "past"]
          BY <1>1 DEF Task
        <5> QED
          BY <1>1, <5>1, <5>2 DEF Task
      <4> QED
        BY <2>3, <4>1, <4>2
    <3> DEFINE t == [beads[b] EXCEPT !.status = s, !.expiry = e]
    <3>2. t \in Task /\ t.form = beads[b].form /\ t.agent = beads[b].agent /\ t.attempt = beads[b].attempt
      BY <1>1 DEF Task
    <3>3. beads' = [beads EXCEPT ![b] = t]
      BY <3>1
    <3> HIDE DEF t
    <3> QED
      BY <1>1, <3>2, <3>3, SteadyChange
  <2> QED
    BY <2>1, <2>2, <2>3, <2>4
<1> QED
  BY <1>2, <1>3, RoutesStep

\* However a cycle comes by a bead and whatever its execution brings, the bead
\* is routed well enough to be where the pass has it.
THEOREM RoutesInvariance == Spec => []RoutesInHand
<1>1. Init => RoutesInHand
  <2> SUFFICES ASSUME Init PROVE RoutesInHand
    OBVIOUS
  <2>1. \A b \in Bead : beads[b].form = Blank
    BY DEF Init, Filed
  <2>2. \A p \in Cycler : pr[p].at = "idle"
    BY DEF Init, Idle, Proc
  <2> QED
    BY <2>1, <2>2 DEF RoutesInHand, Cleared, Blank
<1>2. IInv /\ RoutesInHand /\ [Next]_vars => RoutesInHand'
  <2> SUFFICES ASSUME IInv, RoutesInHand, [Next]_vars PROVE RoutesInHand'
    OBVIOUS
  <2>1. ASSUME NEW p \in Proc, NEW b \in Bead, Dispatching(p, b) PROVE RoutesInHand'
    BY <2>1, DispatchRoutes
  <2>2. ASSUME NEW p \in Proc, Executing(p) \/ SelfComplete(p) PROVE RoutesInHand'
    BY <2>2, ExecutionRoutes
  <2>3. ASSUME NEW p \in Proc, Closing(p) PROVE RoutesInHand'
    BY <2>3, ClosingRoutes, OtherRoutes
  <2>4. ASSUME NEW p \in Proc, Propose(p) \/ Decompose(p) PROVE RoutesInHand'
    BY <2>4, ProposalRoutes
  <2>5. ASSUME NEW p \in Proc,
               Wake(p) \/ Skip(p) \/ Select(p) \/ StartWork(p) \/ Crash(p) PROVE RoutesInHand'
    BY <2>5, OtherRoutes
  <2>6. ASSUME NEW b \in Bead,
               File(b) \/ Approve(b) \/ Unrefuse(b) \/ Misconfigure(b) \/ Retry(b) \/ Expire(b) PROVE RoutesInHand'
    BY <2>6, PeopleRoutes
  <2>7. CASE UNCHANGED vars
    BY <2>7 DEF vars, RoutesInHand, BarOf
  <2> QED
    BY <2>1, <2>2, <2>3, <2>4, <2>5, <2>6, <2>7 DEF Next, Proceed
<1> QED
  BY <1>1, <1>2, DispatchInvariance, PTL DEF Spec

\* What is wrong with a bead's directory, route, egress or credentials when a
\* cycle takes it is never what that cycle reports it FAILED for: not from an
\* executor, not from the exception guard, not by two cycles at once, not under
\* a name it was filed with or that a claim left; an unknown child is, and only
\* under such a name (_fail_with_rca, orchestrator.py).
THEOREM RefusalsAreNotFailures == Spec => RoutingIsNotFailure
<1>1. RoutesInHand /\ IInv => \A p \in Cycler : FailWrite(p) =>
        /\ BarOf(pr[p].bead) \notin {"workdir", "requires", "egress", "provider", "credentials"}
        /\ BarOf(pr[p].bead) = "child" => Mine(p).form.named \/ Mine(p).attempt > 0
  <2> SUFFICES ASSUME RoutesInHand, IInv, NEW p \in Cycler, FailWrite(p)
               PROVE  /\ BarOf(pr[p].bead) \notin
                           {"workdir", "requires", "egress", "provider", "credentials"}
                      /\ Mine(p).form.named \/ Mine(p).attempt > 0
    OBVIOUS
  <2>1. pr[p].at = "write"
    BY DEF FailWrite, FailLands
  <2>2. pr[p].bead \in Bead
    BY <2>1 DEF IInv, InHandIsBead, Proc
  <2>3. Cleared("write", BarOf(pr[p].bead)) /\ beads[pr[p].bead].agent
    BY <2>1, <2>2 DEF RoutesInHand
  <2> QED
    BY <2>2, <2>3 DEF Cleared, Misroute, RoutesInHand, Mine
<1> QED
  BY <1>1, RoutesInvariance, DispatchInvariance, PTL DEF RoutingIsNotFailure

\* The gate counts beads where the ready list and the reaper look further, and
\* what it does not count neither of them would take: a cycle that goes back
\* to sleep leaves nothing behind, whatever arrived since it last looked.
THEOREM NothingIsOverslept == MCSpec => DeskOversleepsNothing
<1>1. ASSUME NEW p \in dCycler, Desk!Skip(p), NEW b \in dBead
      PROVE  /\ ~Desk!Ready(dBeads[b])
             /\ Desk!Reapable(dBeads[b]) => dBeads[b].refused
  <2>1. ~(dBeads[b].status \in {"pending", "in_progress"} /\ ~dBeads[b].refused)
    BY <1>1 DEF Desk!Skip, Desk!Actionable
  <2> QED
    BY <2>1 DEF Desk!Ready, Desk!Reapable
<1>2. [\A p \in dCycler : Desk!Skip(p) =>
         \A b \in dBead : ~Desk!Ready(dBeads[b]) /\ (Desk!Reapable(dBeads[b]) => dBeads[b].refused)]_Desk!vars
  BY <1>1
<1> QED
  BY <1>2, PTL DEF DeskOversleepsNothing, Desk!NothingOverslept

-----------------------------------------------------------------------------
(* The verdicts of a parent on a child (ChildWatch), for every interval,    *)
(* backoff and number of outages, where an outage is long enough to be told *)
(* from the parent's own lateness.                                          *)

LEMMA WatchSteps == ASSUME [MCNext]_<<on, vars, deskVars, watchVars>>
  PROVE [Watch!Next]_(Watch!vars)
BY DEF MCNext, watchVars, Watch!vars

LEMMA GraceBounds == ASSUME NEW i \in Nat
  PROVE Watch!Grace(i) \in Nat /\ Watch!Grace(i) >= i
BY DEF Watch!Grace

\* The next interval of the child is no shorter than its baseline.
LEMMA BackedOff == ASSUME NEW i \in Int, i >= Base, NEW j \in {Base, Watch!Min(i * Factor, Cap)}
  PROVE j \in Int /\ j >= Base
<1>1. i * Factor \in Int /\ i * Factor >= i
  BY WatchAssumption
<1> QED
  BY <1>1, WatchAssumption DEF Watch!Min

LEMMA WatchTyped == ASSUME Watch!TypeOK, Watch!Punctual, Watch!Next PROVE Watch!TypeOK'
<1> USE WatchAssumption DEF Watch!TypeOK
<1>1. CASE Watch!ParentCycle
  BY <1>1 DEF Watch!ParentCycle, Watch!Evidence
<1>2. CASE Watch!ChildCycle
  <2>1. PICK j \in {Base, Watch!Min(wChild.interval * Factor, Cap)} :
          wChild' = [completed |-> wNow, due |-> wNow + j, interval |-> j]
    BY <1>2 DEF Watch!ChildCycle
  <2>2. j \in Int
    BY BackedOff DEF Watch!Punctual
  <2> QED
    BY <1>2, <2>1, <2>2 DEF Watch!ChildCycle
<1>3. CASE Watch!Wedge
  BY <1>3 DEF Watch!Wedge
<1>4. CASE Watch!HostAway
  BY <1>4 DEF Watch!HostAway
<1>5. CASE Watch!Tick
  BY <1>5 DEF Watch!Tick
<1> QED
  BY <1>1, <1>2, <1>3, <1>4, <1>5 DEF Watch!Next

LEMMA WatchPunctual == ASSUME Watch!TypeOK, Watch!Punctual, Watch!Next PROVE Watch!Punctual'
<1> USE WatchAssumption DEF Watch!TypeOK, Watch!Punctual, Watch!Max, Watch!Away
<1>1. CASE Watch!ParentCycle
  BY <1>1 DEF Watch!ParentCycle
<1>2. CASE Watch!ChildCycle
  <2>1. PICK j \in {Base, Watch!Min(wChild.interval * Factor, Cap)} :
          wChild' = [completed |-> wNow, due |-> wNow + j, interval |-> j]
    BY <1>2 DEF Watch!ChildCycle
  <2>2. j \in Int /\ j >= Base
    BY BackedOff
  <2> QED
    BY <1>2, <2>1, <2>2 DEF Watch!ChildCycle
<1>3. CASE Watch!Wedge
  BY <1>3 DEF Watch!Wedge
<1>4. CASE Watch!HostAway
  BY <1>4 DEF Watch!HostAway
<1>5. CASE Watch!Tick
  BY <1>5 DEF Watch!Tick
<1> QED
  BY <1>1, <1>2, <1>3, <1>4, <1>5 DEF Watch!Next

\* An outage gets on record before it is needed, and stays there as long.
LEMMA WatchRecorded ==
  ASSUME Watch!TypeOK, Watch!Punctual, Watch!Recorded, Watch!Next PROVE Watch!Recorded'
<1> USE WatchAssumption DEF Watch!TypeOK, Watch!Recorded
<1>0. Watch!Grace(Own) \in Nat
  BY GraceBounds
<1>1. CASE Watch!ParentCycle
  <2>1. /\ wParent'.completed = wNow /\ wParent'.gap = Watch!Evidence.gap
        /\ wParent'.ended = Watch!Evidence.ended
        /\ UNCHANGED <<wNow, wUp, wChild, wWedged>> /\ wNow >= wUp
    BY <1>1 DEF Watch!ParentCycle, Watch!Away
  <2>2. wNow <= Watch!Max(wParent.completed, wUp) + Own
    BY <2>1 DEF Watch!Punctual, Watch!Away
  <2>3. CASE wNow - wParent.completed > Own + Watch!Grace(Own)
    <3>1. Watch!Evidence.gap = wNow - wParent.completed /\ Watch!Evidence.ended = wNow
      BY <2>3 DEF Watch!Evidence
    <3>2. wParent.completed < wUp /\ wNow <= wUp + Own
      BY <1>0, <2>2, <2>3 DEF Watch!Max
    <3> QED
      BY <1>0, <2>1, <2>3, <3>1, <3>2
  <2>4. CASE ~(wNow - wParent.completed > Own + Watch!Grace(Own))
    <3>1. wParent.completed >= wUp
      BY <1>0, <2>1, <2>4
    <3>2. Watch!Evidence.ended \in {Never, wParent.ended}
      BY <2>4 DEF Watch!Evidence
    <3>3. ASSUME ~wWedged, wChild.due < wUp
          PROVE  Watch!Evidence.ended = wParent.ended /\ Watch!Evidence.gap = wParent.gap
      <4>1. wNow <= wUp + Base
        BY <2>1, <3>3 DEF Watch!Punctual, Watch!Away, Watch!Max
      <4>2. wParent.ended # Never /\ wNow <= wParent.ended + Watch!Window
        BY <3>1, <3>3, <4>1 DEF Watch!Window
      <4> QED
        BY <2>4, <4>2 DEF Watch!Evidence
    <3> QED
      BY <2>1, <3>1, <3>2, <3>3
  <2> QED
    BY <2>3, <2>4
<1>2. CASE Watch!ChildCycle
  <2>1. PICK j \in {Base, Watch!Min(wChild.interval * Factor, Cap)} :
          wChild' = [completed |-> wNow, due |-> wNow + j, interval |-> j]
    BY <1>2 DEF Watch!ChildCycle
  <2>2. j \in Int /\ j >= Base
    BY BackedOff DEF Watch!Punctual
  <2>3. wChild'.due > wUp
    BY <1>2, <2>1, <2>2 DEF Watch!ChildCycle, Watch!Away
  <2>4. wParent' = wParent /\ wUp' = wUp /\ wChild'.due \in Int
    BY <1>2, <2>1, <2>2 DEF Watch!ChildCycle
  <2> QED
    BY <2>3, <2>4
<1>3. CASE Watch!Wedge
  BY <1>3 DEF Watch!Wedge
<1>4. CASE Watch!HostAway
  <2>1. PICK d \in Outage : wUp' = wNow + d
    BY <1>4 DEF Watch!HostAway
  <2>2. d \in Nat /\ d > Own + Watch!Grace(Own)
    BY DEF Watch!Grace
  <2>3. wNow >= wUp + Rest /\ UNCHANGED <<wNow, wChild, wWedged, wParent>>
    BY <1>4 DEF Watch!HostAway
  <2>4. wParent.completed <= wNow
    BY DEF Watch!Punctual
  <2>5. ASSUME ~wWedged PROVE wNow <= wChild.due + Base
    BY <2>3, <2>5 DEF Watch!Punctual, Watch!Away, Watch!Max
  <2> QED
    BY <1>0, <2>1, <2>2, <2>3, <2>4, <2>5
<1>5. CASE Watch!Tick
  BY <1>5 DEF Watch!Tick
<1> QED
  BY <1>1, <1>2, <1>3, <1>4, <1>5 DEF Watch!Next

\* The verdict on a child that is silent without an outage.
LEMMA WatchReported ==
  ASSUME Watch!TypeOK, Watch!Punctual, Watch!Recorded, Watch!Reported, Watch!Next
  PROVE  Watch!Reported'
<1> USE WatchAssumption DEF Watch!TypeOK, Watch!Reported
<1>1. CASE Watch!ParentCycle
  <2>1. /\ wParent'.completed = wNow /\ wVerdict' = Watch!Judgement
        /\ UNCHANGED <<wNow, wUp, wChild>> /\ wNow >= wUp
    BY <1>1 DEF Watch!ParentCycle, Watch!Away
  <2>2. SUFFICES ASSUME wNow > wUp + Own + Watch!Window,
                        wNow > wChild.due + Watch!Grace(wChild.interval)
                 PROVE  Watch!Judgement = "fail"
    BY <2>1 DEF Watch!Window
  <2>3. wNow <= wParent.due
    BY <2>1, <2>2 DEF Watch!Punctual, Watch!Away, Watch!Max, Watch!Window
  <2>4. Watch!RecentOutage = 0
    BY <2>2 DEF Watch!Recorded, Watch!RecentOutage, Watch!Window
  <2>5. Watch!Max(Watch!Max(wNow - wParent.due, 0), Watch!RecentOutage) = 0
    BY <2>3, <2>4 DEF Watch!Max
  <2>6. Watch!Grace(wChild.interval) \in Nat
    BY GraceBounds DEF Watch!Punctual
  <2> QED
    BY <2>2, <2>5, <2>6 DEF Watch!Judgement
<1>2. CASE Watch!ChildCycle
  <2>1. PICK j \in {Base, Watch!Min(wChild.interval * Factor, Cap)} :
          wChild' = [completed |-> wNow, due |-> wNow + j, interval |-> j]
    BY <1>2 DEF Watch!ChildCycle
  <2>2. j \in Nat /\ Watch!Grace(j) \in Nat
    BY BackedOff, GraceBounds DEF Watch!Punctual
  <2>3. wParent' = wParent /\ wParent.completed <= wNow
    BY <1>2 DEF Watch!ChildCycle, Watch!Punctual
  <2>4. wChild'.due = wNow + j /\ wChild'.interval = j
    BY <2>1
  <2> QED
    BY <2>2, <2>3, <2>4
<1>3. CASE Watch!Wedge
  BY <1>3 DEF Watch!Wedge, Watch!Window
<1>4. CASE Watch!HostAway
  <2>1. wUp' >= wNow /\ wUp' \in Int /\ wParent' = wParent /\ wParent.completed <= wNow
    BY <1>4 DEF Watch!HostAway, Watch!Punctual
  <2> QED
    BY <2>1 DEF Watch!Window
<1>5. CASE Watch!Tick
  BY <1>5 DEF Watch!Tick, Watch!Window
<1> QED
  BY <1>1, <1>2, <1>3, <1>4, <1>5 DEF Watch!Next

\* The verdict on a child that is late for an outage.
LEMMA WatchSpares ==
  ASSUME Watch!TypeOK, Watch!Punctual, Watch!Recorded, Watch!NoFalseAlarm, Watch!Next
  PROVE  Watch!NoFalseAlarm'
<1> USE WatchAssumption DEF Watch!TypeOK, Watch!NoFalseAlarm
<1>1. CASE Watch!ParentCycle
  <2> DEFINE grace == Watch!Grace(wChild.interval)
             late == wNow - (wChild.due + grace)
             out == Watch!Max(Watch!Max(wNow - wParent.due, 0), Watch!RecentOutage)
  <2>1. /\ wVerdict' = Watch!Judgement /\ wWedged' = wWedged /\ wNow >= wUp
    BY <1>1 DEF Watch!ParentCycle, Watch!Away
  <2>2. SUFFICES ASSUME ~wWedged PROVE late <= 0 \/ (out > 0 /\ late <= out + wChild.interval)
    BY <2>1 DEF Watch!Judgement
  <2>3. grace \in Nat /\ grace >= wChild.interval /\ wChild.interval >= Base
    BY GraceBounds DEF Watch!Punctual
  <2>4. wNow <= Watch!Max(wChild.due, wUp) + Base
    BY <2>1, <2>2 DEF Watch!Punctual, Watch!Away
  <2>5. CASE wChild.due >= wUp
    BY <2>3, <2>4, <2>5 DEF Watch!Max
  <2>6. CASE wChild.due < wUp /\ wParent.completed < wUp
    <3>1. wNow - wParent.due > 0
      BY <2>1, <2>6, GraceBounds DEF Watch!Recorded, Watch!Punctual
    <3>2. Watch!RecentOutage \in Int
      BY DEF Watch!RecentOutage
    <3>3. out \in Int /\ out >= wNow - wParent.due
      BY <3>2 DEF Watch!Max
    <3>4. wParent.completed <= wChild.due + Base /\ wParent.due = wParent.completed + Own
      BY <2>2, <2>6 DEF Watch!Recorded, Watch!Punctual
    <3> HIDE DEF grace, out
    <3> QED
      BY <2>3, <3>1, <3>3, <3>4
  <2>7. CASE wChild.due < wUp /\ wParent.completed >= wUp
    <3>1. /\ wParent.ended # Never /\ wParent.ended >= wUp /\ wParent.ended \in Int
          /\ wParent.gap > 0 /\ wParent.gap >= wParent.ended - (wChild.due + Base)
      BY <2>2, <2>7 DEF Watch!Recorded
    <3>2. wNow <= wUp + Base
      BY <2>4, <2>7 DEF Watch!Max
    <3>3. Watch!RecentOutage = wParent.gap
      BY <3>1, <3>2 DEF Watch!RecentOutage, Watch!Window
    <3>4. out \in Int /\ out >= wParent.gap
      BY <3>3 DEF Watch!Max
    <3> HIDE DEF grace, out
    <3> QED
      BY <2>3, <3>1, <3>2, <3>4
  <2> QED
    BY <2>5, <2>6, <2>7
<1>2. CASE UNCHANGED <<wVerdict, wWedged>> \/ wWedged'
  BY <1>2
<1> QED
  BY <1>1, <1>2 DEF Watch!Next, Watch!ChildCycle, Watch!Wedge, Watch!HostAway, Watch!Tick

THEOREM WatchInvariance == MCSpec => []Watch!WatchInv
<1>1. MCInit => Watch!WatchInv
  <2> SUFFICES ASSUME Watch!Init PROVE Watch!WatchInv
    BY DEF MCInit
  <2> USE WatchAssumption DEF Watch!Init
  <2>1. Watch!TypeOK
    <3>1. /\ {wNow, wUp, wChild.completed, wChild.due, wChild.interval} \subseteq Int
          /\ {wParent.completed, wParent.due, wParent.gap} \subseteq Int
      OBVIOUS
    <3>2. wParent.ended = Never /\ wWedged = FALSE
      OBVIOUS
    <3> QED
      BY <3>1, <3>2 DEF Watch!TypeOK
  <2>2. Watch!Punctual
    BY DEF Watch!Punctual, Watch!Max, Watch!Away
  <2>3. Watch!Recorded
    BY DEF Watch!Recorded
  <2>4. Watch!Reported
    BY DEF Watch!Reported, Watch!Window
  <2>5. Watch!NoFalseAlarm
    BY DEF Watch!NoFalseAlarm
  <2> QED
    BY <2>1, <2>2, <2>3, <2>4, <2>5 DEF Watch!WatchInv
<1>2. Watch!WatchInv /\ [MCNext]_<<on, vars, deskVars, watchVars>> => Watch!WatchInv'
  <2> SUFFICES ASSUME Watch!WatchInv, [Watch!Next]_(Watch!vars) PROVE Watch!WatchInv'
    BY WatchSteps
  <2>1. CASE Watch!Next
    BY <2>1, WatchTyped, WatchPunctual, WatchRecorded, WatchReported, WatchSpares
       DEF Watch!WatchInv
  <2>2. CASE UNCHANGED Watch!vars
    BY <2>2 DEF Watch!vars, Watch!WatchInv, Watch!TypeOK, Watch!Punctual, Watch!Recorded,
                Watch!Reported, Watch!NoFalseAlarm, Watch!Away, Watch!Window
  <2> QED
    BY <2>1, <2>2
<1> QED
  BY <1>1, <1>2, PTL DEF MCSpec

\* A child that works is not reported as failed for an outage of the host it
\* shares with its parent (children.py verify_child, _downgrade_for_host_outage),
\* for every interval and backoff: while it has not woken, the outage is in the
\* parent's own lateness or on its record.
THEOREM OutagesAreForgiven == MCSpec => []NoFalseAlarm
<1>1. Watch!WatchInv => NoFalseAlarm
  BY DEF Watch!WatchInv, NoFalseAlarm
<1> QED
  BY <1>1, WatchInvariance, PTL

\* A child that has stopped is reported within an interval of the parent once
\* the evidence of the last outage has expired: outages do not excuse it twice.
THEOREM StoppedChildrenAreReported == MCSpec => []WedgedIsReported
<1>1. ASSUME Watch!WatchInv PROVE WedgedIsReported
  <2> USE WatchAssumption DEF Watch!WatchInv, Watch!TypeOK
  <2>1. SUFFICES ASSUME wNow - Own > wUp + Own + Watch!Window,
                        wNow - Own > wChild.due + Watch!Grace(wChild.interval)
                 PROVE  wVerdict = "fail"
    BY DEF WedgedIsReported, Watch!WedgedIsReported
  <2>2. Watch!Window \in Nat
    BY DEF Watch!Window
  <2>3. wParent.completed >= wNow - Own
    BY <1>1, <2>1, <2>2 DEF Watch!Punctual, Watch!Away, Watch!Max
  <2>4. Watch!Grace(wChild.interval) \in Nat
    BY <1>1, GraceBounds DEF Watch!Punctual
  <2> QED
    BY <1>1, <2>1, <2>2, <2>3, <2>4 DEF Watch!Reported
<1> QED
  BY <1>1, WatchInvariance, PTL
=============================================================================
