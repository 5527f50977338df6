--------------------------- MODULE BeadStoreProofs ---------------------------
(* Theorems about BeadStore, for every set of beads, agents and calls: an    *)
(* inductive invariant and what follows from it, and a second layer about    *)
(* who a completion in flight was graded for.                                *)
EXTENDS BeadStore, Sequences, TLAPS

-----------------------------------------------------------------------------
(* Typing of the records the actions build.                                 *)

LEMMA MetaTyping ==
  /\ FreshMeta \in Meta
  /\ \A m \in Meta : Stripped(m) \in Meta
  BY StoreAssumption DEF StoreAssumption, FreshMeta, Stripped, Meta, Verdict, NoVerdict

LEMMA RecordTyping == Absent \in Task /\ NoCall \in Request
  BY StoreAssumption, MetaTyping
  DEF StoreAssumption, Absent, NoCall, Task, Request, Status, AllVerb

\* What update() writes is a bead of the same attempt, and never unfiles it.
LEMMA WrittenTyping ==
  ASSUME NEW t \in Task, NEW call \in Request
  PROVE  /\ Written(t, call) \in Task
         /\ Written(t, call).attempt = t.attempt
         /\ t.status # "absent" => Written(t, call).status # "absent"
<1> DEFINE frees == call.verb \in Releasing
           status == IF call.to = "keep" THEN t.status ELSE call.to
           owner == IF call.verb = "decline" THEN None ELSE t.owner
           holder == IF frees THEN None ELSE t.holder
           expiry == IF frees THEN "none" ELSE t.expiry
           meta == IF call.writes THEN call.meta ELSE t.meta
           w == [t EXCEPT !.status = status, !.meta = meta, !.holder = holder,
                          !.expiry = expiry, !.owner = owner]
<1>1. /\ status \in Status \cup {"absent"} /\ owner \in Actor \cup {None}
      /\ holder \in Agent \cup {None} /\ meta \in Meta
      /\ expiry \in {"none", "future", "past"}
      /\ t.status # "absent" => status # "absent"
  BY DEF Task, Request, Status
<1>2. Written(t, call) = w
  BY DEF Written
<1> HIDE DEF frees, status, owner, holder, expiry, meta
<1>3. w \in Task /\ w.attempt = t.attempt /\ w.status = status
  BY <1>1 DEF Task
<1> QED
  BY <1>1, <1>2, <1>3

LEMMA ReportTyping ==
  ASSUME NEW b \in Bead, NEW t \in Task, NEW to \in {"done", "failed"},
         NEW fence \in 0..MaxAttempt, NEW grant \in 0..MaxAttempt,
         NEW key \in 0..MaxAttempt
  PROVE  /\ ReportCall(b, t, to, fence, grant, key) \in Request
         /\ ReportCall(b, t, to, fence, grant, key).bead = b
         /\ ReportCall(b, t, to, fence, grant, key).to = to
         /\ ReportCall(b, t, to, fence, grant, key).phase = PhaseFor(to)
<1> DEFINE m == [Stripped(t.meta) EXCEPT !.report = key]
           p == PhaseFor(to)
           r == [NoCall EXCEPT !.verb = "report", !.bead = b, !.phase = p, !.to = to,
                    !.writes = TRUE, !.fence = fence, !.grant = grant, !.meta = m]
<1>1. m \in Meta
  BY MetaTyping DEF Task, Meta
<1>2. p \in {"gate", "write"}
  BY DEF PhaseFor
<1>3. r = ReportCall(b, t, to, fence, grant, key)
  BY DEF ReportCall
<1> HIDE DEF m, p
<1>4. NoCall \in Request /\ to \in Status \cup {"keep"}
  BY RecordTyping DEF Status
<1>5. r \in Request
  BY <1>1, <1>2, <1>4 DEF Request, AllVerb
<1>6. r.phase = p /\ r.bead = b /\ r.to = to
  BY <1>4 DEF Request
<1> HIDE DEF r
<1> QED
  BY <1>3, <1>5, <1>6 DEF p

\* A completion sent through its gate is sound, whoever sends it.
LEMMA GateBoundIsSound ==
  ASSUME NEW r \in Request, r.bead \in Bead, r.to \in {"done", "failed"},
         r.phase = PhaseFor(r.to)
  PROVE  Sound(r)
  BY DEF Sound, PhaseFor, Consulted

-----------------------------------------------------------------------------
(* The invariant holds initially.                                           *)

LEMMA InitIInv == Init => IInv
<1> SUFFICES ASSUME Init PROVE IInv
  OBVIOUS
<1> USE DEF Init
<1>1. TypeOK
  BY RecordTyping DEF TypeOK
<1>2. CallsInFlight
  BY DEF CallsInFlight, Sound, NoCall
<1>3. UnfiledIsBlank
  BY DEF UnfiledIsBlank
<1>4. EveryHandoutHasItsAttempt
  BY DEF EveryHandoutHasItsAttempt, Absent
<1>5. InProgressIsLeased
  BY DEF InProgressIsLeased, Absent
<1> QED
  BY <1>1, <1>2, <1>3, <1>4, <1>5 DEF IInv

-----------------------------------------------------------------------------
(* The three shapes of a step.                                              *)

\* A step that only moves one call keeps the invariant if the call it leaves
\* behind is sound.
LEMMA CallMoves ==
  ASSUME IInv, NEW c \in Call, NEW r \in Request, Sound(r),
         r.phase # "idle" => beads[r.bead].status # "absent",
         calls' = [calls EXCEPT ![c] = r], UNCHANGED <<beads, handed>>
  PROVE  IInv'
<1>1. TypeOK'
  BY DEF IInv, TypeOK
<1>2. CallsInFlight'
  BY DEF IInv, TypeOK, CallsInFlight
<1>3. UnfiledIsBlank' /\ EveryHandoutHasItsAttempt' /\ InProgressIsLeased'
  BY DEF IInv, UnfiledIsBlank, EveryHandoutHasItsAttempt, InProgressIsLeased
<1> QED
  BY <1>1, <1>2, <1>3 DEF IInv

\* A step that writes one bead, and perhaps moves one call, keeps it if the
\* write takes nothing into IN_PROGRESS and leaves the attempt alone.
LEMMA BeadMoves ==
  ASSUME IInv, NEW b \in Bead, NEW t \in Task,
         t.status # "absent", t.attempt = beads[b].attempt,
         t.status = "in_progress" =>
           beads[b].status = "in_progress" /\ t.holder = beads[b].holder,
         beads' = [beads EXCEPT ![b] = t], UNCHANGED handed,
         \/ UNCHANGED calls
         \/ \E c \in Call, r \in Request :
              /\ Sound(r) /\ calls' = [calls EXCEPT ![c] = r]
              /\ r.phase # "idle" => beads'[r.bead].status # "absent"
  PROVE  IInv'
<1>1. TypeOK'
  BY DEF IInv, TypeOK
<1>2. \A x \in Bead : beads[x].status # "absent" => beads'[x].status # "absent"
  BY DEF IInv, TypeOK
<1>3. CallsInFlight'
  <2>1. CASE UNCHANGED calls
    BY <1>2, <2>1 DEF IInv, CallsInFlight, Sound
  <2>2. CASE \E c \in Call, r \in Request :
              /\ Sound(r) /\ calls' = [calls EXCEPT ![c] = r]
              /\ r.phase # "idle" => beads'[r.bead].status # "absent"
    <3>1. PICK c \in Call, r \in Request :
              /\ Sound(r) /\ calls' = [calls EXCEPT ![c] = r]
              /\ r.phase # "idle" => beads'[r.bead].status # "absent"
      BY <2>2
    <3>2. \A d \in Call : calls'[d] = IF d = c THEN r ELSE calls[d]
      BY <3>1 DEF IInv, TypeOK
    <3>3. \A d \in Call : calls[d].phase # "idle" => calls[d].bead \in Bead
      BY DEF IInv, CallsInFlight, Sound
    <3>4. SUFFICES ASSUME NEW d \in Call
                   PROVE /\ Sound(calls'[d])
                         /\ calls'[d].phase # "idle" => beads'[calls'[d].bead].status # "absent"
      BY DEF CallsInFlight, Sound, CarriesEvidence
    <3>5. CASE d = c
      BY <3>1, <3>2, <3>5
    <3>6. CASE d # c
      BY <1>2, <3>2, <3>3, <3>6 DEF IInv, CallsInFlight
    <3> QED
      BY <3>5, <3>6
  <2> QED
    BY <2>1, <2>2
<1>4. UnfiledIsBlank'
  BY DEF IInv, TypeOK, UnfiledIsBlank
<1>5. EveryHandoutHasItsAttempt'
  <2>1. \A x \in Bead : beads'[x].attempt = beads[x].attempt
    BY DEF IInv, TypeOK
  <2> QED
    BY <2>1 DEF IInv, TypeOK, Grant, EveryHandoutHasItsAttempt
<1>6. InProgressIsLeased'
  BY DEF IInv, TypeOK, InProgressIsLeased
<1> QED
  BY <1>1, <1>3, <1>4, <1>5, <1>6 DEF IInv
-----------------------------------------------------------------------------
(* One lemma per action: it preserves the invariant.                        *)

LEMMA FiledTyping ==
  ASSUME NEW f \in Filing
  PROVE  /\ Filed(f) \in Task /\ Filed(f).attempt = 0
         /\ Filed(f).status \in {"pending", "pending_approval"}
<1>1. /\ f.gate \in Gate \cup {None} /\ f.agent \in Agent \cup {None}
      /\ f.owner \in Person \cup {None} /\ f.status \in {"pending", "pending_approval"}
  BY StoreAssumption DEF StoreAssumption
<1>2. [FreshMeta EXCEPT !.gate = f.gate] \in Meta
  BY <1>1, MetaTyping DEF Meta
<1>3. Filed(f) = [Absent EXCEPT !.status = f.status, !.agent = f.agent, !.owner = f.owner,
                                !.meta = [FreshMeta EXCEPT !.gate = f.gate]]
  BY DEF Filed, Absent
<1>4. Filed(f) \in Task /\ Filed(f).status = f.status
  BY <1>1, <1>2, <1>3, RecordTyping DEF Task, Status, Actor
<1>5. Filed(f).attempt = 0
  BY <1>3 DEF Absent
<1> QED
  BY <1>1, <1>4, <1>5

LEMMA CreateStep ==
  ASSUME IInv, NEW b \in Bead, Create(b) PROVE IInv'
<1>1. PICK f \in Filing : beads' = [beads EXCEPT ![b] = Filed(f)]
  BY DEF Create
<1>2. beads[b].attempt = 0
  BY DEF Create, IInv, UnfiledIsBlank, Absent
<1>3. UNCHANGED <<calls, handed>>
  BY DEF Create
<1> QED
  BY <1>1, <1>2, <1>3, FiledTyping, BeadMoves

LEMMA CreateRcaStep ==
  ASSUME IInv, NEW c \in Call, NEW b \in Bead, CreateRca(c, b) PROVE IInv'
<1>1. PICK a \in SelfReporting, g \in CheckedGate :
        /\ beads' = [beads EXCEPT ![b] = [Absent EXCEPT !.status = "pending", !.agent = a]]
        /\ calls' = [calls EXCEPT ![c] =
             [NoCall EXCEPT !.verb = "rca", !.bead = b, !.phase = "write",
                            !.writes = TRUE, !.meta = [FreshMeta EXCEPT !.gate = g]]]
  BY DEF CreateRca
<1> DEFINE t == [Absent EXCEPT !.status = "pending", !.agent = a]
           m == [FreshMeta EXCEPT !.gate = g]
           r == [NoCall EXCEPT !.verb = "rca", !.bead = b, !.phase = "write",
                               !.writes = TRUE, !.meta = m]
<1>2. t \in Task /\ t.status = "pending"
  BY StoreAssumption, RecordTyping DEF StoreAssumption, Task, Status
<1>3. m \in Meta
  BY MetaTyping DEF Meta, Gate
<1>4. t.attempt = 0 /\ beads[b].attempt = 0
  BY DEF CreateRca, IInv, UnfiledIsBlank, Absent
<1> HIDE DEF t, m
<1>5. r \in Request
  BY <1>3, RecordTyping DEF Request, AllVerb
<1>6. Sound(r) /\ r.bead = b
  BY DEF Sound, NoCall, Releasing, Fenced
<1> HIDE DEF r
<1>7. beads' = [beads EXCEPT ![b] = t] /\ calls' = [calls EXCEPT ![c] = r]
  BY <1>1 DEF t, r, m
<1>8. beads'[r.bead].status # "absent"
  BY <1>2, <1>6, <1>7 DEF IInv, TypeOK
<1>9. UNCHANGED handed
  BY DEF CreateRca
<1> QED
  BY <1>2, <1>4, <1>5, <1>6, <1>7, <1>8, <1>9, BeadMoves

LEMMA ClaimedTyping ==
  ASSUME NEW t \in Task, NEW a \in Agent, t.attempt < MaxAttempt
  PROVE  /\ Claimed(t, a) \in Task
         /\ Claimed(t, a).status = "in_progress" /\ Claimed(t, a).holder = a
         /\ Claimed(t, a).attempt = t.attempt + 1
<1> DEFINE n == t.attempt + 1
           w == [t EXCEPT !.status = "in_progress", !.agent = a, !.holder = a,
                          !.expiry = "future", !.attempt = n]
<1>1. n \in 0..MaxAttempt
  BY StoreAssumption DEF StoreAssumption, Task
<1>2. Claimed(t, a) = w
  BY DEF Claimed
<1> HIDE DEF n
<1>3. w \in Task
  BY <1>1 DEF Task, Status
<1>4. w.status = "in_progress" /\ w.holder = a /\ w.attempt = n
  BY DEF Task
<1> QED
  BY <1>2, <1>3, <1>4 DEF n

LEMMA ClaimStep ==
  ASSUME IInv, NEW a \in Agent, NEW b \in Bead, Claim(a, b) PROVE IInv'
<1> DEFINE t == Claimed(beads[b], a)
           n == beads[b].attempt + 1
           g == [bead |-> b, attempt |-> n, agent |-> a]
<1>1. beads[b] \in Task /\ n \in 1..MaxAttempt /\ beads[b].attempt = n - 1
  BY StoreAssumption DEF StoreAssumption, IInv, TypeOK, Task, Claim
<1>2. /\ t \in Task /\ t.status = "in_progress" /\ t.attempt = n
      /\ t.holder = a
  BY <1>1, ClaimedTyping DEF Claim
<1> HIDE DEF t, n
<1>3. beads' = [beads EXCEPT ![b] = t] /\ UNCHANGED calls
  BY DEF Claim, t
<1>4. beads'[b] = t /\ (\A x \in Bead \ {b} : beads'[x] = beads[x])
  BY <1>3 DEF IInv, TypeOK
<1>5. handed' = handed \cup {g}
  <2>1. handed' = handed \cup {[bead |-> b, attempt |-> beads'[b].attempt, agent |-> a]}
    BY DEF Claim
  <2>2. beads'[b].attempt = n
    BY <1>2, <1>4
  <2> QED
    BY <2>1, <2>2
<1>6. TypeOK'
  BY <1>1, <1>2, <1>3, <1>5 DEF IInv, TypeOK, Grant
<1>7. CallsInFlight'
  BY <1>2, <1>3, <1>4 DEF IInv, CallsInFlight, Sound, CarriesEvidence
<1>8. UnfiledIsBlank'
  BY <1>2, <1>4 DEF IInv, UnfiledIsBlank
<1>9. EveryHandoutHasItsAttempt'
  <2>1. \A h \in handed : h.bead = b => h.attempt < n
    BY <1>1 DEF IInv, TypeOK, Grant, EveryHandoutHasItsAttempt
  <2>2. \A h, k \in handed' : h.bead = k.bead /\ h.attempt = k.attempt => h = k
    BY <1>1, <1>5, <2>1 DEF IInv, EveryHandoutHasItsAttempt
  <2>3. \A h \in handed' : h.attempt <= beads'[h.bead].attempt
    <3>1. SUFFICES ASSUME NEW h \in handed' PROVE h.attempt <= beads'[h.bead].attempt
      OBVIOUS
    <3>2. CASE h = g
      BY <1>1, <1>2, <1>4, <3>2
    <3>3. CASE h \in handed /\ h.bead = b
      BY <1>1, <1>2, <1>4, <2>1, <3>3 DEF IInv, TypeOK, Grant
    <3>4. CASE h \in handed /\ h.bead # b
      BY <1>4, <3>4 DEF IInv, TypeOK, Grant, EveryHandoutHasItsAttempt
    <3> QED
      BY <1>5, <3>2, <3>3, <3>4
  <2>4. \A x \in Bead : \A i \in 1..beads'[x].attempt :
          \E h \in handed' : h.bead = x /\ h.attempt = i
    <3>1. SUFFICES ASSUME NEW x \in Bead, NEW i \in 1..beads'[x].attempt
                   PROVE  \E h \in handed' : h.bead = x /\ h.attempt = i
      OBVIOUS
    <3>2. CASE x = b /\ i = n
      <4>1. g \in handed' /\ g.bead = x /\ g.attempt = i
        BY <1>5, <3>2
      <4> QED
        BY <4>1
    <3>3. CASE x = b /\ i # n
      <4>1. i \in 1..beads[b].attempt
        BY <1>1, <1>2, <1>4, <3>3
      <4> QED
        BY <1>5, <3>3, <4>1 DEF IInv, EveryHandoutHasItsAttempt
    <3>4. CASE x # b
      BY <1>4, <1>5, <3>4 DEF IInv, EveryHandoutHasItsAttempt
    <3> QED
      BY <3>2, <3>3, <3>4
  <2> QED
    BY <2>2, <2>3, <2>4 DEF EveryHandoutHasItsAttempt
<1>10. InProgressIsLeased'
  BY <1>2, <1>4, <1>5 DEF IInv, InProgressIsLeased
<1> QED
  BY <1>6, <1>7, <1>8, <1>9, <1>10 DEF IInv

LEMMA ExpireStep ==
  ASSUME IInv, NEW b \in Bead, Expire(b) PROVE IInv'
<1> DEFINE t == [beads[b] EXCEPT !.expiry = "past"]
<1>1. beads[b] \in Task
  BY DEF IInv, TypeOK
<1>2. /\ t \in Task /\ t.attempt = beads[b].attempt
      /\ t.status = beads[b].status /\ t.holder = beads[b].holder
  BY <1>1 DEF Task
<1>3. t.status # "absent"
  BY <1>2 DEF IInv, UnfiledIsBlank, Expire, LeaseActive, Absent
<1>4. beads' = [beads EXCEPT ![b] = t] /\ UNCHANGED <<calls, handed>>
  BY DEF Expire
<1> QED
  BY <1>2, <1>3, <1>4, BeadMoves

LEMMA AuthReleaseStep ==
  ASSUME IInv, NEW g \in handed, AuthRelease(g) PROVE IInv'
<1> DEFINE b == g.bead
           t == Released(beads[b])
<1>1. b \in Bead /\ beads[b] \in Task
  BY DEF IInv, TypeOK, Grant
<1>2. t \in Task /\ t.attempt = beads[b].attempt /\ t.status = "pending"
  BY <1>1 DEF Released, Task, Status
<1>3. beads' = [beads EXCEPT ![b] = t] /\ UNCHANGED <<calls, handed>>
  BY DEF AuthRelease
<1> QED
  BY <1>1, <1>2, <1>3, BeadMoves

LEMMA ReapReadStep ==
  ASSUME IInv, NEW c \in Call, NEW b \in Bead, ReapRead(c, b) PROVE IInv'
<1> DEFINE r == [NoCall EXCEPT !.verb = "reap", !.bead = b, !.phase = "write",
                               !.to = "pending"]
<1>1. r \in Request /\ r.bead = b
  <2>1. NoCall \in Request
    BY RecordTyping
  <2>2. r \in Request
    BY <2>1 DEF Request, AllVerb, Status
  <2>3. r.bead = b
    BY <2>1 DEF Request
  <2> QED
    BY <2>2, <2>3
<1>2. Sound(r)
  BY DEF Sound, NoCall
<1>3. calls' = [calls EXCEPT ![c] = r] /\ UNCHANGED <<beads, handed>>
  BY DEF ReapRead
<1>4. beads[r.bead].status # "absent"
  BY <1>1 DEF ReapRead, Reapable
<1> HIDE DEF r
<1> QED
  BY <1>1, <1>2, <1>3, <1>4, CallMoves

LEMMA ReportStep ==
  ASSUME IInv, NEW c \in Call, NEW g \in handed, NEW keyed \in BOOLEAN,
         Report(c, g, keyed)
  PROVE  IInv'
<1> DEFINE t == beads[g.bead]
           key == IF keyed THEN g.attempt ELSE 0
<1>1. /\ g.bead \in Bead /\ g.attempt \in 1..MaxAttempt
      /\ g.attempt <= t.attempt /\ t \in Task
  BY DEF IInv, TypeOK, Grant, EveryHandoutHasItsAttempt
<1>2. key \in 0..MaxAttempt /\ g.attempt \in 0..MaxAttempt
  BY <1>1, StoreAssumption DEF StoreAssumption
<1>3. t.status # "absent"
  BY <1>1 DEF IInv, UnfiledIsBlank, Absent
<1> HIDE DEF key
<1>4. PICK to \in {"done", "failed"} : calls' =
        [calls EXCEPT ![c] = ReportCall(g.bead, t, to, g.attempt, g.attempt, key)]
  BY DEF Report, key
<1> DEFINE r == ReportCall(g.bead, t, to, g.attempt, g.attempt, key)
<1>5. r \in Request /\ r.bead = g.bead /\ r.to = to /\ r.phase = PhaseFor(to)
  BY <1>1, <1>2, ReportTyping
<1>6. UNCHANGED <<beads, handed>>
  BY DEF Report
<1>7. calls' = [calls EXCEPT ![c] = r]
  BY <1>4
<1> HIDE DEF r
<1>8. Sound(r)
  BY <1>1, <1>5, GateBoundIsSound
<1> QED
  BY <1>3, <1>5, <1>6, <1>7, <1>8, CallMoves

LEMMA CompleteStep ==
  ASSUME IInv, NEW c \in Call, NEW b \in Bead, NEW p \in Actor,
         NEW grant \in 0..MaxAttempt, Complete(c, b, p, grant)
  PROVE  IInv'
<1> DEFINE ph == IF RecordedExecutor(beads[b]) = None THEN "adopt" ELSE "reread"
           r == [NoCall EXCEPT !.verb = "complete", !.bead = b, !.who = p,
                               !.grant = grant, !.phase = ph]
<1>1. calls' = [calls EXCEPT ![c] = r] /\ UNCHANGED <<beads, handed>>
  BY DEF Complete
<1>2. ph \in {"adopt", "reread"}
  OBVIOUS
<1> HIDE DEF ph
<1>3. r \in Request /\ r.bead = b /\ r.phase = ph
  BY <1>2, RecordTyping DEF Request, AllVerb
<1>4. r.to = "keep"
  BY DEF NoCall
<1>5. beads[r.bead].status # "absent"
  BY <1>3 DEF Complete
<1> HIDE DEF r
<1>6. Sound(r)
  BY <1>2, <1>3, <1>4 DEF Sound
<1> QED
  BY <1>1, <1>3, <1>5, <1>6, CallMoves

LEMMA CloseStep ==
  ASSUME IInv, NEW c \in Call, NEW b \in Bead, Close(c, b) PROVE IInv'
<1> DEFINE r == [NoCall EXCEPT !.verb = "close", !.bead = b, !.phase = "gate",
                               !.to = "done"]
<1>1. r \in Request /\ r.bead = b
  <2>1. NoCall \in Request
    BY RecordTyping
  <2>2. r \in Request
    BY <2>1 DEF Request, AllVerb, Status
  <2>3. r.bead = b
    BY <2>1 DEF Request
  <2> QED
    BY <2>2, <2>3
<1>2. Sound(r)
  BY DEF Sound, NoCall
<1>3. calls' = [calls EXCEPT ![c] = r] /\ UNCHANGED <<beads, handed>>
  BY DEF Close
<1>4. beads[r.bead].status # "absent"
  BY <1>1 DEF Close
<1> HIDE DEF r
<1> QED
  BY <1>1, <1>2, <1>3, <1>4, CallMoves

LEMMA RetryStep ==
  ASSUME IInv, NEW c \in Call, NEW b \in Bead, Retry(c, b) PROVE IInv'
<1> DEFINE r == [NoCall EXCEPT !.verb = "retry", !.bead = b, !.phase = "write",
                               !.to = "pending"]
<1>1. r \in Request /\ r.bead = b
  <2>1. NoCall \in Request
    BY RecordTyping
  <2>2. r \in Request
    BY <2>1 DEF Request, AllVerb, Status
  <2>3. r.bead = b
    BY <2>1 DEF Request
  <2> QED
    BY <2>2, <2>3
<1>2. Sound(r)
  BY DEF Sound, NoCall
<1>3. calls' = [calls EXCEPT ![c] = r] /\ UNCHANGED <<beads, handed>>
  BY DEF Retry
<1>4. beads[r.bead].status # "absent"
  BY <1>1 DEF Retry
<1> HIDE DEF r
<1> QED
  BY <1>1, <1>2, <1>3, <1>4, CallMoves

LEMMA ApproveVerifyStep ==
  ASSUME IInv, NEW c \in Call, NEW v \in Verifier, NEW b \in Bead,
         ApproveVerify(c, v, b)
  PROVE  IInv'
<1> DEFINE passed == IF Stripped(beads[b].meta).verdict.passed = "none"
                     THEN Stripped(beads[b].meta).verdict.passed ELSE "yes"
           m == [Stripped(beads[b].meta) EXCEPT !.verdict.passed = passed]
           r == [NoCall EXCEPT !.verb = "approve_verify", !.bead = b, !.phase = "gate",
                               !.to = "done", !.writes = TRUE, !.attest = v, !.meta = m]
<1>1. calls' = [calls EXCEPT ![c] = r] /\ UNCHANGED <<beads, handed>>
  BY DEF ApproveVerify
<1>2. passed \in {"none", "yes"} /\ Stripped(beads[b].meta) \in Meta
  BY MetaTyping DEF IInv, TypeOK, Task
<1> HIDE DEF passed
<1>3. m \in Meta
  BY <1>2 DEF Meta, Verdict
<1> HIDE DEF m
<1>4. v \in Actor
  BY StoreAssumption DEF StoreAssumption
<1>5. r \in Request /\ r.bead = b
  BY <1>3, <1>4, RecordTyping DEF Request, AllVerb, Status
<1>6. Sound(r)
  BY DEF Sound, NoCall, Releasing, Fenced
<1>7. beads[r.bead].status # "absent"
  BY <1>5 DEF ApproveVerify
<1> HIDE DEF r
<1> QED
  BY <1>1, <1>5, <1>6, <1>7, CallMoves

\* Every verb that goes through Start.
LEMMA StartStep ==
  ASSUME IInv, NEW c \in Call, NEW verb \in AllVerb \ Releasing, NEW b \in Bead,
         NEW to \in (Status \cup {"keep"}) \ {"in_progress", "done"}, NEW m \in Meta,
         beads[b].status # "absent", Start(c, verb, b, to, m)
  PROVE  IInv'
<1> DEFINE p == PhaseFor(to)
           k == Stripped(m)
           r == [NoCall EXCEPT !.verb = verb, !.bead = b, !.phase = p, !.to = to,
                               !.writes = TRUE, !.meta = k]
<1>1. calls' = [calls EXCEPT ![c] = r] /\ UNCHANGED <<beads, handed>>
  BY DEF Start
<1>2. p \in {"gate", "write"} /\ k \in Meta
  BY MetaTyping DEF PhaseFor
<1> HIDE DEF p, k
<1>3. r \in Request
  BY <1>2, RecordTyping DEF Request
<1>4. r.bead = b /\ r.to = to /\ r.verb = verb
  BY RecordTyping DEF Request
<1>5. beads[r.bead].status # "absent"
  BY <1>4
<1> HIDE DEF r
<1>6. Sound(r)
  BY <1>4 DEF Sound
<1> QED
  BY <1>1, <1>3, <1>5, <1>6, CallMoves

\* What a call in flight is about.
LEMMA InFlight ==
  ASSUME IInv, NEW c \in Call, calls[c].phase # "idle"
  PROVE  /\ calls[c] \in Request /\ Sound(calls[c])
         /\ calls[c].bead \in Bead
         /\ beads[calls[c].bead] \in Task
         /\ beads[calls[c].bead].status # "absent"
  BY DEF IInv, TypeOK, CallsInFlight, Sound

LEMMA CompleteAdoptStep ==
  ASSUME IInv, NEW c \in Call, CompleteAdopt(c) PROVE IInv'
<1> DEFINE b == calls[c].bead
           t == [beads[b] EXCEPT !.owner = calls[c].who]
           r == [calls[c] EXCEPT !.phase = "reread"]
<1>1. /\ calls[c] \in Request /\ Sound(calls[c]) /\ b \in Bead /\ beads[b] \in Task
      /\ beads[b].status # "absent"
  BY InFlight DEF CompleteAdopt
<1>2. t \in Task
  BY <1>1 DEF Task, Request
<1>3. /\ t.attempt = beads[b].attempt /\ t.status = beads[b].status
      /\ t.holder = beads[b].holder
  BY <1>1 DEF Task
<1>4. r \in Request /\ r.bead = b /\ r.phase = "reread" /\ r.to = calls[c].to
  BY <1>1 DEF Request
<1>5. /\ beads' = [beads EXCEPT ![b] = t] /\ calls' = [calls EXCEPT ![c] = r]
      /\ UNCHANGED handed
  BY DEF CompleteAdopt
<1>6. beads'[b] = t
  BY <1>1, <1>5 DEF IInv, TypeOK
<1> HIDE DEF b, t, r
<1>7. Sound(r)
  BY <1>1, <1>4 DEF Sound
<1>8. beads'[r.bead].status # "absent"
  BY <1>1, <1>3, <1>4, <1>6
<1>9. \E d \in Call, q \in Request :
        /\ Sound(q) /\ calls' = [calls EXCEPT ![d] = q]
        /\ q.phase # "idle" => beads'[q.bead].status # "absent"
  BY <1>4, <1>5, <1>7, <1>8
<1> QED
  BY <1>1, <1>2, <1>3, <1>5, <1>9, BeadMoves

LEMMA CompleteReadStep ==
  ASSUME IInv, NEW c \in Call, CompleteRead(c)
  PROVE  IInv'
<1> DEFINE b == calls[c].bead
           t == beads[b]
           key == 0
           s == ReportCall(b, t, "done", t.attempt, calls[c].grant, key)
           r == [s EXCEPT !.verb = "complete"]
<1>1. /\ calls[c] \in Request /\ b \in Bead /\ t \in Task /\ t.status # "absent"
  BY InFlight DEF CompleteRead
<1>2. /\ t.attempt \in 0..MaxAttempt /\ calls[c].grant \in 0..MaxAttempt
      /\ key \in 0..MaxAttempt
  BY <1>1, StoreAssumption DEF StoreAssumption, Task, Request
<1> HIDE DEF key
<1>3. s \in Request /\ s.bead = b /\ s.to = "done" /\ s.phase = PhaseFor("done")
  BY <1>1, <1>2, ReportTyping
<1>4. calls' = [calls EXCEPT ![c] = r] /\ UNCHANGED <<beads, handed>>
  BY DEF CompleteRead, key
<1> HIDE DEF s
<1>5. r \in Request
  BY <1>3 DEF Request, AllVerb
<1>6. r.bead = b /\ r.to = "done" /\ r.phase = PhaseFor("done")
  BY <1>3 DEF Request
<1> HIDE DEF r
<1>7. Sound(r)
  BY <1>1, <1>5, <1>6, GateBoundIsSound
<1> QED
  BY <1>1, <1>4, <1>5, <1>6, <1>7, CallMoves

\* A verdict is stamped on the gate that was read, and a DONE it lets through
\* is one that gate's evidence answers.
LEMMA StampStep ==
  ASSUME IInv, NEW c \in Call, calls[c].phase = "gate",
         NEW to \in {"done", "awaiting_verify", "verify_failed"},
         NEW by \in Actor \cup {None}, NEW passed \in {"yes", "no", "parked"},
         to = "done" /\ PinnedGate(c) \in Gate =>
           passed = "yes" /\ (PinnedGate(c) \in AttestedGate => by \in Verifier),
         Stamp(c, to, by, passed), UNCHANGED <<beads, handed>>
  PROVE  IInv'
<1> DEFINE g == PinnedGate(c)
           approval == IF by = None THEN Carried(c).approval ELSE by
           m == [Carried(c) EXCEPT !.approval = approval,
                                   !.verdict = [gate |-> g, passed |-> passed]]
           r == [calls[c] EXCEPT !.phase = "write", !.to = to, !.writes = TRUE,
                                 !.read = g, !.meta = m]
<1>1. /\ calls[c] \in Request /\ Sound(calls[c]) /\ calls[c].bead \in Bead
      /\ beads[calls[c].bead] \in Task /\ beads[calls[c].bead].status # "absent"
  BY InFlight
<1>2. g \in Gate \cup {None} /\ Carried(c) \in Meta
  BY <1>1 DEF PinnedGate, Carried, Request, Task, Meta
<1>3. approval \in Actor \cup {None} /\ (by # None => approval = by)
  BY <1>2 DEF Meta
<1>4. calls' = [calls EXCEPT ![c] = r]
  BY DEF Stamp
<1> HIDE DEF g, approval
<1>5. m \in Meta
  BY <1>2, <1>3 DEF Meta, Verdict
<1>6. m.verdict = [gate |-> g, passed |-> passed] /\ m.approval = approval
  BY <1>2 DEF Meta
<1> HIDE DEF m
<1>7. r \in Request
  BY <1>1, <1>2, <1>5 DEF Request, Status
<1>8. /\ r.phase = "write" /\ r.to = to /\ r.writes /\ r.read = g /\ r.meta = m
      /\ r.bead = calls[c].bead
  BY <1>1 DEF Request
<1> HIDE DEF r
<1>9. g # Unread /\ None \notin Verifier
  BY <1>2, StoreAssumption DEF StoreAssumption
<1>10. to = "done" /\ g \in Gate =>
         passed = "yes" /\ (g \in AttestedGate => by \in Verifier)
  BY DEF g
<1>11. Sound(r)
  BY <1>1, <1>3, <1>6, <1>8, <1>9, <1>10 DEF Sound, CarriesEvidence
<1> QED
  BY <1>1, <1>4, <1>7, <1>8, <1>11, CallMoves

LEMMA GateAttestedStep ==
  ASSUME IInv, NEW c \in Call, GateAttested(c) PROVE IInv'
<1> DEFINE t == beads[calls[c].bead]  by == calls[c].attest
<1>1. calls[c].phase = "gate" /\ UNCHANGED <<beads, handed>>
  BY DEF GateAttested, Grading
<1>2. CASE AnswersGate(t, by)
  <2>1. by \in Verifier /\ by \in Actor
    BY <1>2, StoreAssumption DEF StoreAssumption, AnswersGate
  <2>2. Stamp(c, "done", by, "yes")
    BY <1>2 DEF GateAttested
  <2> QED
    BY <1>1, <2>1, <2>2, StampStep
<1>3. CASE ~AnswersGate(t, by)
  <2>1. Stamp(c, "awaiting_verify", None, "parked")
    BY <1>3 DEF GateAttested
  <2> QED
    BY <1>1, <2>1, StampStep
<1> QED
  BY <1>2, <1>3

LEMMA GateCheckedStep ==
  ASSUME IInv, NEW c \in Call, GateChecked(c) PROVE IInv'
<1>1. calls[c].phase = "gate" /\ UNCHANGED <<beads, handed>>
  BY DEF GateChecked, Grading
<1>2. PinnedGate(c) \notin AttestedGate
  BY StoreAssumption DEF StoreAssumption, GateChecked
<1>3. CASE Stamp(c, "done", None, "yes")
  BY <1>1, <1>2, <1>3, StampStep
<1>4. CASE Stamp(c, "verify_failed", None, "no")
  BY <1>1, <1>4, StampStep
<1> QED
  BY <1>3, <1>4 DEF GateChecked

LEMMA GateAbsentStep ==
  ASSUME IInv, NEW c \in Call, GateAbsent(c) PROVE IInv'
<1>1. /\ calls[c].phase = "gate" /\ calls[c].to = "done"
      /\ PinnedGate(c) = None /\ UNCHANGED <<beads, handed>>
  BY DEF GateAbsent, Grading
<1>2. None \notin Gate /\ Unread # None
  BY StoreAssumption DEF StoreAssumption
<1>3. CASE calls' = [calls EXCEPT ![c].phase = "write", ![c].read = None]
  <2> DEFINE r == [calls[c] EXCEPT !.phase = "write", !.read = None]
  <2>1. /\ calls[c] \in Request /\ Sound(calls[c]) /\ calls[c].bead \in Bead
        /\ beads[calls[c].bead].status # "absent"
    BY <1>1, InFlight
  <2>2. /\ r \in Request /\ r.phase = "write" /\ r.read = None
        /\ r.bead = calls[c].bead /\ r.to = calls[c].to
    BY <2>1 DEF Request
  <2>3. calls' = [calls EXCEPT ![c] = r]
    BY <1>3
  <2> HIDE DEF r
  <2>4. Sound(r)
    BY <1>1, <1>2, <2>1, <2>2 DEF Sound
  <2> QED
    BY <1>1, <2>1, <2>2, <2>3, <2>4, CallMoves
<1>4. CASE Stamp(c, "done", None, "parked")
  BY <1>1, <1>2, <1>4, StampStep
<1>5. CASE Stamp(c, "awaiting_verify", None, "parked")
  BY <1>1, <1>5, StampStep
<1> QED
  BY <1>3, <1>4, <1>5 DEF GateAbsent

LEMMA CallEnds ==
  ASSUME IInv, NEW c \in Call, calls' = [calls EXCEPT ![c] = NoCall],
         UNCHANGED <<beads, handed>>
  PROVE  IInv'
<1>1. NoCall.phase = "idle" /\ Sound(NoCall)
  BY DEF NoCall, Sound
<1> QED
  BY <1>1, RecordTyping, CallMoves

LEMMA SkipConsultedStep ==
  ASSUME IInv, NEW c \in Call, SkipConsulted(c) PROVE IInv'
<1>1. CASE PinnedGate(c) = None
  <2> DEFINE r == [calls[c] EXCEPT !.phase = "write"]
  <2>1. /\ calls[c] \in Request /\ Sound(calls[c]) /\ calls[c].bead \in Bead
        /\ beads[calls[c].bead].status # "absent" /\ calls[c].to = "skipped"
    BY InFlight DEF SkipConsulted
  <2>2. r \in Request /\ r.bead = calls[c].bead /\ r.to = "skipped"
    BY <2>1 DEF Request
  <2>3. calls' = [calls EXCEPT ![c] = r] /\ UNCHANGED <<beads, handed>>
    BY <1>1 DEF SkipConsulted
  <2> HIDE DEF r
  <2>4. Sound(r)
    BY <2>1, <2>2 DEF Sound
  <2> QED
    BY <2>1, <2>2, <2>3, <2>4, CallMoves
<1>2. CASE PinnedGate(c) # None
  BY <1>2, CallEnds DEF SkipConsulted
<1> QED
  BY <1>1, <1>2

LEMMA LandStep ==
  ASSUME IInv, NEW c \in Call, Land(c) PROVE IInv'
<1> DEFINE call == calls[c]
           b == call.bead
           t == Written(beads[b], call)
<1>1. /\ call \in Request /\ Sound(call) /\ b \in Bead /\ beads[b] \in Task
      /\ beads[b].status # "absent" /\ call.phase = "write"
  BY InFlight DEF Land
<1>2. t \in Task /\ t.attempt = beads[b].attempt /\ t.status # "absent"
  BY <1>1, WrittenTyping
<1>3. t.status = "in_progress" =>
        beads[b].status = "in_progress" /\ t.holder = beads[b].holder
  BY <1>1 DEF Written, Sound, Task
<1>4. /\ beads' = [beads EXCEPT ![b] = t] /\ calls' = [calls EXCEPT ![c] = NoCall]
      /\ UNCHANGED handed
  BY DEF Land
<1>5. NoCall \in Request /\ NoCall.phase = "idle" /\ Sound(NoCall)
  BY RecordTyping DEF NoCall, Sound
<1> HIDE DEF call, b, t
<1> QED
  BY <1>1, <1>2, <1>3, <1>4, <1>5, BeadMoves

-----------------------------------------------------------------------------
(* The invariant is inductive.                                              *)

LEMMA OpenStep ==
  ASSUME IInv, NEW c \in Call, NEW b \in Bead, Open(c, b) PROVE IInv'
<1>1. beads[b] \in Task /\ beads[b].meta \in Meta
  BY DEF IInv, TypeOK, Task
<1>2. \A verb \in {"reject_verify", "retire", "cancel", "decline", "approve", "annotate"} :
        verb \in AllVerb \ Releasing
  BY DEF AllVerb, Releasing, Fenced
<1>3. \A to \in {"verify_failed", "skipped", "cancelled", "pending", "keep"} :
        to \in (Status \cup {"keep"}) \ {"in_progress", "done"}
  BY DEF Status
<1>4. CASE CreateRca(c, b)
  BY <1>4, CreateRcaStep
<1>5. CASE Close(c, b)
  BY <1>5, CloseStep
<1>6. CASE ReapRead(c, b)
  BY <1>6, ReapReadStep
<1>7. CASE \E p \in Person : Complete(c, b, p, 0)
  BY <1>7, CompleteStep, StoreAssumption DEF StoreAssumption, Actor
<1>8. CASE \E v \in Verifier : ApproveVerify(c, v, b)
  BY <1>8, ApproveVerifyStep
<1>9. CASE \E v \in Verifier : RejectVerify(c, v, b)
  <2> DEFINE m == [beads[b].meta EXCEPT !.verdict.passed = "no"]
  <2>1. m \in Meta
    BY <1>1 DEF Meta, Verdict
  <2>2. Start(c, "reject_verify", b, "verify_failed", m) /\ beads[b].status # "absent"
    BY <1>9 DEF RejectVerify
  <2> QED
    BY <1>2, <1>3, <2>1, <2>2, StartStep
<1>10. CASE \E p \in Actor : Cancel(c, p, b)
  <2>1. Start(c, "cancel", b, "cancelled", beads[b].meta) /\ beads[b].status # "absent"
    BY <1>10 DEF Cancel
  <2> QED
    BY <1>1, <1>2, <1>3, <2>1, StartStep
<1>11. CASE Retire(c, b)
  <2>1. Start(c, "retire", b, "skipped", beads[b].meta) /\ beads[b].status # "absent"
    BY <1>11 DEF Retire
  <2> QED
    BY <1>1, <1>2, <1>3, <2>1, StartStep
<1>12. CASE Decline(c, b)
  <2>1. PICK to \in {"pending", "skipped"} : Start(c, "decline", b, to, beads[b].meta)
    BY <1>12 DEF Decline
  <2>2. beads[b].status # "absent"
    BY <1>12 DEF Decline
  <2> QED
    BY <1>1, <1>2, <1>3, <2>1, <2>2, StartStep
<1>13. CASE Approve(c, b)
  <2>1. Start(c, "approve", b, "pending", beads[b].meta) /\ beads[b].status # "absent"
    BY <1>13 DEF Approve
  <2> QED
    BY <1>1, <1>2, <1>3, <2>1, StartStep
<1>14. CASE Retry(c, b)
  BY <1>14, RetryStep
<1>15. CASE Annotate(c, b)
  <2>1. Start(c, "annotate", b, "keep", beads[b].meta) /\ beads[b].status # "absent"
    BY <1>15 DEF Annotate
  <2> QED
    BY <1>1, <1>2, <1>3, <2>1, StartStep
<1> QED
  BY <1>4, <1>5, <1>6, <1>7, <1>8, <1>9, <1>10, <1>11, <1>12, <1>13, <1>14, <1>15
  DEF Open

LEMMA RefuseStep ==
  ASSUME IInv, NEW c \in Call, Refuse(c) PROVE IInv'
  BY CallEnds DEF Refuse

LEMMA DeliverStep ==
  ASSUME IInv, NEW c \in Call, NEW g \in handed, Deliver(c, g) PROVE IInv'
<1>1. g.bead \in Bead /\ g.agent \in Actor /\ g.attempt \in 0..MaxAttempt
  BY StoreAssumption DEF StoreAssumption, IInv, TypeOK, Grant, Actor
<1>2. CASE \E keyed \in BOOLEAN : Report(c, g, keyed)
  BY <1>2, ReportStep
<1>3. CASE Complete(c, g.bead, g.agent, g.attempt)
  BY <1>1, <1>3, CompleteStep
<1> QED
  BY <1>2, <1>3 DEF Deliver

LEMMA ProceedStep ==
  ASSUME IInv, NEW c \in Call, Proceed(c) PROVE IInv'
  BY CompleteAdoptStep, CompleteReadStep, GateAttestedStep, GateCheckedStep,
     GateAbsentStep, SkipConsultedStep, LandStep, RefuseStep
  DEF Proceed

LEMMA StutterStep ==
  ASSUME IInv, UNCHANGED vars PROVE IInv'
  BY DEF vars, IInv, TypeOK, CallsInFlight, Sound, CarriesEvidence, UnfiledIsBlank,
         EveryHandoutHasItsAttempt, InProgressIsLeased

LEMMA InductiveStep ==
  ASSUME IInv, [Next]_vars PROVE IInv'
<1>1. CASE \E b \in Bead : Create(b) \/ Expire(b)
  BY <1>1, CreateStep, ExpireStep
<1>2. CASE \E a \in Agent, b \in Bead : Claim(a, b)
  BY <1>2, ClaimStep
<1>3. CASE \E g \in handed : AuthRelease(g)
  BY <1>3, AuthReleaseStep
<1>4. CASE \E c \in Call, b \in Bead : Open(c, b)
  BY <1>4, OpenStep
<1>5. CASE \E c \in Call, g \in handed : Deliver(c, g)
  BY <1>5, DeliverStep
<1>6. CASE \E c \in Call : Proceed(c)
  BY <1>6, ProceedStep
<1>7. CASE UNCHANGED vars
  BY <1>7, StutterStep
<1> QED
  BY <1>1, <1>2, <1>3, <1>4, <1>5, <1>6, <1>7 DEF Next

\* Whatever calls overlap, the store file and the calls in flight keep the
\* inductive invariant.
THEOREM Invariance == Spec => []IInv
  BY InitIInv, InductiveStep, PTL DEF Spec

\* Type correctness of the store, the calls in flight and the history.
THEOREM TypeCorrect == Spec => []TypeOK
<1>1. IInv => TypeOK
  BY DEF IInv
<1> QED
  BY <1>1, Invariance, PTL

\* claim() and everything that touches lease_attempt: the attempts handed out
\* on a bead are 1..lease_attempt, one agent each.
THEOREM AttemptsAreHandouts == Spec => []EveryHandoutHasItsAttempt
<1>1. IInv => EveryHandoutHasItsAttempt
  BY DEF IInv
<1> QED
  BY <1>1, Invariance, PTL

\* claim() against the reaper and every blind write: a bead in progress is
\* held by the agent its current attempt was handed to.
THEOREM HeldWhileInProgress == Spec => []InProgressIsLeased
<1>1. IInv => InProgressIsLeased
  BY DEF IInv
<1> QED
  BY <1>1, Invariance, PTL

-----------------------------------------------------------------------------
(* What a step may write.                                                   *)

\* One bead at a time, and its gate and its DONE only at the lock: every other
\* write files the bead, or leaves its metadata and never makes it done.
LEMMA OneBeadChanges ==
  ASSUME IInv, [Next]_vars
  PROVE  \/ UNCHANGED beads
         \/ \E b \in Bead, t \in Task :
              /\ beads' = [beads EXCEPT ![b] = t]
              /\ \/ beads[b] = Absent /\ t.status # "done"
                 \/ t.meta = beads[b].meta /\ (t.status = "done" => beads[b].status = "done")
                 \/ \E c \in Call : /\ calls[c].bead = b /\ Land(c)
                                   /\ t = Written(beads[b], calls[c])
<1> DEFINE Goal == \E b \in Bead, t \in Task :
              /\ beads' = [beads EXCEPT ![b] = t]
              /\ \/ beads[b] = Absent /\ t.status # "done"
                 \/ t.meta = beads[b].meta /\ (t.status = "done" => beads[b].status = "done")
                 \/ \E c \in Call : /\ calls[c].bead = b /\ Land(c)
                                   /\ t = Written(beads[b], calls[c])
<1>1. ASSUME NEW b \in Bead, Create(b) PROVE Goal
  <2>1. PICK f \in Filing : beads' = [beads EXCEPT ![b] = Filed(f)]
    BY <1>1 DEF Create
  <2>2. beads[b] = Absent
    BY <1>1 DEF Create, IInv, UnfiledIsBlank
  <2> QED
    BY <2>1, <2>2, FiledTyping
<1>2. ASSUME NEW b \in Bead, Expire(b) PROVE Goal
  <2> DEFINE t == [beads[b] EXCEPT !.expiry = "past"]
  <2>1. t \in Task /\ t.meta = beads[b].meta /\ t.status = beads[b].status
    BY DEF IInv, TypeOK, Task
  <2>2. beads' = [beads EXCEPT ![b] = t]
    BY <1>2 DEF Expire
  <2> HIDE DEF t
  <2> QED
    BY <2>1, <2>2
<1>3. ASSUME NEW a \in Agent, NEW b \in Bead, Claim(a, b) PROVE Goal
  <2>1. beads[b] \in Task /\ beads[b].attempt < MaxAttempt
    BY <1>3 DEF IInv, TypeOK, Claim
  <2>2. Claimed(beads[b], a) \in Task /\ Claimed(beads[b], a).status # "done"
    BY <2>1, ClaimedTyping
  <2>3. Claimed(beads[b], a).meta = beads[b].meta
    BY <2>1 DEF Claimed, Task
  <2>4. beads' = [beads EXCEPT ![b] = Claimed(beads[b], a)]
    BY <1>3 DEF Claim
  <2> QED
    BY <2>2, <2>3, <2>4
<1>4. ASSUME NEW g \in handed, AuthRelease(g) PROVE Goal
  <2> DEFINE b == g.bead
             t == Released(beads[b])
  <2>1. b \in Bead /\ beads[b] \in Task
    BY DEF IInv, TypeOK, Grant
  <2>2. t \in Task /\ t.meta = beads[b].meta /\ t.status # "done"
    BY <2>1 DEF Released, Task, Status
  <2>3. beads' = [beads EXCEPT ![b] = t]
    BY <1>4 DEF AuthRelease
  <2> HIDE DEF b, t
  <2> QED
    BY <2>1, <2>2, <2>3
<1>5. ASSUME NEW c \in Call, NEW b \in Bead, Open(c, b) PROVE UNCHANGED beads \/ Goal
  <2>1. CASE CreateRca(c, b)
    <3>1. PICK a \in SelfReporting :
            beads' = [beads EXCEPT ![b] = [Absent EXCEPT !.status = "pending", !.agent = a]]
      BY <2>1 DEF CreateRca
    <3> DEFINE t == [Absent EXCEPT !.status = "pending", !.agent = a]
    <3>2. t \in Task /\ t.status # "done"
      BY StoreAssumption, RecordTyping DEF StoreAssumption, Task, Status
    <3>3. beads[b] = Absent
      BY <2>1 DEF CreateRca, IInv, UnfiledIsBlank
    <3> HIDE DEF t
    <3> QED
      BY <3>1, <3>2, <3>3 DEF t
  <2>2. CASE ~CreateRca(c, b)
    BY <1>5, <2>2 DEF Open, Close, ReapRead, Complete, ApproveVerify, RejectVerify, Cancel,
                      Retire, Decline, Approve, Retry, Annotate, Start
  <2> QED
    BY <2>1, <2>2
<1>6. ASSUME NEW c \in Call, NEW g \in handed, Deliver(c, g) PROVE UNCHANGED beads
  BY <1>6 DEF Deliver, Report, Complete
<1>7. ASSUME NEW c \in Call, Proceed(c) PROVE UNCHANGED beads \/ Goal
  <2>1. CASE CompleteAdopt(c)
    <3> DEFINE b == calls[c].bead
               t == [beads[b] EXCEPT !.owner = calls[c].who]
    <3>1. calls[c] \in Request /\ b \in Bead /\ beads[b] \in Task
      BY <2>1, InFlight DEF CompleteAdopt
    <3>2. t \in Task
      BY <3>1 DEF Task, Request
    <3>3. t.meta = beads[b].meta /\ t.status = beads[b].status
      BY <3>1 DEF Task
    <3>4. beads' = [beads EXCEPT ![b] = t]
      BY <2>1 DEF CompleteAdopt
    <3> HIDE DEF b, t
    <3> QED
      BY <3>1, <3>2, <3>3, <3>4
  <2>2. CASE Land(c)
    <3> DEFINE b == calls[c].bead
               t == Written(beads[b], calls[c])
    <3>1. b \in Bead /\ t \in Task
      BY <2>2, InFlight, WrittenTyping DEF Land
    <3>2. beads' = [beads EXCEPT ![b] = t]
      BY <2>2 DEF Land
    <3>3. \E d \in Call : calls[d].bead = b /\ Land(d) /\ t = Written(beads[b], calls[d])
      BY <2>2
    <3> HIDE DEF b, t
    <3> QED
      BY <3>1, <3>2, <3>3
  <2>3. CASE ~CompleteAdopt(c) /\ ~Land(c)
    BY <1>7, <2>3 DEF Proceed, CompleteRead, GateAttested, GateChecked, GateAbsent,
                      SkipConsulted, Refuse
  <2> QED
    BY <2>1, <2>2, <2>3
<1> SUFFICES UNCHANGED beads \/ Goal
  OBVIOUS
<1> HIDE DEF Goal
<1>8. CASE UNCHANGED vars
  BY <1>8 DEF vars
<1>9. CASE Next
  <2>1. CASE \E b \in Bead : Create(b) \/ Expire(b)
    BY <1>1, <1>2, <2>1
  <2>2. CASE \E a \in Agent, b \in Bead : Claim(a, b)
    BY <1>3, <2>2
  <2>3. CASE \E g \in handed : AuthRelease(g)
    BY <1>4, <2>3
  <2>4. CASE \E c \in Call, b \in Bead : Open(c, b)
    BY <1>5, <2>4
  <2>5. CASE \E c \in Call, g \in handed : Deliver(c, g)
    BY <1>6, <2>5
  <2>6. CASE \E c \in Call : Proceed(c)
    BY <1>7, <2>6
  <2> QED
    BY <1>9, <2>1, <2>2, <2>3, <2>4, <2>5, <2>6 DEF Next
<1> QED
  BY <1>8, <1>9

-----------------------------------------------------------------------------
(* The action properties.                                                   *)

\* report_result's fence: whatever was handed out after a report was issued,
\* that report is not written.
THEOREM FenceHoldsAlways == Spec => SupersededReportNeverLands
<1>1. ASSUME IInv, NEW c \in Call, calls[c].verb = "report", Land(c),
             NEW g \in handed, g.bead = calls[c].bead
      PROVE  g.attempt <= calls[c].fence
  <2>1. g.attempt <= beads[g.bead].attempt
    BY <1>1 DEF IInv, EveryHandoutHasItsAttempt
  <2>2. beads[calls[c].bead].attempt = calls[c].fence
    BY <1>1 DEF Land, MayWrite, FenceHolds, Fenced
  <2> QED
    BY <1>1, <2>1, <2>2
<1>2. IInv => [\A c \in Call : calls[c].verb = "report" /\ Land(c) =>
        \A g \in handed : g.bead = calls[c].bead => g.attempt <= calls[c].fence]_vars
  BY <1>1
<1> QED
  BY <1>2, Invariance, PTL DEF SupersededReportNeverLands

LEMMA PinStep ==
  ASSUME IInv, [Next]_vars, NEW b \in Bead, beads[b].meta.gate # None
  PROVE  beads'[b].meta.gate = beads[b].meta.gate
<1>1. CASE UNCHANGED beads
  BY <1>1
<1>2. ASSUME NEW x \in Bead, NEW t \in Task, beads' = [beads EXCEPT ![x] = t],
             \/ beads[x] = Absent /\ t.status # "done"
             \/ t.meta = beads[x].meta /\ (t.status = "done" => beads[x].status = "done")
             \/ \E c \in Call : /\ calls[c].bead = x /\ Land(c)
                               /\ t = Written(beads[x], calls[c])
      PROVE  beads'[b].meta.gate = beads[b].meta.gate
  <2>1. beads'[b] = IF b = x THEN t ELSE beads[b]
    BY <1>2 DEF IInv, TypeOK
  <2>2. ASSUME NEW c \in Call, calls[c].bead = x, Land(c), t = Written(beads[x], calls[c]),
               b = x
        PROVE  t.meta.gate = beads[b].meta.gate
    <3>1. t.meta = IF calls[c].writes THEN calls[c].meta ELSE beads[x].meta
      BY <2>2 DEF Written, IInv, TypeOK, Task
    <3>2. calls[c].writes => calls[c].meta.gate = beads[x].meta.gate
      BY <2>2 DEF Land, MayWrite, PinRespected
    <3> QED
      BY <2>2, <3>1, <3>2
  <2>3. b = x => beads[x] # Absent
    BY DEF Absent, FreshMeta
  <2> QED
    BY <1>2, <2>1, <2>2, <2>3
<1> QED
  BY <1>1, <1>2, OneBeadChanges

\* update(): no write, however old the metadata it was built from, drops or
\* replaces a pinned gate.
THEOREM PinIsPermanent == Spec => GateIsPinned
<1>1. IInv /\ [Next]_vars => [\A b \in Bead : beads[b].meta.gate # None =>
                               beads'[b].meta.gate = beads[b].meta.gate]_vars
  BY PinStep
<1> QED
  BY <1>1, Invariance, PTL DEF Spec, GateIsPinned

\* The write that makes gated work done is the lock's, and the gate it checks
\* there is the one the call's evidence was gathered for.
LEMMA DoneStep ==
  ASSUME IInv, [Next]_vars, NEW b \in Bead, beads[b].status # "done",
         beads'[b].status = "done", beads[b].meta.gate # None
  PROVE  /\ beads'[b].meta.verdict = [gate |-> beads[b].meta.gate, passed |-> "yes"]
         /\ beads[b].meta.gate \in AttestedGate => beads'[b].meta.approval \in Verifier
<1>1. CASE UNCHANGED beads
  BY <1>1
<1>2. ASSUME NEW x \in Bead, NEW t \in Task, beads' = [beads EXCEPT ![x] = t],
             \/ beads[x] = Absent /\ t.status # "done"
             \/ t.meta = beads[x].meta /\ (t.status = "done" => beads[x].status = "done")
             \/ \E c \in Call : /\ calls[c].bead = x /\ Land(c)
                               /\ t = Written(beads[x], calls[c])
      PROVE  /\ beads'[b].meta.verdict = [gate |-> beads[b].meta.gate, passed |-> "yes"]
             /\ beads[b].meta.gate \in AttestedGate => beads'[b].meta.approval \in Verifier
  <2>1. x = b /\ beads'[b] = t
    BY <1>2 DEF IInv, TypeOK
  <2>2. PICK c \in Call : /\ calls[c].bead = b /\ Land(c)
                         /\ t = Written(beads[b], calls[c])
    BY <1>2, <2>1 DEF Absent
  <2>3. /\ beads[b] \in Task /\ beads[b].meta.gate \in Gate
        /\ Sound(calls[c]) /\ calls[c].phase = "write"
    BY <2>2 DEF IInv, TypeOK, CallsInFlight, Task, Meta, Land
  <2>4. /\ t.status = IF calls[c].to = "keep" THEN beads[b].status ELSE calls[c].to
        /\ t.meta = IF calls[c].writes THEN calls[c].meta ELSE beads[b].meta
    BY <2>2, <2>3 DEF Written, Task
  <2>5. calls[c].to = "done"
    BY <2>1, <2>4
  <2>6. calls[c].read # Unread /\ beads[b].meta.gate = calls[c].read
    BY <2>2, <2>3, <2>5 DEF Sound, Land, MayWrite, GateStands
  <2>7. CarriesEvidence(calls[c])
    BY <2>3, <2>5, <2>6 DEF Sound
  <2> QED
    BY <2>1, <2>4, <2>6, <2>7 DEF CarriesEvidence
<1> QED
  BY <1>1, <1>2, OneBeadChanges

\* update(): gated work becomes done only with a passing verdict of the gate
\* pinned at that moment and, for a human or judged gate, a verifier's name.
THEOREM DoneIsAlwaysEarned == Spec => DoneIsEarned
<1>1. IInv /\ [Next]_vars =>
        [\A b \in Bead :
           /\ beads[b].status # "done" /\ beads'[b].status = "done"
           /\ beads[b].meta.gate # None
           => /\ beads'[b].meta.verdict = [gate |-> beads[b].meta.gate, passed |-> "yes"]
              /\ beads[b].meta.gate \in AttestedGate => beads'[b].meta.approval \in Verifier]_vars
  BY DoneStep
<1> QED
  BY <1>1, Invariance, PTL DEF Spec, DoneIsEarned

-----------------------------------------------------------------------------
(* The store implements Custody.                                            *)

\* A step either leaves the beads and their history alone, or is a claim, or
\* writes one bead that keeps its attempt, and its holder if it is in progress.
LEMMA HandsChange ==
  ASSUME IInv, [Next]_vars
  PROVE  \/ UNCHANGED <<beads, handed>>
         \/ \E a \in Agent, b \in Bead : Claim(a, b)
         \/ \E b \in Bead, t \in Task :
              /\ beads' = [beads EXCEPT ![b] = t] /\ UNCHANGED handed
              /\ t.attempt = beads[b].attempt
              /\ t.status = "in_progress" =>
                   beads[b].status = "in_progress" /\ t.holder = beads[b].holder
<1> DEFINE Goal == \E b \in Bead, t \in Task :
              /\ beads' = [beads EXCEPT ![b] = t] /\ UNCHANGED handed
              /\ t.attempt = beads[b].attempt
              /\ t.status = "in_progress" =>
                   beads[b].status = "in_progress" /\ t.holder = beads[b].holder
           Still == UNCHANGED <<beads, handed>>
<1>1. ASSUME NEW b \in Bead, Create(b) PROVE Goal
  <2>1. PICK f \in Filing : beads' = [beads EXCEPT ![b] = Filed(f)]
    BY <1>1 DEF Create
  <2>2. beads[b].attempt = 0
    BY <1>1 DEF Create, IInv, UnfiledIsBlank, Absent
  <2>3. UNCHANGED handed
    BY <1>1 DEF Create
  <2> QED
    BY <2>1, <2>2, <2>3, FiledTyping
<1>2. ASSUME NEW b \in Bead, Expire(b) PROVE Goal
  <2> DEFINE t == [beads[b] EXCEPT !.expiry = "past"]
  <2>1. /\ t \in Task /\ t.attempt = beads[b].attempt
        /\ t.status = beads[b].status /\ t.holder = beads[b].holder
    BY DEF IInv, TypeOK, Task
  <2>2. beads' = [beads EXCEPT ![b] = t] /\ UNCHANGED handed
    BY <1>2 DEF Expire
  <2> HIDE DEF t
  <2> QED
    BY <2>1, <2>2
<1>3. ASSUME NEW g \in handed, AuthRelease(g) PROVE Goal
  <2> DEFINE b == g.bead
             t == Released(beads[b])
  <2>1. b \in Bead /\ beads[b] \in Task
    BY DEF IInv, TypeOK, Grant
  <2>2. t \in Task /\ t.attempt = beads[b].attempt /\ t.status = "pending"
    BY <2>1 DEF Released, Task, Status
  <2>3. beads' = [beads EXCEPT ![b] = t] /\ UNCHANGED handed
    BY <1>3 DEF AuthRelease
  <2> HIDE DEF b, t
  <2> QED
    BY <2>1, <2>2, <2>3
<1>4. ASSUME NEW c \in Call, NEW b \in Bead, Open(c, b) PROVE Still \/ Goal
  <2>1. CASE CreateRca(c, b)
    <3>1. PICK a \in SelfReporting :
            beads' = [beads EXCEPT ![b] = [Absent EXCEPT !.status = "pending", !.agent = a]]
      BY <2>1 DEF CreateRca
    <3> DEFINE t == [Absent EXCEPT !.status = "pending", !.agent = a]
    <3>2. t \in Task /\ t.status = "pending"
      BY StoreAssumption, RecordTyping DEF StoreAssumption, Task, Status
    <3>3. t.attempt = 0 /\ beads[b].attempt = 0
      BY <2>1 DEF CreateRca, IInv, UnfiledIsBlank, Absent
    <3>4. UNCHANGED handed
      BY <2>1 DEF CreateRca
    <3> HIDE DEF t
    <3> QED
      BY <3>1, <3>2, <3>3, <3>4 DEF t
  <2>2. CASE ~CreateRca(c, b)
    BY <1>4, <2>2 DEF Open, Close, ReapRead, Complete, ApproveVerify, RejectVerify, Cancel,
                      Retire, Decline, Approve, Retry, Annotate, Start
  <2> QED
    BY <2>1, <2>2
<1>5. ASSUME NEW c \in Call, NEW g \in handed, Deliver(c, g) PROVE Still
  BY <1>5 DEF Deliver, Report, Complete
<1>6. ASSUME NEW c \in Call, Proceed(c) PROVE Still \/ Goal
  <2>1. CASE CompleteAdopt(c)
    <3> DEFINE b == calls[c].bead
               t == [beads[b] EXCEPT !.owner = calls[c].who]
    <3>1. calls[c] \in Request /\ b \in Bead /\ beads[b] \in Task
      BY <2>1, InFlight DEF CompleteAdopt
    <3>2. t \in Task
      BY <3>1 DEF Task, Request
    <3>3. /\ t.attempt = beads[b].attempt /\ t.status = beads[b].status
          /\ t.holder = beads[b].holder
      BY <3>1 DEF Task
    <3>4. beads' = [beads EXCEPT ![b] = t] /\ UNCHANGED handed
      BY <2>1 DEF CompleteAdopt
    <3> HIDE DEF b, t
    <3> QED
      BY <3>1, <3>2, <3>3, <3>4
  <2>2. CASE Land(c)
    <3> DEFINE b == calls[c].bead
               t == Written(beads[b], calls[c])
    <3>1. /\ b \in Bead /\ beads[b] \in Task /\ Sound(calls[c]) /\ calls[c].phase = "write"
          /\ t \in Task /\ t.attempt = beads[b].attempt
      BY <2>2, InFlight, WrittenTyping DEF Land
    <3>2. t.status = "in_progress" =>
            beads[b].status = "in_progress" /\ t.holder = beads[b].holder
      BY <3>1 DEF Written, Sound, Task
    <3>3. beads' = [beads EXCEPT ![b] = t] /\ UNCHANGED handed
      BY <2>2 DEF Land
    <3> HIDE DEF b, t
    <3> QED
      BY <3>1, <3>2, <3>3
  <2>3. CASE ~CompleteAdopt(c) /\ ~Land(c)
    BY <1>6, <2>3 DEF Proceed, CompleteRead, GateAttested, GateChecked, GateAbsent,
                      SkipConsulted, Refuse
  <2> QED
    BY <2>1, <2>2, <2>3
<1>7. CASE UNCHANGED vars
  BY <1>7 DEF vars
<1> HIDE DEF Goal
<1>8. CASE Next
  <2>1. CASE \E b \in Bead : Create(b) \/ Expire(b)
    BY <1>1, <1>2, <2>1 DEF Goal
  <2>2. CASE \E g \in handed : AuthRelease(g)
    BY <1>3, <2>2 DEF Goal
  <2>3. CASE \E c \in Call, b \in Bead : Open(c, b)
    BY <1>4, <2>3 DEF Goal
  <2>4. CASE \E c \in Call, g \in handed : Deliver(c, g)
    BY <1>5, <2>4
  <2>5. CASE \E c \in Call : Proceed(c)
    BY <1>6, <2>5 DEF Goal
  <2> QED
    BY <1>8, <2>1, <2>2, <2>3, <2>4, <2>5 DEF Next
<1> QED
  BY <1>7, <1>8

\* Whom the history names for an attempt, when it names one agent.
LEMMA ChosenHand ==
  ASSUME NEW H, NEW b, NEW n, NEW a \in Agent,
         [bead |-> b, attempt |-> n, agent |-> a] \in H,
         \A x \in Agent : [bead |-> b, attempt |-> n, agent |-> x] \in H => x = a
  PROVE  (CHOOSE x \in Agent : [bead |-> b, attempt |-> n, agent |-> x] \in H) = a
  OBVIOUS

\* Every attempt of a bead was handed to one agent, and HandedTo finds it.
LEMMA HandedToOne ==
  ASSUME IInv, NEW b \in Bead, NEW n \in 1..beads[b].attempt
  PROVE  /\ HandedTo(b, n) \in Agent
         /\ [bead |-> b, attempt |-> n, agent |-> HandedTo(b, n)] \in handed
<1>1. PICK g \in handed : g.bead = b /\ g.attempt = n
  BY DEF IInv, EveryHandoutHasItsAttempt
<1>2. g.agent \in Agent /\ g = [bead |-> b, attempt |-> n, agent |-> g.agent]
  BY <1>1 DEF IInv, TypeOK, Grant
<1> QED
  BY <1>1, <1>2 DEF HandedTo

\* A claim adds its own attempt to the history and no other answer changes.
LEMMA ClaimExtends ==
  ASSUME IInv, NEW a \in Agent, NEW b \in Bead, Claim(a, b),
         NEW k, k = beads[b].attempt + 1
  PROVE  /\ beads[b].attempt \in Nat
         /\ beads'[b].attempt = k
         /\ HandedTo(b, k)' = a
         /\ \A x \in Bead \ {b} : beads'[x] = beads[x]
         /\ \A x \in Bead : \A n \in 1..beads[x].attempt : HandedTo(x, n)' = HandedTo(x, n)
<1> DEFINE new == [bead |-> b, attempt |-> k, agent |-> a]
<1>1. beads[b] \in Task /\ beads[b].attempt \in Nat /\ beads[b].attempt < MaxAttempt
  BY StoreAssumption DEF StoreAssumption, IInv, TypeOK, Task, Claim
<1>2. beads' = [beads EXCEPT ![b] = Claimed(beads[b], a)]
  BY DEF Claim
<1>3. beads'[b] = Claimed(beads[b], a) /\ \A x \in Bead \ {b} : beads'[x] = beads[x]
  BY <1>2 DEF IInv, TypeOK
<1>4. beads'[b].attempt = k
  BY <1>1, <1>3, ClaimedTyping
<1>5. handed' = handed \cup {new}
  BY <1>4 DEF Claim
<1>6. \A g \in handed : g.bead = b => g.attempt # k
  BY <1>1 DEF IInv, TypeOK, Grant, EveryHandoutHasItsAttempt
<1>7. HandedTo(b, k)' = a
  <2>1. \A x \in Agent : [bead |-> b, attempt |-> k, agent |-> x] \in handed' => x = a
    BY <1>5, <1>6
  <2>2. [bead |-> b, attempt |-> k, agent |-> a] \in handed'
    BY <1>5
  <2> HIDE DEF new
  <2>3. (CHOOSE x \in Agent : [bead |-> b, attempt |-> k, agent |-> x] \in handed') = a
    BY <2>1, <2>2, ChosenHand
  <2> QED
    BY <2>3 DEF HandedTo
<1>8. ASSUME NEW x \in Bead, NEW n \in 1..beads[x].attempt
      PROVE  HandedTo(x, n)' = HandedTo(x, n)
  <2> DEFINE h == HandedTo(x, n)
  <2>1. h \in Agent /\ [bead |-> x, attempt |-> n, agent |-> h] \in handed
    BY <1>8, HandedToOne
  <2>2. x = b => n # k
    BY <1>1, <1>8
  <2> HIDE DEF h
  <2>3. \A y \in Agent : [bead |-> x, attempt |-> n, agent |-> y] \in handed' => y = h
    <3>1. SUFFICES ASSUME NEW y \in Agent, [bead |-> x, attempt |-> n, agent |-> y] \in handed'
                   PROVE  y = h
      OBVIOUS
    <3>2. [bead |-> x, attempt |-> n, agent |-> y] \in handed
      BY <1>5, <2>2, <3>1
    <3> QED
      BY <2>1, <3>2 DEF IInv, EveryHandoutHasItsAttempt
  <2>4. [bead |-> x, attempt |-> n, agent |-> h] \in handed'
    BY <1>5, <2>1
  <2>5. (CHOOSE y \in Agent : [bead |-> x, attempt |-> n, agent |-> y] \in handed') = h
    BY <2>1, <2>3, <2>4, ChosenHand
  <2> QED
    BY <2>5 DEF HandedTo, h
<1> QED
  BY <1>1, <1>3, <1>4, <1>7, <1>8

\* What Custody sees of the store.
Waiting == {b \in Bead : CanClaim(beads[b])}
By == [b \in Bead |-> IF beads[b].status = "in_progress" THEN beads[b].holder ELSE None]
Log == [b \in Bead |-> [n \in 1..beads[b].attempt |-> HandedTo(b, n)]]

LEMMA StoreInit == Init => Store!Init
<1> SUFFICES ASSUME Init PROVE Store!Init
  OBVIOUS
<1>1. \A b \in Bead : beads[b] = Absent
  BY DEF Init
<1>2. \A b \in Bead : beads[b].status = "absent" /\ beads[b].attempt = 0
  BY <1>1 DEF Absent
<1>3. Waiting = {}
  BY <1>2 DEF Waiting, CanClaim
<1>4. By = [b \in Bead |-> None]
  BY <1>2 DEF By
<1>5. \A b \in Bead : [n \in 1..beads[b].attempt |-> HandedTo(b, n)] = <<>>
  BY <1>2
<1>6. Log = [b \in Bead |-> <<>>]
  BY <1>5 DEF Log
<1> QED
  BY <1>3, <1>4, <1>6 DEF Store!Init, Waiting, By, Log

LEMMA StoreClaims ==
  ASSUME IInv, NEW a \in Agent, NEW b \in Bead, Claim(a, b)
  PROVE  Store!HandOut(b, a)
<1>1. beads' = [beads EXCEPT ![b] = Claimed(beads[b], a)] /\ beads[b] \in Task
  BY DEF Claim, IInv, TypeOK
<1>2. beads'[b] = Claimed(beads[b], a) /\ \A x \in Bead \ {b} : beads'[x] = beads[x]
  BY <1>1 DEF IInv, TypeOK
<1>3. beads'[b].status = "in_progress" /\ beads'[b].holder = a
  BY <1>1, <1>2, ClaimedTyping DEF Claim
<1>4. CanClaim(beads[b]) /\ beads[b].status = "pending" /\ a \in Capable[b]
  BY DEF Claim, CanClaim
<1>5. Waiting' = Waiting \ {b} /\ b \in Waiting
  <2>1. \A x \in Bead : x \in Waiting' <=> CanClaim(beads'[x])
    BY DEF Waiting, CanClaim, LeaseActive
  <2>2. ~ CanClaim(beads'[b])
    BY <1>3 DEF CanClaim
  <2>3. \A x \in Waiting' \cup Waiting : x \in Bead
    BY DEF Waiting
  <2> QED
    BY <1>2, <1>4, <2>1, <2>2, <2>3 DEF Waiting
<1>6. By' = [By EXCEPT ![b] = a] /\ By[b] = None
  BY <1>2, <1>3, <1>4 DEF By
<1>7. Log' = [Log EXCEPT ![b] = Append(@, a)]
  <2>1. PICK k \in Nat : k = beads[b].attempt
    BY StoreAssumption, <1>1 DEF StoreAssumption, Task
  <2> DEFINE s == [n \in 1..k |-> HandedTo(b, n)]
  <2>2. /\ beads'[b].attempt = k + 1 /\ HandedTo(b, k + 1)' = a
        /\ \A x \in Bead : \A n \in 1..beads[x].attempt : HandedTo(x, n)' = HandedTo(x, n)
    BY <2>1, ClaimExtends
  <2>3. s \in Seq(Agent) /\ Len(s) = k
    <3>1. \A n \in 1..k : HandedTo(b, n) \in Agent
      BY <2>1, HandedToOne
    <3>2. s \in [1..k -> Agent]
      BY <3>1
    <3> QED
      BY <2>1, <3>2
  <2>4. Append(s, a) = [n \in 1..(k + 1) |-> IF n = k + 1 THEN a ELSE s[n]]
    BY <2>1, <2>3
  <2>5. \A n \in 1..(k + 1) : n # k + 1 => n \in 1..k
    BY <2>1
  <2>6. ASSUME NEW n \in 1..(k + 1)
        PROVE  HandedTo(b, n)' = IF n = k + 1 THEN a ELSE s[n]
    <3>1. CASE n = k + 1
      BY <2>2, <3>1
    <3>2. CASE n # k + 1
      BY <2>1, <2>2, <2>5, <3>2
    <3> QED
      BY <3>1, <3>2
  <2>7. [n \in 1..beads'[b].attempt |-> HandedTo(b, n)'] = Append(s, a)
    <3> HIDE DEF s
    <3> QED
      BY <2>2, <2>4, <2>6
  <2>8. \A x \in Bead \ {b} : [n \in 1..beads'[x].attempt |-> HandedTo(x, n)'] =
                              [n \in 1..beads[x].attempt |-> HandedTo(x, n)]
    BY <1>2, <2>2
  <2>9. Log' = [x \in Bead |-> [n \in 1..beads'[x].attempt |-> HandedTo(x, n)']]
    BY DEF Log
  <2>10. Log[b] = s
    BY <2>1 DEF Log
  <2> HIDE DEF s
  <2>11. \A x \in Bead : Log'[x] = IF x = b THEN Append(Log[b], a) ELSE Log[x]
    BY <2>7, <2>8, <2>9, <2>10 DEF Log
  <2> QED
    BY <2>9, <2>11 DEF Log
<1> QED
  BY <1>4, <1>5, <1>6, <1>7 DEF Store!HandOut, Waiting, By, Log

LEMMA StoreMoves ==
  ASSUME IInv, NEW b \in Bead, NEW t \in Task,
         beads' = [beads EXCEPT ![b] = t], UNCHANGED handed,
         t.attempt = beads[b].attempt,
         t.status = "in_progress" =>
           beads[b].status = "in_progress" /\ t.holder = beads[b].holder
  PROVE  Store!ComeBack(b) \/ Store!Turn(b)
<1>1. beads'[b] = t /\ \A x \in Bead \ {b} : beads'[x] = beads[x]
  BY DEF IInv, TypeOK
<1>2. Waiting' \ {b} = Waiting \ {b}
  BY <1>1 DEF Waiting, CanClaim, LeaseActive
<1>3. Log' = Log
  <2>1. \A x \in Bead : beads'[x].attempt = beads[x].attempt
    BY <1>1
  <2> QED
    BY <2>1 DEF Log, HandedTo
<1>4. CASE By[b] # None /\ t.status # "in_progress"
  <2>1. \A x \in Bead : By'[x] = IF x = b THEN None ELSE By[x]
    BY <1>1, <1>4 DEF By
  <2>2. By' = [x \in Bead |-> By'[x]]
    BY DEF By
  <2>3. By' = [By EXCEPT ![b] = None]
    BY <2>1, <2>2 DEF By
  <2> QED
    BY <1>2, <1>3, <1>4, <2>3 DEF Store!ComeBack, Store!OthersWait, Waiting, By, Log
<1>5. CASE By[b] = None \/ t.status = "in_progress"
  <2>1. By' = By
    BY <1>1, <1>5 DEF By
  <2>2. b \in Waiting' => By[b] = None
    BY <1>1, <1>5 DEF Waiting, CanClaim
  <2> QED
    BY <1>2, <1>3, <2>1, <2>2 DEF Store!Turn, Store!OthersWait, Waiting, By, Log
<1> QED
  BY <1>4, <1>5

\* The store implements Custody, for any number of beads, agents and calls in
\* flight: with every read before the lock, reap, auth release and edit in
\* between, a bead is handed out from waiting alone and comes back in between.
THEOREM StoreImplementsCustody == Spec => ImplementsCustody
<1> DEFINE view == <<{b \in Bead : CanClaim(beads[b])},
                     [b \in Bead |-> IF beads[b].status = "in_progress" THEN beads[b].holder
                                                                       ELSE None],
                     [b \in Bead |-> [n \in 1..beads[b].attempt |-> HandedTo(b, n)]]>>
<1>1. UNCHANGED <<beads, handed>> => UNCHANGED view
  BY DEF CanClaim, LeaseActive, HandedTo
<1>2. IInv /\ [Next]_vars => [Store!Next]_view
  BY <1>1, HandsChange, StoreClaims, StoreMoves DEF Store!Next
<1> QED
  BY <1>2, StoreInit, Invariance, PTL DEF Spec, ImplementsCustody, Store!Spec

-----------------------------------------------------------------------------
(* Who reports what (CallsAreGraded), over the invariant above.             *)

\* A filed bead changes hands only by a claim, which takes an attempt.
Keeps(b) ==
  beads[b].status # "absent" =>
    \/ beads'[b].attempt > beads[b].attempt
    \/ beads'[b].attempt = beads[b].attempt /\ beads'[b].agent = beads[b].agent

\* A step leaves a call alone, or takes it somewhere it is graded.
GradedStep(c) ==
  \/ calls'[c] = calls[c]
  \/ calls'[c].phase \notin {"gate", "write"}
  \/ calls'[c].verb \notin Fenced
  \/ beads' = beads /\ Graded(calls'[c])

LEMMA GradingKept ==
  ASSUME IInv, IInv', CallsAreGraded, \A b \in Bead : Keeps(b), \A c \in Call : GradedStep(c)
  PROVE  CallsAreGraded'
<1> SUFFICES ASSUME NEW c \in Call PROVE Graded(calls[c])'
  BY DEF CallsAreGraded
<1>1. CASE calls'[c].phase \notin {"gate", "write"} \/ calls'[c].verb \notin Fenced
  BY <1>1 DEF Graded
<1>2. CASE beads' = beads /\ Graded(calls'[c])
  BY <1>2 DEF Graded
<1>3. CASE calls'[c] = calls[c] /\ calls[c].phase \in {"gate", "write"}
  <2> DEFINE b == calls[c].bead
  <2>1. b \in Bead /\ beads[b].status # "absent" /\ calls[c] \in Request /\ beads[b] \in Task
    BY <1>3, InFlight
  <2>2. beads'[b] \in Task
    BY <2>1 DEF IInv, TypeOK
  <2>3. beads[b].attempt \in Nat /\ beads'[b].attempt \in Nat /\ calls[c].fence \in Nat
    BY <2>1, <2>2, StoreAssumption DEF Task, Request
  <2>4. Graded(calls[c]) /\ Keeps(b)
    BY <2>1 DEF CallsAreGraded
  <2>5. CASE beads'[b].attempt > beads[b].attempt
    <3>1. calls[c].verb \in Fenced => calls[c].fence <= beads[b].attempt
      BY <1>3, <2>4 DEF Graded
    <3> HIDE DEF b
    <3>2. calls[c].verb \in Fenced => calls[c].fence < beads'[b].attempt
      BY <2>3, <2>5, <3>1
    <3>3. calls[c].verb \in Fenced =>
            calls[c].fence <= beads'[b].attempt /\ calls[c].fence # beads'[b].attempt
      BY <2>3, <3>2
    <3> QED
      BY <1>3, <3>3 DEF Graded, b
  <2>6. CASE beads'[b].attempt = beads[b].attempt /\ beads'[b].agent = beads[b].agent
    BY <1>3, <2>4, <2>6 DEF Graded
  <2> QED
    BY <2>1, <2>4, <2>5, <2>6 DEF Keeps
<1> QED
  BY <1>1, <1>2, <1>3 DEF GradedStep

LEMMA OneCallMoves ==
  ASSUME IInv, NEW c \in Call, NEW r \in Request, calls' = [calls EXCEPT ![c] = r],
         \/ r.phase \notin {"gate", "write"}
         \/ r.verb \notin Fenced
         \/ beads' = beads /\ Graded(r)
  PROVE  \A d \in Call : GradedStep(d)
<1>1. calls'[c] = r /\ \A d \in Call \ {c} : calls'[d] = calls[d]
  BY DEF IInv, TypeOK
<1> QED
  BY <1>1 DEF GradedStep

LEMMA BeadsKeep ==
  ASSUME IInv, [Next]_vars PROVE \A b \in Bead : Keeps(b)
<1>1. CASE beads' = beads
  BY <1>1 DEF Keeps
<1>2. ASSUME NEW x \in Bead, NEW t \in Task, beads' = [beads EXCEPT ![x] = t],
             \/ beads[x].status = "absent"
             \/ t.attempt = beads[x].attempt /\ t.agent = beads[x].agent
             \/ t.attempt > beads[x].attempt
      PROVE  \A b \in Bead : Keeps(b)
  <2>1. beads'[x] = t /\ \A b \in Bead \ {x} : beads'[b] = beads[b]
    BY <1>2 DEF IInv, TypeOK
  <2> QED
    BY <1>2, <2>1 DEF Keeps
<1>3. ASSUME NEW b \in Bead, Create(b) PROVE \A x \in Bead : Keeps(x)
  <2>1. PICK f \in Filing : beads' = [beads EXCEPT ![b] = Filed(f)]
    BY <1>3 DEF Create
  <2> QED
    BY <1>2, <1>3, <2>1, FiledTyping DEF Create
<1>4. ASSUME NEW b \in Bead, Expire(b) PROVE \A x \in Bead : Keeps(x)
  <2> DEFINE t == [beads[b] EXCEPT !.expiry = "past"]
  <2>1. t \in Task /\ t.attempt = beads[b].attempt /\ t.agent = beads[b].agent
    BY DEF IInv, TypeOK, Task
  <2>2. beads' = [beads EXCEPT ![b] = t]
    BY <1>4 DEF Expire
  <2> HIDE DEF t
  <2> QED
    BY <1>2, <2>1, <2>2
<1>5. ASSUME NEW a \in Agent, NEW b \in Bead, Claim(a, b) PROVE \A x \in Bead : Keeps(x)
  <2> DEFINE t == Claimed(beads[b], a)
  <2>1. beads[b] \in Task /\ beads[b].attempt < MaxAttempt
    BY <1>5 DEF IInv, TypeOK, Claim
  <2>2. t \in Task /\ t.attempt = beads[b].attempt + 1
    BY <2>1, ClaimedTyping
  <2>3. beads[b].attempt \in Nat
    BY <2>1, StoreAssumption DEF Task
  <2>4. beads' = [beads EXCEPT ![b] = t]
    BY <1>5 DEF Claim
  <2> HIDE DEF t
  <2>5. t.attempt > beads[b].attempt
    BY <2>2, <2>3
  <2> QED
    BY <1>2, <2>2, <2>4, <2>5
<1>6. ASSUME NEW g \in handed, AuthRelease(g) PROVE \A x \in Bead : Keeps(x)
  <2> DEFINE b == g.bead
             t == Released(beads[b])
  <2>1. b \in Bead /\ beads[b] \in Task
    BY DEF IInv, TypeOK, Grant
  <2>2. t \in Task /\ t.attempt = beads[b].attempt /\ t.agent = beads[b].agent
    BY <2>1 DEF Released, Task, Status
  <2>3. beads' = [beads EXCEPT ![b] = t]
    BY <1>6 DEF AuthRelease
  <2> HIDE DEF b, t
  <2> QED
    BY <1>2, <2>1, <2>2, <2>3
<1>7. ASSUME NEW c \in Call, NEW b \in Bead, Open(c, b) PROVE \A x \in Bead : Keeps(x)
  <2>1. CASE CreateRca(c, b)
    <3>1. PICK a \in SelfReporting :
            beads' = [beads EXCEPT ![b] = [Absent EXCEPT !.status = "pending", !.agent = a]]
      BY <2>1 DEF CreateRca
    <3> DEFINE t == [Absent EXCEPT !.status = "pending", !.agent = a]
    <3>2. t \in Task
      BY StoreAssumption, RecordTyping DEF StoreAssumption, Task, Status
    <3>3. beads' = [beads EXCEPT ![b] = t]
      BY <3>1
    <3> HIDE DEF t
    <3> QED
      BY <1>2, <2>1, <3>2, <3>3 DEF CreateRca
  <2>2. CASE ~CreateRca(c, b)
    <3>1. beads' = beads
      BY <1>7, <2>2 DEF Open, Close, ReapRead, Complete, ApproveVerify, RejectVerify, Cancel,
                        Retire, Decline, Approve, Retry, Annotate, Start
    <3> QED
      BY <1>1, <3>1
  <2> QED
    BY <2>1, <2>2
<1>8. ASSUME NEW c \in Call, NEW g \in handed, Deliver(c, g) PROVE \A x \in Bead : Keeps(x)
  BY <1>1, <1>8 DEF Deliver, Report, Complete
<1>9. ASSUME NEW c \in Call, Proceed(c) PROVE \A x \in Bead : Keeps(x)
  <2>1. CASE CompleteAdopt(c)
    <3> DEFINE b == calls[c].bead
               t == [beads[b] EXCEPT !.owner = calls[c].who]
    <3>1. calls[c] \in Request /\ b \in Bead /\ beads[b] \in Task
      BY <2>1, InFlight DEF CompleteAdopt
    <3>2. t \in Task
      BY <3>1 DEF Task, Request
    <3>3. t.attempt = beads[b].attempt /\ t.agent = beads[b].agent
      BY <3>1 DEF Task
    <3>4. beads' = [beads EXCEPT ![b] = t]
      BY <2>1 DEF CompleteAdopt
    <3> HIDE DEF b, t
    <3> QED
      BY <1>2, <3>1, <3>2, <3>3, <3>4
  <2>2. CASE Land(c)
    <3> DEFINE b == calls[c].bead
               t == Written(beads[b], calls[c])
    <3>1. /\ b \in Bead /\ t \in Task /\ t.attempt = beads[b].attempt
          /\ beads[b] \in Task
      BY <2>2, InFlight, WrittenTyping DEF Land
    <3>2. t.agent = beads[b].agent
      BY <3>1 DEF Written, Task
    <3>3. beads' = [beads EXCEPT ![b] = t]
      BY <2>2 DEF Land
    <3> HIDE DEF b, t
    <3> QED
      BY <1>2, <3>1, <3>2, <3>3
  <2>3. CASE ~CompleteAdopt(c) /\ ~Land(c)
    BY <1>1, <1>9, <2>3 DEF Proceed, CompleteRead, GateAttested, GateChecked, GateAbsent,
                            SkipConsulted, Refuse
  <2> QED
    BY <2>1, <2>2, <2>3
<1>10. CASE UNCHANGED vars
  BY <1>1, <1>10 DEF vars
<1> QED
  BY <1>3, <1>4, <1>5, <1>6, <1>7, <1>8, <1>9, <1>10 DEF Next

LEMMA OpenGraded ==
  ASSUME IInv, NEW c \in Call, NEW b \in Bead, Open(c, b)
  PROVE  \A d \in Call : GradedStep(d)
<1>1. NoCall \in Request
  BY RecordTyping
<1>2. calls'[c].phase \notin {"gate", "write"} \/ calls'[c].verb \notin Fenced
  <2> USE <1>1 DEF Request
  <2>0. c \in DOMAIN calls
    BY DEF IInv, TypeOK
  <2>1. CASE CreateRca(c, b) \/ Close(c, b) \/ ReapRead(c, b) \/ Retry(c, b)
    BY <2>0, <2>1 DEF CreateRca, Close, ReapRead, Retry, Fenced
  <2>2. CASE \E p \in Person : Complete(c, b, p, 0)
    BY <2>0, <2>2 DEF Complete
  <2>3. CASE \E v \in Verifier : ApproveVerify(c, v, b)
    BY <2>0, <2>3 DEF ApproveVerify, Fenced
  <2>4. ASSUME NEW verb \in AllVerb \ Fenced, NEW to, NEW m, Start(c, verb, b, to, m)
        PROVE  calls'[c].verb \notin Fenced
    BY <2>0, <2>4 DEF Start
  <2>5. \A verb \in {"reject_verify", "retire", "cancel", "decline", "approve", "annotate"} :
          verb \in AllVerb \ Fenced
    BY DEF AllVerb, Fenced
  <2>6. CASE \/ \E v \in Verifier : RejectVerify(c, v, b)
             \/ \E p \in Actor : Cancel(c, p, b)
             \/ Retire(c, b)
             \/ Decline(c, b)
             \/ Approve(c, b)
             \/ Annotate(c, b)
    BY <2>4, <2>5, <2>6 DEF RejectVerify, Cancel, Retire, Decline, Approve, Annotate
  <2> QED
    BY <2>1, <2>2, <2>3, <2>6 DEF Open
<1>3. \A d \in Call \ {c} : calls'[d] = calls[d]
  BY DEF IInv, TypeOK, Open, CreateRca, Close, ReapRead, Complete, ApproveVerify, RejectVerify,
         Cancel, Retire, Decline, Approve, Retry, Annotate, Start
<1> QED
  BY <1>2, <1>3 DEF GradedStep

\* A completion is built with the attempt its bead is on, or an earlier one.
LEMMA ReportGraded ==
  ASSUME NEW b \in Bead, NEW t \in Task, NEW to \in {"done", "failed"}, t = beads[b],
         NEW fence \in 0..MaxAttempt, NEW grant \in 0..MaxAttempt, NEW key \in 0..MaxAttempt,
         NEW verb \in Fenced, fence <= t.attempt
  PROVE  /\ [ReportCall(b, t, to, fence, grant, key) EXCEPT !.verb = verb] \in Request
         /\ Graded([ReportCall(b, t, to, fence, grant, key) EXCEPT !.verb = verb])
<1> DEFINE s == ReportCall(b, t, to, fence, grant, key)
           r == [s EXCEPT !.verb = verb]
<1>1. s \in Request /\ s.bead = b /\ s.to = to /\ s.phase = PhaseFor(to)
  BY ReportTyping
<1>2. s.fence = fence
  BY RecordTyping DEF ReportCall, Request
<1> HIDE DEF s
<1>3. r \in Request /\ r.bead = b /\ r.to = to /\ r.phase = PhaseFor(to) /\ r.fence = fence
  BY <1>1, <1>2 DEF Request, Fenced, AllVerb
<1> HIDE DEF r
<1>4. Graded(r)
  BY <1>3 DEF Graded, PhaseFor, Consulted
<1> QED
  BY <1>3, <1>4 DEF r, s

LEMMA DeliverGraded ==
  ASSUME IInv, NEW c \in Call, NEW g \in handed, Deliver(c, g)
  PROVE  \A d \in Call : GradedStep(d)
<1>1. g.bead \in Bead /\ g.attempt \in 1..MaxAttempt /\ g.attempt <= beads[g.bead].attempt
      /\ beads[g.bead] \in Task /\ NoCall \in Request /\ c \in DOMAIN calls
  BY RecordTyping DEF IInv, TypeOK, Grant, EveryHandoutHasItsAttempt
<1>2. CASE \E keyed \in BOOLEAN : Report(c, g, keyed)
  <2>1. PICK keyed \in BOOLEAN : Report(c, g, keyed)
    BY <1>2
  <2> DEFINE t == beads[g.bead]
             key == IF keyed THEN g.attempt ELSE 0
  <2>2. key \in 0..MaxAttempt /\ g.attempt \in 0..MaxAttempt
    BY <1>1, StoreAssumption DEF StoreAssumption
  <2>3. PICK to \in {"done", "failed"} :
          calls' = [calls EXCEPT ![c] = ReportCall(g.bead, t, to, g.attempt, g.attempt, key)]
    BY <2>1 DEF Report
  <2>4. beads' = beads
    BY <2>1 DEF Report
  <2> HIDE DEF key
  <2> DEFINE s == ReportCall(g.bead, t, to, g.attempt, g.attempt, key)
  <2>5. s \in Request /\ s.verb = "report"
    <3>1. s \in Request
      BY <1>1, <2>2, ReportTyping
    <3>2. s.verb = "report"
      BY <1>1 DEF ReportCall, Request
    <3> QED
      BY <3>1, <3>2
  <2>6. [s EXCEPT !.verb = "report"] \in Request /\ Graded([s EXCEPT !.verb = "report"])
    BY <1>1, <2>2, ReportGraded, "report" \in Fenced DEF Fenced
  <2>7. calls' = [calls EXCEPT ![c] = s]
    BY <2>3
  <2> HIDE DEF s
  <2>8. [s EXCEPT !.verb = "report"] = s
    BY <2>5 DEF Request
  <2>9. Graded(s)
    BY <2>6, <2>8
  <2> QED
    BY <2>4, <2>5, <2>7, <2>9, OneCallMoves
<1>3. CASE Complete(c, g.bead, g.agent, g.attempt)
  <2> DEFINE ph == IF RecordedExecutor(beads[g.bead]) = None THEN "adopt" ELSE "reread"
             r == [NoCall EXCEPT !.verb = "complete", !.bead = g.bead, !.who = g.agent,
                                 !.grant = g.attempt, !.phase = ph]
  <2>1. calls' = [calls EXCEPT ![c] = r]
    BY <1>3 DEF Complete
  <2>2. ph \in {"adopt", "reread"}
    OBVIOUS
  <2> HIDE DEF ph
  <2>3. r.phase = ph
    BY <1>1 DEF Request
  <2> HIDE DEF r
  <2>4. calls'[c].phase \notin {"gate", "write"}
    BY <1>1, <2>1, <2>2, <2>3
  <2>5. \A d \in Call \ {c} : calls'[d] = calls[d]
    BY <2>1 DEF IInv, TypeOK
  <2> QED
    BY <2>4, <2>5 DEF GradedStep
<1> QED
  BY <1>2, <1>3 DEF Deliver

\* The gate's own look at the bead: what it leaves a completion as.
LEMMA StampGraded ==
  ASSUME IInv, CallsAreGraded, NEW c \in Call, calls[c].phase = "gate",
         NEW to \in {"done", "awaiting_verify", "verify_failed"},
         NEW by \in Actor \cup {None}, NEW passed \in {"yes", "no", "parked"},
         to = "done" /\ PinnedGate(c) = None => KindOf[calls[c].bead] # "agent",
         Stamp(c, to, by, passed), UNCHANGED <<beads, handed>>
  PROVE  \A d \in Call : GradedStep(d)
<1> DEFINE g == PinnedGate(c)
           approval == IF by = None THEN Carried(c).approval ELSE by
           m == [Carried(c) EXCEPT !.approval = approval,
                                   !.verdict = [gate |-> g, passed |-> passed]]
           r == [calls[c] EXCEPT !.phase = "write", !.to = to, !.writes = TRUE,
                                 !.read = g, !.meta = m]
<1>1. calls[c] \in Request /\ Graded(calls[c])
  BY InFlight DEF CallsAreGraded
<1>2. calls' = [calls EXCEPT ![c] = r] /\ beads' = beads
  BY DEF Stamp
<1> HIDE DEF m, g
<1>3. /\ r.phase = "write" /\ r.to = to /\ r.read = g /\ r.bead = calls[c].bead
      /\ r.verb = calls[c].verb /\ r.fence = calls[c].fence
  BY <1>1 DEF Request
<1> HIDE DEF r
<1>4. Graded(r)
  BY <1>1, <1>3 DEF Graded, g
<1>5. calls'[c] = r /\ \A d \in Call \ {c} : calls'[d] = calls[d]
  BY <1>2 DEF IInv, TypeOK
<1> QED
  BY <1>2, <1>4, <1>5 DEF GradedStep

LEMMA ProceedGraded ==
  ASSUME IInv, CallsAreGraded, NEW c \in Call, Proceed(c)
  PROVE  \A d \in Call : GradedStep(d)
<1>1. None \notin Gate /\ Verifier \subseteq Actor /\ NoCall \in Request
  BY StoreAssumption, RecordTyping DEF StoreAssumption, Gate
<1>2. CASE CompleteAdopt(c)
  <2> DEFINE r == [calls[c] EXCEPT !.phase = "reread"]
  <2>1. calls[c] \in Request
    BY <1>2, InFlight DEF CompleteAdopt
  <2>2. r \in Request /\ r.phase = "reread"
    BY <2>1 DEF Request
  <2>3. calls' = [calls EXCEPT ![c] = r]
    BY <1>2 DEF CompleteAdopt
  <2> HIDE DEF r
  <2> QED
    BY <2>2, <2>3, OneCallMoves
<1>3. CASE CompleteRead(c)
  <2> DEFINE b == calls[c].bead
             t == beads[b]
             key == 0
             r == [ReportCall(b, t, "done", t.attempt, calls[c].grant, key)
                     EXCEPT !.verb = "complete"]
  <2>1. calls[c] \in Request /\ b \in Bead /\ t \in Task
    BY <1>3, InFlight DEF CompleteRead
  <2>2. /\ t.attempt \in 0..MaxAttempt /\ calls[c].grant \in 0..MaxAttempt
        /\ key \in 0..MaxAttempt /\ t.attempt <= t.attempt
    BY <2>1, StoreAssumption DEF StoreAssumption, Task, Request
  <2>3. calls' = [calls EXCEPT ![c] = r] /\ beads' = beads
    BY <1>3 DEF CompleteRead
  <2> HIDE DEF key
  <2>4. r \in Request /\ Graded(r)
    BY <2>1, <2>2, ReportGraded, "complete" \in Fenced DEF Fenced
  <2> HIDE DEF r
  <2> QED
    BY <2>3, <2>4, OneCallMoves
<1>4. CASE GateAttested(c)
  <2>1. calls[c].phase = "gate" /\ UNCHANGED <<beads, handed>> /\ PinnedGate(c) # None
    BY <1>1, <1>4 DEF GateAttested, Grading, Gate
  <2>2. CASE AnswersGate(beads[calls[c].bead], calls[c].attest)
    <3>1. calls[c].attest \in Actor /\ Stamp(c, "done", calls[c].attest, "yes")
      BY <1>1, <1>4, <2>2 DEF GateAttested, AnswersGate
    <3> QED
      BY <2>1, <3>1, StampGraded
  <2>3. CASE ~AnswersGate(beads[calls[c].bead], calls[c].attest)
    <3>1. Stamp(c, "awaiting_verify", None, "parked")
      BY <1>4, <2>3 DEF GateAttested
    <3> QED
      BY <2>1, <3>1, StampGraded
  <2> QED
    BY <2>2, <2>3
<1>5. CASE GateChecked(c)
  <2>1. calls[c].phase = "gate" /\ UNCHANGED <<beads, handed>> /\ PinnedGate(c) # None
    BY <1>1, <1>5 DEF GateChecked, Grading, Gate
  <2>2. Stamp(c, "done", None, "yes") \/ Stamp(c, "verify_failed", None, "no")
    BY <1>5 DEF GateChecked
  <2> QED
    BY <2>1, <2>2, StampGraded
<1>6. CASE GateAbsent(c)
  <2> DEFINE b == calls[c].bead
  <2>1. /\ calls[c].phase = "gate" /\ calls[c].to = "done" /\ PinnedGate(c) = None
        /\ UNCHANGED <<beads, handed>>
    BY <1>6 DEF GateAbsent, Grading
  <2>2. calls[c] \in Request /\ Graded(calls[c])
    BY <2>1, InFlight DEF CallsAreGraded
  <2>3. CASE /\ SpeclessClass(b, beads[b]) = "none"
             /\ calls' = [calls EXCEPT ![c].phase = "write", ![c].read = None]
    <3> DEFINE r == [calls[c] EXCEPT !.phase = "write", !.read = None]
    <3>1. /\ r.phase = "write" /\ r.bead = b /\ r.verb = calls[c].verb
          /\ r.fence = calls[c].fence /\ r \in Request
      BY <2>2 DEF Request
    <3>2. calls' = [calls EXCEPT ![c] = r]
      BY <2>3
    <3> HIDE DEF r
    <3>3. KindOf[b] = "agent" => beads[b].agent \notin SelfReporting
      BY <2>3 DEF SpeclessClass
    <3>4. Graded(r)
      BY <2>1, <2>2, <3>1, <3>3 DEF Graded
    <3> QED
      BY <2>1, <3>1, <3>2, <3>4, OneCallMoves
  <2>4. CASE SpeclessClass(b, beads[b]) = "unverified" /\ Stamp(c, "done", None, "parked")
    <3>1. KindOf[b] # "agent"
      BY <2>4 DEF SpeclessClass
    <3> QED
      BY <2>1, <2>4, <3>1, StampGraded
  <2>5. CASE Stamp(c, "awaiting_verify", None, "parked")
    BY <2>1, <2>5, StampGraded
  <2> QED
    BY <1>6, <2>3, <2>4, <2>5 DEF GateAbsent
<1>7. CASE SkipConsulted(c)
  <2>1. calls[c] \in Request /\ calls[c].phase = "gate" /\ calls[c].to = "skipped"
        /\ Graded(calls[c]) /\ beads' = beads
    BY <1>7, InFlight DEF SkipConsulted, CallsAreGraded
  <2> DEFINE r == IF PinnedGate(c) = None THEN [calls[c] EXCEPT !.phase = "write"] ELSE NoCall
  <2>2. calls' = [calls EXCEPT ![c] = r]
    BY <1>7 DEF SkipConsulted
  <2>3. CASE PinnedGate(c) = None
    <3>1. /\ r \in Request /\ r.to = "skipped" /\ r.bead = calls[c].bead
          /\ r.verb = calls[c].verb /\ r.fence = calls[c].fence
      BY <2>1, <2>3 DEF Request
    <3> HIDE DEF r
    <3>2. Graded(r)
      BY <2>1, <3>1 DEF Graded
    <3> QED
      BY <2>1, <2>2, <3>1, <3>2, OneCallMoves
  <2>4. CASE PinnedGate(c) # None
    <3>1. r = NoCall /\ NoCall.phase = "idle"
      BY <2>4 DEF NoCall
    <3> HIDE DEF r
    <3> QED
      BY <1>1, <2>2, <3>1, OneCallMoves
  <2> QED
    BY <2>3, <2>4
<1>8. CASE Land(c) \/ Refuse(c)
  <2>1. calls' = [calls EXCEPT ![c] = NoCall] /\ NoCall.phase = "idle"
    BY <1>8 DEF Land, Refuse, NoCall
  <2> QED
    BY <1>1, <2>1, OneCallMoves
<1> QED
  BY <1>2, <1>3, <1>4, <1>5, <1>6, <1>7, <1>8 DEF Proceed

\* However calls overlap, a completion at the lock is graded by the executor
\* whose attempt it carries.
THEOREM GradesFollowAttempts == Spec => []CallsAreGraded
<1>1. Init => CallsAreGraded
  BY DEF Init, CallsAreGraded, Graded, NoCall
<1>2. IInv /\ IInv' /\ CallsAreGraded /\ [Next]_vars => CallsAreGraded'
  <2> SUFFICES ASSUME IInv, IInv', CallsAreGraded, [Next]_vars PROVE CallsAreGraded'
    OBVIOUS
  <2>1. ASSUME \A d \in Call : GradedStep(d) PROVE CallsAreGraded'
    BY <2>1, BeadsKeep, GradingKept
  <2>2. ASSUME calls' = calls PROVE CallsAreGraded'
    BY <2>1, <2>2 DEF GradedStep
  <2>3. CASE \E b \in Bead : Create(b) \/ Expire(b)
    BY <2>2, <2>3 DEF Create, Expire
  <2>4. CASE \E a \in Agent, b \in Bead : Claim(a, b)
    BY <2>2, <2>4 DEF Claim
  <2>5. CASE \E g \in handed : AuthRelease(g)
    BY <2>2, <2>5 DEF AuthRelease
  <2>6. CASE \E c \in Call, b \in Bead : Open(c, b)
    BY <2>1, <2>6, OpenGraded
  <2>7. CASE \E c \in Call, g \in handed : Deliver(c, g)
    BY <2>1, <2>7, DeliverGraded
  <2>8. CASE \E c \in Call : Proceed(c)
    BY <2>1, <2>8, ProceedGraded
  <2>9. CASE UNCHANGED vars
    BY <2>2, <2>9 DEF vars
  <2> QED
    BY <2>3, <2>4, <2>5, <2>6, <2>7, <2>8, <2>9 DEF Next
<1> QED
  BY <1>1, <1>2, Invariance, PTL DEF Spec

\* _classify_specless_done against claims in between: agent-class work with
\* no gate is never DONE by the word of an executor that reports itself.
THEOREM SelfReportsAreParked == Spec => SelfReportIsParked
<1>1. ASSUME IInv, CallsAreGraded, NEW c \in Call, calls[c].verb \in Fenced, Land(c),
             KindOf[calls[c].bead] = "agent", beads[calls[c].bead].agent \in SelfReporting,
             beads[calls[c].bead].meta.gate = None
      PROVE  beads'[calls[c].bead].status # "done"
  <2> DEFINE b == calls[c].bead
  <2>1. /\ calls[c] \in Request /\ Sound(calls[c]) /\ b \in Bead /\ beads[b] \in Task
        /\ Graded(calls[c]) /\ calls[c].phase = "write"
    BY <1>1, InFlight DEF Land, CallsAreGraded
  <2>2. beads[b].attempt = calls[c].fence /\ (calls[c].read = Unread \/ calls[c].read = None)
    BY <1>1 DEF Land, MayWrite, FenceHolds, GateStands
  <2>3. calls[c].to # "keep"
    BY <1>1, <2>1 DEF Sound, Releasing
  <2>4. calls[c].to # "done"
    BY <1>1, <2>1, <2>2 DEF Sound, Graded
  <2>5. Written(beads[b], calls[c]).status = calls[c].to
    BY <2>1, <2>3 DEF Written, Task
  <2>6. beads'[b] = Written(beads[b], calls[c])
    BY <1>1, <2>1 DEF Land, IInv, TypeOK
  <2> QED
    BY <2>4, <2>5, <2>6
<1>2. IInv /\ CallsAreGraded => [\A c \in Call : calls[c].verb \in Fenced /\ Land(c) =>
       LET b == calls[c].bead IN
       KindOf[b] = "agent" /\ beads[b].agent \in SelfReporting /\ beads[b].meta.gate = None
         => beads'[b].status # "done"]_vars
  BY <1>1
<1> QED
  BY <1>2, GradesFollowAttempts, Invariance, PTL DEF SelfReportIsParked
=============================================================================
