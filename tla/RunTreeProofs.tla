---------------------------- MODULE RunTreeProofs ----------------------------
(* Theorems about RunTree, for all procedures, bounds and interleavings.    *)
EXTENDS RunTree, TLAPS

-----------------------------------------------------------------------------
(* Typing of what the actions build.                                        *)

LEMMA RecordTyping == Absent \in Task /\ NoCall \in Request
  BY TreeAssumption DEF TreeAssumption, Absent, NoCall, Task, Request, Status, AllVerb, NoBead

LEMMA StackTyping ==
  ASSUME NEW s \in Seq(Frame), s # <<>>
  PROVE  /\ Last(s) \in Frame
         /\ Front(s) \in Seq(Frame)
         /\ \A i \in DOMAIN Front(s) : i \in DOMAIN s /\ Front(s)[i] = s[i]
         /\ Len(s) \in DOMAIN s /\ Last(s) = s[Len(s)]
         /\ Len(Front(s)) = Len(s) - 1
<1>1. Len(s) \in Nat \ {0} /\ DOMAIN s = 1..Len(s) /\ s \in [1..Len(s) -> Frame]
  BY SMT
<1>2. Len(s) \in DOMAIN s /\ Last(s) = s[Len(s)]
  BY <1>1 DEF Last
<1>3. Front(s) = SubSeq(s, 1, Len(s) - 1) /\ 1..(Len(s) - 1) \subseteq DOMAIN s
  BY <1>1 DEF Front
<1>4. /\ Front(s) \in Seq(Frame) /\ Len(Front(s)) = Len(s) - 1
      /\ \A i \in 1..(Len(s) - 1) : Front(s)[i] = s[i]
  BY <1>1, <1>3
<1> QED
  BY <1>1, <1>2, <1>3, <1>4

LEMMA PushTyping ==
  ASSUME NEW s \in Seq(Frame), NEW f \in Frame
  PROVE  /\ Append(s, f) \in Seq(Frame) /\ Append(s, f) # <<>>
         /\ \A i \in DOMAIN Append(s, f) :
              Append(s, f)[i] = f \/ (i \in DOMAIN s /\ Append(s, f)[i] = s[i])
<1>1. Append(s, f) \in Seq(Frame) /\ Len(Append(s, f)) = Len(s) + 1 /\ Len(s) \in Nat
  OBVIOUS
<1>2. Append(s, f) # <<>>
  BY <1>1
<1>3. \A i \in DOMAIN Append(s, f) : Append(s, f)[i] = f \/ (i \in DOMAIN s /\ Append(s, f)[i] = s[i])
  OBVIOUS
<1> QED
  BY <1>1, <1>2, <1>3

LEMMA NotedTyping ==
  ASSUME NEW s \in Seq(Frame), s # <<>>, NEW b \in Bead
  PROVE  /\ Noted(s, b) \in Seq(Frame)
         /\ DOMAIN Noted(s, b) = DOMAIN s /\ Noted(s, b) # <<>>
         /\ \A i \in DOMAIN s : Noted(s, b)[i].parent = s[i].parent
<1> DEFINE f == [Last(s) EXCEPT !.ids = Append(@, b)]
<1>1. f \in Frame /\ f.parent = Last(s).parent
  <2>1. Last(s) \in Frame
    BY StackTyping
  <2>2. Append(Last(s).ids, b) \in Seq(Bead)
    BY <2>1 DEF Frame
  <2> QED
    BY <2>1, <2>2 DEF Frame
<1>2. Noted(s, b) = Append(Front(s), f)
  BY DEF Noted
<1> HIDE DEF f
<1>3. /\ Front(s) \in Seq(Frame) /\ Len(Front(s)) = Len(s) - 1 /\ Last(s) = s[Len(s)]
      /\ \A i \in DOMAIN Front(s) : i \in DOMAIN s /\ Front(s)[i] = s[i]
      /\ Len(s) \in DOMAIN s
  BY StackTyping
<1>4. Noted(s, b) \in Seq(Frame) /\ Len(Noted(s, b)) = Len(s) /\ Noted(s, b) # <<>>
  BY <1>1, <1>2, <1>3, PushTyping
<1>5. DOMAIN Noted(s, b) = DOMAIN s
  BY <1>4
<1>6. ASSUME NEW i \in DOMAIN s PROVE Noted(s, b)[i].parent = s[i].parent
  <2>1. CASE i = Len(s)
    BY <1>1, <1>2, <1>3, <2>1
  <2>2. CASE i # Len(s)
    <3>1. i \in DOMAIN Front(s)
      BY <1>3, <2>2
    <3> QED
      BY <1>2, <1>3, <3>1
  <2> QED
    BY <2>1, <2>2
<1> QED
  BY <1>4, <1>5, <1>6

-----------------------------------------------------------------------------
(* Steps that leave the tree alone, and steps that rewrite one bead of it.  *)

LEMMA FiledAreBeads == TypeOK => Filed \subseteq Bead
  BY TreeAssumption DEF TreeAssumption, TypeOK, Filed, Bead

\* A bead nobody's agent owns may change at will; an agent's bead keeps what
\* it waits for, and is handed out only when that has been released.
LEMMA OneBeadRewritten ==
  ASSUME IInv, NEW b \in Bead, NEW t \in Task,
         t.owner = "agent" <=> beads[b].owner = "agent",
         t.owner = "agent" => /\ t.blockers = beads[b].blockers
                              /\ t.attempt = beads[b].attempt \/ t.blockers \subseteq released,
         beads' = [beads EXCEPT ![b] = t], filed' = filed, offered' \subseteq offered,
         released' \subseteq Bead, released \subseteq released',
         t.status = "done" => b \in released'
  PROVE  /\ beads' \in [Bead -> Task]
         /\ \A p \in Filed : beads'[p].owner = "agent" <=> beads[p].owner = "agent"
         /\ DoneIsReleased' /\ WorkInOrder' /\ OfferedInOrder'
<1>1. b \in Bead /\ Filed \subseteq Bead /\ beads \in [Bead -> Task]
  BY FiledAreBeads DEF IInv, TypeOK
<1>2. beads' \in [Bead -> Task]
  BY <1>1
<1>3. \A a \in Bead : beads'[a] = IF a = b THEN t ELSE beads[a]
  BY <1>1
<1>4. Filed' = Filed
  BY DEF Filed
<1>5. DoneIsReleased'
  BY <1>3 DEF IInv, DoneIsReleased, Done
<1>6. WorkInOrder'
  BY <1>1, <1>3, <1>4 DEF IInv, WorkInOrder
<1>7. OfferedInOrder'
  BY <1>1, <1>3, <1>4 DEF IInv, OfferedInOrder
<1> QED
  BY <1>1, <1>2, <1>3, <1>5, <1>6, <1>7

\* The same for a step of anyone but the filer.
LEMMA FilerWaits ==
  ASSUME IInv, filer' = filer, filed' = filed,
         \A p \in Filed : beads'[p].owner = "agent" <=> beads[p].owner = "agent"
  PROVE  FilerSound'
  BY DEF IInv, FilerSound, Filed

LEMMA BeadsWait ==
  ASSUME IInv, UNCHANGED <<beads, filed, released>>, offered' \subseteq offered
  PROVE  DoneIsReleased' /\ WorkInOrder' /\ OfferedInOrder'
  BY DEF IInv, DoneIsReleased, Done, WorkInOrder, OfferedInOrder, Filed

LEMMA CallsWait ==
  ASSUME IInv, filed' = filed,
         \A c \in Call : calls'[c] = calls[c] \/ calls'[c] = NoCall \/ calls'[c].bead \in Filed
  PROVE  CallsOnFiled'
  BY DEF IInv, CallsOnFiled, Filed, NoCall

-----------------------------------------------------------------------------
(* Filing.                                                                  *)

\* Appending a bead that has never been handed out.
LEMMA Appended ==
  ASSUME IInv, NEW t \in Task, t.attempt = 0, t.status = "pending", Append1(t)
  PROVE  /\ beads' \in [Bead -> Task] /\ filed' \in 0..MaxBead
         /\ filed + 1 \in Bead /\ filed + 1 \in Filed' /\ Filed \subseteq Filed'
         /\ beads'[filed + 1] = t /\ \A a \in Filed : beads'[a] = beads[a]
         /\ DoneIsReleased' /\ WorkInOrder' /\ OfferedInOrder' /\ CallsOnFiled'
<1> DEFINE n == filed + 1
<1>1. /\ n \in Bead /\ n \notin Filed /\ filed' = n /\ filed' \in 0..MaxBead
      /\ Filed' = Filed \cup {n} /\ Filed \subseteq Bead
  BY TreeAssumption DEF TreeAssumption, Append1, Filed, Bead, IInv, TypeOK
<1>2. /\ beads \in [Bead -> Task] /\ beads' = [beads EXCEPT ![n] = t]
      /\ UNCHANGED <<offered, calls, released, lost>>
  BY DEF Append1, IInv, TypeOK
<1>3. beads' \in [Bead -> Task] /\ \A a \in Bead : beads'[a] = IF a = n THEN t ELSE beads[a]
  BY <1>1, <1>2
<1>4. DoneIsReleased'
  BY <1>2, <1>3 DEF IInv, DoneIsReleased, Done
<1>5. WorkInOrder'
  BY <1>1, <1>2, <1>3 DEF IInv, WorkInOrder
<1>6. OfferedInOrder'
  BY <1>1, <1>2, <1>3 DEF IInv, OfferedInOrder
<1>7. CallsOnFiled'
  BY <1>1, <1>2 DEF IInv, CallsOnFiled
<1> QED
  BY <1>1, <1>3, <1>4, <1>5, <1>6, <1>7

\* The step the filer is at, and what it is after.
LEMMA StepTyping ==
  ASSUME IInv, Filing
  PROVE  /\ filer.stack \in Seq(Frame) /\ filer.stack # <<>>
         /\ Top \in Frame /\ Top.parent \in Bead
         /\ StepNow \in Step /\ Blockers(StepNow) \subseteq Bead
<1>1. filer.stack \in Seq(Frame) /\ filer.stack # <<>>
  BY DEF IInv, TypeOK, Filer, FilerSound, Filing
<1>2. Top \in Frame /\ Top.parent \in Bead
  BY <1>1, StackTyping DEF Top, Frame
<1>3. /\ Turn \in 1..Len(StepsOf[Top.of]) /\ DOMAIN Top.ids = 1..(Turn - 1)
      /\ StepsOf[Top.of] \in Seq(Step) /\ Top.of \in Procedure
  BY <1>2, TreeAssumption DEF TreeAssumption, Filing, Turn, Frame
<1>4. StepNow \in Step /\ StepNow.after \subseteq 1..(Turn - 1)
  BY <1>3, TreeAssumption DEF TreeAssumption, StepNow
<1>5. Blockers(StepNow) \subseteq Bead
  BY <1>2, <1>3, <1>4 DEF Blockers, Frame
<1> QED
  BY <1>1, <1>2, <1>4, <1>5

LEMMA StepBeadTyping ==
  ASSUME NEW s \in Step, Top.parent \in Bead, Blockers(s) \subseteq Bead
  PROVE  LET t == StepBead(s) IN
         /\ t \in Task /\ t.attempt = 0 /\ t.status = "pending" /\ t.owner = s.role
         /\ [t EXCEPT !.owner = "none", !.meta = {}] \in Task
<1>1. s.role \in {"none", "agent", "human"} /\ "pending" \in Status
  BY DEF Step, Status
<1>2. Top.parent \in 0..MaxBead /\ {"verify"} \in SUBSET Key /\ Blockers(s) \in SUBSET Bead
  BY TreeAssumption DEF TreeAssumption, Bead, Key
<1>3. 0 \in 0..MaxAttempt
  BY TreeAssumption DEF TreeAssumption
<1> QED
  BY <1>1, <1>2, <1>3 DEF Task, StepBead

-----------------------------------------------------------------------------
(* Each action keeps the invariant.                                         *)

LEMMA FilingKeepsIInv == IInv /\ File => IInv'
<1> SUFFICES ASSUME IInv, File PROVE IInv'
  OBVIOUS
<1> USE DEF Done
<1>0. /\ offered \subseteq Bead /\ work \subseteq Bead \X (1..MaxAttempt) /\ released \subseteq Bead
      /\ lost \subseteq Bead /\ calls \in [Call -> Request] /\ closing \in 0..MaxBead /\ filer \in Filer
      /\ beads \in [Bead -> Task] /\ filed \in 0..MaxBead
  BY DEF IInv, TypeOK
<1>1. ASSUME NEW t \in Task, t.attempt = 0, t.status = "pending", Append1(t),
             filer' \in Filer, FilerSound'
      PROVE  IInv'
  <2>1. UNCHANGED <<closing, offered, work, calls, released, lost>>
    BY <1>1 DEF Append1
  <2>2. TypeOK'
    BY <1>0, <1>1, <2>1, Appended DEF TypeOK
  <2> QED
    BY <1>1, <2>2, Appended DEF IInv
<1>2. ASSUME UNCHANGED <<beads, filed, closing, offered, work, calls, released, lost>>,
             filer' \in Filer, FilerSound'
      PROVE  IInv'
  <2>1. TypeOK'
    BY <1>0, <1>2 DEF TypeOK
  <2>2. CallsOnFiled'
    BY <1>2, CallsWait
  <2> QED
    BY <1>2, <2>1, <2>2, BeadsWait DEF IInv
<1>3. CASE StartRun
  <2> DEFINE t == [Absent EXCEPT !.status = "pending"]
  <2>1. t \in Task /\ t.attempt = 0 /\ t.status = "pending" /\ t.owner = "none"
    BY RecordTyping DEF Task, Status, Absent
  <2>2. PICK p \in Runnable : filer' = [Push(p, filed + 1) EXCEPT !.phase = "filing"]
    BY <1>3 DEF StartRun
  <2>3. Append1(t) /\ p \in Procedure
    BY <1>3, <2>2, TreeAssumption DEF StartRun, TreeAssumption
  <2>4. filed + 1 \in Bead /\ filed + 1 \in Filed' /\ beads'[filed + 1] = t
        /\ Filed \subseteq Filed' /\ \A a \in Filed : beads'[a] = beads[a]
    BY <2>1, <2>3, Appended
  <2> DEFINE f == [of |-> p, parent |-> filed + 1, ids |-> <<>>]
  <2> HIDE DEF t
  <2>5. f \in Frame
    BY <2>3, <2>4 DEF Frame
  <2>6. filer' = [phase |-> "filing", stack |-> Append(filer.stack, f)]
    BY <1>0, <2>2 DEF Push, Filer
  <2>7. f.parent = filed + 1
    OBVIOUS
  <2> HIDE DEF f
  <2>8. /\ filer.stack \in Seq(Frame) /\ filer' \in Filer
        /\ filer'.stack = Append(filer.stack, f)
    BY <1>0, <2>5, <2>6, PushTyping DEF Filer
  <2>9. FilerSound'
    BY <2>1, <2>4, <2>5, <2>7, <2>8, PushTyping DEF IInv, FilerSound
  <2> QED
    BY <1>1, <2>1, <2>3, <2>8, <2>9
<1>4. CASE FileStep
  <2>1. StepBead(StepNow) \in Task /\ StepBead(StepNow).attempt = 0
        /\ StepBead(StepNow).status = "pending"
    BY <1>4, StepTyping, StepBeadTyping DEF FileStep
  <2>2. Append1(StepBead(StepNow)) /\ filer.stack \in Seq(Frame) /\ filer.stack # <<>>
    BY <1>4, StepTyping DEF FileStep
  <2>3. filed + 1 \in Bead /\ Filed \subseteq Filed' /\ \A a \in Filed : beads'[a] = beads[a]
    BY <2>1, <2>2, Appended
  <2>4. filer' = [filer EXCEPT !.stack = Noted(@, filed + 1)]
    BY <1>4 DEF FileStep
  <2>5. /\ filer' \in Filer /\ filer'.stack = Noted(filer.stack, filed + 1)
    BY <1>0, <2>2, <2>3, <2>4, NotedTyping DEF Filer
  <2>6. FilerSound'
    BY <2>2, <2>3, <2>5, NotedTyping DEF IInv, FilerSound
  <2> QED
    BY <1>1, <2>1, <2>2, <2>5, <2>6
<1>5. CASE FileContainer
  <2> DEFINE t == [StepBead(StepNow) EXCEPT !.owner = "none", !.meta = {}]
             f == [of |-> StepNow.uses, parent |-> filed + 1, ids |-> <<>>]
  <2>1. t \in Task /\ t.attempt = 0 /\ t.status = "pending" /\ t.owner = "none"
    BY <1>5, StepTyping, StepBeadTyping DEF FileContainer, Task
  <2>2. Append1(t) /\ filer.stack \in Seq(Frame) /\ StepNow.uses \in Procedure
    BY <1>5, StepTyping, TreeAssumption DEF FileContainer, TreeAssumption
  <2>3. filed + 1 \in Bead /\ filed + 1 \in Filed' /\ beads'[filed + 1] = t
        /\ Filed \subseteq Filed' /\ \A a \in Filed : beads'[a] = beads[a]
    BY <2>1, <2>2, Appended
  <2> HIDE DEF t
  <2>4. filer' = [filer EXCEPT !.stack = Append(@, f)] /\ f \in Frame /\ f.parent = filed + 1
    BY <1>5, <2>2, <2>3 DEF FileContainer, Push, Frame
  <2> HIDE DEF f
  <2>5. filer' \in Filer /\ filer'.stack = Append(filer.stack, f)
    BY <1>0, <2>2, <2>4, PushTyping DEF Filer
  <2>6. FilerSound'
    BY <2>1, <2>2, <2>3, <2>4, <2>5, PushTyping DEF IInv, FilerSound
  <2> QED
    BY <1>1, <2>1, <2>2, <2>5, <2>6
<1>6. CASE RefuseInner \/ RefuseDepth
  <2>1. filer' = [phase |-> "refused", stack |-> <<>>]
        /\ UNCHANGED <<beads, filed, closing, offered, work, calls, released, lost>>
    BY <1>6 DEF RefuseInner, RefuseDepth, Refuse
  <2>2. filer' \in Filer /\ FilerSound'
    BY <2>1 DEF Filer, FilerSound
  <2> QED
    BY <1>2, <2>1, <2>2
<1>7. CASE BlockParent
  <2> DEFINE b == Top.parent
             t == [beads[b] EXCEPT !.blockers = {Top.ids[i] : i \in DOMAIN Top.ids}]
             s == Front(filer.stack)
  <2>1. filer.stack \in Seq(Frame) /\ filer.stack # <<>> /\ Top \in Frame
        /\ Len(filer.stack) \in DOMAIN filer.stack /\ Top = filer.stack[Len(filer.stack)]
    BY <1>0, <1>7, StackTyping DEF BlockParent, IInv, FilerSound, Filer, Top
  <2>2. b \in Filed /\ b \in Bead /\ beads[b].owner # "agent"
    BY <2>1, FiledAreBeads DEF IInv, FilerSound
  <2>3. {Top.ids[i] : i \in DOMAIN Top.ids} \subseteq Bead
    BY <2>1 DEF Frame
  <2>4. t \in Task /\ t.owner = beads[b].owner /\ t.status = beads[b].status
    BY <1>0, <2>2, <2>3 DEF Task
  <2>5. /\ beads' = [beads EXCEPT ![b] = t]
        /\ UNCHANGED <<filed, closing, offered, work, calls, released, lost>>
    BY <1>7 DEF BlockParent
  <2>6. t.status = "done" => b \in released'
    BY <2>2, <2>4, <2>5 DEF IInv, DoneIsReleased
  <2> HIDE DEF t
  <2>7. /\ beads' \in [Bead -> Task]
        /\ \A p \in Filed : beads'[p].owner = "agent" <=> beads[p].owner = "agent"
        /\ DoneIsReleased' /\ WorkInOrder' /\ OfferedInOrder'
    BY <1>0, <2>2, <2>4, <2>5, <2>6, OneBeadRewritten
  <2>8. filer' \in Filer /\ FilerSound'
    <3>1. CASE Len(filer.stack) = 1
      <4>1. filer' = [phase |-> "filed", stack |-> <<>>]
        BY <1>7, <3>1 DEF BlockParent
      <4> QED
        BY <4>1 DEF Filer, FilerSound
    <3>2. CASE Len(filer.stack) # 1
      <4>1. /\ s \in Seq(Frame) /\ s # <<>>
            /\ \A i \in DOMAIN s : i \in DOMAIN filer.stack /\ s[i] = filer.stack[i]
        <5>1. s \in Seq(Frame) /\ Len(s) = Len(filer.stack) - 1 /\ Len(filer.stack) \in Nat \ {0}
          BY <2>1, StackTyping
        <5> HIDE DEF s
        <5>2. Len(s) # 0
          BY <3>2, <5>1
        <5>3. s # <<>>
          BY <5>2
        <5> QED
          BY <2>1, <5>1, <5>3, StackTyping DEF s
      <4>2. filer' = [filer EXCEPT !.stack = Noted(s, b)]
        BY <1>7, <3>2 DEF BlockParent
      <4> HIDE DEF s, b
      <4>3. filer' \in Filer /\ filer'.stack = Noted(s, b)
        BY <1>0, <2>2, <4>1, <4>2, NotedTyping DEF Filer
      <4>4. Filed' = Filed
        BY <2>5 DEF Filed
      <4>5. \A i \in DOMAIN s : s[i].parent \in Filed /\ beads'[s[i].parent].owner # "agent"
        BY <2>7, <4>1 DEF IInv, FilerSound
      <4> QED
        BY <2>2, <4>1, <4>3, <4>4, <4>5, NotedTyping DEF FilerSound
    <3> QED
      BY <3>1, <3>2
  <2>9. TypeOK' /\ CallsOnFiled'
    BY <1>0, <2>5, <2>7, <2>8, CallsWait DEF TypeOK
  <2> QED
    BY <2>7, <2>8, <2>9 DEF IInv
<1> QED
  BY <1>3, <1>4, <1>5, <1>6, <1>7 DEF File

\* A write that leaves owner, blockers and attempt, as every write but the
\* claim, the filing and `tasks complete` on an unowned bead does.
LEMMA WriteKeepsIInv ==
  ASSUME IInv, NEW b \in Bead, NEW t \in Task,
         t.owner = beads[b].owner, t.blockers = beads[b].blockers, t.attempt = beads[b].attempt,
         Write(b, t), UNCHANGED <<filed, filer, offered, lost>>,
         work' \subseteq work, calls' \in [Call -> Request],
         \A c \in Call : calls'[c] = calls[c] \/ calls'[c] = NoCall
  PROVE  IInv'
<1>0. /\ offered \subseteq Bead /\ work \subseteq Bead \X (1..MaxAttempt) /\ released \subseteq Bead /\ lost \subseteq Bead
      /\ beads \in [Bead -> Task] /\ filed \in 0..MaxBead /\ filer \in Filer
      /\ 0 \in 0..MaxBead /\ Bead \subseteq 0..MaxBead
  BY TreeAssumption DEF TreeAssumption, IInv, TypeOK, Bead
<1>1. /\ beads' = [beads EXCEPT ![b] = t] /\ closing' \in {b, 0}
      /\ released \subseteq released' /\ released' \subseteq Bead
      /\ t.status = "done" => b \in released'
  BY <1>0 DEF Write, NoBead
<1>2. /\ beads' \in [Bead -> Task]
      /\ \A p \in Filed : beads'[p].owner = "agent" <=> beads[p].owner = "agent"
      /\ DoneIsReleased' /\ WorkInOrder' /\ OfferedInOrder'
  BY <1>0, <1>1, OneBeadRewritten
<1>3. FilerSound' /\ CallsOnFiled'
  BY <1>2, FilerWaits, CallsWait
<1>4. TypeOK'
  BY <1>0, <1>1, <1>2 DEF TypeOK
<1> QED
  BY <1>2, <1>3, <1>4 DEF IInv

\* A step that writes nothing.
LEMMA NoWriteKeepsIInv ==
  ASSUME IInv, UNCHANGED <<beads, filed, filer, released>>,
         closing' \in 0..MaxBead, lost' \subseteq Bead, offered' \subseteq offered, work' \subseteq work,
         calls' \in [Call -> Request],
         \A c \in Call : calls'[c] = calls[c] \/ calls'[c] = NoCall \/ calls'[c].bead \in Filed
  PROVE  IInv'
<1>1. FilerSound' /\ CallsOnFiled'
  BY FilerWaits, CallsWait
<1>2. TypeOK'
  BY DEF IInv, TypeOK
<1> QED
  BY <1>1, <1>2, BeadsWait DEF IInv

LEMMA ParentTyping ==
  ASSUME IInv, closing # 0
  PROVE  closing \in Bead /\ beads[closing].parent \in 0..MaxBead
<1>1. closing \in Bead
  BY TreeAssumption DEF IInv, TypeOK, Bead
<1> QED
  BY <1>1 DEF IInv, TypeOK, Task

LEMMA CascadeKeepsIInv == IInv /\ Cascade => IInv'
<1> SUFFICES ASSUME IInv, Cascade PROVE IInv'
  OBVIOUS
<1> DEFINE p == beads[closing].parent
           t1 == [beads[p] EXCEPT !.status = "done", !.meta = @ \cup {"closed"}]
           t2 == [beads[p] EXCEPT !.meta = @ \cup {"steps_done"}]
<1>0. /\ beads \in [Bead -> Task] /\ closing \in Bead /\ p \in 0..MaxBead
      /\ calls \in [Call -> Request] /\ released \subseteq Bead /\ 0 \in 0..MaxBead
      /\ work \subseteq Bead \X (1..MaxAttempt) /\ offered \subseteq Bead
      /\ filed \in 0..MaxBead /\ filer \in Filer /\ lost \subseteq Bead
      /\ UNCHANGED <<filed, filer, offered, work, calls, lost>>
  <2>1. UNCHANGED <<filed, filer, offered, work, calls, lost>> /\ closing # 0
    BY DEF Cascade, LockFree, NoBead
  <2>2. closing \in Bead /\ p \in 0..MaxBead
    BY <2>1, ParentTyping
  <2> QED BY <2>1, <2>2, TreeAssumption DEF IInv, TypeOK
<1>1. ASSUME p \in Bead, NEW t \in Task, beads' = [beads EXCEPT ![p] = t],
             t.owner = beads[p].owner, t.blockers = beads[p].blockers,
             t.attempt = beads[p].attempt, closing' \in 0..MaxBead,
             released \subseteq released', released' \subseteq Bead,
             t.status = "done" => p \in released'
      PROVE  IInv'
  <2>1. /\ beads' \in [Bead -> Task]
        /\ \A a \in Filed : beads'[a].owner = "agent" <=> beads[a].owner = "agent"
        /\ DoneIsReleased' /\ WorkInOrder' /\ OfferedInOrder'
    BY <1>0, <1>1, OneBeadRewritten
  <2>2. FilerSound' /\ CallsOnFiled'
    BY <1>0, <2>1, FilerWaits, CallsWait
  <2>3. TypeOK'
    BY <1>0, <1>1, <2>1 DEF TypeOK
  <2> QED
    BY <2>1, <2>2, <2>3 DEF IInv
<1>2. CASE /\ p # NoBead /\ beads' = [beads EXCEPT ![p] = t1]
           /\ closing' = p /\ released' = released \cup {p}
  <2>1. p \in Bead
    BY <1>0, <1>2 DEF NoBead, Bead
  <2>2. /\ t1 \in Task /\ t1.owner = beads[p].owner /\ t1.blockers = beads[p].blockers
        /\ t1.attempt = beads[p].attempt
    <3>1. beads[p] \in Task /\ "done" \in Status /\ "closed" \in Key
      BY <1>0, <2>1 DEF Status, Key
    <3>2. beads[p].meta \cup {"closed"} \in SUBSET Key
      BY <3>1 DEF Task
    <3> HIDE DEF p
    <3> QED
      BY <3>1, <3>2 DEF Task
  <2> HIDE DEF t1, p
  <2> QED
    BY <1>0, <1>1, <1>2, <2>1, <2>2
<1>3. CASE /\ p # NoBead /\ beads' = [beads EXCEPT ![p] = t2]
           /\ closing' = NoBead /\ UNCHANGED released
  <2>1. p \in Bead
    BY <1>0, <1>3 DEF NoBead, Bead
  <2>2. /\ t2 \in Task /\ t2.owner = beads[p].owner /\ t2.blockers = beads[p].blockers
        /\ t2.attempt = beads[p].attempt /\ t2.status = beads[p].status
    BY <1>0, <2>1 DEF Task, Key
  <2>3. t2.status = "done" => p \in released'
    BY <1>3, <2>1, <2>2 DEF IInv, DoneIsReleased, Done
  <2> HIDE DEF t2, p
  <2> QED
    BY <1>0, <1>1, <1>3, <2>1, <2>2, <2>3 DEF NoBead
<1>4. CASE closing' = NoBead /\ UNCHANGED <<beads, released>>
  BY <1>0, <1>4, NoWriteKeepsIInv DEF NoBead
<1> QED
  BY <1>2, <1>3, <1>4 DEF Cascade

LEMMA TakeReadyKeepsIInv == IInv /\ TakeReady => IInv'
<1> SUFFICES ASSUME IInv, TakeReady PROVE IInv'
  OBVIOUS
<1>1. UNCHANGED <<beads, filed, filer, closing, work, calls, released, lost>>
      /\ offered' = {b \in Filed : Ready(b)}
  BY DEF TakeReady
<1>2. Filed' = Filed /\ Filed \subseteq Bead
  BY <1>1, FiledAreBeads DEF Filed, IInv
<1>3. TypeOK'
  BY <1>1, <1>2 DEF IInv, TypeOK
<1>4. OfferedInOrder'
  <2>1. ASSUME NEW b \in Filed, Ready(b) PROVE beads[b].blockers \subseteq released
    <3>1. beads[b].blockers \subseteq Bead
      BY <1>2 DEF IInv, TypeOK, Task
    <3> QED
      BY <2>1, <3>1 DEF Ready, IInv, DoneIsReleased
  <2> QED
    BY <1>1, <1>2, <2>1 DEF OfferedInOrder
<1>5. FilerSound' /\ CallsOnFiled'
  BY <1>1, FilerWaits, CallsWait
<1>6. DoneIsReleased' /\ WorkInOrder'
  BY <1>1, <1>2 DEF IInv, DoneIsReleased, WorkInOrder, Done
<1> QED
  BY <1>3, <1>4, <1>5, <1>6 DEF IInv

LEMMA DispatchKeepsIInv ==
  ASSUME IInv, NEW b \in Bead, Dispatch(b)
  PROVE  IInv'
<1>1. /\ b \in offered /\ beads[b].owner = "agent" /\ offered' = offered \ {b}
      /\ UNCHANGED <<filed, filer, closing, calls, released, lost>>
  BY DEF Dispatch
<1>2. CASE UNCHANGED <<beads, work>>
  BY <1>1, <1>2, NoWriteKeepsIInv DEF IInv, TypeOK
<1>3. ASSUME beads[b].attempt < MaxAttempt,
             NEW n, n = beads[b].attempt + 1,
             beads' = [beads EXCEPT ![b].status = "in_progress", ![b].attempt = n],
             work' = work \cup {<<b, n>>}
      PROVE  IInv'
  <2> DEFINE t == [beads[b] EXCEPT !.status = "in_progress", !.attempt = n]
  <2>1. beads[b] \in Task /\ n \in 1..MaxAttempt /\ n \in 0..MaxAttempt
    BY <1>3, TreeAssumption DEF TreeAssumption, IInv, TypeOK, Task
  <2>2. "in_progress" \in Status
    BY DEF Status
  <2>3. t \in Task /\ t.owner = "agent" /\ t.blockers = beads[b].blockers /\ t.status = "in_progress"
    BY <1>1, <2>1, <2>2 DEF Task
  <2>4. beads[b].blockers \subseteq released
    BY <1>1 DEF IInv, OfferedInOrder
  <2>5. beads' = [beads EXCEPT ![b] = t] /\ released \subseteq Bead
    BY <1>3 DEF IInv, TypeOK
  <2> HIDE DEF t
  <2>6. /\ beads' \in [Bead -> Task]
        /\ \A p \in Filed : beads'[p].owner = "agent" <=> beads[p].owner = "agent"
        /\ DoneIsReleased' /\ WorkInOrder' /\ OfferedInOrder'
    BY <1>1, <2>3, <2>4, <2>5, OneBeadRewritten
  <2>7. FilerSound' /\ CallsOnFiled'
    BY <1>1, <2>6, FilerWaits, CallsWait
  <2>8. TypeOK'
    BY <1>1, <1>3, <2>1, <2>6 DEF IInv, TypeOK
  <2> QED
    BY <2>6, <2>7, <2>8 DEF IInv
<1> QED
  BY <1>2, <1>3 DEF Dispatch

\* A call begins on a filed bead, with the metadata it saw there.
LEMMA BeginTyping ==
  ASSUME IInv, NEW c \in Call, NEW v \in AllVerb, NEW b \in Filed, Begin(c, v, b)
  PROVE  /\ calls' \in [Call -> Request]
         /\ \A d \in Call : calls'[d] = calls[d] \/ calls'[d] = NoCall \/ calls'[d].bead \in Filed
<1>1. b \in Bead /\ beads[b].meta \in SUBSET Key /\ Bead \subseteq 0..MaxBead
  BY FiledAreBeads DEF IInv, TypeOK, Task, Bead
<1>2. [verb |-> v, bead |-> b, seen |-> beads[b].meta] \in Request
  BY <1>1 DEF Request
<1> QED
  BY <1>2 DEF Begin, IInv, TypeOK

LEMMA LookKeepsIInv ==
  ASSUME IInv, NEW c \in Call, NEW b \in Bead,
         RefuseDispatch(c, b) \/ \E v \in Verb : Look(c, v, b)
  PROVE  IInv'
<1>1. /\ UNCHANGED <<beads, filed, filer, closing, work, released, lost>>
      /\ offered' \subseteq offered
      /\ \E v \in Verb : b \in Filed /\ Begin(c, v, b)
  BY DEF RefuseDispatch, Look, IInv, OfferedInOrder
<1>2. Verb \subseteq AllVerb
  BY TreeAssumption DEF TreeAssumption
<1> QED
  BY <1>1, <1>2, BeginTyping, NoWriteKeepsIInv DEF IInv, TypeOK

LEMMA TakeOnKeepsIInv ==
  ASSUME IInv, NEW c \in Call, NEW b \in Bead, TakeOn(c, b)
  PROVE  IInv'
<1> DEFINE t == [beads[b] EXCEPT !.owner = "human"]
<1>1. /\ b \in Filed /\ beads[b].owner = "none" /\ beads' = [beads EXCEPT ![b] = t]
      /\ Begin(c, "complete", b) /\ "complete" \in AllVerb
      /\ UNCHANGED <<filed, filer, closing, offered, work, released, lost>>
  BY DEF TakeOn, AllVerb
<1>2. t \in Task /\ t.owner = "human" /\ t.status = beads[b].status /\ released \subseteq Bead
  BY DEF IInv, TypeOK, Task
<1>3. t.status = "done" => b \in released'
  BY <1>1, <1>2 DEF IInv, DoneIsReleased, Done
<1> HIDE DEF t
<1>4. /\ beads' \in [Bead -> Task]
      /\ \A p \in Filed : beads'[p].owner = "agent" <=> beads[p].owner = "agent"
      /\ DoneIsReleased' /\ WorkInOrder' /\ OfferedInOrder'
  BY <1>1, <1>2, <1>3, OneBeadRewritten
<1>5. FilerSound' /\ CallsOnFiled' /\ calls' \in [Call -> Request]
  BY <1>1, <1>4, FilerWaits, CallsWait, BeginTyping
<1>6. TypeOK'
  BY <1>1, <1>4, <1>5 DEF IInv, TypeOK
<1> QED
  BY <1>4, <1>5, <1>6 DEF IInv

LEMMA ReportKeepsIInv ==
  ASSUME IInv, NEW w \in work, NEW s, Report(w, s)
  PROVE  IInv'
<1> DEFINE b == w[1]
           t == [beads[b] EXCEPT !.status = s]
<1>1. /\ b \in Bead /\ beads[b] \in Task /\ s \in Status
      /\ work' = work \ {w} /\ UNCHANGED <<filed, filer, offered, calls, lost>>
  BY TreeAssumption DEF TreeAssumption, Report, Outcomes, IInv, TypeOK, Status
<1>2. t \in Task /\ t.owner = beads[b].owner /\ t.blockers = beads[b].blockers
      /\ t.attempt = beads[b].attempt
  BY <1>1 DEF Task
<1>3. CASE Write(b, t)
  <2> HIDE DEF b, t
  <2> QED
    BY <1>1, <1>2, <1>3, WriteKeepsIInv DEF IInv, TypeOK
<1>4. CASE UNCHANGED <<beads, closing, released>>
  BY <1>1, <1>4, NoWriteKeepsIInv DEF IInv, TypeOK
<1> QED
  BY <1>3, <1>4 DEF Report

LEMMA LandKeepsIInv ==
  ASSUME IInv, NEW c \in Call, Land(c)
  PROVE  IInv'
<1> DEFINE r == calls[c]
<1>1. /\ r \in Request /\ r # NoCall /\ r.bead \in Bead
      /\ calls' = [calls EXCEPT ![c] = NoCall] /\ UNCHANGED <<filed, filer, offered, work, lost>>
  BY FiledAreBeads DEF Land, IInv, TypeOK, CallsOnFiled
<1>2. calls' \in [Call -> Request] /\ \A d \in Call : calls'[d] = calls[d] \/ calls'[d] = NoCall
  BY <1>1, RecordTyping DEF IInv, TypeOK
<1>3. ASSUME NEW t \in Written(r), Write(r.bead, t) PROVE IInv'
  <2>1. beads[r.bead] \in Task /\ Carried(r) \in SUBSET Key
    BY <1>1 DEF IInv, TypeOK, Task, Request, Carried, Key
  <2> DEFINE u == [beads[r.bead] EXCEPT !.meta = Carried(r)]
  <2>2. u \in Task /\ u.owner = beads[r.bead].owner
        /\ u.blockers = beads[r.bead].blockers /\ u.attempt = beads[r.bead].attempt
    BY <2>1 DEF Task
  <2>3. t = u \/ \E s \in Status : t = [u EXCEPT !.status = s]
    BY TreeAssumption DEF TreeAssumption, Written, Outcomes, Status
  <2> HIDE DEF u
  <2>4. t \in Task /\ t.owner = beads[r.bead].owner
        /\ t.blockers = beads[r.bead].blockers /\ t.attempt = beads[r.bead].attempt
    BY <2>2, <2>3 DEF Task
  <2> HIDE DEF r
  <2> QED
    BY <1>1, <1>2, <1>3, <2>4, WriteKeepsIInv
<1>4. CASE UNCHANGED <<beads, closing, released>>
  BY <1>1, <1>2, <1>4, NoWriteKeepsIInv DEF IInv, TypeOK
<1> QED
  BY <1>3, <1>4 DEF Land

LEMMA CrashKeepsIInv == IInv /\ (CrashInCascade \/ CrashInFiling) => IInv'
<1> SUFFICES ASSUME IInv, CrashInCascade \/ CrashInFiling PROVE IInv'
  OBVIOUS
<1>1. CASE CrashInCascade
  <2>1. closing # 0 /\ closing' = 0 /\ lost' = lost \cup ({beads[closing].parent} \ {0})
        /\ UNCHANGED <<beads, filed, filer, offered, work, calls, released>>
    BY <1>1 DEF CrashInCascade, LockFree, NoBead
  <2>2. PICK p \in 0..MaxBead : p = beads[closing].parent
    BY <2>1, ParentTyping
  <2>3. lost' = lost \cup ({p} \ {0}) /\ lost \subseteq Bead
    BY <2>1, <2>2 DEF IInv, TypeOK
  <2>4. p = 0 \/ p \in Bead
    BY TreeAssumption DEF Bead
  <2>5. lost' \subseteq Bead
    BY <2>3, <2>4
  <2>6. closing' \in 0..MaxBead
    BY <2>1, TreeAssumption
  <2> QED BY <2>1, <2>5, <2>6, NoWriteKeepsIInv DEF IInv, TypeOK
<1>2. CASE CrashInFiling
  <2>1. /\ filer' = [phase |-> "crashed", stack |-> <<>>]
        /\ UNCHANGED <<beads, filed, closing, offered, work, calls, released, lost>>
    BY <1>2 DEF CrashInFiling
  <2>2. filer' \in Filer /\ FilerSound'
    BY <2>1 DEF Filer, FilerSound
  <2>3. TypeOK' /\ CallsOnFiled'
    BY <2>1, <2>2, CallsWait DEF IInv, TypeOK
  <2> QED
    BY <2>1, <2>2, <2>3, BeadsWait DEF IInv
<1> QED
  BY <1>1, <1>2

LEMMA InitIInv == Init => IInv
<1> SUFFICES ASSUME Init PROVE IInv
  OBVIOUS
<1>1. TypeOK
  BY RecordTyping, TreeAssumption DEF TreeAssumption, Init, TypeOK, Filer, NoBead
<1>2. FilerSound /\ OfferedInOrder /\ CallsOnFiled /\ WorkInOrder
  <2>1. Filed = {} /\ filer.phase = "idle" /\ DOMAIN filer.stack = {}
    BY DEF Init, Filed
  <2> QED
    BY <2>1 DEF Init, FilerSound, OfferedInOrder, CallsOnFiled, WorkInOrder
<1>3. DoneIsReleased
  BY DEF Init, DoneIsReleased, Done, Absent
<1> QED
  BY <1>1, <1>2, <1>3 DEF IInv

LEMMA NextIInv == IInv /\ [Next]_vars => IInv'
<1> SUFFICES ASSUME IInv, [Next]_vars PROVE IInv'
  OBVIOUS
<1>1. CASE UNCHANGED vars
  BY <1>1, NoWriteKeepsIInv DEF vars, IInv, TypeOK
<1>2. CASE Next
  BY <1>2, FilingKeepsIInv, CascadeKeepsIInv, CrashKeepsIInv, TakeReadyKeepsIInv,
     DispatchKeepsIInv, LookKeepsIInv, TakeOnKeepsIInv, ReportKeepsIInv, LandKeepsIInv
  DEF Next
<1> QED
  BY <1>1, <1>2

-----------------------------------------------------------------------------
(* What any step does to the tree, for the close of a finished parent: filed *)
(* beads stay where they are and keep a gate, a bead that becomes DONE is    *)
(* looked at next, and a look at a finished parent leaves it closed, gated   *)
(* or, when the process dies, noted as lost.                                 *)

Kept(b) ==
  /\ beads'[b].parent = beads[b].parent /\ beads'[b].step = beads[b].step
  /\ beads'[b].owner = "agent" <=> beads[b].owner = "agent"
  /\ "verify" \in beads[b].meta => "verify" \in beads'[b].meta
  /\ beads'[b].status = "pending" => beads[b].status = "pending" \/ beads[b].owner = "agent"
  /\ beads'[b].status \in {"in_progress", "failed"} => beads[b].owner = "agent"
  /\ beads'[b].status = "done" => Done(b) \/ closing' = b

\* A new bead hangs below one that is no agent's.
Hangs(t) ==
  /\ t.status = "pending"
  /\ t.parent # NoBead => t.step /\ t.parent \in Filed /\ beads[t.parent].owner # "agent"

Settled(p) ==
  \/ p = NoBead \/ beads'[p].status = "done" \/ ~AllDone(p)
  \/ "verify" \in beads'[p].meta \/ p \in lost'

Grows ==
  /\ \A b \in Filed : Kept(b)
  /\ \/ filed' = filed
     \/ filed' = filed + 1 /\ Hangs(beads'[filed + 1])
  /\ lost \subseteq lost'
  /\ closing' # NoBead => closing' \in Filed
  /\ LockFree \/ closing' = closing \/ Settled(beads[closing].parent)

LEMMA FinishedStays ==
  ASSUME IInv, ClosingInv, TypeOK', Grows
  PROVE  ParentsAreFiled' /\ FinishedIsSeen'
<1>0. /\ filed \in Nat /\ filed' \in Nat /\ Filed \subseteq Filed' /\ Filed \subseteq Bead
      /\ \A b \in Filed' : b \in Filed \/ (b = filed + 1 /\ filed' = filed + 1)
      /\ filed + 1 \notin Filed /\ NoBead \notin Filed'
  BY FiledAreBeads DEF Grows, IInv, TypeOK, Filed, NoBead
<1>1. ASSUME NEW b \in Filed', beads'[b].parent # NoBead
      PROVE  /\ beads'[b].step /\ beads'[b].parent \in Filed
             /\ beads'[beads'[b].parent].owner # "agent"
  <2>1. PICK q : q = beads'[b].parent
    OBVIOUS
  <2>2. beads'[b].step /\ q \in Filed /\ beads[q].owner # "agent"
    <3>1. CASE b \in Filed
      BY <1>1, <2>1, <3>1 DEF Grows, Kept, ClosingInv, ParentsAreFiled
    <3>2. CASE b = filed + 1 /\ filed' = filed + 1
      <4>1. Hangs(beads'[b])
        BY <1>0, <3>2 DEF Grows
      <4> QED BY <1>1, <2>1, <4>1 DEF Hangs
    <3> QED BY <1>0, <3>1, <3>2
  <2> QED BY <2>1, <2>2 DEF Grows, Kept
<1>2. ParentsAreFiled'
  <2>1. \A b \in Filed' : beads'[b].parent # NoBead =>
          /\ beads'[b].step /\ beads'[b].parent \in Filed'
          /\ beads'[beads'[b].parent].owner # "agent"
    BY <1>0, <1>1
  <2>2. (closing # NoBead => closing \in Filed)'
    BY <1>0 DEF Grows, NoBead
  <2> QED BY <2>1, <2>2 DEF ParentsAreFiled, NoBead
<1>3. ASSUME NEW p \in Filed', Children(p)' # {}, AllDone(p)', beads'[p].status = "pending"
      PROVE  \/ "verify" \in beads'[p].meta \/ p \in lost'
             \/ closing' # NoBead /\ beads'[closing'].parent = p
  <2>1. PICK b \in Filed' : beads'[b].parent = p
    BY <1>3 DEF Children
  <2>2. p \in Filed /\ beads'[p].owner # "agent"
    BY <1>0, <1>1, <2>1
  <2>3. \A c \in Filed' : beads'[c].parent = p => beads'[c].status = "done"
    BY <1>3 DEF AllDone, Children, Done
  <2>4. ASSUME NEW c \in Filed', beads'[c].parent = p
        PROVE  c \in Filed /\ beads[c].parent = p
    <3>1. CASE c = filed + 1 /\ filed' = filed + 1
      <4>1. Hangs(beads'[c]) \/ c \in Filed
        BY <1>0, <3>1 DEF Grows
      <4> QED BY <1>0, <2>3, <2>4, <3>1, <4>1 DEF Hangs
    <3> QED BY <1>0, <2>4, <3>1 DEF Grows, Kept
  <2>5. Children(p) # {} /\ beads[p].status = "pending"
    BY <1>3, <2>1, <2>2, <2>4 DEF Children, Grows, Kept
  <2>6. CASE AllDone(p)
    <3>1. CASE "verify" \in beads[p].meta \/ p \in lost
      BY <2>2, <3>1 DEF Grows, Kept
    <3>2. CASE ~LockFree /\ beads[closing].parent = p
      <4>1. CASE closing' = closing
        <5>1. closing \in Filed /\ closing # NoBead
          BY <3>2 DEF ClosingInv, ParentsAreFiled, LockFree
        <5> QED BY <3>2, <4>1, <5>1 DEF Grows, Kept
      <4>2. CASE Settled(p)
        BY <1>0, <1>3, <2>2, <2>6, <4>2 DEF Settled
      <4> QED BY <3>2, <4>1, <4>2 DEF Grows
    <3> QED BY <2>2, <2>5, <2>6, <3>1, <3>2 DEF ClosingInv, FinishedIsSeen
  <2>7. CASE ~AllDone(p)
    <3>1. PICK c \in Filed : beads[c].parent = p /\ ~Done(c)
      BY <2>7 DEF AllDone, Children
    <3>2. beads'[c].parent = p /\ c \in Filed'
      BY <1>0, <3>1 DEF Grows, Kept
    <3>3. closing' = c
      BY <2>3, <3>1, <3>2 DEF Grows, Kept
    <3> QED BY <1>0, <3>2, <3>3
  <2> QED BY <2>6, <2>7
<1>4. FinishedIsSeen'
  <2>1. \A p \in Filed' : Children(p)' # {} /\ AllDone(p)' /\ beads'[p].status = "pending" =>
          \/ "verify" \in beads'[p].meta \/ p \in lost'
          \/ closing' # NoBead /\ beads'[closing'].parent = p
    BY <1>3
  <2> QED BY <2>1 DEF FinishedIsSeen, LockFree, NoBead
<1> QED BY <1>2, <1>4

\* A write to one bead that keeps its place in the tree.
LEMMA OneBeadGrows ==
  ASSUME IInv, ClosingInv, NEW b \in Filed, NEW t \in Task,
         beads' = [beads EXCEPT ![b] = t], UNCHANGED <<filed, lost>>,
         t.parent = beads[b].parent, t.step = beads[b].step,
         t.owner = "agent" <=> beads[b].owner = "agent",
         "verify" \in beads[b].meta => "verify" \in t.meta,
         t.status = "pending" => beads[b].status = "pending" \/ beads[b].owner = "agent",
         t.status \in {"in_progress", "failed"} => beads[b].owner = "agent",
         t.status = "done" => Done(b) \/ closing' = b,
         closing' \in {closing, b, NoBead},
         LockFree \/ closing' = closing \/ Settled(beads[closing].parent)
  PROVE  Grows
<1>1. b \in Bead /\ Filed \subseteq Bead /\ beads \in [Bead -> Task]
  BY FiledAreBeads DEF IInv, TypeOK
<1>2. \A a \in Filed : beads'[a] = IF a = b THEN t ELSE beads[a]
  BY <1>1
<1>3. \A a \in Filed : beads[a].status \in {"in_progress", "failed"} => beads[a].owner = "agent"
  BY DEF ClosingInv, AgentsWorkTheirOwn
<1>4. \A a \in Filed : Kept(a)
  BY <1>2, <1>3 DEF Kept, Done
<1>5. closing' # NoBead => closing' \in Filed
  BY DEF ClosingInv, ParentsAreFiled
<1> QED BY <1>4, <1>5 DEF Grows

\* Steps that write no bead and let the lock be.
LEMMA NothingGrows ==
  ASSUME IInv, ClosingInv, UNCHANGED <<beads, filed, lost>>,
         closing' = closing \/ (LockFree /\ closing' = NoBead)
  PROVE  Grows
<1>1. \A a \in Filed : beads[a].status \in {"in_progress", "failed"} => beads[a].owner = "agent"
  BY DEF ClosingInv, AgentsWorkTheirOwn
<1>2. \A a \in Filed : Kept(a)
  BY <1>1 DEF Kept, Done
<1>3. closing' # NoBead => closing' \in Filed
  BY DEF ClosingInv, ParentsAreFiled
<1> QED BY <1>2, <1>3 DEF Grows

LEMMA AppendGrows ==
  ASSUME IInv, ClosingInv, NEW t \in Task, t.attempt = 0, Append1(t), Hangs(t)
  PROVE  Grows
<1>1. /\ filed' = filed + 1 /\ beads'[filed + 1] = t
      /\ \A a \in Filed : beads'[a] = beads[a]
  BY Appended DEF Append1, Hangs
<1>2. \A a \in Filed : beads[a].status \in {"in_progress", "failed"} => beads[a].owner = "agent"
  BY DEF ClosingInv, AgentsWorkTheirOwn
<1>3. \A a \in Filed : Kept(a)
  BY <1>1, <1>2 DEF Kept, Done
<1>4. closing' = NoBead /\ lost' = lost /\ LockFree
  BY DEF Append1, LockFree
<1> QED BY <1>1, <1>3, <1>4 DEF Grows

LEMMA FilingGrows ==
  ASSUME IInv, ClosingInv, File
  PROVE  Grows
<1>1. CASE StartRun
  <2> DEFINE t == [Absent EXCEPT !.status = "pending"]
  <2>1. t \in Task /\ t.attempt = 0 /\ t.status = "pending" /\ t.parent = NoBead
    BY RecordTyping DEF Task, Status, Absent
  <2>2. Append1(t)
    BY <1>1 DEF StartRun
  <2> HIDE DEF t
  <2> QED BY <2>1, <2>2, AppendGrows DEF Hangs
<1>2. ASSUME Filing
      PROVE  /\ StepBead(StepNow) \in Task
             /\ [StepBead(StepNow) EXCEPT !.owner = "none", !.meta = {}] \in Task
             /\ Top.parent \in Filed /\ beads[Top.parent].owner # "agent"
  <2>1. filer.stack \in Seq(Frame) /\ filer.stack # <<>>
    BY <1>2, StepTyping
  <2>2. Len(filer.stack) \in DOMAIN filer.stack /\ Top = filer.stack[Len(filer.stack)]
    BY <2>1, StackTyping DEF Top
  <2>3. Top.parent \in Filed /\ beads[Top.parent].owner # "agent"
    BY <2>2 DEF IInv, FilerSound
  <2> QED BY <1>2, <2>3, StepTyping, StepBeadTyping
<1>3. CASE FileStep
  <2> DEFINE t == StepBead(StepNow)
  <2>1. t.attempt = 0 /\ t.status = "pending" /\ t.parent = Top.parent /\ t.step
    BY DEF StepBead
  <2>2. Append1(t) /\ Filing
    BY <1>3 DEF FileStep
  <2> HIDE DEF t
  <2>3. Hangs(t)
    BY <1>2, <2>1, <2>2 DEF Hangs
  <2>4. t \in Task
    BY <1>2, <2>2 DEF t
  <2> QED BY <2>1, <2>2, <2>3, <2>4, AppendGrows
<1>4. CASE FileContainer
  <2> DEFINE t == [StepBead(StepNow) EXCEPT !.owner = "none", !.meta = {}]
  <2>1. t.attempt = 0 /\ t.status = "pending" /\ t.parent = Top.parent /\ t.step
    BY DEF StepBead
  <2>2. Append1(t) /\ Filing
    BY <1>4 DEF FileContainer
  <2> HIDE DEF t
  <2>3. Hangs(t)
    BY <1>2, <2>1, <2>2 DEF Hangs
  <2>4. t \in Task
    BY <1>2, <2>2 DEF t
  <2> QED BY <2>1, <2>2, <2>3, <2>4, AppendGrows
<1>5. CASE RefuseInner \/ RefuseDepth
  BY <1>5, NothingGrows DEF RefuseInner, RefuseDepth, Refuse
<1>6. CASE BlockParent
  <2> DEFINE b == Top.parent
             t == [beads[b] EXCEPT !.blockers = {Top.ids[i] : i \in DOMAIN Top.ids}]
  <2>1. /\ beads' = [beads EXCEPT ![b] = t] /\ UNCHANGED <<filed, closing, lost>>
        /\ filer.phase = "filing"
    BY <1>6 DEF BlockParent
  <2>2. b \in Filed
    <3>1. filer.stack \in Seq(Frame) /\ filer.stack # <<>>
      BY <2>1 DEF IInv, TypeOK, Filer, FilerSound
    <3>2. Len(filer.stack) \in DOMAIN filer.stack /\ Top = filer.stack[Len(filer.stack)]
      BY <3>1, StackTyping DEF Top
    <3> QED BY <3>2 DEF IInv, FilerSound
  <2>3. beads'[b] \in Task /\ beads'[b] = t /\ beads[b] \in Task
    <3>1. beads' \in [Bead -> Task] /\ beads \in [Bead -> Task] /\ b \in Bead
      BY <1>6, <2>2, FilingKeepsIInv, FiledAreBeads DEF IInv, TypeOK, File
    <3> QED BY <2>1, <3>1
  <2>4. /\ t.parent = beads[b].parent /\ t.step = beads[b].step /\ t.owner = beads[b].owner
        /\ t.meta = beads[b].meta /\ t.status = beads[b].status
    BY <2>3 DEF Task
  <2>5. beads[b].status \in {"in_progress", "failed"} => beads[b].owner = "agent"
    BY <2>2 DEF ClosingInv, AgentsWorkTheirOwn
  <2>6. PICK u \in Task : u = t
    BY <2>3
  <2> HIDE DEF t, b
  <2> QED BY <2>1, <2>2, <2>4, <2>5, <2>6, OneBeadGrows DEF Done
<1> QED BY <1>1, <1>3, <1>4, <1>5, <1>6 DEF File

LEMMA CascadeGrows ==
  ASSUME IInv, ClosingInv, Cascade \/ CrashInCascade
  PROVE  Grows
<1> DEFINE p == beads[closing].parent
<1>0. closing \in Filed /\ closing # NoBead /\ beads \in [Bead -> Task]
      /\ UNCHANGED filed
  BY DEF Cascade, CrashInCascade, LockFree, ClosingInv, ParentsAreFiled, IInv, TypeOK
<1>1. p # NoBead => p \in Filed /\ beads[p] \in Task /\ beads[closing].step
  BY <1>0, FiledAreBeads DEF ClosingInv, ParentsAreFiled, IInv, TypeOK
<1>2. \A a \in Filed : beads[a].status \in {"in_progress", "failed"} => beads[a].owner = "agent"
  BY DEF ClosingInv, AgentsWorkTheirOwn
<1>unwritten. ASSUME UNCHANGED beads, closing' = NoBead, lost \subseteq lost', Settled(p)
      PROVE  Grows
  <2>1. \A a \in Filed : Kept(a)
    BY <1>2, <1>unwritten DEF Kept, Done
  <2> QED BY <1>0, <1>unwritten, <2>1 DEF Grows
<1>3. CASE CrashInCascade
  <2>1. /\ UNCHANGED beads /\ closing' = NoBead
        /\ lost' = lost \cup ({p} \ {NoBead})
    BY <1>3 DEF CrashInCascade
  <2>2. Settled(p) /\ lost \subseteq lost'
    BY <2>1 DEF Settled
  <2> QED BY <1>unwritten, <2>1, <2>2
<1> DEFINE closes == beads[closing].step /\ p # NoBead /\ ~Done(p) /\ AllDone(p)
           t1 == [beads[p] EXCEPT !.status = "done", !.meta = @ \cup {"closed"}]
           t2 == [beads[p] EXCEPT !.meta = @ \cup {"steps_done"}]
<1>4. CASE /\ closes /\ beads' = [beads EXCEPT ![p] = t1] /\ closing' = p /\ UNCHANGED lost
  <2>1. p \in Filed /\ beads[p] \in Task /\ p \in Bead
    BY <1>1, <1>4, FiledAreBeads DEF IInv
  <2>2. /\ t1 \in Task /\ t1.parent = beads[p].parent /\ t1.step = beads[p].step
        /\ t1.owner = beads[p].owner /\ t1.status = "done"
        /\ "verify" \in beads[p].meta => "verify" \in t1.meta
    <3>1. "done" \in Status /\ "closed" \in Key
      BY DEF Status, Key
    <3>2. beads[p].meta \cup {"closed"} \in SUBSET Key
      BY <2>1, <3>1 DEF Task
    <3> HIDE DEF p
    <3> QED BY <2>1, <3>1, <3>2 DEF Task
  <2> HIDE DEF t1, p
  <2>3. beads'[p].status = "done"
    BY <1>0, <1>4, <2>1, <2>2
  <2>4. Settled(p)
    BY <2>3 DEF Settled
  <2> QED BY <1>0, <1>4, <2>1, <2>2, <2>4, OneBeadGrows DEF p
<1>5. CASE /\ closes /\ "verify" \in beads[p].meta
           /\ beads' = [beads EXCEPT ![p] = t2] /\ closing' = NoBead /\ UNCHANGED lost
  <2>1. p \in Filed /\ beads[p] \in Task /\ p \in Bead
    BY <1>1, <1>5, FiledAreBeads DEF IInv
  <2>2. /\ t2 \in Task /\ t2.parent = beads[p].parent /\ t2.step = beads[p].step
        /\ t2.owner = beads[p].owner /\ t2.status = beads[p].status
        /\ "verify" \in t2.meta
    <3>1. beads[p].meta \cup {"steps_done"} \in SUBSET Key
      BY <2>1 DEF Task, Key
    <3> HIDE DEF p
    <3> QED BY <1>5, <2>1, <3>1 DEF Task, p
  <2>3. beads[p].status \in {"in_progress", "failed"} => beads[p].owner = "agent"
    BY <1>2, <2>1
  <2> HIDE DEF t2, p
  <2>4. "verify" \in beads'[p].meta
    BY <1>0, <1>5, <2>1, <2>2
  <2>5. Settled(p)
    BY <2>4 DEF Settled
  <2> QED BY <1>0, <1>5, <2>1, <2>2, <2>3, <2>5, OneBeadGrows DEF p, Done
<1>6. CASE ~closes /\ closing' = NoBead /\ UNCHANGED <<beads, lost>>
  <2>1. Settled(p)
    BY <1>1, <1>6 DEF Settled, Done
  <2> QED BY <1>6, <1>unwritten, <2>1
<1>7. CASE Cascade
  BY <1>4, <1>5, <1>6, <1>7 DEF Cascade
<1> QED BY <1>3, <1>7

\* A write of one bead by whoever has waited for the lock.
LEMMA WriteGrows ==
  ASSUME IInv, ClosingInv, NEW b \in Filed, NEW t \in Task, Write(b, t),
         UNCHANGED <<filed, lost>>,
         t.parent = beads[b].parent, t.step = beads[b].step, t.owner = beads[b].owner,
         "verify" \in beads[b].meta => "verify" \in t.meta,
         t.status = "pending" => beads[b].status = "pending" \/ beads[b].owner = "agent",
         t.status \in {"in_progress", "failed"} => beads[b].owner = "agent"
  PROVE  Grows
<1>1. LockFree /\ beads' = [beads EXCEPT ![b] = t] /\ closing' \in {closing, b, NoBead}
  BY DEF Write
<1>2. t.status = "done" => Done(b) \/ closing' = b
  BY DEF Write
<1> QED BY <1>1, <1>2, OneBeadGrows

LEMMA WorkGrows ==
  ASSUME IInv, ClosingInv, Next
  PROVE  Grows
<1>0. beads \in [Bead -> Task] /\ Filed \subseteq Bead /\ calls \in [Call -> Request]
  BY FiledAreBeads DEF IInv, TypeOK
<1>own. \A a \in Filed : beads[a].status \in {"in_progress", "failed"} => beads[a].owner = "agent"
  BY DEF ClosingInv, AgentsWorkTheirOwn
<1>1. CASE CrashInFiling \/ TakeReady
  BY <1>1, NothingGrows DEF CrashInFiling, TakeReady
<1>2. ASSUME NEW b \in Bead, Dispatch(b) PROVE Grows
  <2>1. CASE UNCHANGED beads
    BY <1>2, <2>1, NothingGrows DEF Dispatch
  <2>2. CASE ~UNCHANGED beads
    <3> DEFINE n == beads[b].attempt + 1
               t == [beads[b] EXCEPT !.status = "in_progress", !.attempt = n]
    <3>1. /\ b \in Filed /\ beads[b].owner = "agent" /\ beads[b] \in Task
          /\ beads[b].attempt < MaxAttempt /\ beads' = [beads EXCEPT ![b] = t]
          /\ UNCHANGED <<filed, closing, lost>>
      BY <1>0, <1>2, <2>2 DEF Dispatch, IInv, OfferedInOrder
    <3>2. n \in 0..MaxAttempt
      BY <3>1, TreeAssumption DEF Task
    <3>3. /\ t \in Task /\ t.parent = beads[b].parent /\ t.step = beads[b].step
          /\ t.owner = beads[b].owner /\ t.meta = beads[b].meta /\ t.status = "in_progress"
      <4> HIDE DEF n
      <4> QED BY <3>1, <3>2 DEF Task, Status
    <3> HIDE DEF t
    <3> QED BY <3>1, <3>3, OneBeadGrows
  <2> QED BY <2>1, <2>2
<1>3. ASSUME NEW w \in work, NEW s \in Outcome \cup {"done"}, Report(w, s) PROVE Grows
  <2> DEFINE b == w[1]
             t == [beads[b] EXCEPT !.status = s]
  <2>1. b \in Filed /\ beads[b].owner = "agent" /\ beads[b] \in Task /\ UNCHANGED <<filed, lost>>
    BY <1>0, <1>3 DEF ClosingInv, AgentsWorkTheirOwn, Report
  <2>2. CASE UNCHANGED <<beads, closing>>
    BY <2>1, <2>2, NothingGrows
  <2>3. CASE Write(b, t)
    <3>1. /\ t \in Task /\ t.parent = beads[b].parent /\ t.step = beads[b].step
          /\ t.owner = beads[b].owner /\ t.meta = beads[b].meta
      BY <2>1, TreeAssumption DEF Task, Status
    <3> HIDE DEF t, b
    <3> QED BY <2>1, <2>3, <3>1, WriteGrows
  <2> QED BY <1>3, <2>2, <2>3 DEF Report
<1>4. ASSUME NEW c \in Call, NEW b \in Bead,
             RefuseDispatch(c, b) \/ \E v \in Verb : Look(c, v, b)
      PROVE  Grows
  BY <1>4, NothingGrows DEF RefuseDispatch, Look
<1>5. ASSUME NEW c \in Call, NEW b \in Bead, TakeOn(c, b) PROVE Grows
  <2> DEFINE t == [beads[b] EXCEPT !.owner = "human"]
  <2>1. /\ b \in Filed /\ beads[b].owner = "none" /\ beads[b] \in Task
        /\ beads' = [beads EXCEPT ![b] = t] /\ UNCHANGED <<filed, closing, lost>>
    BY <1>0, <1>5 DEF TakeOn
  <2>2. /\ t \in Task /\ t.parent = beads[b].parent /\ t.step = beads[b].step
        /\ t.owner = "human" /\ t.meta = beads[b].meta /\ t.status = beads[b].status
    BY <2>1 DEF Task
  <2> HIDE DEF t
  <2> QED BY <1>own, <2>1, <2>2, OneBeadGrows DEF Done
<1>6. ASSUME NEW c \in Call, Land(c) PROVE Grows
  <2> DEFINE r == calls[c]
  <2>1. /\ r \in Request /\ r # NoCall /\ r.bead \in Filed /\ beads[r.bead] \in Task
        /\ UNCHANGED <<filed, lost>>
        /\ r.verb \in {"retry", "reap"} => beads[r.bead].owner = "agent"
    BY <1>0, <1>6 DEF Land, IInv, CallsOnFiled, ClosingInv, AgentsWorkTheirOwn
  <2>2. CASE UNCHANGED <<beads, closing>>
    BY <2>1, <2>2, NothingGrows
  <2>3. ASSUME KeepsGate(r), NEW t \in Written(r), Write(r.bead, t) PROVE Grows
    <3> DEFINE u == [beads[r.bead] EXCEPT !.meta = Carried(r)]
    <3>1. Carried(r) \in SUBSET Key
      BY <2>1 DEF Task, Request, Carried, Key
    <3>2. /\ u \in Task /\ u.parent = beads[r.bead].parent /\ u.step = beads[r.bead].step
          /\ u.owner = beads[r.bead].owner /\ u.status = beads[r.bead].status
          /\ u.meta = Carried(r)
      BY <2>1, <3>1 DEF Task
    <3>3. \/ t = u
          \/ \E s \in Status : /\ t = [u EXCEPT !.status = s]
                               /\ s = "pending" => r.verb \in {"retry", "reap"}
                               /\ s \notin {"in_progress", "failed"}
      BY <2>3, TreeAssumption DEF Written, Outcomes, Status
    <3> HIDE DEF u
    <3>4. /\ t \in Task /\ t.parent = beads[r.bead].parent /\ t.step = beads[r.bead].step
          /\ t.owner = beads[r.bead].owner /\ t.meta = Carried(r)
      BY <3>2, <3>3 DEF Task
    <3>5. /\ t.status = "pending" =>
               beads[r.bead].status = "pending" \/ beads[r.bead].owner = "agent"
          /\ t.status \in {"in_progress", "failed"} => beads[r.bead].owner = "agent"
      <4>1. CASE t = u
        BY <1>own, <2>1, <3>2, <4>1
      <4>2. CASE t # u
        <5>1. PICK s \in Status : /\ t = [u EXCEPT !.status = s]
                                  /\ s = "pending" => r.verb \in {"retry", "reap"}
                                  /\ s \notin {"in_progress", "failed"}
          BY <3>3, <4>2
        <5>2. t.status = s
          BY <3>2, <5>1 DEF Task
        <5> QED BY <2>1, <5>1, <5>2
      <4> QED BY <4>1, <4>2
    <3>6. "verify" \in beads[r.bead].meta => "verify" \in t.meta
      BY <2>3, <3>4 DEF KeepsGate
    <3> HIDE DEF r
    <3> QED BY <2>1, <2>3, <3>4, <3>5, <3>6, WriteGrows
  <2> QED BY <1>6, <2>2, <2>3 DEF Land
<1> QED BY <1>1, <1>2, <1>3, <1>4, <1>5, <1>6, FilingGrows, CascadeGrows DEF Next

LEMMA OwnWorkStays ==
  ASSUME IInv, ClosingInv, TypeOK', Grows, Next
  PROVE  AgentsWorkTheirOwn'
<1>0. /\ filed \in Nat /\ Filed \subseteq Filed'
      /\ \A b \in Filed' : b \in Filed \/ (b = filed + 1 /\ filed' = filed + 1)
  BY DEF Grows, IInv, TypeOK, Filed
<1>1. ASSUME NEW b \in Filed', beads'[b].status \in {"in_progress", "failed"}
      PROVE  beads'[b].owner = "agent"
  <2>1. CASE b \in Filed
    BY <1>1, <2>1 DEF Grows, Kept
  <2>2. CASE b = filed + 1 /\ filed' = filed + 1
    BY <1>1, <2>2 DEF Grows, Hangs, IInv, TypeOK
  <2> QED BY <1>0, <2>1, <2>2
<1>2. \A w \in work' : w \in work \/ (w[1] \in Filed /\ beads[w[1]].owner = "agent")
  <2>1. ASSUME NEW b \in Bead, Dispatch(b)
        PROVE  \A w \in work' : w \in work \/ (w[1] \in Filed /\ beads[w[1]].owner = "agent")
    <3>1. b \in Filed /\ beads[b].owner = "agent"
      BY <2>1 DEF Dispatch, IInv, OfferedInOrder
    <3>2. \A w \in work' : w \in work \/ w = <<b, beads[b].attempt + 1>>
      BY <2>1 DEF Dispatch
    <3> QED BY <3>1, <3>2
  <2>2. ASSUME ~\E b \in Bead : Dispatch(b) PROVE work' \subseteq work
    BY <2>2
    DEF Next, File, StartRun, FileStep, FileContainer, RefuseInner, RefuseDepth, Refuse,
        BlockParent, Append1, Cascade, CrashInCascade, CrashInFiling, TakeReady,
        Report, RefuseDispatch, TakeOn, Look, Land
  <2> QED BY <2>1, <2>2
<1>3. ASSUME NEW w \in work' PROVE w[1] \in Filed' /\ beads'[w[1]].owner = "agent"
  BY <1>0, <1>2 DEF ClosingInv, AgentsWorkTheirOwn, Grows, Kept
<1>4. ASSUME NEW c \in Call
      PROVE  \/ calls'[c] = calls[c] \/ calls'[c] = NoCall
             \/ \E b \in Filed : /\ calls'[c].bead = b
                                 /\ calls'[c].verb \in {"retry", "reap"} => beads[b].owner = "agent"
  <2>1. ASSUME NEW d \in Call, NEW b \in Bead, NEW v \in Verb, Look(d, v, b)
        PROVE  \/ calls'[c] = calls[c]
               \/ \E a \in Filed : /\ calls'[c].bead = a
                                   /\ calls'[c].verb \in {"retry", "reap"} => beads[a].owner = "agent"
    <3>1. b \in Filed /\ (v \in {"retry", "reap"} => beads[b].owner = "agent")
      BY <2>1 DEF Look, MayBegin, ClosingInv, AgentsWorkTheirOwn
    <3>2. calls' = [calls EXCEPT ![d] = [verb |-> v, bead |-> b, seen |-> beads[b].meta]]
      BY <2>1 DEF Look, Begin
    <3> QED BY <3>1, <3>2 DEF IInv, TypeOK
  <2>2. ASSUME NEW d \in Call, NEW b \in Bead, RefuseDispatch(d, b) \/ TakeOn(d, b)
        PROVE  \/ calls'[c] = calls[c]
               \/ \E a \in Filed : /\ calls'[c].bead = a
                                   /\ calls'[c].verb \in {"retry", "reap"} => beads[a].owner = "agent"
    <3>1. b \in Filed
      BY <2>2 DEF RefuseDispatch, TakeOn, IInv, OfferedInOrder
    <3>2. PICK v \in {"refuse", "complete"} :
            calls' = [calls EXCEPT ![d] = [verb |-> v, bead |-> b, seen |-> beads[b].meta]]
      BY <2>2 DEF RefuseDispatch, TakeOn, Begin
    <3> QED BY <3>1, <3>2 DEF IInv, TypeOK
  <2>3. ASSUME NEW d \in Call, Land(d) PROVE calls'[c] = calls[c] \/ calls'[c] = NoCall
    BY <2>3 DEF Land, IInv, TypeOK
  <2>4. ASSUME \/ File \/ Cascade \/ CrashInCascade \/ CrashInFiling \/ TakeReady
               \/ \E b \in Bead : Dispatch(b)
               \/ \E w \in work : \E s \in Outcome \cup {"done"} : Report(w, s)
        PROVE  calls' = calls
    BY <2>4 DEF File, StartRun, FileStep, FileContainer, RefuseInner, RefuseDepth, Refuse,
                BlockParent, Append1, Cascade, CrashInCascade, CrashInFiling, TakeReady,
                Dispatch, Report
  <2> QED BY <2>1, <2>2, <2>3, <2>4 DEF Next
<1>5. ASSUME NEW c \in Call, calls'[c].verb \in {"retry", "reap"}
      PROVE  beads'[calls'[c].bead].owner = "agent"
  <2>1. PICK b \in Filed : calls'[c].bead = b /\ beads[b].owner = "agent"
    <3>1. CASE calls'[c] = calls[c]
      BY <1>5, <3>1, TreeAssumption
      DEF IInv, CallsOnFiled, NoCall, AllVerb, ClosingInv, AgentsWorkTheirOwn
    <3>2. calls'[c] # NoCall
      BY <1>5, TreeAssumption DEF NoCall, AllVerb
    <3> QED BY <1>4, <1>5, <3>1, <3>2
  <2> QED BY <2>1 DEF Grows, Kept
<1> QED BY <1>1, <1>3, <1>5 DEF AgentsWorkTheirOwn

LEMMA InitClosing == Init => ClosingInv
<1> SUFFICES ASSUME Init PROVE ClosingInv
  OBVIOUS
<1>1. Filed = {} /\ closing = NoBead /\ work = {} /\ \A c \in Call : calls[c] = NoCall
  BY DEF Init, Filed
<1> QED BY <1>1, TreeAssumption
        DEF ClosingInv, ParentsAreFiled, AgentsWorkTheirOwn, FinishedIsSeen, NoCall, AllVerb

LEMMA NextClosing == IInv /\ ClosingInv /\ [Next]_vars => ClosingInv'
<1> SUFFICES ASSUME IInv, ClosingInv, [Next]_vars PROVE ClosingInv'
  OBVIOUS
<1>1. CASE Next
  <2>1. TypeOK' /\ Grows
    BY <1>1, NextIInv, WorkGrows DEF IInv
  <2> QED BY <1>1, <2>1, FinishedStays, OwnWorkStays DEF ClosingInv
<1>2. CASE UNCHANGED vars
  <2>1. TypeOK' /\ Grows
    BY <1>2, NothingGrows, NextIInv DEF vars, IInv
  <2>2. AgentsWorkTheirOwn'
    BY <1>2 DEF vars, ClosingInv, AgentsWorkTheirOwn, Filed
  <2> QED BY <2>1, <2>2, FinishedStays DEF ClosingInv
<1> QED BY <1>1, <1>2

-----------------------------------------------------------------------------
(* The theorems.                                                            *)

\* The inductive invariant of the run tree: the state is typed, the filer
\* stands on beads it filed and nobody's agent owns, the cycle's list and
\* every hand-out have released blockers behind them.
THEOREM TreeInvariance == Spec => []IInv
  BY InitIInv, NextIInv, PTL DEF Spec

\* A step reaches an agent only after every step it is `after` was DONE: not
\* while the run is being filed (_file_steps), nor through the cycle's stale
\* ready() list, a crash, a reap, or a gate that parks the earlier step.
THEOREM StepsStartInOrder == Spec => []WorkInOrder
<1>1. IInv => WorkInOrder
  BY DEF IInv
<1> QED
  BY <1>1, TreeInvariance, PTL

\* A parent with all its steps done does not stay open: whoever takes the lock
\* finds it closed, or with a gate of its own, whatever interleaved with the
\* cascade (_on_step_closed), unless a process died in it.
THEOREM FinishedRunsClose == Spec => []FinishedIsClosed
<1>1. Spec => []ClosingInv
  BY InitClosing, NextClosing, TreeInvariance, PTL DEF Spec
<1>2. ClosingInv => FinishedIsClosed
  BY DEF ClosingInv, FinishedIsSeen, FinishedIsClosed
<1> QED
  BY <1>1, <1>2, PTL
=============================================================================
