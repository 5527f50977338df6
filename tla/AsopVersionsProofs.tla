-------------------------- MODULE AsopVersionsProofs --------------------------
(***************************************************************************)
(* Theorems about AsopVersions, for every set of steps and callers and for *)
(* files of every length: numbers, what is in service, and the word of the *)
(* people over that of the agents.                                         *)
(***************************************************************************)
EXTENDS AsopVersions, TLAPS, WellFoundedInduction

-----------------------------------------------------------------------------
(* The latest of some versions.                                             *)

\* A bounded set of naturals that is not empty has a greatest element.
LEMMA GreatestOf ==
  ASSUME NEW N \in Nat, NEW S \in SUBSET (0..N), S # {}
  PROVE \E m \in S : \A k \in S : k <= m
<1> DEFINE T == {N - k : k \in S}
<1>1. T \in SUBSET Nat /\ T # {}
  <2>1. \A k \in S : N - k \in Nat
    OBVIOUS
  <2>2. PICK k \in S : TRUE
    OBVIOUS
  <2>3. N - k \in T
    OBVIOUS
  <2> QED BY <2>1, <2>3
<1>2. PICK x \in T : \A y \in T : <<y, x>> \notin OpToRel(<, Nat)
  BY <1>1, WFMin, NatLessThanWellFounded
<1>3. \A y \in T : ~(y < x)
  BY <1>1, <1>2 DEF OpToRel
<1>4. PICK m \in S : x = N - m
  BY <1>2
<1>5. \A k \in S : ~(N - k < N - m)
  BY <1>3, <1>4
<1> QED BY <1>5

LEMMA LineType ==
  ASSUME TypeOK, NEW n \in DOMAIN file
  PROVE /\ file[n] \in ASOP /\ file[n].version \in Nat /\ file[n].version > 0
        /\ file[n].status \in Statuses /\ file[n].build \in Build
        /\ file[n].steps \in Body /\ file[n].kind \in Kinds
<1>1. file[n] \in ASOP
  BY DEF TypeOK
<1> QED BY <1>1 DEF ASOP

\* versions[-1] is one of the versions, and none has a greater number.
LEMMA LatestIs ==
  ASSUME TypeOK, NumbersFit, NEW h \in SUBSET DOMAIN file, h # {}
  PROVE \E n \in h : /\ Latest(h) = file[n]
                     /\ \A m \in h : file[m].version <= file[n].version
<1> DEFINE S == {file[n].version : n \in h}
<1>1. Len(file) \in Nat /\ S \in SUBSET (0..Len(file)) /\ S # {}
  <2>1. \A n \in h : file[n].version \in 0..Len(file)
    BY LineType, Len(file) \in Nat DEF NumbersFit, TypeOK
  <2> QED BY <2>1 DEF TypeOK
<1>2. PICK v \in S : \A w \in S : w <= v
  BY <1>1, GreatestOf
<1>3. \E n \in h : \A m \in h : file[m].version <= file[n].version
  BY <1>2
<1> QED BY <1>3 DEF Latest

\* Where every number is on one line, the latest line is the one that no
\* number is greater than.
LEMMA LatestOnly ==
  ASSUME TypeOK, NumbersFit, FirstIssuedOnce, NumberIssuedOnce,
         NEW n \in DOMAIN file, \A m \in DOMAIN file : file[m].version <= file[n].version
  PROVE Latest(DOMAIN file) = file[n]
<1>1. PICK k \in DOMAIN file : /\ Latest(DOMAIN file) = file[k]
                               /\ \A m \in DOMAIN file : file[m].version <= file[k].version
  BY LatestIs
<1>2. file[k].version = file[n].version /\ file[k].version \in Nat /\ file[k].version > 0
  BY <1>1, LineType
<1>3. k = n
  BY <1>2 DEF FirstIssuedOnce, NumberIssuedOnce
<1> QED BY <1>1, <1>3

-----------------------------------------------------------------------------
(* What the verbs do to the file.                                           *)

LEMMA Appended ==
  ASSUME TypeOK, NEW r \in ASOP, file' = Append(file, r)
  PROVE /\ file' \in Seq(ASOP)
        /\ DOMAIN file' = DOMAIN file \cup {Len(file) + 1}
        /\ Len(file') = Len(file) + 1 /\ Len(file) \in Nat
        /\ DOMAIN file = 1..Len(file)
        /\ \A n \in DOMAIN file : file'[n] = file[n]
        /\ file'[Len(file) + 1] = r
BY DEF TypeOK

LEMMA Drafted ==
  ASSUME TypeOK, NumbersFit, NEW kind \in Kinds, NEW b \in Build, NEW body \in Body
  PROVE /\ Draft(1, kind, body, b) \in ASOP
        /\ Read(b) # {} => /\ Latest(Read(b)).version + 1 \in Nat
                           /\ Latest(Read(b)).version + 1 > 1
                           /\ Latest(Read(b)).version <= Len(file)
                           /\ Draft(Latest(Read(b)).version + 1, kind, body, b) \in ASOP
<1>1. b \in {"old", "new"}
  BY AsopAssumption
<1>2. Read(b) \in SUBSET DOMAIN file
  BY DEF Read
<1>2a. Draft(1, kind, body, b) \in ASOP
  BY <1>1 DEF Draft, ASOP, Statuses, Kinds
<1>3. CASE Read(b) = {}
  BY <1>2a, <1>3
<1>4. CASE Read(b) # {}
  <2>1. PICK n \in Read(b) : Latest(Read(b)) = file[n]
    BY <1>2, <1>4, LatestIs
  <2>2. file[n].version \in Nat /\ file[n].version > 0 /\ file[n].version <= Len(file)
    BY <1>2, LineType DEF NumbersFit
  <2>3. \A v \in Nat \ {0} : Draft(v, kind, body, b) \in ASOP
    BY <1>1 DEF Draft, ASOP, Statuses, Kinds
  <2> QED BY <1>2a, <2>1, <2>2, <2>3
<1> QED BY <1>3, <1>4

\* A line of the file after a verb that rewrites statuses.
Restated(old, new) ==
  new \in ASOP /\ new = [old EXCEPT !.status = new.status]

LEMMA Kept ==
  ASSUME TypeOK, NEW r \in ASOP, NEW st \in Statuses
  PROVE Restated(r, [r EXCEPT !.status = st]) /\ Restated(r, r)
BY DEF Restated, ASOP

Rewritten ==
  /\ file' \in Seq(ASOP) /\ DOMAIN file' = DOMAIN file /\ Len(file') = Len(file)
  /\ \A n \in DOMAIN file : Restated(file[n], file'[n])

LEMMA ActivateRewrites ==
  ASSUME TypeOK, NEW kind, NEW n \in DOMAIN file, NEW b \in Build, Activate(kind, n, b)
  PROVE /\ Rewritten
        /\ \A k \in DOMAIN file :
             file'[k] = IF k \in Read(b) THEN AfterActivation(file[n].version, k) ELSE file[k]
<1>1. \A k \in DOMAIN file :
        file'[k] = IF k \in Read(b) THEN AfterActivation(file[n].version, k) ELSE file[k]
  BY DEF Activate, WriteAll
<1>2. \A k \in DOMAIN file : file[k] \in ASOP
  BY DEF TypeOK
<1>3. \A k \in DOMAIN file : Restated(file[k], file'[k])
  <2> TAKE k \in DOMAIN file
  <2>1. \A st \in Statuses : Restated(file[k], [file[k] EXCEPT !.status = st])
    BY <1>2, Kept
  <2>2. Restated(file[k], file[k])
    BY <1>2, Kept, "draft" \in Statuses DEF Statuses
  <2> QED BY <1>1, <2>1, <2>2 DEF AfterActivation, Statuses
<1>4. DOMAIN file' = DOMAIN file /\ file' = [k \in DOMAIN file |-> file'[k]]
  BY DEF Activate, WriteAll
<1>5. Len(file) \in Nat /\ DOMAIN file = 1..Len(file)
  BY DEF TypeOK
<1>6. \A k \in DOMAIN file : file'[k] \in ASOP
  BY <1>3 DEF Restated
<1>7. file' \in [1..Len(file) -> ASOP]
  BY <1>4, <1>5, <1>6
<1>8. file' \in Seq(ASOP) /\ Len(file') = Len(file)
  BY <1>5, <1>7
<1> QED BY <1>1, <1>3, <1>4, <1>8 DEF Rewritten

LEMMA RetireRewrites ==
  ASSUME TypeOK, NEW kind, NEW b \in Build, Retire(kind, b)
  PROVE /\ Rewritten
        /\ \A k \in DOMAIN file : \/ file'[k] = file[k]
                                  \/ /\ file[k].status = "active"
                                     /\ file'[k] = [file[k] EXCEPT !.status = "retired"]
<1> DEFINE w == CHOOSE n \in Active(Read(b)) : \A m \in Active(Read(b)) : n <= m
<1>1. Active(Read(b)) \subseteq DOMAIN file /\ Active(Read(b)) # {}
  BY DEF Retire, Active, Read
<1>2. Active(Read(b)) \in SUBSET Nat
  BY <1>1 DEF TypeOK
<1>3. PICK x \in Active(Read(b)) : \A y \in Active(Read(b)) : <<y, x>> \notin OpToRel(<, Nat)
  BY <1>1, <1>2, WFMin, NatLessThanWellFounded
<1>4. \A y \in Active(Read(b)) : x <= y
  <2> TAKE y \in Active(Read(b))
  <2>1. x \in Nat /\ y \in Nat
    BY <1>2
  <2>2. ~(y < x)
    BY <1>3, <2>1 DEF OpToRel
  <2> QED BY <2>1, <2>2
<1>5. w \in Active(Read(b))
  BY <1>4
<1>6. \A k \in DOMAIN file :
        file'[k] = IF k \in Read(b) /\ k = w THEN [file[k] EXCEPT !.status = "retired"] ELSE file[k]
  BY DEF Retire, WriteAll
<1>7. file[w].status = "active"
  BY <1>5 DEF Active
<1>8. \A k \in DOMAIN file : Restated(file[k], file'[k])
  <2> TAKE k \in DOMAIN file
  <2>1. Restated(file[k], [file[k] EXCEPT !.status = "retired"]) /\ Restated(file[k], file[k])
    BY LineType, Kept, "retired" \in Statuses DEF Statuses
  <2> QED BY <1>6, <2>1
<1>9. DOMAIN file' = DOMAIN file /\ file' = [k \in DOMAIN file |-> file'[k]]
  BY DEF Retire, WriteAll
<1>10. Len(file) \in Nat /\ DOMAIN file = 1..Len(file)
  BY DEF TypeOK
<1>11. file' \in [1..Len(file) -> ASOP]
  BY <1>8, <1>9, <1>10 DEF Restated
<1>12. file' \in Seq(ASOP) /\ Len(file') = Len(file)
  BY <1>10, <1>11
<1> QED BY <1>6, <1>7, <1>8, <1>9, <1>12 DEF Rewritten

-----------------------------------------------------------------------------
(* A new line.                                                              *)

\* What create and revise write.
Fresh(r) ==
  /\ r \in ASOP /\ r.status = "draft" /\ r.version <= Len(file) + 1
  /\ file = <<>> => r.version = 1
  /\ r.build = "old" => \A n \in DOMAIN file : file[n].build = "old" => file[n].version # r.version
  /\ r.version > 1 => \A n \in DOMAIN file : file[n].version # r.version

LEMMA NewLineKeeps ==
  ASSUME IInv, NEW r, Fresh(r), file' = Append(file, r), UNCHANGED published
  PROVE /\ TypeOK' /\ NumbersFit' /\ OldIssuedOnce' /\ NumberIssuedOnce' /\ OneActive'
        /\ ServiceEndedByPerson' /\ ServiceKeepsHumanSteps'
<1> USE DEF IInv
<1> DEFINE L == Len(file) + 1
<1>1. /\ file' \in Seq(ASOP)
      /\ DOMAIN file' = DOMAIN file \cup {L}
      /\ Len(file') = L /\ Len(file) \in Nat /\ DOMAIN file = 1..Len(file)
      /\ \A n \in DOMAIN file : file'[n] = file[n]
      /\ file'[L] = r
  BY Appended DEF Fresh
<1>2. \A n \in DOMAIN file : file[n].version \in Nat /\ file[n].version > 0
  BY LineType
<1>3. r.version \in Nat /\ r.version > 0 /\ r.status = "draft"
  BY DEF Fresh, ASOP
<1> HIDE DEF L
<1>4. TypeOK'
  BY <1>1 DEF TypeOK
<1>5. NumbersFit'
  <2>1. file' # <<>> => file'[1].version = 1
    <3>1. CASE file = <<>>
      <4>1. L = 1
        BY <3>1 DEF L
      <4> QED BY <1>1, <3>1, <4>1 DEF Fresh
    <3>2. CASE file # <<>>
      <4>1. 1 \in DOMAIN file
        BY <1>1, <3>2 DEF TypeOK
      <4> QED BY <1>1, <3>2, <4>1 DEF NumbersFit
    <3> QED BY <3>1, <3>2
  <2>2. \A n \in DOMAIN file' : file'[n].version <= Len(file')
    BY <1>1, <1>2, <1>3 DEF NumbersFit, Fresh, L
  <2> QED BY <2>1, <2>2 DEF NumbersFit
<1>6. OldIssuedOnce'
  BY <1>1 DEF OldIssuedOnce, Fresh
<1>7. NumberIssuedOnce'
  BY <1>1, <1>2, <1>3 DEF NumberIssuedOnce, Fresh
<1>8. OneActive'
  BY <1>1, <1>3 DEF OneActive
<1>9. ServiceEndedByPerson' /\ ServiceKeepsHumanSteps'
  <2>1. (\A n \in DOMAIN file' : file'[n].build = "old") => \A n \in DOMAIN file : file[n].build = "old"
    BY <1>1
  <2>2. Active(DOMAIN file)' = Active(DOMAIN file)
    BY <1>1, <1>3 DEF Active
  <2>3. Active(DOMAIN file) \subseteq DOMAIN file
    BY DEF Active
  <2>4. ServiceEndedByPerson'
    BY <2>1, <2>2 DEF ServiceEndedByPerson, Nothing
  <2>5. ServiceKeepsHumanSteps'
    <3> SUFFICES ASSUME \A n \in DOMAIN file' : file'[n].build = "old", NEW n \in Active(DOMAIN file)'
                 PROVE HumanSteps(published') \subseteq HumanSteps(file'[n].steps)
      BY DEF ServiceKeepsHumanSteps
    <3>1. n \in Active(DOMAIN file) /\ file'[n] = file[n]
      BY <1>1, <2>2, <2>3
    <3>2. HumanSteps(published) \subseteq HumanSteps(file[n].steps)
      BY <2>1, <3>1 DEF ServiceKeepsHumanSteps
    <3> QED BY <3>1, <3>2
  <2> QED BY <2>4, <2>5
<1> QED BY <1>4, <1>5, <1>6, <1>7, <1>8, <1>9

LEMMA CreateIsFresh ==
  ASSUME IInv, NEW kind \in Kinds, NEW body \in Body, NEW b \in Build, Create(kind, body, b)
  PROVE Fresh(Draft(1, kind, body, b))
<1>1. Draft(1, kind, body, b) \in ASOP
  BY Drafted DEF IInv
<1>2. \A n \in DOMAIN file : file[n].build # "old"
  BY DEF Create, Read, Readable
<1>3. Len(file) \in Nat
  BY DEF IInv, TypeOK
<1> QED BY <1>1, <1>2, <1>3 DEF Fresh, Draft

LEMMA ReadsAll ==
  ASSUME NEW b, Quarantined(b) = {} PROVE Read(b) = DOMAIN file
BY DEF Quarantined, Read

LEMMA ReviseIsFresh ==
  ASSUME IInv, NEW kind \in Kinds, NEW body \in Body,
         NEW b \in Build, Revise(kind, body, b)
  PROVE /\ Fresh(Draft(Latest(DOMAIN file).version + 1, kind, body, b))
        /\ \A n \in DOMAIN file : file[n].version < Latest(DOMAIN file).version + 1
<1>1. Read(b) = DOMAIN file /\ DOMAIN file # {}
  BY ReadsAll DEF Revise
<1>2. PICK n \in DOMAIN file : /\ Latest(DOMAIN file) = file[n]
                               /\ \A m \in DOMAIN file : file[m].version <= file[n].version
  BY <1>1, LatestIs DEF IInv
<1> DEFINE v == Latest(DOMAIN file).version + 1
<1>3. v \in Nat /\ v > 1 /\ v <= Len(file) + 1 /\ Draft(v, kind, body, b) \in ASOP
  <2>1. file[n].version <= Len(file) /\ Len(file) \in Nat /\ file[n].version \in Nat
    BY LineType DEF IInv, NumbersFit, TypeOK
  <2> QED BY <1>1, <1>2, <2>1, Drafted DEF IInv
<1>4. \A m \in DOMAIN file : file[m].version < v
  BY <1>2, LineType DEF IInv
<1>5. \A m \in DOMAIN file : file[m].version # v
  BY <1>4, LineType DEF IInv
<1>6. file # <<>>
  BY <1>1
<1> HIDE DEF v
<1>7. Draft(v, kind, body, b).version = v /\ Draft(v, kind, body, b).status = "draft"
  BY DEF Draft
<1>8. Fresh(Draft(v, kind, body, b))
  BY <1>3, <1>5, <1>6, <1>7 DEF Fresh
<1> QED BY <1>4, <1>8 DEF v

-----------------------------------------------------------------------------
(* The word of the people.                                                  *)

LEMMA CreateKeepsWord ==
  ASSUME IInv, NEW kind \in Kinds, NEW body \in Body, NEW b \in Build, Create(kind, body, b)
  PROVE HumanWordStands'
<1> DEFINE r == Draft(1, kind, body, b)
<1>1. /\ DOMAIN file' = DOMAIN file \cup {Len(file) + 1} /\ Len(file) \in Nat
      /\ DOMAIN file = 1..Len(file)
      /\ \A n \in DOMAIN file : file'[n] = file[n]
      /\ file'[Len(file) + 1] = r
  BY CreateIsFresh, Appended DEF Create, Fresh, IInv
<1>2. r.version = 1
  BY DEF Draft
<1> HIDE DEF r
<1> SUFFICES ASSUME FirstIssuedOnce' PROVE \A s \in StepName : Banned(DOMAIN file, s)' = {}
  BY DEF HumanWordStands
<1>3. file = <<>>
  <2> SUFFICES ASSUME file # <<>> PROVE FALSE
    OBVIOUS
  <2>1. 1 \in DOMAIN file /\ file[1].version = 1
    BY <1>1 DEF IInv, TypeOK, NumbersFit
  <2>2. Len(file) + 1 = 1
    BY <1>1, <1>2, <2>1 DEF FirstIssuedOnce
  <2> QED BY <1>1, <2>2, <2>1
<1>4. DOMAIN file' = {1} /\ file'[1] = r
  BY <1>1, <1>3
<1>5. \A m, n : ~Precedes(DOMAIN file, m, n)' \/ n # 1
  BY <1>2, <1>4 DEF Precedes
<1> QED BY <1>4, <1>5 DEF Banned, MovedFrom

\* A line with a number greater than all others leaves the moves before it as
\* they were.
LEMMA MovesBefore ==
  ASSUME IInv, NEW r \in ASOP, file' = Append(file, r),
         \A n \in DOMAIN file : file[n].version < r.version,
         NEW s \in StepName, NEW form \in Form, NEW n \in DOMAIN file
  PROVE /\ MovedFrom(DOMAIN file, n, s, form)' <=> MovedFrom(DOMAIN file, n, s, form)
        /\ MovedTo(DOMAIN file, n, s, form)' <=> MovedTo(DOMAIN file, n, s, form)
<1>1. /\ DOMAIN file' = DOMAIN file \cup {Len(file) + 1}
      /\ \A k \in DOMAIN file : file'[k] = file[k]
      /\ file'[Len(file) + 1] = r
  BY Appended DEF IInv
<1>2. r.version \in Nat /\ \A k \in DOMAIN file : file[k].version \in Nat
  BY LineType DEF IInv, ASOP
<1>3. \A m \in DOMAIN file : Precedes(DOMAIN file, m, n)' <=> Precedes(DOMAIN file, m, n)
  <2> TAKE m \in DOMAIN file
  <2>1. file'[m] = file[m] /\ file'[n] = file[n]
    BY <1>1
  <2>2. ~(file'[Len(file) + 1].version < file'[n].version)
    BY <1>1, <1>2
  <2> QED BY <1>1, <2>1, <2>2 DEF Precedes
<1>5. \A m : Precedes(DOMAIN file, m, n)' => m \in DOMAIN file
  <2> SUFFICES ASSUME NEW m, Precedes(DOMAIN file, m, n)' PROVE m \in DOMAIN file
    OBVIOUS
  <2>1. m \in DOMAIN file' /\ file'[m].version < file'[n].version
    BY DEF Precedes
  <2>2. ~(r.version < file[n].version)
    BY <1>2
  <2> QED BY <1>1, <2>1, <2>2
<1>6. \A m : Precedes(DOMAIN file, m, n) => m \in DOMAIN file
  BY DEF Precedes
<1> QED BY <1>1, <1>3, <1>5, <1>6 DEF MovedFrom, MovedTo

LEMMA ReviseKeepsWord ==
  ASSUME IInv, NEW kind \in Kinds, NEW body \in Body,
         NEW b \in Build, Revise(kind, body, b)
  PROVE HumanWordStands'
<1> DEFINE D == DOMAIN file
           r == Draft(Latest(D).version + 1, kind, body, b)
<1>1. Fresh(r) /\ (\A n \in D : file[n].version < r.version)
  BY ReviseIsFresh DEF Draft
<1>2. Read(b) = D /\ D # {}
  BY ReadsAll DEF Revise
<1>3. file' = Append(file, r)
  BY <1>2 DEF Revise
<1>4. PICK L \in Nat : /\ DOMAIN file' = D \cup {L} /\ L \notin D
                      /\ \A n \in D : file'[n] = file[n]
                      /\ file'[L] = r
  <2>1. /\ DOMAIN file' = D \cup {Len(file) + 1} /\ Len(file) + 1 \notin D
        /\ Len(file) + 1 \in Nat
        /\ \A n \in D : file'[n] = file[n]
        /\ file'[Len(file) + 1] = r
    BY <1>1, <1>3, Appended DEF Fresh, IInv
  <2> QED BY <2>1
<1>5. r.kind = kind /\ r.steps = body /\ r.version \in Nat /\ r \in ASOP
  BY <1>1 DEF Draft, Fresh, ASOP
<1>6. \A n \in D : file[n].version \in Nat
  BY LineType DEF IInv
<1>7. Allowed(kind, D, Latest(D).steps, body, FALSE)
  BY <1>2 DEF Revise
<1> SUFFICES ASSUME FirstIssuedOnce', NEW s \in StepName
             PROVE Latest(DOMAIN file)'.steps[s] \notin Banned(DOMAIN file, s)'
  BY DEF HumanWordStands
<1>8. FirstIssuedOnce /\ file # <<>>
  BY <1>2, <1>4 DEF FirstIssuedOnce
<1>9. PICK l \in D : Latest(D) = file[l] /\ \A m \in D : file[m].version <= file[l].version
  BY <1>2, LatestIs DEF IInv
<1> HIDE DEF r
<1>10. Latest(DOMAIN file)' = r
  <2>1. \A m \in DOMAIN file' : file'[m].version <= file'[L].version
    BY <1>1, <1>4, <1>5, <1>6
  <2>2. \A n \in D : ~(file'[L].version <= file'[n].version)
    BY <1>1, <1>4, <1>5, <1>6
  <2>3. \A n \in DOMAIN file' :
          (\A m \in DOMAIN file' : file'[m].version <= file'[n].version) <=> n = L
    BY <1>4, <2>1, <2>2
  <2> QED BY <1>4, <2>3 DEF Latest
<1> DEFINE f == body[s]
<1>11. f \in Form
  BY DEF Body
<1> SUFFICES ASSUME f \in Banned(DOMAIN file, s)' PROVE FALSE
  BY <1>5, <1>10
<1> HIDE DEF D
<1>12. PICK n \in DOMAIN file' :
         /\ MovedFrom(DOMAIN file, n, s, f)'
         /\ \A k \in DOMAIN file' : MovedTo(DOMAIN file, k, s, f)' => file'[k].version < file'[n].version
  BY DEF Banned
<1>13. n # L
  BY <1>4, <1>5, <1>12 DEF MovedFrom
<1>14. n \in D
  BY <1>4, <1>13
<1>15. f \in Banned(D, s)
  <2>1. MovedFrom(D, n, s, f)
    BY <1>1, <1>3, <1>5, <1>11, <1>12, <1>14, MovesBefore DEF D
  <2>2. \A k \in D : MovedTo(D, k, s, f) => file[k].version < file[n].version
    BY <1>1, <1>3, <1>4, <1>5, <1>11, <1>12, <1>14, MovesBefore DEF D
  <2> QED BY <1>11, <1>14, <2>1, <2>2 DEF Banned
<1>16. Latest(D).steps[s] # f
  BY <1>8, <1>15 DEF IInv, HumanWordStands, D
<1>17. CASE kind = "agent"
  BY <1>7, <1>15, <1>16, <1>17 DEF Allowed
<1>18. CASE kind = "human"
  <2>1. Precedes(DOMAIN file, l, L)'
    <3>1. l \in DOMAIN file' /\ file'[l].version < file'[L].version
      BY <1>1, <1>4, <1>9
    <3>2. ~(file'[L].version < file'[L].version)
      BY <1>4, <1>5
    <3>3. \A k \in D : file'[k].version <= file'[l].version
      BY <1>4, <1>9
    <3> QED BY <1>4, <3>1, <3>2, <3>3 DEF Precedes
  <2>2. MovedTo(DOMAIN file, L, s, f)'
    BY <1>4, <1>5, <1>9, <1>16, <1>18, <2>1 DEF MovedTo
  <2>3. file'[L].version < file'[n].version
    BY <1>4, <1>12, <2>2
  <2>4. file'[n].version < file'[L].version
    BY <1>1, <1>4, <1>14
  <2> QED BY <1>4, <1>5, <1>6, <1>14, <2>3, <2>4
<1> QED BY <1>17, <1>18 DEF Kinds

LEMMA RewriteKeepsWord ==
  ASSUME IInv, Rewritten
  PROVE HumanWordStands'
<1> DEFINE D == DOMAIN file
<1>1. DOMAIN file' = D
  BY DEF Rewritten
<1>2. \A n \in D : /\ file'[n].version = file[n].version /\ file'[n].kind = file[n].kind
                   /\ file'[n].steps = file[n].steps
  <2> TAKE n \in D
  <2>1. file[n] \in ASOP /\ file'[n] = [file[n] EXCEPT !.status = file'[n].status]
    BY LineType DEF IInv, Rewritten, Restated
  <2> QED BY <2>1 DEF ASOP
<1> SUFFICES ASSUME FirstIssuedOnce', file' # <<>>, NEW s \in StepName
             PROVE Latest(DOMAIN file)'.steps[s] \notin Banned(DOMAIN file, s)'
  BY DEF HumanWordStands
<1>3. FirstIssuedOnce /\ D # {}
  <2>1. D # {}
    BY <1>1 DEF Rewritten
  <2> QED BY <1>1, <1>2, <2>1 DEF FirstIssuedOnce
<1>4. PICK l \in D : Latest(D) = file[l] /\ \A m \in D : file[m].version <= file[l].version
  BY <1>3, LatestIs DEF IInv
<1>5. \A n \in D : (\A m \in D : file[m].version <= file[n].version) => n = l
  <2> SUFFICES ASSUME NEW n \in D, \A m \in D : file[m].version <= file[n].version PROVE n = l
    OBVIOUS
  <2>1. file[n].version = file[l].version /\ file[n].version \in Nat /\ file[n].version > 0
    BY <1>4, LineType DEF IInv
  <2> QED BY <1>3, <2>1 DEF FirstIssuedOnce, NumberIssuedOnce, IInv
<1> HIDE DEF D
<1>6. Latest(DOMAIN file)' = file'[l]
  <2>1. \A n \in D : (\A m \in D : file'[m].version <= file'[n].version) <=> n = l
    BY <1>2, <1>4, <1>5
  <2> QED BY <1>1, <2>1 DEF Latest
<1>7. \A m, n \in D : Precedes(DOMAIN file, m, n)' <=> Precedes(D, m, n)
  BY <1>1, <1>2 DEF Precedes
<1>8. \A n \in D, form \in Form :
        /\ MovedFrom(DOMAIN file, n, s, form)' <=> MovedFrom(D, n, s, form)
        /\ MovedTo(DOMAIN file, n, s, form)' <=> MovedTo(D, n, s, form)
  BY <1>1, <1>2, <1>7 DEF MovedFrom, MovedTo
<1>9. \A form \in Form : form \in Banned(DOMAIN file, s)' => form \in Banned(D, s)
  BY <1>1, <1>2, <1>8 DEF Banned
<1>10. Banned(DOMAIN file, s)' \subseteq Form
  BY DEF Banned
<1>11. Latest(D).steps[s] \notin Banned(D, s)
  BY <1>3 DEF IInv, HumanWordStands, D
<1> QED BY <1>2, <1>4, <1>6, <1>9, <1>10, <1>11

-----------------------------------------------------------------------------
(* New statuses.                                                            *)

LEMMA RewriteKeepsNumbers ==
  ASSUME IInv, Rewritten, published' \in Body
  PROVE TypeOK' /\ NumbersFit' /\ OldIssuedOnce' /\ NumberIssuedOnce'
<1>1. \A n \in DOMAIN file : file'[n].version = file[n].version /\ file'[n].build = file[n].build
  <2> TAKE n \in DOMAIN file
  <2>1. file[n] \in ASOP /\ file'[n] = [file[n] EXCEPT !.status = file'[n].status]
    BY LineType DEF IInv, Rewritten, Restated
  <2> QED BY <2>1 DEF ASOP
<1>2. TypeOK'
  BY DEF Rewritten, TypeOK
<1>3. NumbersFit'
  <2>1. file' # <<>> => 1 \in DOMAIN file
    BY DEF Rewritten, IInv, TypeOK
  <2>2. file' # <<>> => file # <<>>
    BY DEF Rewritten, IInv, TypeOK
  <2> QED BY <1>1, <2>1, <2>2 DEF IInv, Rewritten, NumbersFit
<1>4. OldIssuedOnce' /\ NumberIssuedOnce'
  BY <1>1 DEF IInv, Rewritten, OldIssuedOnce, NumberIssuedOnce
<1> QED BY <1>2, <1>3, <1>4

LEMMA ActivateKeeps ==
  ASSUME IInv, NEW kind \in Kinds, NEW n \in DOMAIN file, NEW b \in Build, Activate(kind, n, b)
  PROVE IInv'
<1> DEFINE D == DOMAIN file
<1>1. /\ Rewritten
      /\ \A k \in D : file'[k] = IF k \in Read(b) THEN AfterActivation(file[n].version, k) ELSE file[k]
  BY ActivateRewrites DEF IInv
<1>2. /\ DOMAIN file' = D /\ n \in Read(b) /\ b \in {"old", "new"}
      /\ published' = IF kind = "human" THEN file[n].steps ELSE published
  BY <1>1, AsopAssumption DEF Rewritten, Activate
<1>3. \A k \in D : file[k] \in ASOP /\ file[k].steps \in Body
  BY LineType DEF IInv
<1>4. published' \in Body
  BY <1>2, <1>3 DEF IInv, TypeOK
<1>5. TypeOK' /\ NumbersFit' /\ OldIssuedOnce' /\ NumberIssuedOnce' /\ HumanWordStands'
  BY <1>1, <1>4, RewriteKeepsNumbers, RewriteKeepsWord
<1>6. \A k \in D : file[k].build = "old" => k \in Read(b)
  BY DEF Read, Readable
<1>7. \A k \in D : file'[k].build = file[k].build /\ file'[k].steps = file[k].steps
  BY <1>1, <1>3 DEF AfterActivation, ASOP
<1>8. \A k \in Read(b) : file'[k].status = "active" => file[k].version = file[n].version
  BY <1>1, <1>3 DEF AfterActivation, ASOP, Read
<1>9. file'[n].status = "active"
  BY <1>1, <1>2, <1>3 DEF AfterActivation, ASOP
<1>10. OneActive'
  <2> SUFFICES ASSUME NEW k \in D, NEW m \in D, file'[k].build = "old", file'[m].build = "old",
                      file'[k].status = "active", file'[m].status = "active"
               PROVE k = m
    BY <1>2 DEF OneActive
  <2>1. file[k].version = file[n].version /\ file[m].version = file[n].version
    BY <1>6, <1>7, <1>8
  <2> QED BY <1>7, <2>1 DEF IInv, OldIssuedOnce
<1>11. ServiceEndedByPerson'
  <2>1. n \in Active(DOMAIN file)'
    BY <1>2, <1>9 DEF Active, Read
  <2> QED BY <2>1 DEF ServiceEndedByPerson
<1>12. ServiceKeepsHumanSteps'
  <2> SUFFICES ASSUME \A k \in D : file[k].build = "old", NEW m \in D, file'[m].status = "active"
               PROVE HumanSteps(published') \subseteq HumanSteps(file'[m].steps)
    BY <1>2, <1>7 DEF ServiceKeepsHumanSteps, Active
  <2>1. Read(b) = D
    BY <1>6 DEF Read
  <2>2. m = n
    BY <1>8, <2>1 DEF IInv, OldIssuedOnce
  <2>3. file'[m].steps = file[n].steps
    BY <1>7, <2>2
  <2>4. CASE kind = "human"
    BY <1>2, <2>3, <2>4
  <2>5. CASE kind = "agent"
    <3>1. published' = published
      BY <1>2, <2>5
    <3>2. /\ HumanSteps(Baseline(D)) \subseteq HumanSteps(file[n].steps)
          /\ Active(D) = {} => HumanSteps(file[n].steps) = {}
      BY <2>1, <2>5 DEF Activate, Allowed
    <3>3. CASE Active(D) = {}
      <4>1. published = Nothing
        BY <3>3 DEF IInv, ServiceEndedByPerson
      <4>2. HumanSteps(published) = {}
        BY <4>1 DEF HumanSteps, Nothing
      <4> QED BY <3>1, <4>2
    <3>4. CASE Active(D) # {}
      <4>1. PICK a \in Active(D) : \A c \in Active(D) : a = c
        BY <3>4 DEF Active, IInv, OneActive
      <4>2. \A c \in Active(D) : a <= c
        BY <4>1, a \in Nat DEF Active, IInv, TypeOK
      <4>3. Baseline(D) = file[a].steps
        BY <3>4, <4>1, <4>2 DEF Baseline
      <4>4. HumanSteps(published) \subseteq HumanSteps(file[a].steps)
        BY <4>1 DEF IInv, ServiceKeepsHumanSteps
      <4> QED BY <2>3, <3>1, <3>2, <4>3, <4>4
    <3> QED BY <3>3, <3>4
  <2> QED BY <2>4, <2>5 DEF Kinds
<1> QED BY <1>5, <1>10, <1>11, <1>12 DEF IInv

LEMMA RetireKeeps ==
  ASSUME IInv, NEW kind \in Kinds, NEW b \in Build, Retire(kind, b)
  PROVE IInv'
<1> DEFINE D == DOMAIN file
<1>1. /\ Rewritten
      /\ \A k \in D : \/ file'[k] = file[k]
                      \/ /\ file[k].status = "active"
                         /\ file'[k] = [file[k] EXCEPT !.status = "retired"]
  BY RetireRewrites DEF IInv
<1>2. DOMAIN file' = D /\ published' = Nothing /\ published' \in Body
  BY <1>1 DEF Rewritten, Retire, Nothing, Body, Form
<1>3. \A k \in D : file[k] \in ASOP
  BY LineType DEF IInv
<1>4. TypeOK' /\ NumbersFit' /\ OldIssuedOnce' /\ NumberIssuedOnce' /\ HumanWordStands'
  BY <1>1, <1>2, RewriteKeepsNumbers, RewriteKeepsWord
<1>5. \A k \in D : /\ file'[k].build = file[k].build
                   /\ file'[k].status = "active" => file[k].status = "active"
  BY <1>1, <1>3 DEF ASOP
<1>6. OneActive'
  BY <1>2, <1>5 DEF IInv, OneActive
<1>7. ServiceEndedByPerson'
  BY <1>2 DEF ServiceEndedByPerson, Nothing
<1>8. ServiceKeepsHumanSteps'
  <2>1. HumanSteps(published)' = {}
    BY <1>2 DEF HumanSteps, Nothing
  <2> QED BY <2>1 DEF ServiceKeepsHumanSteps
<1> QED BY <1>4, <1>6, <1>7, <1>8 DEF IInv

-----------------------------------------------------------------------------
(* The theorems.                                                            *)

LEMMA StartKeeps == Init => IInv
<1> SUFFICES ASSUME Init PROVE IInv
  OBVIOUS
<1>1. TypeOK
  BY DEF Init, TypeOK, Nothing, Body, Form
<1> QED BY <1>1 DEF Init, IInv, NumbersFit, OldIssuedOnce, NumberIssuedOnce, OneActive,
                    ServiceEndedByPerson, ServiceKeepsHumanSteps, HumanWordStands, Active

LEMMA KindKnown ==
  {Kind(actor, claimed) : actor \in Caller, claimed \in Kinds} \subseteq Kinds
BY DEF Kind, Kinds

LEMMA StepKeeps == IInv /\ [Next]_vars => IInv'
<1> SUFFICES ASSUME IInv, [Next]_vars PROVE IInv'
  OBVIOUS
<1>1. ASSUME NEW kind \in Kinds, NEW b \in Build, NEW body \in Body, Create(kind, body, b)
      PROVE IInv'
  <2>1. Fresh(Draft(1, kind, body, b)) /\ HumanWordStands'
    BY <1>1, CreateIsFresh, CreateKeepsWord
  <2> QED BY <1>1, <2>1, NewLineKeeps DEF Create, IInv
<1>2. ASSUME NEW kind \in Kinds, NEW b \in Build, NEW body \in Body,
             Revise(kind, body, b)
      PROVE IInv'
  <2>1. Read(b) = DOMAIN file
    BY <1>2, ReadsAll DEF Revise
  <2>2. Fresh(Draft(Latest(DOMAIN file).version + 1, kind, body, b)) /\ HumanWordStands'
    BY <1>2, ReviseIsFresh, ReviseKeepsWord
  <2> QED BY <1>2, <2>1, <2>2, NewLineKeeps DEF Revise, IInv
<1>3. CASE UNCHANGED vars
  <2>1. file' = file /\ published' = published
    BY <1>3 DEF vars
  <2>2. TypeOK' /\ NumbersFit' /\ OldIssuedOnce' /\ NumberIssuedOnce' /\ OneActive'
    BY <2>1 DEF IInv, TypeOK, NumbersFit, OldIssuedOnce, NumberIssuedOnce, OneActive
  <2>3. ServiceEndedByPerson' /\ ServiceKeepsHumanSteps'
    BY <2>1 DEF IInv, ServiceEndedByPerson, ServiceKeepsHumanSteps, Active, HumanSteps, Nothing
  <2>4. HumanWordStands'
    <3>1. Rewritten
      <4>1. \A n \in DOMAIN file : Restated(file[n], file[n])
        BY LineType, Kept, "draft" \in Statuses DEF IInv, Statuses
      <4> QED BY <2>1, <4>1 DEF IInv, TypeOK, Rewritten
    <3> QED BY <3>1, RewriteKeepsWord
  <2> QED BY <2>2, <2>3, <2>4 DEF IInv
<1>4. CASE Next
  <2>1. PICK kind \in Kinds, b \in Build :
          \/ \E body \in Body : Create(kind, body, b) \/ Revise(kind, body, b)
          \/ \E n \in DOMAIN file : Activate(kind, n, b)
          \/ Retire(kind, b)
    BY <1>4, KindKnown DEF Next
  <2> QED BY <1>1, <1>2, <2>1, ActivateKeeps, RetireKeeps
<1> QED BY <1>3, <1>4

\* IInv, the strengthening, holds always.
THEOREM VersionsInvariance == Spec => []IInv
BY StartKeeps, StepKeeps, PTL DEF Spec

\* Builds of different age never give a number twice, but for the first.
THEOREM NumbersAreIssuedOnce == Spec => []NumberIssuedOnce
<1>1. IInv => NumberIssuedOnce
  BY DEF IInv
<1> QED BY <1>1, VersionsInvariance, PTL

\* One version is in service, of those every build can read.
THEOREM OneIsActive == Spec => []OneActive
<1>1. IInv => OneActive
  BY DEF IInv
<1> QED BY <1>1, VersionsInvariance, PTL

\* The latest version holds nothing a person moved away from.
THEOREM PeopleHaveTheLastWord == Spec => []HumanWordStands
<1>1. IInv => HumanWordStands
  BY DEF IInv
<1> QED BY <1>1, VersionsInvariance, PTL

\* Agents leave gated what a person put into service gated.
THEOREM AgentsKeepHumanSteps == Spec => []ServiceKeepsHumanSteps
<1>1. IInv => ServiceKeepsHumanSteps
  BY DEF IInv
<1> QED BY <1>1, VersionsInvariance, PTL

LEMMA ActivateForward ==
  ASSUME IInv, NEW kind, NEW n \in DOMAIN file, NEW b \in Build, Activate(kind, n, b)
  PROVE Forward
<1> SUFFICES ASSUME FirstIssuedOnce, NEW k \in DOMAIN file
             PROVE /\ k \in DOMAIN file'
                   /\ file'[k] = [file[k] EXCEPT !.status = file'[k].status]
                   /\ file'[k].status # file[k].status =>
                        <<file[k].status, file'[k].status>> \in
                          {<<"draft", "active">>, <<"active", "superseded">>, <<"active", "retired">>}
  BY DEF Forward
<1>1. /\ Rewritten
      /\ file'[k] = IF k \in Read(b) THEN AfterActivation(file[n].version, k) ELSE file[k]
  BY ActivateRewrites DEF IInv
<1>2. file[k] \in ASOP /\ file[k].version \in Nat /\ file[k].version > 0
  BY LineType DEF IInv
<1>3. file[k].version = file[n].version => k = n
  BY <1>2 DEF IInv, FirstIssuedOnce, NumberIssuedOnce
<1>4. file[n].status = "draft"
  BY DEF Activate
<1>5. k \in DOMAIN file' /\ file'[k] = [file[k] EXCEPT !.status = file'[k].status]
  BY <1>1 DEF Rewritten, Restated
<1>6. file'[k].status # file[k].status =>
        \/ file[k].status = "draft" /\ file'[k].status = "active"
        \/ file[k].status = "active" /\ file'[k].status = "superseded"
  BY <1>1, <1>2, <1>3, <1>4 DEF AfterActivation, ASOP
<1> QED BY <1>5, <1>6

LEMMA RetireForward ==
  ASSUME IInv, NEW kind, NEW b \in Build, Retire(kind, b)
  PROVE Forward
<1> SUFFICES ASSUME NEW k \in DOMAIN file
             PROVE /\ k \in DOMAIN file'
                   /\ file'[k] = [file[k] EXCEPT !.status = file'[k].status]
                   /\ file'[k].status # file[k].status =>
                        file[k].status = "active" /\ file'[k].status = "retired"
  BY DEF Forward
<1>1. /\ Rewritten
      /\ \/ file'[k] = file[k]
         \/ file[k].status = "active" /\ file'[k] = [file[k] EXCEPT !.status = "retired"]
  BY RetireRewrites DEF IInv
<1>2. file[k] \in ASOP
  BY LineType DEF IInv
<1> QED BY <1>1, <1>2 DEF Rewritten, Restated, ASOP

LEMMA NewLineForward ==
  ASSUME IInv, NEW r \in ASOP, file' = Append(file, r)
  PROVE Forward
<1>1. DOMAIN file' = DOMAIN file \cup {Len(file) + 1} /\ \A n \in DOMAIN file : file'[n] = file[n]
  BY Appended DEF IInv
<1>2. \A n \in DOMAIN file : file[n] = [file[n] EXCEPT !.status = file[n].status]
  BY LineType DEF IInv, ASOP
<1> QED BY <1>1, <1>2 DEF Forward

LEMMA StepForward == IInv /\ [Next]_vars => [Forward]_vars
<1> SUFFICES ASSUME IInv, Next PROVE Forward
  OBVIOUS
<1>1. PICK kind \in Kinds, b \in Build :
        \/ \E body \in Body : Create(kind, body, b) \/ Revise(kind, body, b)
        \/ \E n \in DOMAIN file : Activate(kind, n, b)
        \/ Retire(kind, b)
  BY KindKnown DEF Next
<1>2. ASSUME NEW body \in Body, Create(kind, body, b) PROVE Forward
  BY <1>2, CreateIsFresh, NewLineForward DEF Create, Fresh
<1>3. ASSUME NEW body \in Body, Revise(kind, body, b) PROVE Forward
  <2>1. Read(b) = DOMAIN file
    BY <1>3, ReadsAll DEF Revise
  <2> QED BY <1>3, <2>1, ReviseIsFresh, NewLineForward DEF Revise, Fresh
<1> QED BY <1>1, <1>2, <1>3, ActivateForward, RetireForward

\* A version is never edited nor lost, and its status only moves on.
THEOREM VersionsMoveForward == Spec => VersionsForward
BY StepForward, VersionsInvariance, PTL DEF Spec, VersionsForward
=============================================================================
