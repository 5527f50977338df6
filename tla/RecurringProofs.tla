--------------------------- MODULE RecurringProofs ---------------------------
(***************************************************************************)
(* Proofs about Recurring, for any definitions, intervals, modes, cycles   *)
(* and deaths: a period fires once, and the firings of a definition that   *)
(* has a cursor lie an interval apart.                                     *)
(***************************************************************************)
EXTENDS Recurring, TLAPS

USE DEF Never

-----------------------------------------------------------------------------
(* Arithmetic.                                                              *)

LEMMA ProductNat == ASSUME NEW a \in Nat, NEW b \in Nat PROVE a * b \in Nat
  OBVIOUS

LEMMA ProductMonotone ==
  ASSUME NEW a \in Nat, NEW b \in Nat, NEW e \in Nat, a <= b PROVE a * e <= b * e
  <1>1. PICK d \in Nat : b = a + d
    <2>1. b - a \in Nat /\ b = a + (b - a)
      OBVIOUS
    <2> QED BY <2>1
  <1>2. b * e = a * e + d * e
    BY <1>1
  <1>3. d * e \in Nat /\ a * e \in Nat
    BY ProductNat
  <1> QED BY <1>2, <1>3

LEMMA QuotientBounds ==
  ASSUME NEW a \in Nat, NEW e \in Nat \ {0}
  PROVE a \div e \in Nat /\ (a \div e) * e <= a
  OBVIOUS

-----------------------------------------------------------------------------
(* Types.                                                                   *)

LEMMA MissedNat ==
  ASSUME NEW d \in Def, NEW from \in Cursor, NEW now \in Nat
  PROVE Missed(d, from, now) \in Nat
  <1>1. CASE from = Never
    BY <1>1 DEF Missed
  <1>2. CASE from # Never /\ now < from
    BY <1>2 DEF Missed
  <1>3. CASE from # Never /\ ~(now < from)
    <2>1. now - from \in Nat /\ Every[d] \in Nat \ {0}
      BY <1>3, RecurringAssumption DEF Cursor
    <2> QED BY <1>3, <2>1, QuotientBounds DEF Missed
  <1> QED BY <1>1, <1>2, <1>3

LEMMA SlotNat ==
  ASSUME NEW d \in Def, NEW from \in Cursor, NEW now \in Nat, NEW i \in Nat
  PROVE Slot(d, from, now, i) \in Nat
  <1>1. i * Every[d] \in Nat
    BY RecurringAssumption, ProductNat
  <1> QED BY <1>1 DEF Slot, Cursor

LEMMA NewLastCursor ==
  ASSUME NEW d \in Def, NEW from \in Cursor, NEW now \in Nat
  PROVE NewLast(d, from, now) \in Cursor
  <1>1. Missed(d, from, now) * Every[d] \in Nat
    BY MissedNat, RecurringAssumption, ProductNat
  <1> QED BY <1>1 DEF NewLast, Cursor

LEMMA Kinds ==
  ASSUME TypeOK, NEW c \in Cycle
  PROVE /\ cycles[c].at \in {"woken", "looked"} => cycles[c] \in Looking
        /\ cycles[c].at \in {"reserving", "won", "made", "twin"} => cycles[c] \in Firing
  BY DEF TypeOK, Looking, Firing, Idle

LEMMA PeriodTyped == ASSUME NEW r \in Firing PROVE PeriodOf(r) \in Period
  <1>1. r.doing \in Entry /\ r.doing.def \in Def /\ r.doing.from \in Cursor
    BY DEF Firing, Entry
  <1>2. r.now \in Nat /\ r.i \in Nat
    BY DEF Firing
  <1> QED BY <1>1, <1>2, SlotNat DEF PeriodOf, Period

LEMMA NextPeriod == ASSUME NEW r \in Firing PROVE [r EXCEPT !.i = @ + 1] \in Firing
  BY DEF Firing

LEMMA BackToReserving ==
  ASSUME NEW r \in Firing PROVE [r EXCEPT !.at = "reserving", !.i = @ + 1] \in Firing
  <1> DEFINE s == [r EXCEPT !.at = "reserving"]
  <1>1. s \in Firing /\ s.i = r.i
    BY DEF Firing
  <1>2. [s EXCEPT !.i = @ + 1] \in Firing
    BY <1>1, NextPeriod
  <1>3. [r EXCEPT !.at = "reserving", !.i = @ + 1] = [s EXCEPT !.i = @ + 1]
    BY DEF Firing
  <1> QED BY <1>2, <1>3

\* What Proceeds leaves a cycle in.
LEMMA ProceedsTyped ==
  ASSUME NEW c \in Cycle, NEW now \in Nat, NEW todo \in SUBSET Entry,
         TypeOK, Proceeds(c, now, todo)
  PROVE /\ cycles' \in [Cycle -> Looking \cup Firing \cup {Idle}]
        /\ cycles'[c].at \in {"idle", "reserving"}
        /\ \A b \in Cycle \ {c} : cycles'[b] = cycles[b]
  BY DEF Proceeds, Goes, TypeOK, Firing, Idle

\* TypeOK is kept by every step.
LEMMA TypeStep == TypeOK /\ [Next]_vars => TypeOK'
  <1> SUFFICES ASSUME TypeOK, [Next]_vars PROVE TypeOK'
    OBVIOUS
  <1>1. ASSUME NEW c \in Cycle, Wake(c) PROVE TypeOK'
    BY <1>1 DEF TypeOK, Wake, Goes, Looking
  <1>2. ASSUME NEW c \in Cycle, ReadBeads(c) PROVE TypeOK'
    <2>1. cycles[c] \in Looking
      BY <1>2, Kinds DEF ReadBeads
    <2>2. {p[1] : p \in open} \in SUBSET Def
      BY DEF TypeOK, Period
    <2>3. [cycles[c] EXCEPT !.at = "looked", !.busy = {p[1] : p \in open}] \in Looking
      BY <2>1, <2>2 DEF Looking
    <2> QED BY <1>2, <2>3 DEF TypeOK, ReadBeads, Goes
  <1>3. ASSUME NEW c \in Cycle, ReadDefs(c) PROVE TypeOK'
    <2> DEFINE r == cycles[c]
               due == {d \in Def \ r.busy : Missed(d, last[d], r.now) >= 1}
    <2>1. r \in Looking
      BY <1>3, Kinds DEF ReadDefs
    <2>2. {[def |-> d, from |-> last[d]] : d \in due} \in SUBSET Entry
      BY DEF TypeOK, Entry
    <2>3. Proceeds(c, r.now, {[def |-> d, from |-> last[d]] : d \in due}) /\ r.now \in Nat
      BY <1>3, <2>1 DEF ReadDefs, Looking
    <2> HIDE DEF due, r
    <2> QED BY <1>3, <2>2, <2>3, ProceedsTyped DEF TypeOK, ReadDefs
  <1>4. ASSUME NEW c \in Cycle, Reserve(c) PROVE TypeOK'
    <2>1. cycles[c] \in Firing
      BY <1>4, Kinds DEF Reserve
    <2>2. PeriodOf(cycles[c]) \in Period
      BY <2>1, PeriodTyped
    <2>3. /\ [cycles[c] EXCEPT !.i = @ + 1] \in Firing
          /\ [cycles[c] EXCEPT !.at = "won"] \in Firing
      BY <2>1 DEF Firing
    <2> QED BY <1>4, <2>2, <2>3 DEF TypeOK, Reserve, Goes
  <1>5. ASSUME NEW c \in Cycle, Create(c) PROVE TypeOK'
    <2>1. cycles[c] \in Firing
      BY <1>5, Kinds DEF Create
    <2>2. PeriodOf(cycles[c]) \in Period
      BY <2>1, PeriodTyped
    <2>3. /\ [cycles[c] EXCEPT !.at = "twin"] \in Firing
          /\ [cycles[c] EXCEPT !.at = "made"] \in Firing
      BY <2>1 DEF Firing
    <2> QED BY <1>5, <2>2, <2>3 DEF TypeOK, Create, Goes
  <1>6. ASSUME NEW c \in Cycle, Observe(c) PROVE TypeOK'
    <2>1. cycles[c] \in Firing
      BY <1>6, Kinds DEF Observe
    <2>2. <<PeriodOf(cycles[c]), cycles[c].at = "made">> \in Period \X BOOLEAN
      BY <2>1, PeriodTyped
    <2>3. [cycles[c] EXCEPT !.at = "reserving", !.i = @ + 1] \in Firing
      BY <2>1, BackToReserving
    <2> QED BY <1>6, <2>2, <2>3 DEF TypeOK, Observe, Goes
  <1>7. ASSUME NEW c \in Cycle, Advance(c) PROVE TypeOK'
    <2>1. cycles[c] \in Firing
      BY <1>7, Kinds DEF Advance
    <2>2. /\ cycles[c].doing.def \in Def /\ cycles[c].doing.from \in Cursor
          /\ cycles[c].now \in Nat /\ cycles[c].todo \in SUBSET Entry
      BY <2>1 DEF Firing, Entry
    <2>3. NewLast(cycles[c].doing.def, cycles[c].doing.from, cycles[c].now) \in Cursor
      BY <2>2, NewLastCursor
    <2>4. last' \in [Def -> Cursor]
      BY <1>7, <2>3 DEF TypeOK, Advance
    <2>5. cycles' \in [Cycle -> Looking \cup Firing \cup {Idle}]
      BY <1>7, <2>2, ProceedsTyped DEF Advance
    <2> QED BY <1>7, <2>4, <2>5 DEF TypeOK, Advance
  <1>8. ASSUME NEW c \in Cycle, Crash(c) PROVE TypeOK'
    <2>1. cycles[c].at = "won" => PeriodOf(cycles[c]) \in Period
      BY Kinds, PeriodTyped
    <2>2. crashes' \in 0..MaxCrash
      BY <1>8, RecurringAssumption DEF Crash, TypeOK
    <2> QED BY <1>8, <2>1, <2>2 DEF TypeOK, Crash, Goes
  <1>9. ASSUME NEW p \in open, Close(p) PROVE TypeOK'
    BY <1>9 DEF TypeOK, Close
  <1>10. CASE Tick
    BY <1>10, RecurringAssumption DEF TypeOK, Tick
  <1>11. CASE UNCHANGED vars
    BY <1>11 DEF TypeOK, vars
  <1> QED
    BY <1>1, <1>2, <1>3, <1>4, <1>5, <1>6, <1>7, <1>8, <1>9, <1>10, <1>11 DEF Next, Pass

-----------------------------------------------------------------------------
(* A period fires once.                                                     *)

LEMMA SamePeriod ==
  ASSUME NEW r \in Firing, NEW a PROVE PeriodOf([r EXCEPT !.at = a]) = PeriodOf(r)
  BY DEF PeriodOf, Firing

\* A step that leaves a cycle holding nothing disturbs nobody's hold.
LEMMA LetsGo ==
  ASSUME HeldAlone, NEW c \in Cycle,
         cycles'[c].at \notin {"won", "made", "twin"},
         \A b \in Cycle \ {c} : cycles'[b] = cycles[b],
         reserved' = reserved, spawned' = spawned
  PROVE HeldAlone'
  BY DEF HeldAlone, Holding

LEMMA HeldStep == IInv /\ [Next]_vars => HeldAlone' /\ FiresOnce' /\ (spawned \subseteq reserved)'
  <1> SUFFICES ASSUME IInv, [Next]_vars
               PROVE HeldAlone' /\ FiresOnce' /\ (spawned \subseteq reserved)'
    OBVIOUS
  <1> USE DEF IInv
  <1>1. ASSUME NEW c \in Cycle, Wake(c) PROVE HeldAlone'
    BY <1>1, LetsGo DEF Wake, Goes, TypeOK
  <1>2. ASSUME NEW c \in Cycle, ReadBeads(c) PROVE HeldAlone'
    <2>1. cycles'[c].at = "looked"
      BY <1>2, Kinds DEF ReadBeads, Goes, TypeOK, Looking
    <2> QED BY <1>2, <2>1, LetsGo DEF ReadBeads, Goes, TypeOK
  <1>3. ASSUME NEW c \in Cycle, ReadDefs(c) PROVE HeldAlone'
    BY <1>3, LetsGo DEF ReadDefs, Proceeds, Goes, TypeOK, Idle
  <1>4. ASSUME NEW c \in Cycle, Reserve(c) PROVE HeldAlone' /\ (spawned \subseteq reserved)'
    <2> DEFINE r == cycles[c]
    <2>1. r \in Firing /\ r.at = "reserving"
      BY <1>4, Kinds DEF Reserve
    <2>2. CASE PeriodOf(r) \in reserved
      <3>1. cycles'[c].at = "reserving"
        BY <1>4, <2>1, <2>2 DEF Reserve, Goes, TypeOK, Firing
      <3> QED BY <1>4, <2>2, <3>1, LetsGo DEF Reserve, Goes, TypeOK
    <2>3. CASE PeriodOf(r) \notin reserved
      <3>1. /\ cycles'[c] = [r EXCEPT !.at = "won"]
            /\ \A b \in Cycle \ {c} : cycles'[b] = cycles[b]
            /\ reserved' = reserved \cup {PeriodOf(r)} /\ spawned' = spawned
        BY <1>4, <2>3 DEF Reserve, Goes, TypeOK
      <3>2. PeriodOf(cycles'[c]) = PeriodOf(r) /\ cycles'[c].at = "won"
        BY <2>1, <3>1, SamePeriod DEF Firing
      <3> HIDE DEF r
      <3> QED BY <2>3, <3>1, <3>2 DEF HeldAlone, Holding
    <2> QED BY <2>2, <2>3
  <1>5. ASSUME NEW c \in Cycle, Create(c) PROVE HeldAlone' /\ (spawned \subseteq reserved)'
    <2> DEFINE r == cycles[c]
    <2>1. r \in Firing /\ r.at = "won"
      BY <1>5, Kinds DEF Create
    <2>2. PeriodOf(r) \notin spawned /\ PeriodOf(r) \in reserved
      BY <2>1 DEF HeldAlone, Holding
    <2>3. /\ cycles'[c] = [r EXCEPT !.at = "made"]
          /\ \A b \in Cycle \ {c} : cycles'[b] = cycles[b]
          /\ spawned' = spawned \cup {PeriodOf(r)} /\ reserved' = reserved
      BY <1>5, <2>2 DEF Create, Goes, TypeOK
    <2>4. PeriodOf(cycles'[c]) = PeriodOf(r) /\ cycles'[c].at = "made"
      BY <2>1, <2>3, SamePeriod DEF Firing
    <2>5. \A b \in Cycle \ {c} : Holding(b) => PeriodOf(cycles[b]) # PeriodOf(r)
      BY <2>1 DEF HeldAlone, Holding
    <2>6. r.at = "won"
      BY <2>1
    <2> HIDE DEF r
    <2> QED BY <2>2, <2>3, <2>4, <2>5 DEF HeldAlone, Holding
  <1>6. ASSUME NEW c \in Cycle, Observe(c) PROVE HeldAlone' /\ FiresOnce'
    <2>1. cycles[c] \in Firing /\ cycles[c].at = "made"
      BY <1>6, Kinds DEF Observe, HeldAlone
    <2>2. cycles'[c].at = "reserving"
      BY <1>6, <2>1 DEF Observe, Goes, TypeOK, Firing
    <2>3. HeldAlone'
      BY <1>6, <2>2, LetsGo DEF Observe, Goes, TypeOK
    <2>4. observed' = observed \cup {<<PeriodOf(cycles[c]), TRUE>>}
      BY <1>6, <2>1 DEF Observe
    <2>5. ASSUME NEW o \in observed' PROVE o[2]
      <3>1. CASE o \in observed
        BY <3>1, Zenon DEF FiresOnce
      <3>2. CASE o = <<PeriodOf(cycles[c]), TRUE>>
        BY <3>2
      <3> QED BY <2>4, <3>1, <3>2
    <2> QED BY <2>3, <2>5, Zenon DEF FiresOnce
  <1>7. ASSUME NEW c \in Cycle, Advance(c) PROVE HeldAlone'
    BY <1>7, LetsGo DEF Advance, Proceeds, Goes, TypeOK, Idle
  <1>8. ASSUME NEW c \in Cycle, Crash(c) PROVE HeldAlone'
    BY <1>8, LetsGo DEF Crash, Goes, TypeOK, Idle
  <1>9. ASSUME NEW p \in open, Close(p) PROVE HeldAlone' /\ FiresOnce' /\ (spawned \subseteq reserved)'
    BY <1>9 DEF Close, HeldAlone, Holding, FiresOnce
  <1>10. CASE Tick
    BY <1>10 DEF Tick, HeldAlone, Holding, FiresOnce
  <1>11. CASE UNCHANGED vars
    BY <1>11 DEF vars, HeldAlone, Holding, FiresOnce
  <1>12. ASSUME NEW c \in Cycle, Wake(c) \/ ReadBeads(c) \/ ReadDefs(c) \/ Advance(c) \/ Crash(c)
         PROVE FiresOnce' /\ (spawned \subseteq reserved)'
    BY <1>12 DEF Wake, ReadBeads, ReadDefs, Advance, Crash, FiresOnce
  <1>13. ASSUME NEW c \in Cycle, Reserve(c) \/ Create(c) PROVE FiresOnce'
    BY <1>13 DEF Reserve, Create, FiresOnce
  <1>14. ASSUME NEW c \in Cycle, Observe(c) PROVE (spawned \subseteq reserved)'
    BY <1>14 DEF Observe
  <1> QED
    BY <1>1, <1>2, <1>3, <1>4, <1>5, <1>6, <1>7, <1>8, <1>9, <1>10, <1>11, <1>12, <1>13, <1>14
    DEF Next, Pass

\* The strengthening is inductive: whoever holds a period holds it alone, and
\* every bead of a period was reserved.
THEOREM FiringInvariance == Spec => []IInv
  <1>1. Init => IInv
    BY RecurringAssumption DEF Init, IInv, TypeOK, HeldAlone, Holding, FiresOnce, Idle
  <1>2. IInv /\ [Next]_vars => IInv'
    BY TypeStep, HeldStep DEF IInv
  <1> QED BY <1>1, <1>2, PTL DEF Spec

\* Reservation, natural key and crash window together: no firing ever meets
\* the bead of an earlier firing of its period.
THEOREM PeriodFiresOnce == Spec => []FiresOnce
  <1>1. IInv => FiresOnce
    BY DEF IInv
  <1> QED BY <1>1, FiringInvariance, PTL

-----------------------------------------------------------------------------
(* Firings are spaced, where every definition has a cursor to start from.   *)

Seeded == \A d \in Def : Seed[d] # Never

OnGrid(d, t) == \E k \in Nat : t = Seed[d] + k * Every[d]

CursorsOnGrid == \A d \in Def : last[d] \in Nat /\ OnGrid(d, last[d])

\* An entry a pass works on: its cursor is on the grid and an interval old.
Owed(e, now) == e.from \in Nat /\ OnGrid(e.def, e.from) /\ Missed(e.def, e.from, now) >= 1

PassesOnGrid ==
  \A c \in Cycle :
    /\ cycles[c].at # "idle" => cycles[c].now <= clock
    /\ cycles[c].at \in {"reserving", "won", "made", "twin"} =>
         /\ Owed(cycles[c].doing, cycles[c].now)
         /\ \A e \in cycles[c].todo : Owed(e, cycles[c].now)
         /\ cycles[c].i >= 1
    /\ cycles[c].at = "won" => cycles[c].i <= CountOf(cycles[c])

FiringsOnGrid == \A p \in spawned : OnGrid(p[1], p[2]) /\ p[2] <= clock

GridInv == TypeOK /\ CursorsOnGrid /\ PassesOnGrid /\ FiringsOnGrid

LEMMA GridPlus ==
  ASSUME Seeded, NEW d \in Def, NEW t \in Nat, OnGrid(d, t), NEW n \in Nat
  PROVE t + n * Every[d] \in Nat /\ OnGrid(d, t + n * Every[d])
  <1>1. Every[d] \in Nat /\ Seed[d] \in Nat
    BY RecurringAssumption DEF Seeded, Cursor
  <1>2. PICK k \in Nat : t = Seed[d] + k * Every[d]
    BY DEF OnGrid
  <1>3. t + n * Every[d] = Seed[d] + (k + n) * Every[d]
    BY <1>1, <1>2
  <1>4. n * Every[d] \in Nat
    BY <1>1, ProductNat
  <1> QED BY <1>3, <1>4 DEF OnGrid

LEMMA GridSpaced ==
  ASSUME Seeded, NEW d \in Def, NEW s \in Nat, NEW t \in Nat,
         OnGrid(d, s), OnGrid(d, t), s < t
  PROVE s + Every[d] <= t
  <1>1. Every[d] \in Nat /\ Seed[d] \in Nat
    BY RecurringAssumption DEF Seeded, Cursor
  <1>2. PICK j \in Nat : s = Seed[d] + j * Every[d]
    BY DEF OnGrid
  <1>3. PICK k \in Nat : t = Seed[d] + k * Every[d]
    BY DEF OnGrid
  <1>4. j < k
    <2>1. SUFFICES ASSUME k <= j PROVE FALSE
      OBVIOUS
    <2>2. k * Every[d] <= j * Every[d]
      BY <1>1, <2>1, ProductMonotone
    <2> QED BY <1>1, <1>2, <1>3, <2>2, ProductNat
  <1>5. (j + 1) * Every[d] <= k * Every[d]
    BY <1>1, <1>4, ProductMonotone
  <1>6. (j + 1) * Every[d] = j * Every[d] + Every[d]
    BY <1>1
  <1> QED BY <1>1, <1>2, <1>3, <1>5, <1>6, ProductNat

LEMMA MissedBound ==
  ASSUME NEW d \in Def, NEW from \in Nat, NEW now \in Nat, Missed(d, from, now) >= 1
  PROVE from + Missed(d, from, now) * Every[d] <= now
  <1>1. from <= now /\ Missed(d, from, now) = (now - from) \div Every[d]
    BY DEF Missed
  <1>2. now - from \in Nat /\ Every[d] \in Nat \ {0}
    BY <1>1, RecurringAssumption
  <1> DEFINE q == (now - from) \div Every[d]
  <1>3. q \in Nat /\ q * Every[d] <= now - from
    BY <1>2, QuotientBounds
  <1>4. q * Every[d] \in Nat
    BY <1>2, <1>3, ProductNat
  <1> HIDE DEF q
  <1>5. from + q * Every[d] <= now
    BY <1>3, <1>4
  <1> QED BY <1>1, <1>5 DEF q

\* The periods a pass offers are on the grid and not ahead of it.
LEMMA OwedSlot ==
  ASSUME Seeded, NEW r \in Firing, Owed(r.doing, r.now), r.i >= 1, r.i <= CountOf(r)
  PROVE /\ PeriodOf(r) \in Period
        /\ OnGrid(PeriodOf(r)[1], PeriodOf(r)[2]) /\ PeriodOf(r)[2] <= r.now
  <1> DEFINE d == r.doing.def
             from == r.doing.from
             m == Missed(d, from, r.now)
  <1>1. d \in Def /\ from \in Nat /\ r.now \in Nat /\ r.i \in Nat /\ OnGrid(d, from) /\ m >= 1
    BY DEF Firing, Entry, Owed
  <1>2. m \in Nat /\ r.i <= m
    <2>1. m \in Nat
      BY <1>1, MissedNat DEF Cursor
    <2>2. CountOf(r) = IF CatchUp[d] = "all" THEN m ELSE 1
      BY DEF CountOf, Count
    <2> HIDE DEF m
    <2> QED BY <1>1, <2>1, <2>2
  <1>3. Every[d] \in Nat
    BY <1>1, RecurringAssumption
  <1>4. r.i * Every[d] <= m * Every[d] /\ r.i * Every[d] \in Nat /\ m * Every[d] \in Nat
    <2> HIDE DEF m, d, from
    <2> QED BY <1>1, <1>2, <1>3, ProductMonotone, ProductNat
  <1>5. from + m * Every[d] <= r.now
    BY <1>1, MissedBound
  <1>6. PeriodOf(r) = <<d, from + r.i * Every[d]>>
    BY <1>1 DEF PeriodOf, Slot
  <1>7. from + r.i * Every[d] <= r.now
    <2> HIDE DEF m, d, from
    <2> QED BY <1>1, <1>2, <1>4, <1>5
  <1>8. OnGrid(d, from + r.i * Every[d]) /\ from + r.i * Every[d] \in Nat
    BY <1>1, GridPlus
  <1> HIDE DEF d, from, m
  <1> QED BY <1>1, <1>6, <1>7, <1>8 DEF Period

\* Proceeds takes up an entry of its list at the first period.
LEMMA ProceedsOwed ==
  ASSUME PassesOnGrid, NEW c \in Cycle, NEW now \in Nat, NEW todo \in SUBSET Entry,
         TypeOK, Proceeds(c, now, todo), clock' = clock, now <= clock,
         \A e \in todo : Owed(e, now)
  PROVE PassesOnGrid'
  <1>1. \A b \in Cycle \ {c} : cycles'[b] = cycles[b]
    BY DEF Proceeds, Goes, TypeOK
  <1>2. CASE todo = {} /\ Goes(c, Idle)
    BY <1>1, <1>2 DEF PassesOnGrid, Goes, TypeOK, Idle
  <1>3. ASSUME NEW e \in todo,
               Goes(c, [at |-> "reserving", now |-> now, todo |-> todo \ {e}, doing |-> e, i |-> 1])
        PROVE PassesOnGrid'
    <2>1. /\ cycles'[c].at = "reserving" /\ cycles'[c].now = now /\ cycles'[c].i = 1
          /\ cycles'[c].doing = e /\ cycles'[c].todo = todo \ {e}
      BY <1>3 DEF Goes, TypeOK
    <2> QED BY <1>1, <2>1 DEF PassesOnGrid
  <1> QED BY <1>2, <1>3 DEF Proceeds

\* A step of one cycle that keeps its pass, its time and, but for a larger
\* number, its period.
LEMMA KeepsPass ==
  ASSUME PassesOnGrid, TypeOK, NEW c \in Cycle, cycles[c] \in Firing, clock' = clock,
         \A b \in Cycle \ {c} : cycles'[b] = cycles[b],
         cycles'[c] \in Firing, cycles'[c].now = cycles[c].now,
         cycles'[c].doing = cycles[c].doing, cycles'[c].todo = cycles[c].todo,
         cycles'[c].i >= cycles[c].i,
         cycles'[c].at = "won" => cycles'[c].i <= CountOf(cycles'[c])
  PROVE PassesOnGrid'
  <1>1. cycles[c].at \in {"reserving", "won", "made", "twin"} /\ cycles[c].i \in Nat
        /\ cycles'[c].i \in Nat
    BY DEF Firing
  <1>2. /\ cycles'[c].now <= clock /\ cycles'[c].i >= 1
        /\ Owed(cycles'[c].doing, cycles'[c].now)
        /\ \A e \in cycles'[c].todo : Owed(e, cycles'[c].now)
    BY <1>1 DEF PassesOnGrid
  <1> QED BY <1>2 DEF PassesOnGrid

LEMMA GridStep == Seeded /\ GridInv /\ [Next]_vars => GridInv'
  <1> SUFFICES ASSUME Seeded, GridInv, [Next]_vars PROVE GridInv'
    OBVIOUS
  <1> USE DEF GridInv
  <1>0. TypeOK'
    BY TypeStep
  <1>1. ASSUME NEW c \in Cycle, Wake(c) PROVE PassesOnGrid'
    <2>1. cycles'[c].at = "woken" /\ cycles'[c].now = clock
      BY <1>1 DEF Wake, Goes, TypeOK
    <2> QED BY <1>1, <2>1 DEF Wake, Goes, TypeOK, PassesOnGrid
  <1>2. ASSUME NEW c \in Cycle, ReadBeads(c) PROVE PassesOnGrid'
    <2>1. cycles'[c].at = "looked" /\ cycles'[c].now = cycles[c].now /\ cycles[c].at # "idle"
      BY <1>2, Kinds DEF ReadBeads, Goes, TypeOK, Looking
    <2> QED BY <1>2, <2>1 DEF ReadBeads, Goes, TypeOK, PassesOnGrid
  <1>3. ASSUME NEW c \in Cycle, ReadDefs(c) PROVE PassesOnGrid'
    <2> DEFINE r == cycles[c]
               due == {d \in Def \ r.busy : Missed(d, last[d], r.now) >= 1}
               owed == {[def |-> d, from |-> last[d]] : d \in due}
    <2>1. r.now \in Nat /\ r.now <= clock
      BY <1>3, Kinds DEF ReadDefs, Looking, PassesOnGrid
    <2>2. owed \in SUBSET Entry
      BY DEF TypeOK, Entry
    <2>3. \A e \in owed : Owed(e, r.now)
      BY DEF Owed, CursorsOnGrid
    <2>4. Proceeds(c, r.now, owed) /\ clock' = clock
      BY <1>3 DEF ReadDefs
    <2> HIDE DEF r, due, owed
    <2> QED BY <2>1, <2>2, <2>3, <2>4, ProceedsOwed
  <1>4. ASSUME NEW c \in Cycle, Reserve(c) PROVE PassesOnGrid'
    <2>1. cycles[c] \in Firing
      BY <1>4, Kinds DEF Reserve
    <2>2. CASE PeriodOf(cycles[c]) \in reserved
      <3>1. cycles'[c] = [cycles[c] EXCEPT !.i = @ + 1]
        BY <1>4, <2>2 DEF Reserve, Goes, TypeOK
      <3>2. /\ cycles'[c] \in Firing /\ cycles'[c].at = "reserving"
            /\ cycles'[c].now = cycles[c].now /\ cycles'[c].doing = cycles[c].doing
            /\ cycles'[c].todo = cycles[c].todo /\ cycles'[c].i >= cycles[c].i
        BY <1>4, <2>1, <3>1, NextPeriod DEF Firing, Reserve
      <3> QED BY <1>4, <2>1, <3>2, KeepsPass DEF Reserve, Goes, TypeOK
    <2>3. CASE PeriodOf(cycles[c]) \notin reserved
      <3>1. cycles'[c] = [cycles[c] EXCEPT !.at = "won"]
        BY <1>4, <2>3 DEF Reserve, Goes, TypeOK
      <3>2. /\ cycles'[c] \in Firing /\ cycles'[c].now = cycles[c].now
            /\ cycles'[c].doing = cycles[c].doing /\ cycles'[c].todo = cycles[c].todo
            /\ cycles'[c].i = cycles[c].i /\ cycles[c].i \in Nat
        BY <2>1, <3>1 DEF Firing
      <3>3. cycles'[c].i <= CountOf(cycles'[c])
        BY <1>4, <3>2 DEF Reserve, CountOf
      <3> QED BY <1>4, <2>1, <3>2, <3>3, KeepsPass DEF Reserve, Goes, TypeOK
    <2> QED BY <2>2, <2>3
  <1>5. ASSUME NEW c \in Cycle, Create(c) PROVE PassesOnGrid' /\ FiringsOnGrid'
    <2>1. cycles[c] \in Firing /\ cycles[c].at = "won"
      BY <1>5, Kinds DEF Create
    <2>2. /\ OnGrid(PeriodOf(cycles[c])[1], PeriodOf(cycles[c])[2])
          /\ PeriodOf(cycles[c])[2] <= cycles[c].now /\ PeriodOf(cycles[c]) \in Period
      BY <2>1, OwedSlot DEF PassesOnGrid
    <2>3. cycles[c].now <= clock /\ cycles[c].now \in Nat /\ clock \in Nat
      BY <2>1 DEF PassesOnGrid, Firing, TypeOK
    <2>4. PeriodOf(cycles[c])[2] <= clock
      BY <2>2, <2>3 DEF Period
    <2>5. FiringsOnGrid'
      BY <1>5, <2>2, <2>4 DEF Create, FiringsOnGrid
    <2>6. cycles'[c] = [cycles[c] EXCEPT !.at = "twin"] \/ cycles'[c] = [cycles[c] EXCEPT !.at = "made"]
      BY <1>5 DEF Create, Goes, TypeOK
    <2>7. /\ cycles'[c] \in Firing /\ cycles'[c].now = cycles[c].now
          /\ cycles'[c].doing = cycles[c].doing /\ cycles'[c].todo = cycles[c].todo
          /\ cycles'[c].i = cycles[c].i /\ cycles[c].i \in Nat /\ cycles'[c].at # "won"
      BY <2>1, <2>6 DEF Firing
    <2>8. PassesOnGrid'
      BY <1>5, <2>1, <2>7, KeepsPass DEF Create, Goes, TypeOK
    <2> QED BY <2>5, <2>8
  <1>6. ASSUME NEW c \in Cycle, Observe(c) PROVE PassesOnGrid'
    <2>1. cycles[c] \in Firing
      BY <1>6, Kinds DEF Observe
    <2>2. cycles'[c] = [cycles[c] EXCEPT !.at = "reserving", !.i = @ + 1]
      BY <1>6 DEF Observe, Goes, TypeOK
    <2>3. cycles'[c] \in Firing
      BY <2>1, <2>2, BackToReserving
    <2>4. /\ cycles'[c].now = cycles[c].now /\ cycles'[c].at = "reserving"
          /\ cycles'[c].doing = cycles[c].doing /\ cycles'[c].todo = cycles[c].todo
          /\ cycles'[c].i = cycles[c].i + 1 /\ cycles[c].i \in Nat
      BY <2>1, <2>2 DEF Firing
    <2> QED BY <1>6, <2>1, <2>3, <2>4, KeepsPass DEF Observe, Goes, TypeOK
  <1>7. ASSUME NEW c \in Cycle, Advance(c) PROVE PassesOnGrid' /\ CursorsOnGrid'
    <2> DEFINE r == cycles[c]
               d == r.doing.def
               from == r.doing.from
    <2>1. r \in Firing
      BY <1>7, Kinds DEF Advance
    <2>2. /\ d \in Def /\ from \in Nat /\ OnGrid(d, from) /\ r.now \in Nat /\ r.now <= clock
          /\ r.todo \in SUBSET Entry /\ \A e \in r.todo : Owed(e, r.now)
      BY <2>1 DEF PassesOnGrid, Owed, Firing, Entry
    <2>3. NewLast(d, from, r.now) \in Nat /\ OnGrid(d, NewLast(d, from, r.now))
      <3>1. Missed(d, from, r.now) \in Nat
        BY <2>2, MissedNat DEF Cursor
      <3>2. NewLast(d, from, r.now) = from + Missed(d, from, r.now) * Every[d]
        BY <2>2 DEF NewLast
      <3> HIDE DEF r, d, from
      <3> QED BY <2>2, <3>1, <3>2, GridPlus
    <2>4. last' = [last EXCEPT ![d] = NewLast(d, from, r.now)]
      BY <1>7 DEF Advance
    <2>5. CursorsOnGrid'
      <3> HIDE DEF d, from, r
      <3> QED BY <2>2, <2>3, <2>4 DEF CursorsOnGrid, TypeOK
    <2>6. Proceeds(c, r.now, r.todo) /\ clock' = clock
      BY <1>7 DEF Advance
    <2>7. PassesOnGrid'
      <3> HIDE DEF d, from, r
      <3> QED BY <2>2, <2>6, ProceedsOwed
    <2> QED BY <2>5, <2>7
  <1>8. ASSUME NEW c \in Cycle, Crash(c) PROVE PassesOnGrid'
    BY <1>8 DEF Crash, Goes, TypeOK, PassesOnGrid, Idle
  <1>9. ASSUME NEW p \in open, Close(p) PROVE GridInv'
    BY <1>0, <1>9 DEF Close, PassesOnGrid, CursorsOnGrid, FiringsOnGrid, CountOf
  <1>10. CASE Tick
    <2>1. clock' = clock + 1 /\ clock \in Nat
      BY <1>10 DEF Tick, TypeOK
    <2>2. FiringsOnGrid'
      BY <1>10, <2>1 DEF Tick, FiringsOnGrid, TypeOK, Period
    <2>3. \A c \in Cycle : cycles[c].at # "idle" => cycles[c].now \in Nat
      BY DEF TypeOK, Looking, Firing, Idle
    <2>4. PassesOnGrid'
      BY <1>10, <2>1, <2>3 DEF Tick, PassesOnGrid
    <2> QED BY <1>0, <1>10, <2>2, <2>4 DEF Tick, CursorsOnGrid
  <1>11. CASE UNCHANGED vars
    BY <1>0, <1>11 DEF vars, PassesOnGrid, CursorsOnGrid, FiringsOnGrid
  <1>12. ASSUME NEW c \in Cycle,
                Wake(c) \/ ReadBeads(c) \/ ReadDefs(c) \/ Reserve(c) \/ Observe(c) \/ Crash(c)
         PROVE CursorsOnGrid' /\ FiringsOnGrid'
    BY <1>12 DEF Wake, ReadBeads, ReadDefs, Reserve, Observe, Crash, CursorsOnGrid, FiringsOnGrid
  <1>13. ASSUME NEW c \in Cycle, Create(c) PROVE CursorsOnGrid'
    BY <1>13 DEF Create, CursorsOnGrid
  <1>14. ASSUME NEW c \in Cycle, Advance(c) PROVE FiringsOnGrid'
    BY <1>14 DEF Advance, FiringsOnGrid
  <1> QED
    BY <1>0, <1>1, <1>2, <1>3, <1>4, <1>5, <1>6, <1>7, <1>8, <1>9, <1>10, <1>11, <1>12, <1>13, <1>14
    DEF Next, Pass

\* Whatever the mode, however cycles overlap, die and write the cursor back,
\* the firings of definitions that started with a cursor are on time and an
\* interval apart.  (A definition never fired has no such cursor: see README.)
THEOREM FiringsAreSpaced == ASSUME Seeded PROVE Spec => []Spaced
  <1>1. Init => GridInv
    <2> SUFFICES ASSUME Init PROVE GridInv
      OBVIOUS
    <2>1. TypeOK
      BY RecurringAssumption DEF Init, TypeOK, Idle
    <2>2. \A d \in Def : Seed[d] \in Nat /\ Seed[d] = Seed[d] + 0 * Every[d]
      BY RecurringAssumption DEF Seeded, Cursor
    <2>3. CursorsOnGrid
      BY <2>2 DEF Init, CursorsOnGrid, OnGrid
    <2> QED BY <2>1, <2>3 DEF Init, GridInv, PassesOnGrid, FiringsOnGrid, Idle
  <1>2. GridInv /\ [Next]_vars => GridInv'
    BY GridStep
  <1>3. GridInv => Spaced
    <2> SUFFICES ASSUME GridInv, NEW p \in spawned, NEW q \in spawned
                 PROVE /\ p[2] <= clock
                       /\ p[1] = q[1] /\ p[2] < q[2] => p[2] + Every[p[1]] <= q[2]
      BY DEF Spaced
    <2>1. p[1] \in Def /\ p[2] \in Nat /\ q[2] \in Nat
      BY DEF GridInv, TypeOK, Period
    <2>2. OnGrid(p[1], p[2]) /\ OnGrid(q[1], q[2]) /\ p[2] <= clock
      BY DEF GridInv, FiringsOnGrid
    <2> QED BY <2>1, <2>2, GridSpaced
  <1> QED BY <1>1, <1>2, <1>3, PTL DEF Spec
=============================================================================
