------------------------------ MODULE Recurring ------------------------------
(***************************************************************************)
(* Recurring definitions and the firings of their periods: reconcile of    *)
(* recurring.py over the reservation ledger of schedules.py.               *)
(*                                                                         *)
(* Any number of cycles may run at once (the heartbeat and a cycle by      *)
(* hand).  Each takes its time when it starts, reads the open beads and    *)
(* then the definitions without a lock, and works through what is due.     *)
(* The ledger, the bead store and the definitions have a lock each, held   *)
(* for one reservation, one create and one rewrite of the cursor.          *)
(*                                                                         *)
(* A bead's own life is module BeadStore's.  Here it only leaves the       *)
(* statuses that count as open.                                            *)
(***************************************************************************)
EXTENDS Integers, FiniteSets

CONSTANTS
  Def,         \* recurring definitions, all enabled
  Every,       \* their interval
  CatchUp,     \* "latest" or "all"
  Seed,        \* last_spawned at the start, or Never
  Cycle,       \* processes that run cycles
  MaxTime,     \* bound on the clock
  MaxCrash     \* bound on the cycles that die

Never == -1
Cursor == Nat \cup {Never}

ASSUME RecurringAssumption ==
  /\ MaxTime \in Nat /\ MaxCrash \in Nat
  /\ Every \in [Def -> Nat \ {0}]
  /\ CatchUp \in [Def -> {"latest", "all"}]
  /\ Seed \in [Def -> Cursor]

VARIABLES
  clock,
  last,        \* recurring.jsonl: last_spawned of each definition
  reserved,    \* schedules.jsonl: reservations, UNIQUE(schedule_id, period)
  observed,    \* schedules.jsonl: observations
  spawned,     \* tasks.jsonl: the beads with a recurring natural key
  open,        \* those of them whose status is in _OPEN_STATUSES
  cycles,      \* the cycles under way
  crashes,     \* how many of them have died
  lost         \* history: periods a cycle died holding

vars == <<clock, last, reserved, observed, spawned, open, cycles, crashes, lost>>

Period == Def \X Nat

-----------------------------------------------------------------------------
(* The arithmetic of reconcile.                                             *)

\* int((now - last) / every), which a last in the future takes to 0 or less.
Missed(d, from, now) ==
  IF from = Never THEN 1 ELSE IF now < from THEN 0 ELSE (now - from) \div Every[d]

\* How many periods a pass offers.
Count(d, from, now) == IF CatchUp[d] = "all" THEN Missed(d, from, now) ELSE 1

\* (A mutant of Slot: the period is named by the time of the pass.)
SlotIsNow(d, from, now, i) == now

\* Which they are.  Under "latest" it is the first of those missed.
Slot(d, from, now, i) == IF from = Never THEN now ELSE from + i * Every[d]

\* (A mutant of NewLast: the cursor takes the wall clock.)
NewLastIsNow(d, from, now) == now

\* Where the pass leaves the cursor.
NewLast(d, from, now) ==
  IF from = Never THEN now ELSE from + Missed(d, from, now) * Every[d]

\* any_due: what ends the backoff of an idle node.
AnyDue(now) ==
  \E d \in Def : last[d] = Never \/ (now >= last[d] /\ (now - last[d]) \div Every[d] >= 1)

-----------------------------------------------------------------------------
Entry == [def: Def, from: Cursor]

\* A cycle: its now, the definitions it saw with a bead open, then the one
\* it is at, the number of the period and what it has still to do.
Looking == [at: {"woken", "looked"}, now: Nat, busy: SUBSET Def]
Firing == [at: {"reserving", "won", "made", "twin"}, now: Nat, todo: SUBSET Entry,
           doing: Entry, i: Nat]
Idle == [at |-> "idle"]

PeriodOf(r) == <<r.doing.def, Slot(r.doing.def, r.doing.from, r.now, r.i)>>
CountOf(r) == Count(r.doing.def, r.doing.from, r.now)

TypeOK ==
  /\ clock \in 0..MaxTime
  /\ last \in [Def -> Cursor]
  /\ reserved \subseteq Period
  /\ observed \subseteq Period \X BOOLEAN
  /\ spawned \subseteq Period
  /\ open \subseteq spawned
  /\ cycles \in [Cycle -> Looking \cup Firing \cup {Idle}]
  /\ crashes \in 0..MaxCrash
  /\ lost \subseteq Period

Init ==
  /\ clock = 0
  /\ last = Seed
  /\ reserved = {} /\ observed = {} /\ spawned = {} /\ open = {}
  /\ cycles = [c \in Cycle |-> Idle]
  /\ crashes = 0 /\ lost = {}

Goes(c, r) == cycles' = [cycles EXCEPT ![c] = r]

\* On to the next of the definitions left, or out of reconcile.
Proceeds(c, now, todo) ==
  \/ todo = {} /\ Goes(c, Idle)
  \/ \E e \in todo :
       Goes(c, [at |-> "reserving", now |-> now, todo |-> todo \ {e}, doing |-> e, i |-> 1])

-----------------------------------------------------------------------------
(* A pass of reconcile.                                                     *)

Wake(c) ==
  /\ cycles[c] = Idle
  /\ Goes(c, [at |-> "woken", now |-> clock, busy |-> {}])
  /\ UNCHANGED <<clock, last, reserved, observed, spawned, open, crashes, lost>>

ReadBeads(c) ==
  /\ cycles[c].at = "woken"
  /\ Goes(c, [cycles[c] EXCEPT !.at = "looked", !.busy = {p[1] : p \in open}])
  /\ UNCHANGED <<clock, last, reserved, observed, spawned, open, crashes, lost>>

\* The definitions as of one read of the file; those not due or with a bead
\* open are passed over.
ReadDefs(c) ==
  LET r == cycles[c]
      due == {d \in Def \ r.busy : Missed(d, last[d], r.now) >= 1}
  IN /\ r.at = "looked"
     /\ Proceeds(c, r.now, {[def |-> d, from |-> last[d]] : d \in due})
     /\ UNCHANGED <<clock, last, reserved, observed, spawned, open, crashes, lost>>

\* (A mutant of Reserve: the ledger is read, and the row appended all the same.)
ReserveUnread(c) ==
  LET r == cycles[c] IN
  /\ r.at = "reserving" /\ r.i <= CountOf(r)
  /\ reserved' = reserved \cup {PeriodOf(r)}
  /\ Goes(c, [r EXCEPT !.at = "won"])
  /\ UNCHANGED <<clock, last, observed, spawned, open, crashes, lost>>

\* schedules.reserve: a scan and an append under the ledger's lock.
Reserve(c) ==
  LET r == cycles[c] IN
  /\ r.at = "reserving" /\ r.i <= CountOf(r)
  /\ IF PeriodOf(r) \in reserved
     THEN Goes(c, [r EXCEPT !.i = @ + 1]) /\ UNCHANGED reserved
     ELSE Goes(c, [r EXCEPT !.at = "won"]) /\ reserved' = reserved \cup {PeriodOf(r)}
  /\ UNCHANGED <<clock, last, observed, spawned, open, crashes, lost>>

\* Beads.create under the natural key of the period: a second bead is not filed.
Create(c) ==
  LET r == cycles[c] IN
  /\ r.at = "won"
  /\ IF PeriodOf(r) \in spawned
     THEN Goes(c, [r EXCEPT !.at = "twin"]) /\ UNCHANGED <<spawned, open>>
     ELSE /\ Goes(c, [r EXCEPT !.at = "made"])
          /\ spawned' = spawned \cup {PeriodOf(r)}
          /\ open' = open \cup {PeriodOf(r)}
  /\ UNCHANGED <<clock, last, reserved, observed, crashes, lost>>

\* schedules.observe, with produced 1 or 0.
Observe(c) ==
  LET r == cycles[c] IN
  /\ r.at \in {"made", "twin"}
  /\ observed' = observed \cup {<<PeriodOf(r), r.at = "made">>}
  /\ Goes(c, [r EXCEPT !.at = "reserving", !.i = @ + 1])
  /\ UNCHANGED <<clock, last, reserved, spawned, open, crashes, lost>>

\* Recurring.update writes the cursor whatever it is by now.
Advance(c) ==
  LET r == cycles[c]
      e == r.doing
  IN /\ r.at = "reserving" /\ r.i > CountOf(r)
     /\ last' = [last EXCEPT ![e.def] = NewLast(e.def, e.from, r.now)]
     /\ Proceeds(c, r.now, r.todo)
     /\ UNCHANGED <<clock, reserved, observed, spawned, open, crashes, lost>>

\* A process dies, or create raises and the exception leaves the cycle.
Crash(c) ==
  LET r == cycles[c] IN
  /\ r # Idle /\ crashes < MaxCrash
  /\ crashes' = crashes + 1
  /\ lost' = IF r.at = "won" THEN lost \cup {PeriodOf(r)} ELSE lost
  /\ Goes(c, Idle)
  /\ UNCHANGED <<clock, last, reserved, observed, spawned, open>>

\* The bead is done, failed, parked or closed otherwise.
Close(p) ==
  /\ p \in open
  /\ open' = open \ {p}
  /\ UNCHANGED <<clock, last, reserved, observed, spawned, cycles, crashes, lost>>

Tick ==
  /\ clock < MaxTime
  /\ clock' = clock + 1
  /\ UNCHANGED <<last, reserved, observed, spawned, open, cycles, crashes, lost>>

Pass(c) == \/ ReadBeads(c) \/ ReadDefs(c) \/ Reserve(c) \/ Create(c)
           \/ Observe(c) \/ Advance(c)

Next ==
  \/ \E c \in Cycle : Wake(c) \/ Pass(c) \/ Crash(c)
  \/ \E p \in open : Close(p)
  \/ Tick

Spec == Init /\ [][Next]_vars

-----------------------------------------------------------------------------
(* What holds of the firings.                                               *)

\* A period fires once, whoever agrees that it is due and whoever dies: were
\* it fired again, the second firing would meet the first one's bead.
FiresOnce == \A o \in observed : o[2]

\* What makes that inductive: a cycle that holds a period is the only one,
\* and no bead stands for a period nobody has reserved.
Holding(c) == cycles[c].at \in {"won", "made"}
HeldAlone ==
  \A c \in Cycle :
    /\ cycles[c].at # "twin"
    /\ Holding(c) =>
         /\ PeriodOf(cycles[c]) \in reserved
         /\ cycles[c].at = "won" => PeriodOf(cycles[c]) \notin spawned
         /\ \A b \in Cycle \ {c} : Holding(b) => PeriodOf(cycles[b]) # PeriodOf(cycles[c])

IInv == TypeOK /\ spawned \subseteq reserved /\ HeldAlone /\ FiresOnce

\* Periods lie on the grid of their definition, none ahead of the clock, so
\* two firings are an interval apart, though cursors are written from stale
\* reads and move backwards.
Spaced ==
  \A p, q \in spawned :
    /\ p[2] <= clock
    /\ p[1] = q[1] /\ p[2] < q[2] => p[2] + Every[p[1]] <= q[2]

\* No period is skipped under catch_up "all", unless a cycle died holding it.
DuePeriods ==
  {p \in Def \X (1..MaxTime) : /\ Seed[p[1]] # Never /\ CatchUp[p[1]] = "all"
                              /\ p[2] > Seed[p[1]] /\ (p[2] - Seed[p[1]]) % Every[p[1]] = 0}
EveryPeriodFires == \A p \in DuePeriods : clock >= p[2] ~> p \in spawned \cup lost

\* The scheduler wakes the node for ever, and a wake that finds a definition
\* due runs a cycle; a cycle goes on; beads come to an end.
Fairness ==
  /\ WF_vars(\E c \in Cycle : AnyDue(clock) /\ Wake(c))
  /\ \A c \in Cycle : WF_vars(Pass(c))
  /\ WF_vars(\E p \in open : Close(p))

FairSpec == Spec /\ Fairness
=============================================================================
