------------------------------- MODULE Custody -------------------------------
(***************************************************************************)
(* What RunTree, Dispatch and RcaChain take for granted of the bead store, *)
(* with its calls, reads, locks and clocks taken away: an item waits, is   *)
(* handed to one agent able to do it, and comes back before it is handed   *)
(* to anybody again.  The log of who had it, in order, only ever grows,    *)
(* and whoever has it is its last entry.                                   *)
(***************************************************************************)
EXTENDS Sequences

CONSTANTS Item, Agent, Nobody, Able

VARIABLES
  waiting,   \* the items that may be handed out
  by,        \* who has each item in hand, or Nobody
  log        \* everybody each item was handed to, in order

Init ==
  /\ waiting = {}
  /\ by = [i \in Item |-> Nobody]
  /\ log = [i \in Item |-> <<>>]

\* No item but i joins or leaves those that wait.
OthersWait(i) == waiting' \ {i} = waiting \ {i}

HandOut(i, a) ==
  /\ i \in waiting
  /\ by[i] = Nobody
  /\ a \in Able[i]
  /\ waiting' = waiting \ {i}
  /\ by' = [by EXCEPT ![i] = a]
  /\ log' = [log EXCEPT ![i] = Append(@, a)]

\* Settled, handed back, or taken back from whoever has it.
ComeBack(i) ==
  /\ by[i] # Nobody
  /\ OthersWait(i)
  /\ by' = [by EXCEPT ![i] = Nobody]
  /\ UNCHANGED log

\* Filed, withdrawn, settled while nobody has it, or put back to wait: no item
\* changes hands, and one that somebody has does not wait.
Turn(i) ==
  /\ OthersWait(i)
  /\ i \in waiting' => by[i] = Nobody
  /\ UNCHANGED <<by, log>>

Next == \E i \in Item : (\E a \in Agent : HandOut(i, a)) \/ ComeBack(i) \/ Turn(i)

Spec == Init /\ [][Next]_<<waiting, by, log>>
=============================================================================
