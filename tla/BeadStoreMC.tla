----------------------------- MODULE BeadStoreMC -----------------------------
(* Small instances of BeadStore for TLC: one bead, because no rule of the   *)
(* store but the run cascade (see RunTree) relates two, and two calls in    *)
(* flight, because every check-then-write race has two parties.             *)
EXTENDS BeadStore, TLC

CONSTANTS claude, forge, alex, judged, check, b1, c1, c2

MCBead == {b1}
MCAgent == {claude, forge}
MCPerson == {alex}
MCCall == {c1, c2}

Plain(g) == [gate |-> g, agent |-> None, owner |-> None, status |-> "pending"]
Held(g) == [Plain(g) EXCEPT !.status = "pending_approval"]
Owned(g) == [Plain(g) EXCEPT !.owner = alex]

AllKind(k) == [b \in MCBead |-> k]
KindAgent == AllKind("agent")
KindRca == AllKind("rca")
AnyAgent == [b \in MCBead |-> MCAgent]

FilingsLease == {Plain(None), Plain(judged)}
FilingsGate == {Plain(None), Plain(judged), Held(check), Owned(None)}

CallSymmetry == Permutations(MCCall)

LeaseVerbs == {"create", "claim", "reap", "auth", "report", "complete"}
GateVerbs == {"create", "rca", "claim", "report", "close", "approve_verify",
              "reject_verify", "annotate", "retire", "cancel", "approve", "decline", "retry"}
ReapRaceVerbs == {"create", "claim", "reap", "report"}
=============================================================================
