------------------------------ MODULE ChildWatch ------------------------------
(***************************************************************************)
(* A parent instance judges whether a child instance is alive, from the    *)
(* heartbeat of the child's last cycle and from its own (children.py       *)
(* verify_child; orchestrator.py cycle and the heartbeat it writes).       *)
(*                                                                         *)
(* Both run on one host, which may go away: then neither ticks, and when   *)
(* it is back each wakes within one of its intervals.  The child backs off *)
(* while it has nothing to do; the parent does not, because a verification *)
(* is due in each of its cycles.                                           *)
(***************************************************************************)
EXTENDS Integers

CONSTANTS
  Own,         \* the parent's interval
  Base, Cap,   \* the child's: its baseline, and backed off as far as it goes
  Factor,      \* of the backoff
  Outage,      \* how long the host may be away
  Rest,        \* how long it stays up between
  MaxOutage,   \* bound on how often
  MaxTime,     \* bound on the clock
  Never

VARIABLES
  now,
  up,          \* when the host came up, or will
  child,       \* the child's heartbeat
  wedged,      \* the child completes no cycle any more
  parent,      \* the parent's heartbeat
  verdict,     \* the level of the last verification
  outages

vars == <<now, up, child, wedged, parent, verdict, outages>>

Min(a, b) == IF a <= b THEN a ELSE b
Max(a, b) == IF a <= b THEN b ELSE a

Away == now < up

\* DEFAULT_DUE_GRACE intervals; and how long evidence of an outage is kept.
Grace(interval) == (3 * interval) \div 2
Window == 2 * Own

Init ==
  /\ now = 0 /\ up = 0
  /\ child = [completed |-> 0, due |-> Base, interval |-> Base]
  /\ wedged = FALSE
  /\ parent = [completed |-> 0, due |-> Own, gap |-> 0, ended |-> Never]
  /\ verdict = "ok" /\ outages = 0

-----------------------------------------------------------------------------
(* What the parent makes of the two heartbeats.                             *)

\* (Mutants of RecentOutage: only the parent's lateness counts; an outage is
\* evidence for as long as it is on record.)
NoRecentOutage == 0
OutageOnRecord == IF parent.ended = Never THEN 0 ELSE parent.gap

\* _own_recent_outage_seconds.
RecentOutage ==
  IF parent.ended # Never /\ now <= parent.ended + Window THEN parent.gap ELSE 0

\* _outage_evidence: what the heartbeat written now says of an outage.
Evidence ==
  IF now - parent.completed > Own + Grace(Own)
  THEN [gap |-> now - parent.completed, ended |-> now]
  ELSE IF parent.ended # Never /\ now <= parent.ended + Window
  THEN [gap |-> parent.gap, ended |-> parent.ended]
  ELSE [gap |-> 0, ended |-> Never]

\* verify_child, with _downgrade_for_host_outage.
Judgement ==
  LET late == now - (child.due + Grace(child.interval))
      out == Max(Max(now - parent.due, 0), RecentOutage)
  IN IF late <= 0 THEN "ok"
     ELSE IF out > 0 /\ late <= out + child.interval THEN "warn"
     ELSE "fail"

-----------------------------------------------------------------------------

\* The parent's cycle: the verification, then the heartbeat.
ParentCycle ==
  /\ ~Away /\ now > parent.completed
  /\ verdict' = Judgement
  /\ parent' = [completed |-> now, due |-> now + Own,
                gap |-> Evidence.gap, ended |-> Evidence.ended]
  /\ UNCHANGED <<now, up, child, wedged, outages>>

\* The child's: back to the baseline where there was work, or backed off.
ChildCycle ==
  /\ ~Away /\ ~wedged /\ now > child.completed
  /\ \E interval \in {Base, Min(child.interval * Factor, Cap)} :
       child' = [completed |-> now, due |-> now + interval, interval |-> interval]
  /\ UNCHANGED <<now, up, wedged, parent, verdict, outages>>

Wedge ==
  /\ ~wedged
  /\ wedged' = TRUE
  /\ UNCHANGED <<now, up, child, parent, verdict, outages>>

HostAway ==
  /\ now >= up + Rest /\ outages < MaxOutage
  /\ \E d \in Outage : up' = now + d
  /\ outages' = outages + 1
  /\ UNCHANGED <<now, child, wedged, parent, verdict>>

\* A unit of time.  launchd wakes the parent once in its interval, and the
\* child once in its own: the first of these that finds a cycle due runs it.
Tick ==
  /\ now < MaxTime
  /\ ~Away => /\ now < Max(parent.completed, up) + Own
              /\ ~wedged => now < Max(child.due, up) + Base
  /\ now' = now + 1
  /\ UNCHANGED <<up, child, wedged, parent, verdict, outages>>

Next == ParentCycle \/ ChildCycle \/ Wedge \/ HostAway \/ Tick

Spec == Init /\ [][Next]_vars

-----------------------------------------------------------------------------
(* Properties.                                                              *)

\* "Healthy children that self-recover on their next tick" (children.py:82)
\* are not reported as failed for an outage of their host, neither in the
\* parent's first cycle after it nor in those that follow until the child
\* wakes; and one that has merely backed off is not either.
NoFalseAlarm == verdict = "fail" => wedged

\* "A child staler than that has an independent problem and still FAILs"
\* (children.py:87): once the host has been up for as long as an outage is
\* evidence, a child that is silent past its deadline is reported within one
\* interval of the parent.
WedgedIsReported ==
  LET then == now - Own IN
  /\ then > up + Own + Window
  /\ then > child.due + Grace(child.interval)
  => verdict = "fail"

\* What the two rest on.  Each comes round within one of its intervals while
\* the host is up.  As long as the child has not woken since the host came up,
\* the parent's last cycle before the outage was not long past the child's
\* deadline, and the first one after it has the outage on record.
TypeOK ==
  /\ {now, up, child.completed, child.due, child.interval} \subseteq Int
  /\ {parent.completed, parent.due, parent.gap} \subseteq Int
  /\ parent.ended \in Int \cup {Never}
  /\ wedged \in BOOLEAN

Punctual ==
  /\ child.interval >= Base /\ child.due = child.completed + child.interval
  /\ parent.due = parent.completed + Own
  /\ parent.completed <= now /\ child.completed <= now
  /\ ~Away => now <= Max(parent.completed, up) + Own
  /\ ~Away /\ ~wedged => now <= Max(child.due, up) + Base

Recorded ==
  /\ parent.completed < up => up - parent.completed > Own + Grace(Own)
  /\ parent.ended # Never => parent.ended <= up + Own
  /\ ~wedged /\ child.due < up =>
       IF parent.completed < up THEN parent.completed <= child.due + Base
       ELSE /\ parent.ended # Never /\ parent.ended >= up
            /\ parent.gap > 0 /\ parent.gap >= parent.ended - (child.due + Base)

Reported ==
  parent.completed > up + Own + Window /\ parent.completed > child.due + Grace(child.interval)
    => verdict = "fail"

WatchInv == TypeOK /\ Punctual /\ Recorded /\ Reported /\ NoFalseAlarm
=============================================================================
