------------------------------- MODULE Subagent -------------------------------
(***************************************************************************)
(* One execution of a bead by an agent's command line, from the side that  *)
(* waits for it (executor.py _supervise, _run_proc_inner; run_agy_task and *)
(* run_forge_task): the child, which prints, keeps a transcript, exits or  *)
(* falls silent and may leave a tool behind that holds a pipe of it open; the *)
(* thread that reaps it; and the supervisor, which sleeps until the next   *)
(* thing can be due, stops a child that is late or stalled, drains what it *)
(* printed, and may start over.                                            *)
(*                                                                         *)
(* Time passes only while the supervisor sleeps.  A line is read from its  *)
(* pipe as soon as it is printed.                                          *)
(***************************************************************************)
EXTENDS Integers

CONSTANTS
  Route,     \* how executions may be launched: "supervised", "plain"
  Timeout,   \* of an attempt
  Idle,      \* idle_timeout_s, where the watchdog is armed
  Grace,     \* _TERMINATE_GRACE_S
  Drain,     \* _DRAIN_GRACE_S
  Backoff,   \* before another attempt
  ApiRetries,
  None

VARIABLES
  route, armed,
  attempt, spent,  \* which attempt it is, and how long it has lasted
  lively,    \* this child never falls silent for as long as Idle
  child,     \* its phase, how it exited, and which of its pipes a tool still has
  reaped,    \* the event `finished`
  signs,     \* time since it printed, and since its transcript was written
  sup,       \* what the supervisor does, for how much longer, and why
  ended      \* what the caller is told

vars == <<route, armed, attempt, spent, lively, child, reaped, signs, sup, ended>>

Min(a, b) == IF a <= b THEN a ELSE b

\* How a child exits: well; well, its answer cut short; with no word; with a
\* status of the upstream that is worth another attempt; with any other word.
Exit == {"ok", "cut", "bare", "api", "other"}

Pipe == {"stdout", "stderr"}
Born == [phase |-> "up", exit |-> "none", held |-> {}]
NoSign == [out |-> 0, log |-> None]
Supervisor(at, left, why) == [at |-> at, left |-> left, why |-> why]

Init ==
  /\ route \in Route
  /\ armed \in (IF route = "plain" THEN {FALSE} ELSE BOOLEAN)
  /\ attempt = 0 /\ spent = 0
  /\ lively \in BOOLEAN
  /\ child = Born /\ reaped = FALSE /\ signs = NoSign
  /\ sup = IF route = "plain" THEN Supervisor("communicate", Timeout, "exit")
           ELSE Supervisor("look", 0, "none")
  /\ ended = "none"

Up == child.phase = "up"
Gone == child.phase = "gone"

\* The child is no more; what it was running may still have its pipes.
Leaves(exit) ==
  \E held \in SUBSET Pipe : child' = [phase |-> "gone", exit |-> exit, held |-> held]

-----------------------------------------------------------------------------
(* The child, its tools, and the thread that waits for it.                  *)

\* The signs are kept while somebody may read them: the watchdog, until the
\* child is stopped or gone.
Speak ==
  /\ Up /\ armed /\ signs' = [signs EXCEPT !.out = 0]
  /\ UNCHANGED <<route, armed, attempt, spent, lively, child, reaped, sup, ended>>

Log ==
  /\ Up /\ armed /\ signs' = [signs EXCEPT !.log = 0]
  /\ UNCHANGED <<route, armed, attempt, spent, lively, child, reaped, sup, ended>>

\* The transcript is deleted (one that cannot be read for a while is left out).
LoseLog ==
  /\ Up /\ signs.log # None
  /\ signs' = [signs EXCEPT !.log = None]
  /\ UNCHANGED <<route, armed, attempt, spent, lively, child, reaped, sup, ended>>

Leave ==
  /\ Up /\ \E e \in Exit : Leaves(e)
  /\ UNCHANGED <<route, armed, attempt, spent, lively, reaped, signs, sup, ended>>

\* It does as it was told; a stubborn one does not, and one that is killed
\* goes when the system lets it.
DieOfSignal ==
  /\ child.phase \in {"told", "killed"} /\ Leaves("killed")
  /\ UNCHANGED <<route, armed, attempt, spent, lively, reaped, signs, sup, ended>>

LetGo ==
  /\ Gone /\ \E pipe \in child.held : child' = [child EXCEPT !.held = @ \ {pipe}]
  /\ UNCHANGED <<route, armed, attempt, spent, lively, reaped, signs, sup, ended>>

Reap ==
  /\ Gone /\ ~reaped /\ reaped' = TRUE
  /\ UNCHANGED <<route, armed, attempt, spent, lively, child, signs, sup, ended>>

-----------------------------------------------------------------------------
(* The supervisor.                                                          *)

Goes(at, left, why) ==
  /\ sup' = Supervisor(at, left, why)
  /\ UNCHANGED <<route, armed, attempt, spent, lively, child, reaped, signs, ended>>

SleepFor(span) == Goes("wait", Min(Timeout - spent, span), "none")

\* The top of the loop: the budget first, then the streams.
Look ==
  /\ sup.at = "look"
  /\ IF spent >= Timeout THEN Goes("stop", 0, "timeout")
     ELSE IF ~armed THEN SleepFor(Timeout)
     ELSE IF signs.out >= Idle THEN Goes("probe", 0, "none")
     ELSE SleepFor(Idle - signs.out)

\* (A mutant of Silent: streams that are quiet are taken for a stall.)
SilentStreams == signs.out >= Idle

\* (A mutant of QuietLeft: the watchdog sleeps a whole window every time.)
QuietWindow == Idle

\* The streams have been quiet for the window: what the transcript says.
Silent == signs.log # None /\ signs.log >= Idle
QuietLeft == IF signs.log = None THEN Idle ELSE Idle - signs.log

Probe ==
  /\ sup.at = "probe"
  /\ IF Silent THEN Goes("stop", 0, "stalled") ELSE SleepFor(QuietLeft)

\* What it waits for once the child has been stopped or is gone: the pump of
\* either pipe, one after the other, and that the child was reaped; after a
\* timeout only that.
Drains(why) ==
  /\ sup' = Supervisor(IF why = "timeout" THEN "finished" ELSE "stdout", Drain, why)
  /\ signs' = NoSign
  /\ UNCHANGED <<route, armed, attempt, spent, lively, child, reaped, ended>>

\* finished.wait: the child was reaped, or the time is up.
Hear == sup.at = "wait" /\ reaped /\ Drains("exit")
Wake == sup.at = "wait" /\ ~reaped /\ sup.left = 0 /\ Goes("look", 0, "none")

\* _terminate sends a signal to a child that has not been reaped, and waits.
Signal(phase, at) ==
  /\ ~reaped
  /\ child' = IF Gone THEN child ELSE [child EXCEPT !.phase = phase]
  /\ sup' = Supervisor(at, Grace, sup.why) /\ signs' = NoSign
  /\ UNCHANGED <<route, armed, attempt, spent, lively, reaped, ended>>

Stop == sup.at = "stop" /\ Signal("told", "term")
Kill == sup.at = "term" /\ sup.left = 0 /\ Signal("killed", "kill")

\* It comes back when the child was reaped, before a signal or after it, and
\* when a child has outlived even the second.
Stopped ==
  /\ sup.at \in {"stop", "term", "kill"}
  /\ reaped \/ (sup.at = "kill" /\ sup.left = 0)
  /\ Drains(sup.why)

\* The pump has come to the end of its pipe.
Ended(pipe) == Gone /\ pipe \notin child.held

\* (A mutant of Join: a pump is joined for as long as it takes.)
JoinWhole(pipe, then) == sup.at = pipe /\ Ended(pipe) /\ Goes(then, Drain, sup.why)

\* worker.join: the pump is through, or has had its time.
Join(pipe, then) ==
  /\ sup.at = pipe /\ (Ended(pipe) \/ sup.left = 0)
  /\ Goes(then, Drain, sup.why)

\* Where a tool holds a pipe the last line on it may not have been read, and
\* with it what the exit was about.
Heard ==
  {child.exit} \cup
    CASE child.exit = "cut" /\ "stdout" \in child.held -> {"ok"}
      [] child.exit = "api" /\ "stdout" \in child.held -> {"bare"}
      [] child.exit = "other" /\ child.held # {} -> {"bare"}
      [] OTHER -> {}

Another(e) == (e = "bare" /\ attempt = 0) \/ (e = "api" /\ attempt < ApiRetries)

Tell(e) ==
  CASE sup.why = "stalled" -> "stalled"
    [] sup.why = "timeout" -> "timeout"
    [] sup.why = "exit" /\ e = "ok" -> "ok"
    [] OTHER -> "failed"

Return ==
  /\ sup.at = "finished" /\ (reaped \/ sup.left = 0)
  /\ \E e \in Heard :
       IF sup.why = "exit" /\ Another(e)
       THEN sup' = Supervisor("backoff", Backoff, "exit") /\ UNCHANGED ended
       ELSE sup' = Supervisor("returned", 0, sup.why) /\ ended' = Tell(e)
  /\ UNCHANGED <<route, armed, attempt, spent, lively, child, reaped, signs>>

\* The same command again, under a session of its own.
Respawn ==
  /\ sup.at = "backoff" /\ sup.left = 0
  /\ attempt' = attempt + 1 /\ spent' = 0
  /\ lively' \in BOOLEAN
  /\ child' = Born /\ reaped' = FALSE /\ signs' = NoSign
  /\ sup' = Supervisor("look", 0, "none")
  /\ UNCHANGED <<route, armed, ended>>

-----------------------------------------------------------------------------
(* A plain launch: subprocess.run reads both pipes to their end, or kills   *)
(* (and then waits for what it killed, which is taken to be no time).       *)

Communicate ==
  /\ sup.at = "communicate" /\ Gone /\ child.held = {}
  /\ ended' = IF child.exit = "ok" THEN "ok" ELSE "failed"
  /\ sup' = Supervisor("returned", 0, "exit")
  /\ UNCHANGED <<route, armed, attempt, spent, lively, child, reaped, signs>>

GiveUp ==
  /\ sup.at = "communicate" /\ sup.left = 0 /\ (Up \/ child.held # {})
  /\ IF Gone THEN UNCHANGED child ELSE Leaves("killed")
  /\ ended' = "timeout" /\ sup' = Supervisor("returned", 0, "timeout")
  /\ UNCHANGED <<route, armed, attempt, spent, lively, reaped, signs>>

-----------------------------------------------------------------------------
\* Something is due at once, of the thread that reaps or of the loop.
Due ==
  \/ Gone /\ ~reaped
  \/ CASE sup.at \in {"wait", "term", "kill", "finished"} -> reaped
       [] sup.at \in Pipe -> Ended(sup.at)
       [] sup.at = "communicate" -> Gone /\ child.held = {}
       [] sup.at = "backoff" -> FALSE
       [] OTHER -> TRUE

Older(age) == IF age = None \/ age > Idle THEN age ELSE age + 1

\* A unit of time.  A lively child has given a sign in time.
Tick ==
  /\ ~Due /\ sup.left > 0
  /\ (Up /\ lively /\ signs.log # None) => Min(signs.out, signs.log) + 1 < Idle
  /\ spent' = IF sup.at = "backoff" THEN spent ELSE spent + 1
  /\ signs' = IF Up THEN [out |-> Older(signs.out), log |-> Older(signs.log)] ELSE signs
  /\ sup' = [sup EXCEPT !.left = @ - 1]
  /\ UNCHANGED <<route, armed, attempt, lively, child, reaped, ended>>

Supervising ==
  \/ Look \/ Probe \/ Hear \/ Wake \/ Stop \/ Kill \/ Stopped
  \/ Join("stdout", "stderr") \/ Join("stderr", "finished") \/ Return \/ Respawn
  \/ Communicate \/ GiveUp

\* Once the caller has been told, nobody looks at the child any more.
Next ==
  /\ ended = "none"
  /\ \/ Speak \/ Log \/ LoseLog \/ Leave \/ DieOfSignal \/ LetGo
     \/ Reap \/ Supervising \/ Tick

\* What a lively child does, by what `lively` says.
Showing == lively /\ (Speak \/ Log)

\* Threads run and time passes; any other child owes nothing.
Fairness == WF_vars(Reap) /\ WF_vars(Supervising) /\ WF_vars(Tick) /\ WF_vars(Showing)

Spec == Init /\ [][Next]_vars /\ Fairness

-----------------------------------------------------------------------------
(* Properties.                                                              *)

\* "A false kill destroys a cycle of real work and has happened twice"
\* (executor.py:546): a child that shows life in every window, on either of
\* its streams or in its transcript, is never stopped as stalled, however its
\* signs fall between the looks; nor is one whose transcript nobody can read.
LivelyIsSpared == ended = "stalled" => ~lively

\* What an attempt may take beyond its timeout: the two graces of the signals
\* where it had to be stopped, and that of each wait of the drain; a child that
\* has left by itself was reaped, one that was stopped perhaps never is.
Overtime(why) ==
  CASE why = "exit" -> 2 * Drain
    [] why = "timeout" -> 2 * Grace + Drain
    [] why = "stalled" -> 2 * Grace + 3 * Drain
    [] OTHER -> 0

\* What the watchdog and the budget bound: a child that has a transcript and
\* falls silent is stopped as soon as the window has passed, not at the next
\* multiple of it; and no attempt lasts longer than its timeout and what its
\* end may take, whatever signals the child ignores and whoever has its pipes.
AttemptIsBounded ==
  /\ spent <= Timeout + Overtime(sup.why)
  /\ (armed /\ Up /\ sup.at = "wait" /\ signs.log # None) => Min(signs.out, signs.log) <= Idle

\* What the two rest on: where each part of the loop finds the child, the
\* signs and the time; `left` counts down to the next of them.
Places ==
  Pipe \cup {"look", "probe", "wait", "stop", "term", "kill", "finished", "backoff", "returned",
             "communicate"}

TypeOK ==
  /\ armed \in BOOLEAN /\ lively \in BOOLEAN /\ reaped \in BOOLEAN
  /\ spent \in Nat
  /\ child \in [phase : {"up", "told", "killed", "gone"}, exit : Exit \cup {"none", "killed"},
                held : SUBSET Pipe]
  /\ signs \in [out : Nat, log : Nat \cup {None}]
  /\ sup \in [at : Places, left : Nat, why : {"none", "exit", "timeout", "stalled"}]
  /\ ended \in {"none", "ok", "failed", "timeout", "stalled"}

Fresher == Min(signs.out, signs.log)

\* Of the overtime, what may have passed when a place is left.
By(at, why) ==
  CASE at = "term" -> Grace
    [] at = "kill" -> 2 * Grace
    [] at = "stdout" -> Overtime(why) - (IF why = "exit" THEN 1 ELSE 2) * Drain
    [] at = "stderr" -> Overtime(why) - (IF why = "exit" THEN 0 ELSE 1) * Drain
    [] at = "finished" -> Overtime(why)
    [] OTHER -> 0

Timed ==
  /\ sup.at \in {"look", "stop"} => spent <= Timeout
  /\ sup.at = "probe" => spent < Timeout
  /\ sup.at \in Pipe \cup {"wait", "communicate", "term", "kill", "finished"} =>
       \/ spent + sup.left <= Timeout + By(sup.at, sup.why)
       \/ sup.at = "finished" /\ reaped
  /\ sup.at \in {"stop", "term", "kill"} => sup.why \in {"timeout", "stalled"}
  /\ sup.at \in Pipe => sup.why \in {"exit", "stalled"}
  /\ sup.at = "finished" => sup.why # "none"
  /\ sup.at \in Pipe \cup {"finished"} /\ sup.why = "exit" => reaped
  /\ spent <= Timeout + Overtime(sup.why)

Watched ==
  (armed /\ sup.at = "wait") =>
    sup.left <= Idle /\ (signs.log # None => Fresher + sup.left <= Idle)

Heeded ==
  /\ sup.at \in {"look", "probe", "wait", "stop"} => child.phase \notin {"told", "killed"}
  /\ sup.at # "returned" => ended = "none"
  /\ lively =>
       /\ sup.at \in {"look", "probe", "wait"} /\ signs.log # None => Fresher < Idle
       /\ sup.at = "probe" => ~Silent
       /\ sup.why # "stalled" /\ ended # "stalled"

WatchInv == TypeOK /\ Timed /\ Watched /\ Heeded

\* The caller gets an answer, though the child ignores the signal, a tool it
\* started never closes the pipes (executor.py:74), and attempts are repeated.
CallerIsAnswered == <>(ended # "none")
===============================================================================
