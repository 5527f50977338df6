----------------------------- MODULE RecurringMC -----------------------------
(* What has to come round again or to come to an end: recurring definitions, *)
(* the chat of a bead that is to be answered, a conversation under a         *)
(* procedure, and an agent's command line that is waited for, side by side.  *)
(* A behaviour is one component's alone, chosen at the start, and leaves the *)
(* others where they begin.                                                  *)
EXTENDS Recurring

CONSTANTS
  part,                              \* the components this run is about
  Answerer, Sweeper, Filed, Floor,   \* of ChatThread
  Default, TTL, Retries, MaxPost, MaxDeath,
  Timeout, Quiet, Grace, Drain, Backoff, ApiRetries,   \* of Subagent
  None

ASSUME WaitingAssumption ==
  /\ {TTL, Timeout, Quiet} \subseteq Nat \ {0}
  /\ {Grace, Drain, Backoff} \subseteq Nat
  /\ None \notin Int

VARIABLES
  on,                                                    \* the component
  tBead, tChat, tPending, tAge, tTurns, tOverran, tPosted, tCrashes,
  eMode, eConv, eAnswer, eValue, eTurn, eEscalated,
  sRoute, sArmed, sAttempt, sSpent, sLively, sChild, sReaped, sSigns, sSup, sEnded

chatVars == <<tBead, tChat, tPending, tAge, tTurns, tOverran, tPosted, tCrashes>>
engineVars == <<eMode, eConv, eAnswer, eValue, eTurn, eEscalated>>
agentVars == <<sRoute, sArmed, sAttempt, sSpent, sLively, sChild, sReaped, sSigns, sSup, sEnded>>

-----------------------------------------------------------------------------
(* One definition, every two units of the clock.                            *)

MCDef == {"report"}
MCEvery == [d \in MCDef |-> 2]
CatchUpAll == [d \in MCDef |-> "all"]
Declared == [d \in MCDef |-> 0]

-----------------------------------------------------------------------------
(* Two comments on a bead; a unit of time is five minutes.                  *)

MCFiled == [own : {None, 1}, parent : {None, 2}, class : {"plain"}]
OfAnAgent == [own : {None, 1}, parent : {None, 2}, class : {"agent"}]
MCFloor == [class \in {"agent", "ritual"} |-> 6]

Chat == INSTANCE ChatThread WITH
  MaxCrash <- MaxDeath,
  bead <- tBead, chat <- tChat, pending <- tPending, age <- tAge, turns <- tTurns,
  overran <- tOverran, posted <- tPosted, crashes <- tCrashes

-----------------------------------------------------------------------------
(* Two procedures: one that acts, reads, asks a person and may be run again, *)
(* and one that reads and rests on a claim.                                  *)

eProcedure == {"open", "pay"}
eTool == {"login", "balance"}
eJudged == {"balance"}
eStep(gates, tool, establish, conditional) ==
  [gates |-> gates, tool |-> tool, establish |-> establish, conditional |-> conditional]
eSteps ==
  [p \in eProcedure |->
     IF p = "open"
     THEN <<eStep(<<"tool">>, "login", TRUE, FALSE),
            eStep(<<"tool", "opinion">>, "balance", FALSE, FALSE),
            eStep(<<"opinion">>, None, FALSE, TRUE)>>
     ELSE <<eStep(<<"tool">>, "balance", FALSE, FALSE),
            eStep(<<"claimed">>, None, FALSE, FALSE)>>]
eRepeatable == {"open"}
eModes == {"gates", "attest", "attest_failed"}

Engine == INSTANCE AsopEngine WITH
  Procedure <- eProcedure, StepsOf <- eSteps, Repeatable <- eRepeatable, Tool <- eTool,
  Judged <- eJudged, Mode <- eModes, MaxRefusals <- 3, MaxAttestRefusals <- 3,
  MaxInstances <- 1,
  mode <- eMode, conv <- eConv, answer <- eAnswer, value <- eValue, turn <- eTurn,
  escalated <- eEscalated

-----------------------------------------------------------------------------
(* A command line with two attempts; the watchdog's window is shorter than   *)
(* what an attempt may take.                                                 *)

Agent == INSTANCE Subagent WITH
  Route <- {"supervised", "plain"}, Idle <- Quiet,
  route <- sRoute, armed <- sArmed, attempt <- sAttempt, spent <- sSpent, lively <- sLively,
  child <- sChild, reaped <- sReaped, signs <- sSigns, sup <- sSup, ended <- sEnded

-----------------------------------------------------------------------------
MCInit ==
  /\ on \in part
  /\ Init /\ Chat!Init /\ Engine!Init /\ Agent!Init
  /\ on # "chat" => tBead = CHOOSE b \in Filed : TRUE
  /\ on # "procedure" => eMode = "gates"
  /\ on # "agent" => sRoute = "plain" /\ ~sLively

OnDefinitions(A) == on = "definitions" /\ A /\ UNCHANGED <<on, chatVars, engineVars, agentVars>>
OnChat(A) == on = "chat" /\ A /\ UNCHANGED <<on, vars, engineVars, agentVars>>
OnProcedure(A) == on = "procedure" /\ A /\ UNCHANGED <<on, vars, chatVars, agentVars>>
OnAgent(A) == on = "agent" /\ A /\ UNCHANGED <<on, vars, chatVars, engineVars>>

MCNext ==
  OnDefinitions(Next) \/ OnChat(Chat!Next) \/ OnProcedure(Engine!Next) \/ OnAgent(Agent!Next)

mcVars == <<on, vars, chatVars, engineVars, agentVars>>

\* The fairness of each, of the component the behaviour is of.  (That of a
\* conversation is a premise of its property.)
MCFairness ==
  /\ WF_mcVars(OnDefinitions(\E c \in Cycle : AnyDue(clock) /\ Wake(c)))
  /\ \A c \in Cycle : WF_mcVars(OnDefinitions(Pass(c)))
  /\ WF_mcVars(OnDefinitions(\E p \in open : Close(p)))
  /\ WF_mcVars(OnChat(Chat!Tick))
  /\ \A a \in Answerer : WF_mcVars(OnChat(Chat!Finishing(a)))
  /\ \A a \in Sweeper : WF_mcVars(OnChat(Chat!Hold(a)))
  /\ WF_mcVars(OnAgent(Agent!Reap))
  /\ WF_mcVars(OnAgent(Agent!Supervising))
  /\ WF_mcVars(OnAgent(Agent!Tick))
  /\ WF_mcVars(OnAgent(Agent!Showing))

MCSpec == MCInit /\ [][MCNext]_mcVars /\ MCFairness

-----------------------------------------------------------------------------
(* The promises of Recurring are its own; of the others:                    *)

\* ChatThread: a comment is never being answered twice at once (not so).
OneAnswerer == Chat!OneAnswerer

\* ChatThread: ... unless an answer has outlived a lease.
OneUnlessLate == Chat!OneUnlessLate

\* ChatThread: a comment that came while nobody was answering is read.
CommentIsRead == Chat!CommentIsRead

\* ChatThread: no comment stays pending for good.
PendingIsAnswered == Chat!PendingIsAnswered

\* AsopEngine: a run that keeps getting evidence comes to its end.
EvidenceSettles == Engine!EvidenceSettles

\* Subagent: a child that shows life is not stopped as stalled.
LivelyIsSpared == Agent!LivelyIsSpared

\* Subagent: a silent child, and an attempt, are stopped when they are due.
AttemptIsBounded == Agent!AttemptIsBounded

\* Subagent: whoever waits for the command line gets an answer.
CallerIsAnswered == on = "agent" => Agent!CallerIsAnswered
=============================================================================
