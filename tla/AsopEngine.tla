------------------------------ MODULE AsopEngine ------------------------------
(***************************************************************************)
(* One conversation under a procedure (scripts/eval/asop_engine.py), as    *)
(* its hosts drive it, a turn at a time:                                   *)
(*                                                                         *)
(*     message arrives -> before_turn: the gates of the step, on what      *)
(*     there is now -> the executor speaks and calls tools -> note_turn:   *)
(*     re-entry, routing, and the audit of what the executor attested to   *)
(*                                                                         *)
(* A step is left when its gates pass, when they have refused too often    *)
(* (escalated), or, where a value check failed, when the executor's own    *)
(* verdict stands.  What the tools returned is kept as the gates read it.  *)
(***************************************************************************)
EXTENDS Integers, Sequences

CONSTANTS
  Procedure,          \* the procedures of the document
  StepsOf,            \* their steps
  Repeatable,         \* the procedures that say what one run of them covers
  Tool,
  Judged,             \* tools whose value the host's value_check can judge
  Mode,               \* how the engine may be built
  MaxRefusals,        \* max_refusals
  MaxAttestRefusals,  \* max_attest_refusals
  MaxInstances,       \* max_instances
  None                \* no procedure, no tool

\* "tool": deterministic, and the step names a tool; "opinion": judged, or a
\* person's; "claimed": deterministic, naming nothing that can be re-run.
Gate == {"tool", "opinion", "claimed"}

Step == [gates : Seq(Gate), tool : Tool \cup {None}, establish : BOOLEAN, conditional : BOOLEAN]

VARIABLES
  mode,      \* "gates", "attest" (an attestor) or "attest_failed" (and attest_on_failed_check)
  conv,      \* ASOPState: where the conversation is
  answer,    \* what check_tool_succeeded reads of each tool
  value,     \* what the value check reads of each tool
  turn,      \* "arrival", "prompt", and who the arrived message is from
  escalated  \* the steps recorded as stepped past, 0 for the attestation

vars == <<mode, conv, answer, value, turn, escalated>>

Conversation ==
  [procedure : Procedure \cup {None}, at : Nat, instances : Nat, refusals : Nat,
   attestRefusals : Nat, refused : BOOLEAN, attested : BOOLEAN, blocked : BOOLEAN, asked : Nat]

Init ==
  /\ mode \in Mode
  /\ conv = [procedure |-> None, at |-> 1, instances |-> 0, refusals |-> 0,
             attestRefusals |-> 0, refused |-> FALSE, attested |-> FALSE,
             blocked |-> FALSE, asked |-> 0]
  /\ answer = [t \in Tool |-> "none"]
  /\ value = [t \in Tool |-> "none"]
  /\ turn = [phase |-> "arrival", from |-> "user"]
  /\ escalated = {}

Steps == StepsOf[conv.procedure]
Last == Len(Steps)

\* The step the gates judge: past the end, still the last one.
Standing == IF conv.at > Last THEN Last ELSE conv.at
Here == Steps[Standing]

\* One step on.  (Past the end the engine keeps counting; here it does not.)
Onward == IF conv.at > Last THEN conv.at ELSE conv.at + 1

-----------------------------------------------------------------------------
(* The gates of a step.                                                     *)

\* is_new_evidence.
NewEvidence ==
  turn.from = "tool" \/ \E i \in DOMAIN Here.gates : Here.gates[i] = "opinion"

\* What a gate may say.  An opinion may be either, and for a step that is
\* only sometimes asked for, that it does not apply.
Verdicts(g) ==
  IF g # "tool" THEN {"pass", "refuse"} \cup (IF Here.conditional THEN {"na"} ELSE {})
  ELSE IF answer[Here.tool] # "ok" THEN {"refuse"}
  ELSE IF Here.tool \in Judged /\ value[Here.tool] = "fails" THEN {"fails"}
  ELSE {"pass"}

Refusing(v) == {i \in DOMAIN v : v[i] \in {"refuse", "fails"}}

Pass ==
  /\ conv' = [conv EXCEPT !.refused = FALSE, !.refusals = 0, !.at = Onward]
  /\ UNCHANGED escalated

\* A failed value of a step that only reads is put to the executor.
AskForVerdict(said) ==
  said = "fails" /\ mode = "attest_failed" /\ ~Here.establish

\* (A mutant of RefuseStep: what was refused is not counted on.)
RefuseStepAgain(said) ==
  /\ conv' = [conv EXCEPT !.refused = TRUE, !.refusals = 1,
                          !.asked = IF AskForVerdict(said) THEN Standing ELSE conv.asked]
  /\ UNCHANGED escalated

RefuseStep(said) ==
  IF AskForVerdict(said)
  THEN conv' = [conv EXCEPT !.refused = TRUE, !.asked = Standing] /\ UNCHANGED escalated
  ELSE IF conv.refusals + 1 < MaxRefusals
  THEN /\ conv' = [conv EXCEPT !.refused = TRUE, !.refusals = conv.refusals + 1]
       /\ UNCHANGED escalated
  ELSE /\ conv' = [conv EXCEPT !.refused = FALSE, !.refusals = 0, !.at = Onward]
       /\ escalated' = escalated \cup {Standing}

\* run_gates: the first gate that refuses decides.
RunGates ==
  \E v \in [DOMAIN Here.gates -> {"pass", "na", "refuse", "fails"}] :
    /\ \A i \in DOMAIN v : v[i] \in Verdicts(Here.gates[i])
    /\ \/ Refusing(v) = {} /\ Pass
       \/ \E i \in Refusing(v) : (\A j \in Refusing(v) : i <= j) /\ RefuseStep(v[i])

-----------------------------------------------------------------------------
(* A turn, up to the prompt.                                                *)

\* The router answers with a procedure, or with none.
Route ==
  /\ turn.phase = "arrival" /\ conv.procedure = None
  /\ \E p \in Procedure : conv' = [conv EXCEPT !.procedure = p]
  /\ UNCHANGED <<mode, answer, value, turn, escalated>>

\* before_turn: whether the gates run.
Gated == conv.procedure # None /\ ~conv.blocked /\ NewEvidence

BeforeTurn ==
  /\ turn.phase = "arrival"
  /\ IF Gated THEN RunGates ELSE UNCHANGED <<conv, escalated>>
  /\ turn' = [turn EXCEPT !.phase = "prompt"]
  /\ UNCHANGED <<mode, answer, value>>

-----------------------------------------------------------------------------
(* What the executor attests to.                                            *)

\* needs_attestation, at conversation c.
NeedsAttestation(c) ==
  /\ mode # "gates" /\ ~c.attested /\ ~c.blocked
  /\ c.procedure # None /\ Len(StepsOf[c.procedure]) >= 2
  /\ c.at = Len(StepsOf[c.procedure]) \/ c.asked # 0

\* attestable_steps.
Attestable(c) ==
  LET last == Len(StepsOf[c.procedure]) IN
  IF c.asked # 0 /\ c.at < last THEN {c.at} ELSE 1..(last - 1)

\* make_attestor: a verdict that is missing, cites nothing or is contradicted
\* by the tools is refused; one that nothing can check stands.
Audit(c, said) ==
  LET tool(i) == StepsOf[c.procedure][i].tool
      known(i) == tool(i) \in Judged /\ value[tool(i)] # "none"
      contradicted(i) == known(i) /\ (said[i] = "yes") # (value[tool(i)] = "holds")
  IN IF \E i \in Attestable(c) : said[i] = "silent" \/ contradicted(i) THEN "refuse"
     ELSE IF \E i \in Attestable(c) : said[i] = "no" THEN "blocked"
     ELSE "ok"

\* _run_attestation: what the audit's answer does to conversation c.
Audited(c, status) ==
  LET perCondition == c.asked # 0
      tired == c.attestRefusals + 1 >= MaxAttestRefusals
  IN CASE status = "ok" /\ perCondition ->
            [c EXCEPT !.refused = FALSE, !.attestRefusals = 0, !.asked = 0,
                      !.refusals = 0, !.at = IF c.at > Last THEN c.at ELSE c.at + 1]
       [] status = "ok" /\ ~perCondition ->
            [c EXCEPT !.refused = FALSE, !.attestRefusals = 0, !.attested = TRUE]
       [] status = "blocked" ->
            [c EXCEPT !.blocked = TRUE, !.refused = FALSE, !.asked = 0]
       [] status = "refuse" /\ ~tired ->
            [c EXCEPT !.attestRefusals = c.attestRefusals + 1, !.refused = TRUE]
       [] status = "refuse" /\ tired /\ perCondition ->
            [c EXCEPT !.asked = 0, !.attestRefusals = 0, !.refused = TRUE,
                      !.refusals = IF c.refusals < MaxRefusals THEN c.refusals + 1 ELSE c.refusals]
       [] OTHER ->
            [c EXCEPT !.attested = TRUE, !.refused = FALSE, !.attestRefusals = 0]

\* An attestation that was given up on is recorded like a step that was.
GivenUp(c, status) ==
  IF status = "refuse" /\ c.asked = 0 /\ c.attestRefusals + 1 >= MaxAttestRefusals
  THEN {0} ELSE {}

-----------------------------------------------------------------------------
(* A turn, from the prompt on.                                              *)

\* note_turn: at the end of a procedure that repeats, acting is beginning
\* another instance.
Reentered(calls) ==
  IF /\ conv.procedure \in Repeatable /\ conv.at > Last
     /\ conv.instances < MaxInstances /\ calls # <<>>
  THEN [conv EXCEPT !.instances = conv.instances + 1, !.at = 1,
                    !.refused = FALSE, !.refusals = 0]
  ELSE conv

\* The executor's message: what it says of the conditions it is asked about,
\* and the tools it calls.
NoteTurn(calls) ==
  LET c == Reentered(calls) IN
  IF conv.procedure # None /\ NeedsAttestation(c)
  THEN \E said \in [Attestable(c) -> {"silent", "yes", "no"}] :
         /\ conv' = Audited(c, Audit(c, said))
         /\ escalated' = escalated \cup GivenUp(c, Audit(c, said))
  ELSE conv' = c /\ UNCHANGED escalated

\* check_tool_succeeded reads the first call that a result follows.
Answered(t, ok) ==
  IF answer[t] \in {"ok", "failed"} THEN answer[t] ELSE IF ok THEN "ok" ELSE "failed"

\* The calls of one message, then their results: only the last call has a
\* result on the line after it, and it is the first one's.
Results(calls) ==
  IF calls = <<>> THEN UNCHANGED <<answer, value>>
  ELSE LET t == calls[Len(calls)] IN
       \E ok \in BOOLEAN, holds \in {"holds", "fails"} :
         /\ answer' = [u \in Tool |->
                         IF u = t THEN Answered(t, ok)
                         ELSE IF answer[u] = "none" /\ \E i \in DOMAIN calls : calls[i] = u
                         THEN "called" ELSE answer[u]]
         /\ value' = IF ok THEN [value EXCEPT ![t] = holds] ELSE value

Speak ==
  /\ turn.phase = "prompt"
  /\ \E calls \in {<<>>} \cup (Tool \X Tool) \cup {<<t>> : t \in Tool} :
       /\ NoteTurn(calls)
       /\ Results(calls)
       /\ turn' = [phase |-> "arrival", from |-> IF calls = <<>> THEN "user" ELSE "tool"]
  /\ UNCHANGED mode

Next == Route \/ BeforeTurn \/ Speak

Spec == Init /\ [][Next]_vars

-----------------------------------------------------------------------------
(* Properties.                                                              *)

TypeOK ==
  /\ mode \in {"gates", "attest", "attest_failed"}
  /\ conv \in Conversation
  /\ answer \in [Tool -> {"none", "called", "ok", "failed"}]
  /\ value \in [Tool -> {"none", "holds", "fails"}]
  /\ turn \in [phase : {"arrival", "prompt"}, from : {"user", "tool"}]
  /\ escalated \subseteq Nat

\* "A gate that refuses forever starves the task it is protecting"
\* (asop_engine.py:1171): where evidence keeps arriving a run passes every
\* step, whatever the judges say, the tools return and the executor attests.
\* Not so where a failed check asks for a verdict: there the refusals of an
\* executor that will not attest are counted and never compared.
EvidenceSettles ==
  mode # "attest_failed" /\ []<><<BeforeTurn /\ Gated>>_vars
    => <>(conv.procedure # None /\ conv.at > Last)
=============================================================================
