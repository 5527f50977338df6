------------------------------ MODULE ChatThread ------------------------------
(***************************************************************************)
(* The chat of one bead: a human comments, and an agent answers.  The      *)
(* answer is started at once by the web interface, and by every heartbeat  *)
(* cycle for a comment that is still pending; the chat lease is to let     *)
(* only one of them through (beads.py try_hold_chat_lease; orchestrator.py *)
(* answer_pending_chat).                                                   *)
(*                                                                         *)
(* Time passes while the model thinks, up to the bead's timeout in every   *)
(* attempt, and while nobody does anything; every other step takes none.   *)
(***************************************************************************)
EXTENDS Integers, Sequences

CONSTANTS
  Answerer,   \* who may answer: the cycle, the web interface
  Sweeper,    \* those of them that come round again: the cycle
  Filed,      \* how the bead may have been filed
  Default,    \* DEFAULT_TIMEOUT
  Floor,      \* TASK_CLASS_BUDGETS, of the classes that have one
  TTL,        \* _CHAT_LEASE_TTL_S
  Retries,    \* how often an execution starts over: _API_RETRY_BACKOFFS_S
  MaxPost,    \* bound on the human's comments
  MaxCrash,   \* bound on the deaths of an answerer
  None

VARIABLES
  bead,       \* how it was filed: own, its parent's and its class's budget
  chat,       \* metadata.chat
  pending,    \* metadata.chat_pending
  age,        \* of the lease (metadata.chat_in_flight_at), None where there is none
  turns,      \* what each answerer is doing
  overran,    \* some turn has lasted as long as a lease lives
  posted, crashes

vars == <<bead, chat, pending, age, turns, overran, posted, crashes>>

\* A comment of the human's, and whether it came while nobody was answering;
\* or a reply, and how far its author had read.
Comment(alone) == [by |-> "human", alone |-> alone, read |-> 0]
Answer(read) == [by |-> "agent", alone |-> FALSE, read |-> read]

\* Where a turn is; the attempt and what it has taken; how long the turn has
\* lasted; how much of the chat it has read; what its reply is written to.
Idle == [phase |-> "idle", attempt |-> 0, spent |-> 0, lasted |-> 0, read |-> 0, fresh |-> <<>>]

InTurn(a) == turns[a].phase # "idle"

Init ==
  /\ bead \in Filed
  /\ chat = <<>> /\ pending = FALSE /\ age = None
  /\ turns = [a \in Answerer |-> Idle]
  /\ overran = FALSE /\ posted = 0 /\ crashes = 0

-----------------------------------------------------------------------------

\* _resolve_budget: its own, or its parent's, or its class's, or the default.
Budget ==
  IF bead.own # None THEN bead.own
  ELSE IF bead.parent # None THEN bead.parent
  ELSE IF bead.class \in DOMAIN Floor THEN Floor[bead.class]
  ELSE Default

\* webui.api_chat: a comment makes the chat pending.
Post ==
  /\ posted < MaxPost
  /\ posted' = posted + 1
  /\ chat' = Append(chat, Comment(\A a \in Answerer : ~InTurn(a)))
  /\ pending' = TRUE
  /\ UNCHANGED <<bead, age, turns, overran, crashes>>

\* (A mutant of Free: the lease of a holder that died is never taken over.)
FreeOnceReleased == age = None

\* (A mutant of Free: a lease can be taken over while its answer may run.)
FreeTooSoon == age # 0

\* A lease is free where nobody holds it, or it is older than its time to live.
Free == age \notin 0..(TTL - 1)

\* (A mutant of Hold: the flag goes down when the answer begins.)
HoldTakingTheFlag(a) ==
  /\ turns[a].phase = "idle"
  /\ pending /\ Free
  /\ age' = 0 /\ pending' = FALSE
  /\ turns' = [turns EXCEPT ![a] = [Idle EXCEPT !.phase = "thinking", !.read = Len(chat)]]
  /\ UNCHANGED <<bead, chat, overran, posted, crashes>>

\* try_hold_chat_lease, under the store's lock; the turn it wins begins.
Hold(a) ==
  /\ turns[a].phase = "idle"
  /\ pending /\ Free
  /\ age' = 0
  /\ turns' = [turns EXCEPT ![a] = [Idle EXCEPT !.phase = "thinking", !.read = Len(chat)]]
  /\ UNCHANGED <<bead, chat, pending, overran, posted, crashes>>

\* The model answers, fails or runs out of time, or the egress gate denies:
\* there is a text to reply with.
Think(a) ==
  /\ turns[a].phase = "thinking"
  /\ turns' = [turns EXCEPT ![a].phase = "answered"]
  /\ UNCHANGED <<bead, chat, pending, age, overran, posted, crashes>>

\* The child crashed, or the API was overloaded: another attempt, on the whole
\* timeout again (executor.py _run_proc_inner).
Retry(a) ==
  /\ turns[a].phase = "thinking" /\ turns[a].attempt < Retries
  /\ turns[a].spent < Budget
  /\ turns' = [turns EXCEPT ![a].attempt = @ + 1, ![a].spent = 0]
  /\ UNCHANGED <<bead, chat, pending, age, overran, posted, crashes>>

\* _append_chat_reply reads the bead again ...
Reread(a) ==
  /\ turns[a].phase = "answered"
  /\ turns' = [turns EXCEPT ![a].phase = "replying", ![a].fresh = chat]
  /\ UNCHANGED <<bead, chat, pending, age, overran, posted, crashes>>

\* ... and writes its metadata back whole, the flags removed.
Reply(a) ==
  /\ turns[a].phase = "replying"
  /\ chat' = Append(turns[a].fresh, Answer(turns[a].read))
  /\ pending' = FALSE /\ age' = None
  /\ turns' = [turns EXCEPT ![a] = Idle]
  /\ UNCHANGED <<bead, overran, posted, crashes>>

\* The answerer's process dies, or the dispatch raises.
Die(a) ==
  /\ InTurn(a) /\ crashes < MaxCrash
  /\ turns' = [turns EXCEPT ![a] = Idle]
  /\ crashes' = crashes + 1
  /\ UNCHANGED <<bead, chat, pending, age, overran, posted>>

Thinking == {a \in Answerer : turns[a].phase = "thinking"}

\* A unit of time.  A model that has used up its timeout is killed in it.
Tick ==
  /\ \A a \in Answerer : turns[a].phase \in {"idle", "thinking"}
  /\ \A a \in Thinking : turns[a].spent < Budget
  /\ Thinking # {} \/ age \notin {None, TTL}
  /\ age' = IF age \in {None, TTL} THEN age ELSE age + 1
  /\ turns' = [a \in Answerer |->
                 IF a \notin Thinking THEN turns[a]
                 ELSE [turns[a] EXCEPT !.spent = @ + 1, !.lasted = IF @ = TTL THEN TTL ELSE @ + 1]]
  /\ overran' = (overran \/ \E a \in Thinking : turns'[a].lasted = TTL)
  /\ UNCHANGED <<bead, chat, pending, posted, crashes>>

Finishing(a) == Think(a) \/ Reread(a) \/ Reply(a)

Next == Post \/ Tick \/ \E a \in Answerer : Hold(a) \/ Retry(a) \/ Finishing(a) \/ Die(a)

\* Time passes, what runs comes to its end, and the cycle comes round again.
Fairness ==
  /\ WF_vars(Tick)
  /\ \A a \in Answerer : WF_vars(Finishing(a))
  /\ \A a \in Sweeper : WF_vars(Hold(a))

Spec == Init /\ [][Next]_vars /\ Fairness

-----------------------------------------------------------------------------
(* Properties.                                                              *)

\* "Only one ever proceeds past this point" (orchestrator.py:435): a comment
\* is never being answered twice at once, since "a live answer's own lease
\* must never expire out from under it" (orchestrator.py:337).  Not so: a
\* longer budget, or a second attempt, outlives the lease.
OneAnswerer == \A a, b \in Answerer : InTurn(a) /\ InTurn(b) => a = b

\* What the lease does promise: there are two answerers only after an answer
\* has lasted as long as a lease lives, whoever dies, retries or comes round
\* again.  (After it, and not only then: the reply of the late one releases
\* the lease of the one that took over.)
OneUnlessLate == overran \/ OneAnswerer

\* A comment that came while nobody was answering is read, by somebody whose
\* reply is in the chat, before the chat is taken for answered, whoever dies on
\* the way.  (A comment that comes during an answer may not be: the reply
\* removes the flag that the comment has set, and between the reply's read
\* and its write the comment itself is lost.)
CommentIsRead ==
  ~pending /\ (\A a \in Answerer : ~InTurn(a)) =>
    \A i \in DOMAIN chat : chat[i].alone =>
      \E j \in DOMAIN chat : j > i /\ chat[j].by = "agent" /\ chat[j].read >= i

\* What the two rest on.  Until a turn outlives a lease there is one turn, as
\* old as the lease is.  And a comment that came while nobody was answering is
\* in what every turn has read and in every copy of the chat, and answered
\* unless it is pending.
Phases == {"idle", "thinking", "answered", "replying"}
Message == [by : {"human", "agent"}, alone : BOOLEAN, read : Nat]
TurnType ==
  [phase : Phases, attempt : Nat, spent : Nat, lasted : Nat, read : Nat, fresh : Seq(Message)]

TypeOK ==
  /\ chat \in Seq(Message) /\ pending \in BOOLEAN /\ overran \in BOOLEAN
  /\ turns \in [Answerer -> TurnType]

InStep ==
  ~overran =>
    /\ \A a \in Answerer : InTurn(a) => age = turns[a].lasted /\ age < TTL
    /\ OneAnswerer

Chats == {chat} \cup {turns[a].fresh : a \in {b \in Answerer : turns[b].phase = "replying"}}

Covered ==
  \A c \in Chats : \A i \in DOMAIN c : c[i].alone =>
    /\ \A d \in Chats : i <= Len(d)
    /\ \A a \in Answerer : InTurn(a) => i <= turns[a].read

Settled ==
  ~pending =>
    \A i \in DOMAIN chat : chat[i].alone =>
      \E j \in DOMAIN chat : j > i /\ chat[j].by = "agent" /\ chat[j].read >= i

ThreadInv == TypeOK /\ InStep /\ Covered /\ Settled

\* A comment does not stay pending for good: the lease of a holder that died
\* is "reclaimed rather than blocking forever" (orchestrator.py:364).
PendingIsAnswered == pending ~> ~pending
=============================================================================
