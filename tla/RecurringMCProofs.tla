-------------------------- MODULE RecurringMCProofs --------------------------
(***************************************************************************)
(* What the chat lease and the watchdog promise, for every time to live,   *)
(* timeout, window, grace and number of answerers.                         *)
(*                                                                         *)
(* The chat: until a turn outlives a lease there is one turn at most, as   *)
(* old as the lease (InStep).  A comment that came while nobody was        *)
(* answering is in every copy of the chat that may still be written back,  *)
(* and in what every turn has read (Covered); so a reply can neither lose  *)
(* it nor leave it unanswered.                                             *)
(*                                                                         *)
(* The watchdog: wherever the supervisor sleeps, what is left of its sleep *)
(* reaches neither past the budget (Timed) nor past the window of the      *)
(* fresher sign (Watched); and where it decides, a lively child has a sign *)
(* younger than the window (Heeded).                                       *)
(***************************************************************************)
EXTENDS RecurringMC, Sequences, TLAPS

\* A step of the whole is a step of the chat, or leaves it alone.
LEMMA ChatSteps == [MCNext]_mcVars => [Chat!Next]_(Chat!vars)
BY DEF MCNext, mcVars, chatVars, OnDefinitions, OnChat, OnProcedure, OnAgent, Chat!vars

\* A step of the whole is a step of the execution, or leaves it alone.
LEMMA AgentSteps == [MCNext]_mcVars => [Agent!Next]_(Agent!vars)
BY DEF MCNext, mcVars, agentVars, OnDefinitions, OnChat, OnProcedure, OnAgent, Agent!vars

-----------------------------------------------------------------------------
(* The chat.                                                                *)

LEMMA MessagesTyped ==
  /\ \A q \in BOOLEAN : Chat!Comment(q) \in Chat!Message /\ Chat!Comment(q).alone = q
  /\ \A n \in Nat : /\ Chat!Answer(n) \in Chat!Message
                    /\ Chat!Answer(n).by = "agent" /\ Chat!Answer(n).read = n
                    /\ ~Chat!Answer(n).alone
BY DEF Chat!Comment, Chat!Answer, Chat!Message

\* What a comment is written as.
LEMMA Posting ==
  ASSUME Chat!Post
  PROVE  \E m \in Chat!Message :
           /\ tChat' = Append(tChat, m)
           /\ m.alone <=> \A a \in Answerer : ~Chat!InTurn(a)
<1> DEFINE q == \A a \in Answerer : ~Chat!InTurn(a)
<1>1. q \in BOOLEAN
  OBVIOUS
<1>2. tChat' = Append(tChat, Chat!Comment(q))
  BY DEF Chat!Post
<1>3. Chat!Comment(q) \in Chat!Message /\ Chat!Comment(q).alone = q
  BY <1>1, MessagesTyped
<1> QED
  BY <1>2, <1>3

\* What a reply is written as.
LEMMA Replying ==
  ASSUME Chat!TypeOK, NEW a \in Answerer, Chat!Reply(a)
  PROVE  \E f \in Chat!Chats, n \in Nat :
           /\ f = tTurns[a].fresh /\ f \in Seq(Chat!Message) /\ n = tTurns[a].read
           /\ tChat' = Append(f, Chat!Answer(n))
<1>1. tTurns[a] \in Chat!TurnType
  BY DEF Chat!TypeOK
<1>2. tTurns[a].fresh \in Seq(Chat!Message) /\ tTurns[a].read \in Nat
  BY <1>1 DEF Chat!TurnType
<1>3. tTurns[a].fresh \in Chat!Chats /\ tChat' = Append(tTurns[a].fresh, Chat!Answer(tTurns[a].read))
  BY DEF Chat!Reply, Chat!Chats
<1> QED
  BY <1>2, <1>3

LEMMA ChatTyped ==
  ASSUME Chat!TypeOK, Chat!Next PROVE Chat!TypeOK'
<1> USE DEF Chat!TypeOK, Chat!Phases
<1>0. Chat!Idle \in Chat!TurnType
  BY DEF Chat!TurnType, Chat!Idle
<1>1. CASE Chat!Post
  <2>1. tChat' \in Seq(Chat!Message)
    BY <1>1, Posting
  <2> QED
    BY <1>1, <2>1 DEF Chat!Post
<1>2. CASE Chat!Tick
  <2>1. ASSUME NEW a \in Answerer PROVE tTurns'[a] \in Chat!TurnType
    <3>1. tTurns[a] \in Chat!TurnType /\ TTL \in Nat
      BY WaitingAssumption
    <3>2. PICK n \in Nat : n = tTurns[a].spent + 1
      BY <3>1 DEF Chat!TurnType
    <3>3. PICK k \in Nat : k = IF tTurns[a].lasted = TTL THEN TTL ELSE tTurns[a].lasted + 1
      BY <3>1 DEF Chat!TurnType
    <3>4. [tTurns[a] EXCEPT !.spent = n, !.lasted = k] \in Chat!TurnType
      BY <3>1 DEF Chat!TurnType
    <3> QED
      BY <1>2, <3>1, <3>2, <3>3, <3>4 DEF Chat!Tick
  <2>2. tTurns' \in [Answerer -> Chat!TurnType]
    BY <1>2, <2>1 DEF Chat!Tick
  <2>3. tOverran' \in BOOLEAN
    BY <1>2 DEF Chat!Tick
  <2> QED
    BY <1>2, <2>2, <2>3 DEF Chat!Tick
<1>3. ASSUME NEW a \in Answerer, Chat!Hold(a) PROVE Chat!TypeOK'
  <2>1. [Chat!Idle EXCEPT !.phase = "thinking", !.read = Len(tChat)] \in Chat!TurnType
    <3>1. PICK n \in Nat : n = Len(tChat)
      OBVIOUS
    <3>2. [Chat!Idle EXCEPT !.phase = "thinking", !.read = n] \in Chat!TurnType
      BY <1>0 DEF Chat!TurnType
    <3> QED
      BY <3>1, <3>2
  <2> QED
    BY <1>3, <2>1 DEF Chat!Hold
<1>4. ASSUME NEW a \in Answerer, Chat!Retry(a) PROVE Chat!TypeOK'
  <2>1. tTurns[a] \in Chat!TurnType
    OBVIOUS
  <2>2. [tTurns[a] EXCEPT !.attempt = @ + 1, !.spent = 0] \in Chat!TurnType
    <3>1. PICK n \in Nat : n = tTurns[a].attempt + 1
      BY <2>1 DEF Chat!TurnType
    <3>2. [tTurns[a] EXCEPT !.attempt = n, !.spent = 0] \in Chat!TurnType
      BY <2>1 DEF Chat!TurnType
    <3> QED
      BY <3>1, <3>2
  <2>3. tTurns' = [tTurns EXCEPT ![a] = [tTurns[a] EXCEPT !.attempt = @ + 1, !.spent = 0]]
    BY <1>4 DEF Chat!Retry
  <2> QED
    BY <1>4, <2>2, <2>3 DEF Chat!Retry
<1>5. ASSUME NEW a \in Answerer, Chat!Think(a) PROVE Chat!TypeOK'
  <2>1. tTurns[a] \in Chat!TurnType
    OBVIOUS
  <2>2. [tTurns[a] EXCEPT !.phase = "answered"] \in Chat!TurnType
    BY <2>1 DEF Chat!TurnType
  <2>3. tTurns' = [tTurns EXCEPT ![a] = [tTurns[a] EXCEPT !.phase = "answered"]]
    BY <1>5 DEF Chat!Think
  <2> QED
    BY <1>5, <2>2, <2>3 DEF Chat!Think
<1>6. ASSUME NEW a \in Answerer, Chat!Reread(a) PROVE Chat!TypeOK'
  <2>1. tTurns[a] \in Chat!TurnType
    OBVIOUS
  <2>2. [tTurns[a] EXCEPT !.phase = "replying", !.fresh = tChat] \in Chat!TurnType
    BY <2>1 DEF Chat!TurnType
  <2>3. tTurns' = [tTurns EXCEPT ![a] = [tTurns[a] EXCEPT !.phase = "replying", !.fresh = tChat]]
    BY <1>6 DEF Chat!Reread
  <2> QED
    BY <1>6, <2>2, <2>3 DEF Chat!Reread
<1>7. ASSUME NEW a \in Answerer, Chat!Reply(a) PROVE Chat!TypeOK'
  <2>1. PICK f \in Seq(Chat!Message), m \in Chat!Message : tChat' = Append(f, m)
    BY <1>7, Replying, MessagesTyped
  <2>2. tChat' \in Seq(Chat!Message)
    BY <2>1
  <2>3. tPending' = FALSE /\ tOverran' = tOverran /\ tTurns' = [tTurns EXCEPT ![a] = Chat!Idle]
    BY <1>7 DEF Chat!Reply
  <2> QED
    BY <1>0, <2>2, <2>3
<1>8. ASSUME NEW a \in Answerer, Chat!Die(a) PROVE Chat!TypeOK'
  BY <1>0, <1>8 DEF Chat!Die
<1>9. QED
  BY <1>1, <1>2, <1>3, <1>4, <1>5, <1>6, <1>7, <1>8 DEF Chat!Next, Chat!Finishing

\* Until a turn outlives a lease, the lease is held by the one turn there is.
LEMMA TurnsStayInStep ==
  ASSUME Chat!TypeOK, Chat!InStep, Chat!Next PROVE Chat!InStep'
<1> USE DEF Chat!TypeOK, Chat!InTurn, Chat!InStep, Chat!OneAnswerer
<1>0. \A a \in Answerer : tTurns[a] \in Chat!TurnType /\ tTurns[a].lasted \in Nat
  BY DEF Chat!TurnType
<1>n. TTL \in Nat \ {0} /\ None \notin Int
  BY WaitingAssumption
<1>1. CASE Chat!Post
  BY <1>1 DEF Chat!Post
<1>2. CASE Chat!Tick
  <2>1. SUFFICES ASSUME ~tOverran' PROVE Chat!InStep'
    OBVIOUS
  <2>2. ~tOverran
    BY <1>2, <2>1 DEF Chat!Tick
  <2>3. \A a \in Answerer : Chat!InTurn(a)' <=> Chat!InTurn(a)
    BY <1>2, <1>0 DEF Chat!Tick, Chat!TurnType
  <2>4. ASSUME NEW a \in Answerer, Chat!InTurn(a)
        PROVE  tAge' = tTurns'[a].lasted /\ tAge' < TTL
    <3>1. a \in Chat!Thinking
      BY <1>2, <2>4 DEF Chat!Tick, Chat!Thinking
    <3>2. tAge = tTurns[a].lasted /\ tAge \in Nat /\ tAge < TTL
      BY <1>0, <2>2, <2>4
    <3>3. tAge' = tAge + 1
      <4>1. tAge \notin {None, TTL}
        BY <1>n, <3>2
      <4> QED
        BY <1>2, <4>1 DEF Chat!Tick
    <3>4. tTurns'[a].lasted = tTurns[a].lasted + 1
      <4>1. tTurns'[a] = [tTurns[a] EXCEPT !.spent = @ + 1,
                                           !.lasted = IF @ = TTL THEN TTL ELSE @ + 1]
        BY <1>2, <3>1 DEF Chat!Tick
      <4>2. tTurns[a].lasted # TTL
        BY <1>n, <3>2
      <4> QED
        BY <4>1, <4>2, <1>0 DEF Chat!TurnType
    <3>5. tTurns'[a].lasted # TTL
      BY <1>2, <2>1, <3>1 DEF Chat!Tick
    <3> QED
      BY <1>n, <3>2, <3>3, <3>4, <3>5
  <2> QED
    BY <2>2, <2>3, <2>4
<1>3. ASSUME NEW a \in Answerer, Chat!Hold(a) PROVE Chat!InStep'
  <2>1. SUFFICES ASSUME ~tOverran PROVE Chat!InStep'
    BY <1>3 DEF Chat!Hold
  <2>2. \A b \in Answerer : ~Chat!InTurn(b)
    BY <1>0, <1>3, <1>n, <2>1 DEF Chat!Hold, Chat!Free
  <2>3. tAge' = 0 /\ tTurns'[a].lasted = 0 /\ \A b \in Answerer \ {a} : tTurns'[b] = tTurns[b]
    BY <1>3 DEF Chat!Hold, Chat!Idle
  <2> QED
    BY <1>n, <2>2, <2>3
<1>4. ASSUME NEW a \in Answerer, Chat!Retry(a) PROVE Chat!InStep'
  BY <1>4, <1>0 DEF Chat!Retry, Chat!TurnType
<1>5. ASSUME NEW a \in Answerer, Chat!Think(a) PROVE Chat!InStep'
  BY <1>5, <1>0 DEF Chat!Think, Chat!TurnType
<1>6. ASSUME NEW a \in Answerer, Chat!Reread(a) PROVE Chat!InStep'
  BY <1>6, <1>0 DEF Chat!Reread, Chat!TurnType
<1>7. ASSUME NEW a \in Answerer, Chat!InTurn(a), tTurns' = [tTurns EXCEPT ![a] = Chat!Idle],
             tOverran' = tOverran, tAge' \in {tAge, None}
      PROVE  Chat!InStep'
  <2>1. SUFFICES ASSUME ~tOverran PROVE Chat!InStep'
    BY <1>7
  <2>2. \A b \in Answerer : ~Chat!InTurn(b)'
    BY <1>7, <2>1 DEF Chat!Idle
  <2> QED
    BY <2>2
<1>8. ASSUME NEW a \in Answerer, Chat!Reply(a) \/ Chat!Die(a) PROVE Chat!InStep'
  BY <1>7, <1>8 DEF Chat!Reply, Chat!Die
<1>9. QED
  BY <1>1, <1>2, <1>3, <1>4, <1>5, <1>6, <1>8 DEF Chat!Next, Chat!Finishing

\* A step that writes no comment keeps every comment covered, if its copies
\* are no shorter than some before, and its turns have read such a copy.
LEMMA CoverCarries ==
  ASSUME Chat!TypeOK, Chat!Covered,
         \A c \in Chat!Chats' : c \in Seq(Chat!Message),
         \A c \in Chat!Chats' : \A i \in DOMAIN c : c[i].alone =>
           \E d \in Chat!Chats : i \in DOMAIN d /\ d[i].alone,
         \A c \in Chat!Chats' : \E d \in Chat!Chats : Len(d) <= Len(c),
         \A a \in Answerer : Chat!InTurn(a)' =>
           \/ Chat!InTurn(a) /\ tTurns'[a].read = tTurns[a].read
           \/ \E d \in Chat!Chats : tTurns'[a].read = Len(d)
  PROVE Chat!Covered'
<1>0. \A c \in Chat!Chats : c \in Seq(Chat!Message) /\ Len(c) \in Nat
  BY DEF Chat!Chats, Chat!TypeOK, Chat!TurnType, Chat!Phases
<1> SUFFICES ASSUME NEW c \in Chat!Chats', NEW i \in DOMAIN c, c[i].alone
             PROVE  /\ \A d \in Chat!Chats' : i <= Len(d)
                    /\ \A a \in Answerer : Chat!InTurn(a)' => i <= tTurns'[a].read
  BY DEF Chat!Covered
<1>1. PICK o \in Chat!Chats : i \in DOMAIN o /\ o[i].alone
  OBVIOUS
<1>2. i \in Nat
  BY <1>0, <1>1
<1>3. \A d \in Chat!Chats : i <= Len(d)
  BY <1>1 DEF Chat!Covered
<1>4. \A a \in Answerer : Chat!InTurn(a) => i <= tTurns[a].read
  BY <1>1 DEF Chat!Covered
<1>5. ASSUME NEW d \in Chat!Chats' PROVE i <= Len(d)
  <2>1. PICK e \in Chat!Chats : Len(e) <= Len(d)
    OBVIOUS
  <2>2. Len(d) \in Nat /\ Len(e) \in Nat
    BY <1>0
  <2> QED
    BY <2>1, <2>2, <1>2, <1>3
<1>6. ASSUME NEW a \in Answerer, Chat!InTurn(a)' PROVE i <= tTurns'[a].read
  BY <1>6, <1>3, <1>4
<1> QED
  BY <1>5, <1>6

\* What may be written back holds every comment that came to a chat at rest,
\* and every turn has read that far.
LEMMA CommentsStayCovered ==
  ASSUME Chat!TypeOK, Chat!Covered, Chat!Next PROVE Chat!Covered'
<1> USE DEF Chat!TypeOK, Chat!TurnType, Chat!Phases, Chat!InTurn
<1>0. \A c \in Chat!Chats : c \in Seq(Chat!Message) /\ Len(c) \in Nat
  BY DEF Chat!Chats
<1>a. tChat \in Chat!Chats
  BY DEF Chat!Chats
<1>t. Chat!TypeOK'
  BY ChatTyped
<1>c. \A c \in Chat!Chats' : c \in Seq(Chat!Message)
  BY <1>t DEF Chat!Chats
<1>1. CASE Chat!Post
  <2>1. PICK m \in Chat!Message :
          /\ tChat' = Append(tChat, m)
          /\ m.alone <=> \A a \in Answerer : ~Chat!InTurn(a)
          /\ tTurns' = tTurns
    <3>1. tTurns' = tTurns
      BY <1>1 DEF Chat!Post
    <3> QED
      BY <1>1, <3>1, Posting
  <2>2. Len(tChat') = Len(tChat) + 1 /\ \A i \in 1..Len(tChat) : tChat'[i] = tChat[i]
    BY <2>1
  <2>3. CASE \A a \in Answerer : ~Chat!InTurn(a)
    <3>1. Chat!Chats' = {tChat'}
      BY <2>1, <2>3 DEF Chat!Chats
    <3>2. \A i \in DOMAIN tChat' : i <= Len(tChat')
      BY <2>1, <2>2
    <3> QED
      BY <2>1, <2>3, <3>1, <3>2 DEF Chat!Covered
  <2>4. CASE \E a \in Answerer : Chat!InTurn(a)
    <3>1. ~m.alone
      BY <2>1, <2>4
    <3>2. Chat!Chats' \subseteq {tChat'} \cup Chat!Chats
      BY <2>1 DEF Chat!Chats
    <3>3. tChat'[Len(tChat) + 1] = m /\ DOMAIN tChat' = 1..(Len(tChat) + 1)
      BY <2>1
    <3>4. ASSUME NEW i \in DOMAIN tChat', tChat'[i].alone
          PROVE  i \in DOMAIN tChat /\ tChat[i].alone
      BY <3>4, <3>1, <3>3, <2>2
    <3>5. \A c \in Chat!Chats' : \A i \in DOMAIN c : c[i].alone =>
            \E d \in Chat!Chats : i \in DOMAIN d /\ d[i].alone
      BY <3>2, <3>4, <1>a
    <3>6. \A c \in Chat!Chats' : \E d \in Chat!Chats : Len(d) <= Len(c)
      BY <3>2, <2>2, <1>0, <1>a
    <3>7. \A a \in Answerer : Chat!InTurn(a)' => Chat!InTurn(a) /\ tTurns'[a].read = tTurns[a].read
      BY <2>1
    <3> HIDE DEF Chat!TypeOK, Chat!InTurn
    <3> QED
      BY <1>c, <3>5, <3>6, <3>7, CoverCarries
  <2> QED
    BY <2>3, <2>4
<1>2. ASSUME Chat!Chats' \subseteq Chat!Chats,
             \A a \in Answerer : Chat!InTurn(a)' =>
               \/ Chat!InTurn(a) /\ tTurns'[a].read = tTurns[a].read
               \/ tTurns'[a].read = Len(tChat)
      PROVE  Chat!Covered'
  <2> HIDE DEF Chat!TypeOK, Chat!InTurn
  <2>1. \A c \in Chat!Chats' : \A i \in DOMAIN c : c[i].alone =>
          \E d \in Chat!Chats : i \in DOMAIN d /\ d[i].alone
    BY <1>2
  <2>2. \A c \in Chat!Chats' : \E d \in Chat!Chats : Len(d) <= Len(c)
    BY <1>2, <1>0
  <2> QED
    BY <1>2, <1>a, <1>c, <2>1, <2>2, CoverCarries
<1>3. CASE Chat!Tick
  BY <1>2, <1>3 DEF Chat!Tick, Chat!Thinking, Chat!Chats
<1>4. ASSUME NEW a \in Answerer, Chat!Hold(a) PROVE Chat!Covered'
  BY <1>2, <1>4 DEF Chat!Hold, Chat!Idle, Chat!Chats
<1>5. ASSUME NEW a \in Answerer, Chat!Retry(a) PROVE Chat!Covered'
  BY <1>2, <1>5 DEF Chat!Retry, Chat!Chats
<1>6. ASSUME NEW a \in Answerer, Chat!Think(a) PROVE Chat!Covered'
  BY <1>2, <1>6 DEF Chat!Think, Chat!Chats
<1>7. ASSUME NEW a \in Answerer, Chat!Reread(a) PROVE Chat!Covered'
  BY <1>2, <1>7 DEF Chat!Reread, Chat!Chats
<1>8. ASSUME NEW a \in Answerer, Chat!Reply(a) PROVE Chat!Covered'
  <2>1. PICK f \in Chat!Chats, m \in Chat!Message :
          /\ f \in Seq(Chat!Message) /\ tChat' = Append(f, m) /\ ~m.alone
    BY <1>8, Replying, MessagesTyped
  <2>2. Chat!Chats' \subseteq {tChat'} \cup Chat!Chats
    BY <1>8 DEF Chat!Reply, Chat!Idle, Chat!Chats
  <2>3. /\ Len(tChat') = Len(f) + 1 /\ DOMAIN tChat' = 1..(Len(f) + 1)
        /\ tChat'[Len(f) + 1] = m /\ \A i \in 1..Len(f) : tChat'[i] = f[i]
    BY <2>1
  <2>4. ASSUME NEW i \in DOMAIN tChat', tChat'[i].alone PROVE i \in DOMAIN f /\ f[i].alone
    BY <2>4, <2>1, <2>3
  <2>5. \A c \in Chat!Chats' : \A i \in DOMAIN c : c[i].alone =>
          \E d \in Chat!Chats : i \in DOMAIN d /\ d[i].alone
    BY <2>2, <2>4, <2>1
  <2>6. \A c \in Chat!Chats' : \E d \in Chat!Chats : Len(d) <= Len(c)
    BY <2>2, <2>1, <2>3, <1>0
  <2>7. \A b \in Answerer : Chat!InTurn(b)' => Chat!InTurn(b) /\ tTurns'[b].read = tTurns[b].read
    BY <1>8 DEF Chat!Reply, Chat!Idle
  <2> HIDE DEF Chat!TypeOK, Chat!InTurn
  <2> QED
    BY <1>c, <2>5, <2>6, <2>7, CoverCarries
<1>9. ASSUME NEW a \in Answerer, Chat!Die(a) PROVE Chat!Covered'
  BY <1>2, <1>9 DEF Chat!Die, Chat!Idle, Chat!Chats
<1> QED
  BY <1>1, <1>3, <1>4, <1>5, <1>6, <1>7, <1>8, <1>9 DEF Chat!Next, Chat!Finishing

\* A chat that is not pending has an answer for each of those comments.
LEMMA CommentsStaySettled ==
  ASSUME Chat!TypeOK, Chat!Covered, Chat!Settled, Chat!Next PROVE Chat!Settled'
<1>1. CASE Chat!Post
  BY <1>1 DEF Chat!Post, Chat!Settled
<1>2. CASE UNCHANGED <<tChat, tPending>>
  BY <1>2 DEF Chat!Settled
<1>3. ASSUME NEW a \in Answerer, Chat!Reply(a) PROVE Chat!Settled'
  <2>1. PICK f \in Chat!Chats, n \in Nat :
          /\ f = tTurns[a].fresh /\ f \in Seq(Chat!Message) /\ n = tTurns[a].read
          /\ tChat' = Append(f, Chat!Answer(n))
    BY <1>3, Replying
  <2>3. /\ Chat!Answer(n) \in Chat!Message
        /\ Chat!Answer(n).by = "agent" /\ Chat!Answer(n).read = n /\ ~Chat!Answer(n).alone
    BY MessagesTyped
  <2>4. /\ DOMAIN tChat' = 1..(Len(f) + 1) /\ tChat'[Len(f) + 1] = Chat!Answer(n)
        /\ \A i \in 1..Len(f) : tChat'[i] = f[i]
    BY <2>1, <2>3
  <2>5. \A i \in DOMAIN f : f[i].alone => i <= n
    BY <1>3, <2>1 DEF Chat!Covered, Chat!Reply, Chat!InTurn
  <2>6. ASSUME NEW i \in DOMAIN tChat', tChat'[i].alone
        PROVE  /\ Len(f) + 1 \in DOMAIN tChat' /\ Len(f) + 1 > i
               /\ tChat'[Len(f) + 1].by = "agent" /\ tChat'[Len(f) + 1].read >= i
    <3>1. i \in DOMAIN f /\ f[i].alone
      BY <2>1, <2>3, <2>4, <2>6
    <3>2. i \in Nat /\ i <= Len(f) /\ i <= n /\ Len(f) \in Nat
      BY <2>1, <2>5, <3>1
    <3> QED
      BY <2>3, <2>4, <3>2
  <2> QED
    BY <2>6 DEF Chat!Settled
<1>4. ASSUME Chat!Tick \/ \E a \in Answerer :
                Chat!Hold(a) \/ Chat!Retry(a) \/ Chat!Think(a) \/ Chat!Reread(a) \/ Chat!Die(a)
      PROVE  UNCHANGED <<tChat, tPending>>
  BY <1>4 DEF Chat!Tick, Chat!Hold, Chat!Retry, Chat!Think, Chat!Reread, Chat!Die
<1> QED
  BY <1>1, <1>2, <1>3, <1>4 DEF Chat!Next, Chat!Finishing

THEOREM ChatInvariance == MCSpec => []Chat!ThreadInv
<1>1. MCInit => Chat!ThreadInv
  <2> SUFFICES ASSUME Chat!Init PROVE Chat!ThreadInv
    BY DEF MCInit
  <2>1. Chat!TypeOK
    <3>1. Chat!Idle \in Chat!TurnType
      BY DEF Chat!TurnType, Chat!Phases, Chat!Idle
    <3>2. tChat = <<>> /\ tPending = FALSE /\ tOverran = FALSE
      BY DEF Chat!Init
    <3>3. tTurns \in [Answerer -> Chat!TurnType]
      BY <3>1 DEF Chat!Init
    <3>4. <<>> \in Seq(Chat!Message)
      OBVIOUS
    <3> QED
      BY <3>2, <3>3, <3>4 DEF Chat!TypeOK
  <2>2. Chat!InStep /\ Chat!Settled
    BY DEF Chat!Init, Chat!InStep, Chat!OneAnswerer, Chat!Settled, Chat!InTurn, Chat!Idle
  <2>3. Chat!Covered
    BY DEF Chat!Init, Chat!Covered, Chat!Chats, Chat!InTurn, Chat!Idle
  <2> QED
    BY <2>1, <2>2, <2>3 DEF Chat!ThreadInv
<1>2. Chat!ThreadInv /\ [MCNext]_mcVars => Chat!ThreadInv'
  <2> SUFFICES ASSUME Chat!ThreadInv, [Chat!Next]_(Chat!vars) PROVE Chat!ThreadInv'
    BY ChatSteps
  <2>1. CASE Chat!Next
    BY <2>1, ChatTyped, TurnsStayInStep, CommentsStayCovered, CommentsStaySettled
       DEF Chat!ThreadInv
  <2>2. CASE UNCHANGED Chat!vars
    BY <2>2 DEF Chat!vars, Chat!ThreadInv, Chat!TypeOK, Chat!InStep, Chat!Covered,
                Chat!Settled,
                Chat!Chats, Chat!InTurn, Chat!OneAnswerer
  <2> QED
    BY <2>1, <2>2
<1> QED
  BY <1>1, <1>2, PTL DEF MCSpec

\* Only one answerer is ever past the lease (orchestrator.py answer_pending_chat),
\* until an answer has lasted as long as a lease lives: whoever dies, starts
\* over or comes round again, and however many there are.
THEOREM LeaseAdmitsOne == MCSpec => []OneUnlessLate
<1>1. Chat!ThreadInv => OneUnlessLate
  BY DEF Chat!ThreadInv, Chat!InStep, OneUnlessLate, Chat!OneUnlessLate
<1> QED
  BY <1>1, ChatInvariance, PTL

\* A comment that came while nobody was answering is never lost, and never
\* taken for answered before a reply whose author has read it is in the chat,
\* though replies are written back over a chat that was read before
\* (orchestrator.py _append_chat_reply).
THEOREM CommentsAreRead == MCSpec => []CommentIsRead
<1>1. Chat!ThreadInv => CommentIsRead
  BY DEF Chat!ThreadInv, Chat!Settled, CommentIsRead, Chat!CommentIsRead
<1> QED
  BY <1>1, ChatInvariance, PTL

-----------------------------------------------------------------------------
(* The execution of an agent's command line.                                *)

LEMMA AgentTyped ==
  ASSUME Agent!TypeOK, Agent!Timed, Agent!Next PROVE Agent!TypeOK'
<1> USE WaitingAssumption DEF Agent!TypeOK, Agent!Exit, Agent!Places, Agent!Pipe
<1>1. CASE Agent!Speak
  BY <1>1 DEF Agent!Speak, Agent!Up
<1>2. CASE Agent!Log
  BY <1>2 DEF Agent!Log, Agent!Up
<1>3. CASE Agent!LoseLog
  BY <1>3 DEF Agent!LoseLog, Agent!Up
<1>4. CASE Agent!Leave
  BY <1>4 DEF Agent!Leave, Agent!Leaves, Agent!Up, Agent!Exit
<1>5. CASE Agent!DieOfSignal
  BY <1>5 DEF Agent!DieOfSignal, Agent!Leaves
<1>6. CASE Agent!LetGo
  BY <1>6 DEF Agent!LetGo, Agent!Gone
<1>7. CASE Agent!Reap
  BY <1>7 DEF Agent!Reap, Agent!Gone
<1>8. CASE Agent!Look
  BY <1>8 DEF Agent!Look, Agent!Goes, Agent!Supervisor, Agent!SleepFor, Agent!Min
<1>9. CASE Agent!Probe
  BY <1>9 DEF Agent!Probe, Agent!Goes, Agent!Supervisor, Agent!SleepFor, Agent!Min,
              Agent!Silent,
                  Agent!QuietLeft, Agent!Timed
<1>10. CASE Agent!Hear
  BY <1>10 DEF Agent!Hear, Agent!Drains, Agent!Supervisor, Agent!NoSign
<1>11. CASE Agent!Wake
  BY <1>11 DEF Agent!Wake, Agent!Goes, Agent!Supervisor
<1>12. CASE Agent!Stop
  BY <1>12 DEF Agent!Stop, Agent!Signal, Agent!Supervisor, Agent!NoSign, Agent!Gone
<1>13. CASE Agent!Stopped
  BY <1>13 DEF Agent!Stopped, Agent!Drains, Agent!Supervisor, Agent!NoSign
<1>14. CASE Agent!Kill
  BY <1>14 DEF Agent!Kill, Agent!Signal, Agent!Supervisor, Agent!NoSign, Agent!Gone
<1>15. CASE Agent!Return
  BY <1>15 DEF Agent!Return, Agent!Supervisor, Agent!Tell, Agent!Another
<1>16. CASE Agent!Respawn
  BY <1>16 DEF Agent!Respawn, Agent!Supervisor, Agent!Born, Agent!NoSign
<1>17. CASE Agent!Communicate
  BY <1>17 DEF Agent!Communicate, Agent!Supervisor, Agent!Gone
<1>18. CASE Agent!GiveUp
  <2>1. sChild' \in [phase : {"up", "told", "killed", "gone"}, exit : Agent!Exit \cup {"none", "killed"},
                    held : SUBSET Agent!Pipe]
    <3>1. CASE Agent!Gone
      BY <1>18, <3>1 DEF Agent!GiveUp
    <3>2. CASE ~Agent!Gone
      <4>1. Agent!Leaves("killed")
        BY <1>18, <3>2 DEF Agent!GiveUp
      <4>2. PICK held \in SUBSET Agent!Pipe :
              sChild' = [phase |-> "gone", exit |-> "killed", held |-> held]
        BY <4>1 DEF Agent!Leaves
      <4> QED
        BY <4>2
    <3> QED
      BY <3>1, <3>2
  <2>2. sSup' = [at |-> "returned", left |-> 0, why |-> "timeout"] /\ sEnded' = "timeout"
    BY <1>18 DEF Agent!GiveUp, Agent!Supervisor
  <2> QED
    BY <1>18, <2>1, <2>2 DEF Agent!GiveUp
<1>19. CASE Agent!Tick
  <2>1. sSpent' \in Nat
    BY <1>19 DEF Agent!Tick
  <2>2. sSigns' \in [out : Nat, log : Nat \cup {None}]
    BY <1>19 DEF Agent!Tick, Agent!Older
  <2>3. sSup' = [sSup EXCEPT !.left = sSup.left - 1] /\ sSup.left > 0
    BY <1>19 DEF Agent!Tick
  <2>4. sSup'.left \in Nat /\ sSup' \in [at : Agent!Places, left : Nat,
                                       why : {"none", "exit", "timeout", "stalled"}]
    BY <2>3
  <2> QED
    BY <1>19, <2>1, <2>2, <2>4 DEF Agent!Tick
<1>20. CASE Agent!Join("stdout", "stderr")
  BY <1>20 DEF Agent!Join, Agent!Goes, Agent!Supervisor
<1>21. CASE Agent!Join("stderr", "finished")
  BY <1>21 DEF Agent!Join, Agent!Goes, Agent!Supervisor
<1> QED
  BY <1>1, <1>2, <1>3, <1>4, <1>5, <1>6, <1>7, <1>8, <1>9, <1>10, <1>11, <1>12, <1>13, <1>14, <1>15, <1>16, <1>17, <1>18, <1>19,
     <1>20, <1>21
     DEF Agent!Next, Agent!Supervising

LEMMA AgentTimed ==
  ASSUME Agent!TypeOK, Agent!Timed, Agent!Next PROVE Agent!Timed'
<1> USE WaitingAssumption DEF Agent!TypeOK, Agent!Timed, Agent!Places, Agent!Pipe,
                               Agent!By, Agent!Overtime
<1>1. CASE Agent!Speak
  BY <1>1 DEF Agent!Speak, Agent!Up
<1>2. CASE Agent!Log
  BY <1>2 DEF Agent!Log, Agent!Up
<1>3. CASE Agent!LoseLog
  BY <1>3 DEF Agent!LoseLog, Agent!Up
<1>4. CASE Agent!Leave
  BY <1>4 DEF Agent!Leave, Agent!Leaves, Agent!Up
<1>5. CASE Agent!DieOfSignal
  BY <1>5 DEF Agent!DieOfSignal, Agent!Leaves
<1>6. CASE Agent!LetGo
  BY <1>6 DEF Agent!LetGo, Agent!Gone
<1>7. CASE Agent!Reap
  BY <1>7 DEF Agent!Reap, Agent!Gone
<1>8. CASE Agent!Look
  BY <1>8 DEF Agent!Look, Agent!Goes, Agent!Supervisor, Agent!SleepFor, Agent!Min
<1>9. CASE Agent!Probe
  BY <1>9 DEF Agent!Probe, Agent!Goes, Agent!Supervisor, Agent!SleepFor, Agent!Min,
              Agent!Silent, Agent!QuietLeft
<1>10. CASE Agent!Hear
  BY <1>10 DEF Agent!Hear, Agent!Drains, Agent!Supervisor, Agent!NoSign
<1>11. CASE Agent!Wake
  BY <1>11 DEF Agent!Wake, Agent!Goes, Agent!Supervisor
<1>12. CASE Agent!Stop
  BY <1>12 DEF Agent!Stop, Agent!Signal, Agent!Supervisor, Agent!NoSign, Agent!Gone
<1>13. CASE Agent!Stopped
  BY <1>13 DEF Agent!Stopped, Agent!Drains, Agent!Supervisor, Agent!NoSign
<1>14. CASE Agent!Kill
  BY <1>14 DEF Agent!Kill, Agent!Signal, Agent!Supervisor, Agent!NoSign, Agent!Gone
<1>15. CASE Agent!Return
  BY <1>15 DEF Agent!Return, Agent!Supervisor, Agent!Tell, Agent!Another
<1>16. CASE Agent!Respawn
  BY <1>16 DEF Agent!Respawn, Agent!Supervisor, Agent!Born, Agent!NoSign
<1>17. CASE Agent!Communicate
  BY <1>17 DEF Agent!Communicate, Agent!Supervisor, Agent!Gone
<1>18. CASE Agent!GiveUp
  BY <1>18 DEF Agent!GiveUp, Agent!Leaves, Agent!Supervisor, Agent!Up, Agent!Gone
<1>19. CASE Agent!Tick
  BY <1>19 DEF Agent!Tick, Agent!Up, Agent!Older, Agent!Due
<1>20. CASE Agent!Join("stdout", "stderr")
  BY <1>20 DEF Agent!Join, Agent!Goes, Agent!Supervisor
<1>21. CASE Agent!Join("stderr", "finished")
  BY <1>21 DEF Agent!Join, Agent!Goes, Agent!Supervisor
<1> QED
  BY <1>1, <1>2, <1>3, <1>4, <1>5, <1>6, <1>7, <1>8, <1>9, <1>10, <1>11, <1>12, <1>13, <1>14, <1>15, <1>16, <1>17, <1>18, <1>19,
     <1>20, <1>21
     DEF Agent!Next, Agent!Supervising

LEMMA AgentWatched ==
  ASSUME Agent!TypeOK, Agent!Watched, Agent!Timed, Agent!Next PROVE Agent!Watched'
<1> USE WaitingAssumption DEF Agent!TypeOK, Agent!Watched, Agent!Fresher, Agent!Min, Agent!Places, Agent!Pipe
<1>1. CASE Agent!Speak
  BY <1>1 DEF Agent!Speak, Agent!Up
<1>2. CASE Agent!Log
  BY <1>2 DEF Agent!Log, Agent!Up
<1>3. CASE Agent!LoseLog
  BY <1>3 DEF Agent!LoseLog, Agent!Up
<1>4. CASE Agent!Leave
  BY <1>4 DEF Agent!Leave, Agent!Leaves, Agent!Up
<1>5. CASE Agent!DieOfSignal
  BY <1>5 DEF Agent!DieOfSignal, Agent!Leaves
<1>6. CASE Agent!LetGo
  BY <1>6 DEF Agent!LetGo, Agent!Gone
<1>7. CASE Agent!Reap
  BY <1>7 DEF Agent!Reap, Agent!Gone
<1>8. CASE Agent!Look
  <2>1. (sArmed' <=> sArmed) /\ sSigns' = sSigns /\ sSigns.out \in Nat
    BY <1>8 DEF Agent!Look, Agent!Goes, Agent!SleepFor
  <2>2. CASE ~sArmed
    BY <2>1, <2>2
  <2>3. CASE sSpent >= Timeout \/ sSigns.out >= Quiet
    <3>1. SUFFICES ASSUME sArmed PROVE sSup'.at # "wait"
      BY <2>1
    <3>2. CASE sSpent >= Timeout
      <4>1. Agent!Goes("stop", 0, "timeout")
        BY <1>8, <3>2 DEF Agent!Look
      <4> QED
        BY <4>1 DEF Agent!Goes, Agent!Supervisor
    <3>3. CASE ~(sSpent >= Timeout)
      <4>1. Agent!Goes("probe", 0, "none")
        BY <1>8, <2>3, <3>1, <3>3 DEF Agent!Look
      <4> QED
        BY <4>1 DEF Agent!Goes, Agent!Supervisor
    <3> QED
      BY <3>2, <3>3
  <2>4. CASE sArmed /\ ~(sSpent >= Timeout) /\ ~(sSigns.out >= Quiet)
    <3>1. Agent!SleepFor(Quiet - sSigns.out)
      BY <1>8, <2>4 DEF Agent!Look
    <3>2. sSup'.left = Agent!Min(Timeout - sSpent, Quiet - sSigns.out)
      BY <3>1 DEF Agent!SleepFor, Agent!Goes, Agent!Supervisor
    <3>3. sSup'.left <= Quiet - sSigns.out /\ sSup'.left \in Int
      BY <2>1, <3>2
    <3>4. sSup'.left <= Quiet
      BY <2>1, <3>3
    <3>5. sSigns.log # None => Agent!Fresher <= sSigns.out /\ Agent!Fresher \in Nat
      BY <2>1
    <3>6. sSigns.log # None => Agent!Fresher + sSup'.left <= Quiet
      BY <2>1, <3>3, <3>5
    <3> QED
      BY <2>1, <3>4, <3>6
  <2> QED
    BY <2>2, <2>3, <2>4
<1>9. CASE Agent!Probe
  <2>1. SUFFICES ASSUME sSup'.at = "wait" PROVE Agent!Watched'
    OBVIOUS
  <2>2. /\ ~Agent!Silent /\ sSigns' = sSigns
        /\ sSup'.left = Agent!Min(Timeout - sSpent, Agent!QuietLeft)
    BY <1>9, <2>1 DEF Agent!Probe, Agent!Goes, Agent!Supervisor, Agent!SleepFor
  <2>3. Agent!QuietLeft \in Int /\ sSup'.left <= Agent!QuietLeft /\ sSup'.left \in Int
    BY <2>2 DEF Agent!QuietLeft
  <2>4. CASE sSigns.log = None
    BY <2>2, <2>3, <2>4 DEF Agent!QuietLeft
  <2>5. CASE sSigns.log # None
    <3>1. sSigns.log \in Nat /\ sSup'.left <= Quiet - sSigns.log
      BY <2>3, <2>5 DEF Agent!QuietLeft
    <3>2. Agent!Fresher <= sSigns.log /\ Agent!Fresher \in Nat
      BY <3>1
    <3>3. sSup'.left <= Quiet /\ Agent!Fresher + sSup'.left <= Quiet
      BY <2>3, <3>1, <3>2
    <3> QED
      BY <2>2, <3>3
  <2> QED
    BY <2>4, <2>5
<1>10. CASE Agent!Hear
  BY <1>10 DEF Agent!Hear, Agent!Drains, Agent!Supervisor, Agent!NoSign
<1>11. CASE Agent!Wake
  BY <1>11 DEF Agent!Wake, Agent!Goes, Agent!Supervisor
<1>12. CASE Agent!Stop
  BY <1>12 DEF Agent!Stop, Agent!Signal, Agent!Supervisor, Agent!NoSign, Agent!Gone
<1>13. CASE Agent!Stopped
  BY <1>13 DEF Agent!Stopped, Agent!Drains, Agent!Supervisor, Agent!NoSign
<1>14. CASE Agent!Kill
  BY <1>14 DEF Agent!Kill, Agent!Signal, Agent!Supervisor, Agent!NoSign, Agent!Gone
<1>15. CASE Agent!Return
  BY <1>15 DEF Agent!Return, Agent!Supervisor, Agent!Tell, Agent!Another
<1>16. CASE Agent!Respawn
  BY <1>16 DEF Agent!Respawn, Agent!Supervisor, Agent!Born, Agent!NoSign
<1>17. CASE Agent!Communicate
  BY <1>17 DEF Agent!Communicate, Agent!Supervisor, Agent!Gone
<1>18. CASE Agent!GiveUp
  BY <1>18 DEF Agent!GiveUp, Agent!Leaves, Agent!Supervisor, Agent!Up, Agent!Gone
<1>19. CASE Agent!Tick
  BY <1>19 DEF Agent!Tick, Agent!Up, Agent!Older, Agent!Due
<1>20. CASE Agent!Join("stdout", "stderr")
  BY <1>20 DEF Agent!Join, Agent!Goes, Agent!Supervisor
<1>21. CASE Agent!Join("stderr", "finished")
  BY <1>21 DEF Agent!Join, Agent!Goes, Agent!Supervisor
<1> QED
  BY <1>1, <1>2, <1>3, <1>4, <1>5, <1>6, <1>7, <1>8, <1>9, <1>10, <1>11, <1>12, <1>13, <1>14, <1>15, <1>16, <1>17, <1>18, <1>19,
     <1>20, <1>21
     DEF Agent!Next, Agent!Supervising

LEMMA AgentHeeded ==
  ASSUME Agent!TypeOK, Agent!Heeded, Agent!Next PROVE Agent!Heeded'
<1> USE WaitingAssumption DEF Agent!TypeOK, Agent!Heeded, Agent!Silent, Agent!Fresher, Agent!Min, Agent!Places, Agent!Pipe
<1>1. CASE Agent!Speak
  BY <1>1 DEF Agent!Speak, Agent!Up
<1>2. CASE Agent!Log
  BY <1>2 DEF Agent!Log, Agent!Up
<1>3. CASE Agent!LoseLog
  BY <1>3 DEF Agent!LoseLog, Agent!Up
<1>4. CASE Agent!Leave
  BY <1>4 DEF Agent!Leave, Agent!Leaves, Agent!Up
<1>5. CASE Agent!DieOfSignal
  BY <1>5 DEF Agent!DieOfSignal, Agent!Leaves
<1>6. CASE Agent!LetGo
  BY <1>6 DEF Agent!LetGo, Agent!Gone
<1>7. CASE Agent!Reap
  BY <1>7 DEF Agent!Reap, Agent!Gone
<1>8. CASE Agent!Look
  BY <1>8 DEF Agent!Look, Agent!Goes, Agent!Supervisor, Agent!SleepFor, Agent!Min
<1>9. CASE Agent!Probe
  BY <1>9 DEF Agent!Probe, Agent!Goes, Agent!Supervisor, Agent!SleepFor, Agent!Min,
              Agent!Silent, Agent!QuietLeft
<1>10. CASE Agent!Hear
  BY <1>10 DEF Agent!Hear, Agent!Drains, Agent!Supervisor, Agent!NoSign
<1>11. CASE Agent!Wake
  BY <1>11 DEF Agent!Wake, Agent!Goes, Agent!Supervisor
<1>12. CASE Agent!Stop
  BY <1>12 DEF Agent!Stop, Agent!Signal, Agent!Supervisor, Agent!NoSign, Agent!Gone
<1>13. CASE Agent!Stopped
  BY <1>13 DEF Agent!Stopped, Agent!Drains, Agent!Supervisor, Agent!NoSign
<1>14. CASE Agent!Kill
  BY <1>14 DEF Agent!Kill, Agent!Signal, Agent!Supervisor, Agent!NoSign, Agent!Gone
<1>15. CASE Agent!Return
  BY <1>15 DEF Agent!Return, Agent!Supervisor, Agent!Tell, Agent!Another
<1>16. CASE Agent!Respawn
  BY <1>16 DEF Agent!Respawn, Agent!Supervisor, Agent!Born, Agent!NoSign
<1>17. CASE Agent!Communicate
  BY <1>17 DEF Agent!Communicate, Agent!Supervisor, Agent!Gone
<1>18. CASE Agent!GiveUp
  BY <1>18 DEF Agent!GiveUp, Agent!Leaves, Agent!Supervisor, Agent!Up, Agent!Gone
<1>19. CASE Agent!Tick
  BY <1>19 DEF Agent!Tick, Agent!Up, Agent!Older, Agent!Due, Agent!Gone
<1>20. CASE Agent!Join("stdout", "stderr")
  BY <1>20 DEF Agent!Join, Agent!Goes, Agent!Supervisor
<1>21. CASE Agent!Join("stderr", "finished")
  BY <1>21 DEF Agent!Join, Agent!Goes, Agent!Supervisor
<1> QED
  BY <1>1, <1>2, <1>3, <1>4, <1>5, <1>6, <1>7, <1>8, <1>9, <1>10, <1>11, <1>12, <1>13, <1>14, <1>15, <1>16, <1>17, <1>18, <1>19,
     <1>20, <1>21
     DEF Agent!Next, Agent!Supervising

THEOREM AgentInvariance == MCSpec => []Agent!WatchInv
<1>1. MCInit => Agent!WatchInv
  <2> SUFFICES ASSUME Agent!Init PROVE Agent!WatchInv
    BY DEF MCInit
  <2> USE WaitingAssumption
          DEF Agent!Init, Agent!Supervisor, Agent!Born, Agent!NoSign
  <2>1. Agent!TypeOK
    BY DEF Agent!TypeOK, Agent!Exit, Agent!Places, Agent!Pipe
  <2>2. Agent!Timed
    BY DEF Agent!Timed, Agent!By, Agent!Overtime, Agent!Pipe
  <2>4. Agent!Watched
    BY DEF Agent!Watched
  <2>3. Agent!Heeded
    BY DEF Agent!Heeded
  <2> QED
    BY <2>1, <2>2, <2>3, <2>4 DEF Agent!WatchInv
<1>2. Agent!WatchInv /\ [MCNext]_mcVars => Agent!WatchInv'
  <2> SUFFICES ASSUME Agent!WatchInv, [Agent!Next]_(Agent!vars) PROVE Agent!WatchInv'
    BY AgentSteps
  <2>1. CASE Agent!Next
    BY <2>1, AgentTyped, AgentTimed, AgentWatched, AgentHeeded DEF Agent!WatchInv
  <2>2. CASE UNCHANGED Agent!vars
    BY <2>2 DEF Agent!vars, Agent!WatchInv, Agent!TypeOK, Agent!Timed, Agent!Watched,
                Agent!Heeded, Agent!Fresher, Agent!Silent
  <2> QED
    BY <2>1, <2>2
<1> QED
  BY <1>1, <1>2, PTL DEF MCSpec

\* A child that shows life in every window, on a stream or in its transcript,
\* is never reported as stalled, whatever the window and however its signs
\* fall between the looks (executor.py _supervise).
THEOREM LivelyChildrenAreSpared == MCSpec => []LivelyIsSpared
<1>1. Agent!WatchInv => LivelyIsSpared
  BY DEF Agent!WatchInv, Agent!Heeded, LivelyIsSpared, Agent!LivelyIsSpared
<1> QED
  BY <1>1, AgentInvariance, PTL

\* No attempt outlasts its timeout by more than the two graces of the signals
\* and the three waits of the drain, and the watchdog never sleeps past the
\* window of a child it watches (executor.py _supervise, _terminate).
THEOREM AttemptsAreBounded == MCSpec => []AttemptIsBounded
<1>1. ASSUME Agent!WatchInv PROVE AttemptIsBounded
  <2>1. sSpent <= Timeout + Agent!Overtime(sSup.why)
    BY <1>1 DEF Agent!WatchInv, Agent!Timed
  <2>2. ASSUME sArmed, sSup.at = "wait", sSigns.log # None PROVE Agent!Fresher <= Quiet
    <3>1. Agent!Fresher + sSup.left <= Quiet
      BY <1>1, <2>2 DEF Agent!WatchInv, Agent!Watched
    <3>2. Agent!Fresher \in Nat /\ sSup.left \in Nat
      BY <1>1, <2>2 DEF Agent!WatchInv, Agent!TypeOK, Agent!Fresher, Agent!Min
    <3> QED
      BY <3>1, <3>2, WaitingAssumption
  <2> QED
    BY <2>1, <2>2 DEF AttemptIsBounded, Agent!AttemptIsBounded, Agent!Fresher
<1> QED
  BY <1>1, AgentInvariance, PTL
==============================================================================
