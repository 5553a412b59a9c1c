---------------------------- MODULE ClientProofs ----------------------------
(***************************************************************************)
(* Theorems about the client, for any delays, commands, workers and number *)
(* of events: the connector goes on trying; types; each semaphore counts   *)
(* the answers that the keyboard thread waits for; and private chat is     *)
(* entered with friends only.                                              *)
(***************************************************************************)
EXTENDS Client, FiniteSetTheorems, TLAPS

\* What AlwaysTrying rests on: the timer is set only while nothing is under
\* way, and a removed channel is destroyed before the next attempt.
Trying ==
  /\ ConnectorTypeOK /\ AlwaysTrying
  /\ start => cstate = "disconnected" /\ channel # "writing"
  /\ channel = "writing" => cstate = "connecting"
  /\ pending <=> channel = "removed"

\* The connector's own steps.
ConnectorStep == StartInLoop \/ AttemptFails \/ Connected \/ ResetChannel

\* The delay grows up to its maximum.
LEMMA RetryDelay ==
  ASSUME Trying, Retry
  PROVE  cstate' = "disconnected" /\ start' = TRUE /\ delay' \in InitDelay .. MaxDelay
<1>1. InitDelay \in Nat /\ MaxDelay \in Nat /\ InitDelay <= MaxDelay
  BY DelayAssumption DEF DelayAssumption
<1>2. delay \in Nat /\ InitDelay <= delay /\ delay <= MaxDelay
  <2>1. ConnectorTypeOK
    BY DEF Trying
  <2>2. delay \in InitDelay .. MaxDelay
    BY <2>1 DEF ConnectorTypeOK
  <2> QED
    BY <1>1, <2>2
<1>3. delay' \in Nat /\ InitDelay <= delay' /\ delay' <= MaxDelay
  BY <1>1, <1>2 DEF Retry
<1> QED
  BY <1>1, <1>3 DEF Retry

\* An attempt starts only when the one before is over and its channel gone.
LEMMA StepKeepsTrying ==
  ASSUME Trying, ConnectorStep
  PROVE  Trying'
<1> USE DEF Trying, AlwaysTrying, ConnectorTypeOK
<1>1. CASE StartInLoop
  <2>1. start /\ cstate = "disconnected" /\ channel = "none" /\ ~pending /\ pending' = pending
    BY <1>1 DEF StartInLoop
  <2>2. CASE Retry /\ UNCHANGED channel /\ asserts' = (asserts /\ cstate = "disconnected")
    BY <2>1, <2>2, RetryDelay
  <2>3. CASE cstate' = "connecting" /\ channel' = "writing" /\ start' = FALSE /\ UNCHANGED delay
             /\ asserts' = (asserts /\ cstate = "disconnected" /\ channel = "none")
    BY <2>1, <2>3
  <2>4. CASE cstate' = "gave up" /\ start' = FALSE /\ UNCHANGED <<channel, delay>>
             /\ asserts' = (asserts /\ cstate = "disconnected")
    BY <2>1, <2>4
  <2> QED
    BY <1>1, <2>2, <2>3, <2>4 DEF StartInLoop
<1>2. CASE AttemptFails
  <2>1. /\ channel' = "removed" /\ pending' = TRUE /\ asserts' = asserts
    BY <1>2 DEF AttemptFails, RemoveAndResetChannel
  <2> QED
    BY <1>2, <2>1, RetryDelay DEF AttemptFails
<1>3. CASE Connected
  BY <1>3 DEF Connected, RemoveAndResetChannel
<1>4. CASE ResetChannel
  BY <1>4 DEF ResetChannel
<1> QED
  BY <1>1, <1>2, <1>3, <1>4 DEF ConnectorStep

\* What the client and the server do otherwise leaves the connector alone.
LEMMA ClientSteps ==
  ASSUME [Next]_vars
  PROVE  ConnectorStep \/ UNCHANGED connector
<1>1. CASE UNCHANGED vars
  BY <1>1 DEF vars
<1>2. CASE Connect \/ Attempt
  BY <1>2 DEF Connect, Attempt, ConnectorStep
<1>3. CASE Lose \/ Choose \/ LeaveChat \/ ExitChatRoom
  BY <1>3 DEF Lose, Choose, LeaveChat, ExitChatRoom
<1>4. CASE Keyboard
  BY <1>4 DEF Keyboard, Ask, ProceedToNext, ProceedToMenu, ProceedToChat, ProceedToGroup, EnterGroup
<1>5. CASE IO
  BY <1>5 DEF IO, ReceiveList, ReceiveLogin, ReceiveCheck, ReceiveMember, ReceiveBlocked,
              ReceiveNotice, ReceiveExit
<1>6. CASE \E w \in Workers : Work(w) \/ Abandon(w)
  BY <1>6 DEF Work, Take, Handle, Answer, Abandon
<1>7. CASE Change \/ OtherChecks \/ Kick \/ KickNotice \/ LongTime
  BY <1>7 DEF Change, OtherChecks, Kick, KickNotice, LongTime
<1> QED
  BY <1>1, <1>2, <1>3, <1>4, <1>5, <1>6, <1>7 DEF Next

\* Until it is connected, unless the error was one that is only logged, the
\* connector has exactly one attempt under way or to come, whatever the delays
\* and however the client's other steps fall between, and its asserts hold.
THEOREM KeepsTrying == Spec => []AlwaysTrying
<1>1. Init => Trying
  <2> SUFFICES ASSUME ConnectorInit PROVE Trying
    BY DEF Init
  <2>1. InitDelay \in InitDelay .. MaxDelay
    BY DelayAssumption DEF DelayAssumption
  <2> QED
    BY <2>1 DEF ConnectorInit, Trying, ConnectorTypeOK, AlwaysTrying
<1>2. ASSUME Trying, [Next]_vars
      PROVE  Trying'
  <2>1. CASE UNCHANGED connector
    BY <1>2, <2>1 DEF connector, Trying, ConnectorTypeOK, AlwaysTrying
  <2> QED
    BY <1>2, <2>1, ClientSteps, StepKeepsTrying
<1>3. Trying => AlwaysTrying
  BY DEF Trying
<1> QED
  BY <1>1, <1>2, <1>3, PTL DEF Spec

-----------------------------------------------------------------------------
(* What the commands ask for.                                              *)

Steps == {s \in Seq(Answers) : Len(s) >= 1}

LEMMA StepsFacts ==
  /\ \A x \in Answers : <<x>> \in Steps
  /\ \A x, y \in Answers : <<x, y>> \in Steps
<1>1. \A x \in Answers : <<x>> \in Steps
  BY DEF Steps
<1>2. \A x, y \in Answers : <<x, y>> \in Steps
  BY DEF Steps
<1> QED
  BY <1>1, <1>2

LEMMA Scripts ==
  /\ \A c \in DOMAIN EntryScript : EntryScript[c] \in Steps
  /\ \A c \in DOMAIN FriendScript : FriendScript[c] \in Steps
  /\ \A c \in DOMAIN GroupScript : GroupScript[c] \in Steps
  /\ \A c \in DOMAIN ManagerScript : ManagerScript[c] \in Steps
  /\ \A c \in DOMAIN FileScript : FileScript[c] \in Steps
<1>0. /\ "reg" \in Answers /\ "login" \in Answers /\ "friends" \in Answers /\ "check" \in Answers
      /\ "users" \in Answers /\ "requests" \in Answers /\ "blocks" \in Answers
      /\ "groups" \in Answers /\ "member" \in Answers /\ "all groups" \in Answers
      /\ "group requests" \in Answers /\ "managers" \in Answers /\ "files" \in Answers
      /\ "receive" \in Answers
  BY DEF Answers
<1>1. ASSUME NEW c \in DOMAIN EntryScript
      PROVE  EntryScript[c] \in Steps
  <2>0. c \in {"reg", "login"}
    BY DEF EntryScript
  <2>1. EntryScript[c] \in {<<"reg">>, <<"login">>}
    BY <2>0 DEF EntryScript
  <2> QED
    BY <1>0, <2>1, StepsFacts
<1>2. ASSUME NEW c \in DOMAIN FriendScript
      PROVE  FriendScript[c] \in Steps
  <2>0. c \in {"privateChat", "friendList", "addFriend", "addFriendRequest",
             "blockFriend", "unblockFriend"}
    BY DEF FriendScript
  <2>1. FriendScript[c] \in {<<"friends", "check">>, <<"friends">>, <<"users">>, <<"requests">>,
                             <<"blocks">>}
    BY <2>0 DEF FriendScript
  <2> QED
    BY <1>0, <2>1, StepsFacts
<1>3. ASSUME NEW c \in DOMAIN GroupScript
      PROVE  GroupScript[c] \in Steps
  <2>0. c \in {"groupChat", "requestEnterGroup", "quitGroup", "addSomeoneToGroup"}
    BY DEF GroupScript
  <2>1. GroupScript[c] \in {<<"groups", "member">>, <<"all groups">>, <<"groups">>,
                            <<"groups", "group requests">>}
    <3>1. CASE c = "groupChat"
      BY <3>1 DEF GroupScript
    <3>2. CASE c = "requestEnterGroup"
      BY <3>2 DEF GroupScript
    <3>3. CASE c = "quitGroup"
      BY <3>3 DEF GroupScript
    <3>4. CASE c = "addSomeoneToGroup"
      BY <3>4 DEF GroupScript
    <3> QED
      BY <2>0, <3>1, <3>2, <3>3, <3>4
  <2> QED
    BY <1>0, <2>1, StepsFacts
<1>4. ASSUME NEW c \in DOMAIN ManagerScript
      PROVE  ManagerScript[c] \in Steps
  <2>0. c \in {"setGroupManager"}
    BY DEF ManagerScript
  <2>1. ManagerScript[c] = <<"groups", "managers">>
    BY <2>0 DEF ManagerScript
  <2> QED
    BY <1>0, <2>1, StepsFacts
<1>5. ASSUME NEW c \in DOMAIN FileScript
      PROVE  FileScript[c] \in Steps
  <2>0. c \in {"viewfile", "receivefile"}
    BY DEF FileScript
  <2>1. FileScript[c] \in {<<"files">>, <<"files", "receive">>}
    BY <2>0 DEF FileScript
  <2> QED
    BY <1>0, <2>1, StepsFacts
<1> QED
  BY <1>1, <1>2, <1>3, <1>4, <1>5

\* Each command has a question to begin with; no question has the name of a
\* message that nobody waits for.
LEMMA ScriptFacts ==
  /\ \A c \in Commands : Script[c] \in Seq(Answers) /\ Len(Script[c]) \in Nat \ {0}
  /\ "login" \in Commands
  /\ Kinds \subseteq Answers
  /\ \A c \in Commands : \A i \in 1 .. Len(Script[c]) : Script[c][i] \in Kinds
<1>1. ASSUME NEW c \in Commands
      PROVE  Script[c] \in Steps
  BY Scripts, CommandAssumption DEF Script
<1>2. \A c \in Commands : Script[c] \in Seq(Answers) /\ Len(Script[c]) \in Nat \ {0}
  BY <1>1 DEF Steps
<1>3. \A c \in Commands : \A i \in 1 .. Len(Script[c]) : Script[c][i] \in Kinds
  BY DEF Kinds
<1>4. Kinds \subseteq Answers
  BY <1>2 DEF Kinds
<1> QED
  BY <1>2, <1>3, <1>4, CommandAssumption

-----------------------------------------------------------------------------
(* Counting requests and answers.                                          *)

One(b) == IF b THEN 1 ELSE 0

LEMMA AskedFacts ==
  ASSUME NEW S, NEW s \in Seq(S), NEW k
  PROVE  /\ Asked(s, k) \in Nat
         /\ \A m \in S : Asked(Append(s, m), k) = Asked(s, k) + One(m.kind = k /\ m.asked)
         /\ s # <<>> =>
              Asked(s, k) = Asked(Tail(s), k) + One(Head(s).kind = k /\ Head(s).asked)
<1> DEFINE Places(q) == {i \in 1 .. Len(q) : q[i].kind = k /\ q[i].asked}
<1>0. \A q : Asked(q, k) = Cardinality(Places(q))
  BY DEF Asked
<1>1. ASSUME NEW q \in Seq(S)
      PROVE  IsFiniteSet(Places(q)) /\ Cardinality(Places(q)) \in Nat /\ Places(q) \subseteq 1 .. Len(q)
  <2>1. IsFiniteSet(1 .. Len(q)) /\ Places(q) \in SUBSET (1 .. Len(q))
    BY FS_Interval
  <2> QED
    BY <2>1, FS_Subset, FS_CardinalityType
<1>2. ASSUME NEW m \in S
      PROVE  Asked(Append(s, m), k) = Asked(s, k) + One(m.kind = k /\ m.asked)
  <2> DEFINE n == Len(s) + 1
  <2>1. n \notin Places(s)
    BY <1>1
  <2>2. CASE m.kind = k /\ m.asked
    <3>1. Places(Append(s, m)) = Places(s) \cup {n}
      BY <2>2
    <3> HIDE DEF Places, n
    <3>2. Cardinality(Places(s) \cup {n}) = Cardinality(Places(s)) + 1
      BY <1>1, <2>1, FS_AddElement
    <3> QED
      BY <1>0, <2>2, <3>1, <3>2 DEF One
  <2>3. CASE ~(m.kind = k /\ m.asked)
    <3>1. Places(Append(s, m)) = Places(s)
      BY <2>3
    <3>2. Cardinality(Places(s)) \in Nat
      BY <1>1
    <3> HIDE DEF Places
    <3> QED
      BY <1>0, <2>3, <3>1, <3>2 DEF One
  <2> QED
    BY <2>2, <2>3
<1>3. ASSUME s # <<>>
      PROVE  Asked(s, k) = Asked(Tail(s), k) + One(Head(s).kind = k /\ Head(s).asked)
  <2> DEFINE rest == Places(s) \ {1}
             f == [i \in Places(Tail(s)) |-> i + 1]
  <2>1. Tail(s) \in Seq(S) /\ Len(Tail(s)) = Len(s) - 1 /\ Len(s) \in Nat \ {0}
        /\ \A i \in 1 .. Len(Tail(s)) : Tail(s)[i] = s[i + 1]
    BY <1>3
  <2>2. \A i : i \in Places(Tail(s)) <=> i \in 1 .. Len(Tail(s)) /\ (i + 1) \in Places(s)
    BY <2>1
  <2>3. \A j \in rest : (j - 1) \in Places(Tail(s)) /\ f[j - 1] = j
    BY <2>1, <2>2
  <2>4. f \in [Places(Tail(s)) -> rest]
    BY <2>2
  <2>5. \A i, j \in Places(Tail(s)) : f[i] = f[j] => i = j
    BY <2>2
  <2>6. ExistsBijection(Places(Tail(s)), rest)
    <3>1. f \in Bijection(Places(Tail(s)), rest)
      <4>1. f \in Injection(Places(Tail(s)), rest)
        BY <2>4, <2>5 DEF Injection, IsInjective
      <4>2. \A j \in rest : \E i \in Places(Tail(s)) : f[i] = j
        BY <2>3
      <4>3. f \in Surjection(Places(Tail(s)), rest)
        BY <2>4, <4>2 DEF Surjection
      <4> QED
        BY <4>1, <4>3 DEF Bijection
    <3> QED
      BY <3>1 DEF ExistsBijection
  <2>7. Cardinality(rest) = Cardinality(Places(Tail(s)))
    BY <1>1, <2>1, <2>6, FS_Bijection
  <2>8. 1 \in Places(s) <=> Head(s).kind = k /\ Head(s).asked
    BY <1>3
  <2>9. Cardinality(rest) = IF 1 \in Places(s) THEN Cardinality(Places(s)) - 1
                                              ELSE Cardinality(Places(s))
    BY <1>1, FS_RemoveElement
  <2>10. Cardinality(Places(s)) \in Nat
    BY <1>1
  <2> HIDE DEF rest, f, Places
  <2> QED
    BY <1>0, <2>7, <2>8, <2>9, <2>10 DEF One
<1>4. Asked(s, k) \in Nat
  BY <1>0, <1>1
<1> QED
  BY <1>2, <1>3, <1>4

\* One worker's task changes.
LEMMA WithFacts ==
  ASSUME TypeOK, NEW k, NEW w \in Workers, NEW t \in Tasks \cup {NoTask},
         task' = [task EXCEPT ![w] = t]
  PROVE  /\ Cardinality(With(k)) \in Nat /\ Cardinality(With(k)') \in Nat
         /\ Cardinality(With(k)') + One(task[w] # NoTask /\ task[w].req.kind = k /\ task[w].req.asked)
              = Cardinality(With(k)) + One(t # NoTask /\ t.req.kind = k /\ t.req.asked)
<1>1. IsFiniteSet(With(k)) /\ IsFiniteSet(With(k)')
  <2>1. With(k) \in SUBSET Workers /\ With(k)' \in SUBSET Workers
    BY DEF With
  <2> QED
    BY <2>1, ClientAssumption, FS_Subset DEF ClientAssumption
<1>2. task'[w] = t /\ \A x \in Workers \ {w} : task'[x] = task[x]
  BY DEF TypeOK
<1>3. With(k) \ {w} = With(k)' \ {w}
  BY <1>2 DEF With
<1>4. w \in With(k) <=> task[w] # NoTask /\ task[w].req.kind = k /\ task[w].req.asked
  BY DEF With
<1>5. w \in With(k)' <=> t # NoTask /\ t.req.kind = k /\ t.req.asked
  BY <1>2 DEF With
<1>6. Cardinality(With(k)) \in Nat /\ Cardinality(With(k)') \in Nat
  BY <1>1, FS_CardinalityType
<1>7. /\ Cardinality(With(k) \ {w}) = Cardinality(With(k)) - One(w \in With(k))
      /\ Cardinality(With(k)' \ {w}) = Cardinality(With(k)') - One(w \in With(k)')
  <2>1. /\ Cardinality(With(k) \ {w}) = IF w \in With(k) THEN Cardinality(With(k)) - 1
                                                         ELSE Cardinality(With(k))
        /\ Cardinality(With(k)' \ {w}) = IF w \in With(k)' THEN Cardinality(With(k)') - 1
                                                           ELSE Cardinality(With(k)')
    BY <1>1, FS_RemoveElement
  <2> DEFINE A == Cardinality(With(k) \ {w})  B == Cardinality(With(k)' \ {w})
             C == Cardinality(With(k))        D == Cardinality(With(k)')
  <2>2. C \in Nat /\ D \in Nat /\ A = (IF w \in With(k) THEN C - 1 ELSE C)
        /\ B = (IF w \in With(k)' THEN D - 1 ELSE D)
    BY <1>6, <2>1
  <2> HIDE DEF A, B, C, D
  <2>3. A = C - One(w \in With(k)) /\ B = D - One(w \in With(k)')
    BY <2>2 DEF One
  <2> QED
    BY <2>3 DEF A, B, C, D
<1> DEFINE C == Cardinality(With(k))  D == Cardinality(With(k)')
           X == One(w \in With(k))    Y == One(w \in With(k)')
<1>8. X \in Nat /\ Y \in Nat
  BY DEF One
<1>9. C \in Nat /\ D \in Nat /\ C - X = D - Y
  BY <1>3, <1>6, <1>7
<1>10. D + X = C + Y
  <2> HIDE DEF C, D, X, Y
  <2> QED
    BY <1>8, <1>9
<1>11. /\ X = One(task[w] # NoTask /\ task[w].req.kind = k /\ task[w].req.asked)
       /\ Y = One(t # NoTask /\ t.req.kind = k /\ t.req.asked)
  BY <1>4, <1>5 DEF One
<1> QED
  BY <1>6, <1>10, <1>11
-----------------------------------------------------------------------------
(* Types.                                                                  *)

\* Only CHECK_BLOCK is ever asked for nobody, and only its answers and what
\* other users cause come unasked.
RightRequests == {r \in Requests : r.asked \/ r.kind = "check"}
RightMessages == {m \in Messages : m.asked \/ m.kind \in {"check", "notice", "exit"}}
RightTasks    == {t \in Tasks : t.req \in RightRequests}

Right ==
  /\ reqs \in Seq(RightRequests) /\ inbox \in Seq(RightMessages)
  /\ task \in [Workers -> RightTasks \cup {NoTask}]

\* TypeOK without the connector and the server's queues.
KeysOK ==
  /\ pc \in {"menu", "ask", "wait", "chat", "entering", "group", "exited", "crashed"}
  /\ cmd \in Commands /\ step \in 1 .. Len(Script[cmd]) /\ target \in Users

FlagsOK ==
  /\ if_friend \in BOOLEAN /\ if_block \in BOOLEAN /\ if_group_member \in BOOLEAN
  /\ login_flag \in BOOLEAN

ChatOK == CurrentGroupChatId \in BOOLEAN /\ private_chat_id \in Users \cup {Nobody}

WorldOK ==
  /\ bond \in {"friend", "block", ""} /\ member \in BOOLEAN /\ kicking \in BOOLEAN
  /\ abandoned \in BOOLEAN /\ events \in 0 .. MaxEvents

SemOK == sem \in [Kinds -> Nat]

OwnTypes ==
  /\ link \in {"none", "up", "lost"} /\ unasked \in Nat
  /\ KeysOK /\ SemOK /\ FlagsOK /\ ChatOK /\ WorldOK

LEMMA Frames ==
  /\ KeysOK /\ UNCHANGED keyboard => KeysOK'
  /\ KeysOK /\ UNCHANGED <<cmd, step, target>>
       /\ pc' \in {"menu", "ask", "wait", "chat", "entering", "group", "exited", "crashed"} => KeysOK'
  /\ SemOK /\ UNCHANGED sem => SemOK'
  /\ FlagsOK /\ UNCHANGED flags => FlagsOK'
  /\ ChatOK /\ UNCHANGED chat => ChatOK'
  /\ WorldOK /\ UNCHANGED <<bond, member, kicking, events, abandoned>> => WorldOK'
  /\ WorldOK /\ UNCHANGED server => WorldOK'
  /\ Right /\ UNCHANGED <<reqs, task, inbox>> => Right'
  /\ Right /\ UNCHANGED <<inbox, server>> => Right'
<1>1. KeysOK /\ UNCHANGED keyboard => KeysOK'
  BY DEF KeysOK, keyboard
<1>2. KeysOK /\ UNCHANGED <<cmd, step, target>>
        /\ pc' \in {"menu", "ask", "wait", "chat", "entering", "group", "exited", "crashed"} => KeysOK'
  BY DEF KeysOK
<1>3. SemOK /\ UNCHANGED sem => SemOK'
  BY DEF SemOK
<1>4. FlagsOK /\ UNCHANGED flags => FlagsOK'
  BY DEF FlagsOK, flags
<1>5. ChatOK /\ UNCHANGED chat => ChatOK'
  BY DEF ChatOK, chat
<1>6. WorldOK /\ UNCHANGED <<bond, member, kicking, events, abandoned>> => WorldOK'
  BY DEF WorldOK
<1>7. UNCHANGED server => UNCHANGED <<bond, member, kicking, events, abandoned, reqs, task>>
  BY DEF server
<1>8. Right /\ UNCHANGED <<reqs, task, inbox>> => Right'
  BY DEF Right
<1> QED
  BY <1>1, <1>2, <1>3, <1>4, <1>5, <1>6, <1>7, <1>8

LEMMA SeqSubset ==
  ASSUME NEW S, NEW T, S \subseteq T, NEW s \in Seq(S)
  PROVE  s \in Seq(T)
OBVIOUS

LEMMA TypesAreTypeOK ==
  ASSUME ConnectorTypeOK, OwnTypes, Right
  PROVE  TypeOK
<1>1. reqs \in Seq(Requests) /\ inbox \in Seq(Messages)
  BY SeqSubset DEF Right, RightRequests, RightMessages
<1>2. task \in [Workers -> Tasks \cup {NoTask}]
  BY DEF Right, RightTasks
<1> QED
  BY <1>1, <1>2 DEF TypeOK, OwnTypes, KeysOK, SemOK, FlagsOK, ChatOK, WorldOK

\* Queues: what is sent is right, what is left when the head is taken too.
LEMMA SendRight ==
  ASSUME Right, NEW r \in RightRequests, Send(r)
  PROVE  reqs' \in Seq(RightRequests)
BY DEF Right, Send

LEMMA DeliverRight ==
  ASSUME Right, NEW m \in RightMessages, Deliver(m)
  PROVE  inbox' \in Seq(RightMessages)
BY DEF Right, Deliver

LEMMA HeadRight ==
  ASSUME Right
  PROVE  /\ reqs # <<>> => Head(reqs) \in RightRequests /\ Tail(reqs) \in Seq(RightRequests)
         /\ inbox # <<>> => Head(inbox) \in RightMessages /\ Tail(inbox) \in Seq(RightMessages)
BY DEF Right

\* The steps of the connection.
LinkStep == Connect \/ Attempt \/ Lose

LEMMA LinkTypes ==
  ASSUME OwnTypes, Right, LinkStep
  PROVE  OwnTypes' /\ Right'
<1>1. CASE Connect
  BY <1>1, Frames DEF Connect, OwnTypes
<1>2. CASE Attempt
  BY <1>2, Frames DEF Attempt, OwnTypes
<1>3. CASE Lose
  <2>1. Right'
    BY <1>3 DEF Lose, Right
  <2> QED
    BY <1>3, <2>1, Frames DEF Lose, OwnTypes
<1> QED
  BY <1>1, <1>2, <1>3 DEF LinkStep

\* The steps of the keyboard thread.
KeyStep == Choose \/ Keyboard \/ LeaveChat \/ ExitChatRoom

LEMMA MenuTypes ==
  ASSUME Menu
  PROVE  KeysOK'
<1>1. cmd' \in Commands /\ step' \in 1 .. Len(Script[cmd'])
  BY ScriptFacts DEF Menu
<1> QED
  BY <1>1 DEF Menu, Users, KeysOK

LEMMA SemTypes ==
  ASSUME SemOK, NEW k \in Kinds
  PROVE  /\ [sem EXCEPT ![k] = @ + 1] \in [Kinds -> Nat]
         /\ sem[k] > 0 => [sem EXCEPT ![k] = @ - 1] \in [Kinds -> Nat]
<1>1. sem[k] \in Nat /\ sem \in [Kinds -> Nat]
  BY DEF SemOK
<1>2. sem[k] + 1 \in Nat /\ (sem[k] > 0 => sem[k] - 1 \in Nat)
  BY <1>1
<1> QED
  BY <1>1, <1>2

LEMMA KindType ==
  ASSUME KeysOK
  PROVE  Kind \in Kinds /\ Kind \in Answers
BY ScriptFacts DEF KeysOK, Kind

LEMMA KeyTypes ==
  ASSUME OwnTypes, Right, KeyStep
  PROVE  OwnTypes' /\ Right'
<1>k. KeysOK /\ SemOK
  BY DEF OwnTypes
<1>0. Proceed => SemOK'
  BY <1>k, KindType, SemTypes DEF Proceed, SemOK
<1>1. CASE Choose
  <2>1. pc' = "ask" /\ cmd' \in Commands /\ target' \in Users /\ step' = 1
    BY <1>1 DEF Choose, Users
  <2>2. step' \in 1 .. Len(Script[cmd'])
    BY <2>1, ScriptFacts
  <2>3. KeysOK'
    BY <2>1, <2>2 DEF KeysOK
  <2> QED
    BY <1>1, <2>3, Frames DEF Choose, OwnTypes
<1>2. CASE Ask
  <2>1. Request(Script[cmd][step], target) \in RightRequests
    <3>1. Kind \in Answers /\ target \in Users
      BY <1>k, KindType DEF KeysOK
    <3> QED
      BY <3>1 DEF Kind, Request, RightRequests, Requests
  <2>2. reqs' \in Seq(RightRequests)
    BY <1>2, <2>1, SendRight DEF Ask
  <2>3. Right'
    BY <1>2, <2>2 DEF Ask, Right
  <2>4. KeysOK'
    BY <1>2, <1>k, Frames DEF Ask
  <2> QED
    BY <1>2, <2>3, <2>4, Frames DEF Ask, OwnTypes
<1>3. CASE ProceedToNext
  <2>1. KeysOK'
    <3>1. CASE Menu
      BY <3>1, MenuTypes
    <3>2. CASE pc' = "ask" /\ step' = step + 1 /\ UNCHANGED <<cmd, target>>
      <4>1. step + 1 \in 1 .. Len(Script[cmd])
        <5>1. step \in 1 .. Len(Script[cmd]) /\ step < Len(Script[cmd]) /\ cmd \in Commands
          BY <1>3, <1>k DEF ProceedToNext, KeysOK
        <5>2. Len(Script[cmd]) \in Nat
          BY <5>1, ScriptFacts
        <5> QED
          BY <5>1, <5>2
      <4> QED
        BY <1>k, <3>2, <4>1 DEF KeysOK
    <3> QED
      BY <1>3, <3>1, <3>2 DEF ProceedToNext
  <2>2. SemOK'
    BY <1>0, <1>3 DEF ProceedToNext
  <2> QED
    BY <1>3, <2>1, <2>2, Frames DEF ProceedToNext, OwnTypes
<1>4. CASE ProceedToMenu
  <2>1. reqs' \in Seq(RightRequests) /\ events' \in 0 .. MaxEvents
    <3>0. reqs \in Seq(RightRequests) /\ events \in 0 .. MaxEvents
      BY DEF OwnTypes, WorldOK, Right
    <3>1. CASE Send(Request(cmd, target)) /\ events > 0 /\ events' = events - 1
               /\ cmd \in {"blockFriend", "unblockFriend"}
      <4>1. Request(cmd, target) \in RightRequests
        <5>1. target \in Users
          BY <1>k DEF KeysOK
        <5> QED
          BY <3>1, <5>1 DEF Request, RightRequests, Requests
      <4>2. events' \in 0 .. MaxEvents
        BY <3>0, <3>1, ClientAssumption DEF ClientAssumption
      <4> QED
        BY <3>1, <4>1, <4>2, SendRight
    <3>2. CASE UNCHANGED <<reqs, events>>
      BY <3>0, <3>2
    <3> QED
      BY <1>4, <3>1, <3>2 DEF ProceedToMenu
  <2>2. KeysOK'
    BY <1>4, MenuTypes DEF ProceedToMenu
  <2>3. SemOK'
    BY <1>0, <1>4 DEF ProceedToMenu
  <2>4. Right' /\ WorldOK'
    BY <1>4, <2>1 DEF ProceedToMenu, OwnTypes, Right, WorldOK
  <2> QED
    BY <1>4, <2>2, <2>3, <2>4, Frames DEF ProceedToMenu, OwnTypes
<1>5. CASE ProceedToChat
  <2>1. KeysOK' /\ private_chat_id' \in Users \cup {Nobody}
    <3>1. CASE Menu /\ UNCHANGED private_chat_id
      BY <3>1, MenuTypes DEF OwnTypes, ChatOK
    <3>2. CASE pc' = "chat" /\ private_chat_id' = target /\ UNCHANGED <<cmd, step, target>>
      BY <1>k, <3>2 DEF KeysOK
    <3> QED
      BY <1>5, <3>1, <3>2 DEF ProceedToChat
  <2>2. SemOK'
    BY <1>0, <1>5 DEF ProceedToChat
  <2>3. ChatOK'
    BY <1>5, <2>1 DEF ProceedToChat, OwnTypes, ChatOK
  <2> QED
    BY <1>5, <2>1, <2>2, <2>3, Frames DEF ProceedToChat, OwnTypes
<1>6. CASE ProceedToGroup
  <2>1. KeysOK'
    <3>1. CASE Menu
      BY <3>1, MenuTypes
    <3>2. CASE pc' = "entering" /\ UNCHANGED <<cmd, step, target>>
      BY <1>k, <3>2 DEF KeysOK
    <3> QED
      BY <1>6, <3>1, <3>2 DEF ProceedToGroup
  <2>2. SemOK'
    BY <1>0, <1>6 DEF ProceedToGroup
  <2> QED
    BY <1>6, <2>1, <2>2, Frames DEF ProceedToGroup, OwnTypes
<1>7. CASE EnterGroup
  <2>1. KeysOK' /\ ChatOK'
    BY <1>k, <1>7 DEF EnterGroup, KeysOK, OwnTypes, ChatOK
  <2> QED
    BY <1>7, <2>1, Frames DEF EnterGroup, OwnTypes
<1>8. CASE LeaveChat
  <2>1. KeysOK' /\ ChatOK'
    BY <1>8, MenuTypes DEF LeaveChat, OwnTypes, ChatOK
  <2> QED
    BY <1>8, <2>1, Frames DEF LeaveChat, OwnTypes
<1>9. CASE ExitChatRoom
  <2>1. KeysOK'
    BY <1>k, <1>9 DEF ExitChatRoom, KeysOK
  <2> QED
    BY <1>9, <2>1, Frames DEF ExitChatRoom, OwnTypes
<1> QED
  BY <1>1, <1>2, <1>3, <1>4, <1>5, <1>6, <1>7, <1>8, <1>9 DEF KeyStep, Keyboard

\* The steps of the IO thread.
LEMMA PostTypes ==
  ASSUME SemOK, NEW k, Post(k)
  PROVE  SemOK'
<1>1. CASE k \in Kinds
  BY <1>1, SemTypes DEF Post, SemOK
<1>2. CASE k \notin Kinds
  BY <1>2 DEF Post, SemOK
<1> QED
  BY <1>1, <1>2

LEMMA IOTypes ==
  ASSUME OwnTypes, Right, IO
  PROVE  OwnTypes' /\ Right'
<1>k. SemOK /\ FlagsOK
  BY DEF OwnTypes
<1>0. ASSUME NEW k, Receive(k), UNCHANGED <<reqs, task>>
      PROVE  Right'
  BY <1>0, HeadRight DEF Receive, Right
<1>s. UNCHANGED server => UNCHANGED <<reqs, task>>
  BY DEF server
<1>1. CASE ReceiveList
  <2>1. SemOK' /\ Right'
    BY <1>k, <1>0, <1>s, <1>1, PostTypes DEF ReceiveList
  <2> QED
    BY <1>1, <2>1, Frames DEF ReceiveList, OwnTypes
<1>2. CASE ReceiveLogin
  <2>1. SemOK' /\ Right'
    BY <1>k, <1>0, <1>s, <1>2, PostTypes DEF ReceiveLogin
  <2>2. FlagsOK'
    BY <1>k, <1>2 DEF ReceiveLogin, FlagsOK
  <2> QED
    BY <1>2, <2>1, <2>2, Frames DEF ReceiveLogin, OwnTypes
<1>3. CASE ReceiveCheck
  <2>1. SemOK' /\ Right'
    BY <1>k, <1>0, <1>s, <1>3, PostTypes DEF ReceiveCheck
  <2>2. FlagsOK'
    BY <1>k, <1>3 DEF ReceiveCheck, FlagsOK
  <2>3. unasked' \in Nat
    BY <1>3 DEF ReceiveCheck, OwnTypes
  <2> QED
    BY <1>3, <2>1, <2>2, <2>3, Frames DEF ReceiveCheck, OwnTypes
<1>4. CASE ReceiveMember
  <2>1. SemOK' /\ Right'
    BY <1>k, <1>0, <1>s, <1>4, PostTypes DEF ReceiveMember
  <2>2. FlagsOK'
    BY <1>k, <1>4 DEF ReceiveMember, FlagsOK
  <2> QED
    BY <1>4, <2>1, <2>2, Frames DEF ReceiveMember, OwnTypes
<1>5. CASE ReceiveBlocked
  <2>1. [kind |-> "check", who |-> private_chat_id, asked |-> FALSE] \in RightRequests
    BY DEF OwnTypes, ChatOK, RightRequests, Requests, Answers
  <2>2. reqs' \in Seq(RightRequests)
    BY <1>5, <2>1, SendRight DEF ReceiveBlocked
  <2>3. inbox' \in Seq(RightMessages)
    BY <1>5, HeadRight DEF ReceiveBlocked, Receive
  <2>4. Right'
    BY <1>5, <2>2, <2>3 DEF ReceiveBlocked, Right
  <2> QED
    BY <1>5, <2>4, Frames DEF ReceiveBlocked, OwnTypes
<1>6. CASE ReceiveNotice
  <2>1. Right'
    BY <1>0, <1>s, <1>6 DEF ReceiveNotice
  <2>2. FlagsOK'
    BY <1>k, <1>6 DEF ReceiveNotice, FlagsOK, OwnTypes, ChatOK
  <2> QED
    BY <1>6, <2>1, <2>2, Frames DEF ReceiveNotice, OwnTypes
<1>7. CASE ReceiveExit
  <2>1. Right'
    BY <1>0, <1>s, <1>7 DEF ReceiveExit
  <2>2. KeysOK'
    BY <1>7 DEF ReceiveExit, OwnTypes, KeysOK
  <2> QED
    BY <1>7, <2>1, <2>2, Frames DEF ReceiveExit, OwnTypes
<1> QED
  BY <1>1, <1>2, <1>3, <1>4, <1>5, <1>6, <1>7 DEF IO

\* The workers' steps.
LEMMA OutcomesTypes ==
  ASSUME WorldOK, NEW req, NEW o \in Outcomes(req)
  PROVE  o[1] \in Values /\ o[2] \in {"friend", "block", ""}
<1> DEFINE Bonds == {"friend", "block", ""}
<1>0. bond \in Bonds /\ Bonds \subseteq Values
  BY DEF WorldOK, Values
<1>t. ASSUME NEW v \in Values, NEW b \in Bonds, o = <<v, b>>
      PROVE  o[1] \in Values /\ o[2] \in Bonds
  BY <1>t
<1>v. "yes" \in Values /\ "no" \in Values /\ "in use" \in Values /\ "" \in Values
  BY DEF Values
<1>1. CASE req.kind = "check"
  <2>1. o = <<Between(req.who), bond>>
    BY <1>1 DEF Outcomes
  <2>2. Between(req.who) \in Values
    BY <1>0, <1>v DEF Between
  <2> QED
    BY <1>0, <1>t, <2>1, <2>2
<1>2. CASE req.kind = "member"
  <2>1. o = <<IF member THEN "yes" ELSE "no", bond>>
    BY <1>2 DEF Outcomes
  <2> QED
    BY <1>0, <1>t, <1>v, <2>1
<1>3. CASE req.kind = "login"
  <2>1. o = <<"yes", bond>> \/ o = <<"no", bond>> \/ o = <<"in use", bond>>
    BY <1>3 DEF Outcomes
  <2> QED
    BY <1>0, <1>t, <1>v, <2>1
<1>4. CASE req.kind = "blockFriend"
  <2>1. o = <<"yes", "block">> \/ o = <<"no", bond>>
    BY <1>4 DEF Outcomes
  <2> QED
    BY <1>0, <1>t, <1>v, <2>1
<1>5. CASE req.kind = "unblockFriend"
  <2>1. o = <<"no", bond>> \/ o = <<"yes", "block">> \/ o = <<"yes", "friend">>
    BY <1>5 DEF Outcomes
  <2> QED
    BY <1>0, <1>t, <1>v, <2>1
<1>6. CASE req.kind \notin {"check", "member", "login", "blockFriend", "unblockFriend"}
  <2>1. o = <<"", bond>>
    BY <1>6 DEF Outcomes
  <2> QED
    BY <1>0, <1>t, <1>v, <2>1
<1> QED
  BY <1>1, <1>2, <1>3, <1>4, <1>5, <1>6

\* The message a worker answers with.
Reply(w) ==
  [kind |-> task[w].req.kind, value |-> task[w].value, asked |-> task[w].req.asked]

Blocks(w) == task[w].req.kind \in {"blockFriend", "unblockFriend"}

LEMMA AnswerForms ==
  ASSUME NEW w \in Workers, Answer(w)
  PROVE  \/ Blocks(w) /\ UNCHANGED inbox
         \/ Blocks(w) /\ Deliver([kind |-> "blocked", value |-> task[w].value,
                                  asked |-> task[w].req.asked])
         \/ ~Blocks(w) /\ Deliver(Reply(w))
<1>1. CASE Blocks(w) /\ task[w].value # "yes"
  BY <1>1 DEF Answer, Blocks
<1>2. CASE Blocks(w) /\ task[w].value = "yes"
  BY <1>2 DEF Answer, Blocks
<1>3. CASE ~Blocks(w)
  BY <1>3 DEF Answer, Blocks, Reply
<1> QED
  BY <1>1, <1>2, <1>3

LEMMA TaskTypes ==
  ASSUME Right, NEW w \in Workers, task[w] # NoTask
  PROVE  /\ task[w] \in RightTasks /\ task[w].value \in Values /\ task[w].done \in BOOLEAN
         /\ task[w].req \in RightRequests /\ task[w].req.asked \in BOOLEAN
         /\ ~Blocks(w) => Reply(w) \in RightMessages
         /\ Blocks(w) => task[w].req.asked
<1>1. task[w] \in RightTasks
  BY DEF Right
<1>2. task[w].req \in RightRequests /\ task[w].value \in Values /\ task[w].done \in BOOLEAN
  BY <1>1 DEF RightTasks, Tasks
<1>3. /\ task[w].req.kind \in Answers \cup {"blockFriend", "unblockFriend"}
      /\ task[w].req.asked \in BOOLEAN
      /\ task[w].req.asked \/ task[w].req.kind = "check"
  BY <1>2 DEF RightRequests, Requests
<1>4. ASSUME ~Blocks(w)
      PROVE  Reply(w) \in RightMessages
  BY <1>2, <1>3, <1>4 DEF Blocks, Reply, RightMessages, Messages
<1> QED
  BY <1>1, <1>2, <1>3, <1>4 DEF Blocks

WorkStep(w) == Work(w) \/ Abandon(w)

LEMMA WorkTypes ==
  ASSUME OwnTypes, Right, NEW w \in Workers, WorkStep(w)
  PROVE  OwnTypes' /\ Right'
<1>k. WorldOK /\ task \in [Workers -> RightTasks \cup {NoTask}] /\ inbox \in Seq(RightMessages)
      /\ reqs \in Seq(RightRequests)
  BY DEF OwnTypes, Right
<1>1. CASE Take(w)
  <2>1. Head(reqs) \in RightRequests /\ Tail(reqs) \in Seq(RightRequests)
    BY <1>1, HeadRight DEF Take
  <2>2. [req |-> Head(reqs), done |-> FALSE, value |-> ""] \in RightTasks
    BY <2>1 DEF RightTasks, Tasks, Values, RightRequests
  <2>3. Right'
    BY <1>k, <1>1, <2>1, <2>2 DEF Take, Right
  <2> QED
    BY <1>1, <2>3, Frames DEF Take, OwnTypes
<1>2. CASE Handle(w)
  <2>1. PICK o \in Outcomes(task[w].req) :
          /\ task' = [task EXCEPT ![w].done = TRUE, ![w].value = o[1]] /\ bond' = o[2]
    BY <1>2 DEF Handle
  <2>2. o[1] \in Values /\ o[2] \in {"friend", "block", ""}
    BY <1>k, OutcomesTypes
  <2>3. task[w] \in RightTasks
    BY <1>2, TaskTypes DEF Handle
  <2>4. [task[w] EXCEPT !.done = TRUE, !.value = o[1]] \in RightTasks
    BY <2>2, <2>3 DEF RightTasks, Tasks
  <2>5. task' = [task EXCEPT ![w] = [task[w] EXCEPT !.done = TRUE, !.value = o[1]]]
    BY <1>k, <2>1
  <2>6. Right'
    BY <1>k, <1>2, <2>4, <2>5 DEF Handle, Right
  <2>7. WorldOK'
    BY <1>k, <1>2, <2>1, <2>2 DEF Handle, WorldOK
  <2> QED
    BY <1>2, <2>6, <2>7, Frames DEF Handle, OwnTypes
<1>3. CASE Answer(w)
  <2>0. task[w] # NoTask
    BY <1>3 DEF Answer
  <2>1. inbox' \in Seq(RightMessages)
    <3>1. CASE UNCHANGED inbox
      BY <1>k, <3>1
    <3>2. CASE Blocks(w) /\ Deliver([kind |-> "blocked", value |-> task[w].value,
                                     asked |-> task[w].req.asked])
      <4>1. [kind |-> "blocked", value |-> task[w].value, asked |-> task[w].req.asked]
              \in RightMessages
        BY <2>0, <3>2, TaskTypes DEF RightMessages, Messages
      <4> QED
        BY <3>2, <4>1, DeliverRight
    <3>3. CASE ~Blocks(w) /\ Deliver(Reply(w))
      BY <2>0, <3>3, TaskTypes, DeliverRight
    <3> QED
      BY <1>3, <3>1, <3>2, <3>3, AnswerForms
  <2>2. Right'
    BY <1>k, <1>3, <2>1 DEF Answer, Right
  <2> QED
    BY <1>3, <2>2, Frames DEF Answer, OwnTypes
<1>4. CASE Abandon(w)
  <2>1. Right'
    BY <1>k, <1>4 DEF Abandon, Right
  <2>2. WorldOK'
    BY <1>k, <1>4 DEF Abandon, WorldOK
  <2> QED
    BY <1>4, <2>1, <2>2, Frames DEF Abandon, OwnTypes
<1> QED
  BY <1>1, <1>2, <1>3, <1>4 DEF WorkStep, Work

\* What other users do.
OtherStep == Change \/ OtherChecks \/ Kick \/ KickNotice \/ LongTime

LEMMA OtherTypes ==
  ASSUME OwnTypes, Right, OtherStep
  PROVE  OwnTypes' /\ Right'
<1>k. WorldOK /\ inbox \in Seq(RightMessages)
  BY DEF OwnTypes, Right
<1>c. Cause => events' \in 0 .. MaxEvents
  <2>1. events \in 0 .. MaxEvents /\ MaxEvents \in Nat
    BY <1>k, ClientAssumption DEF WorldOK, ClientAssumption
  <2> QED
    BY <2>1 DEF Cause
<1>d. ASSUME NEW m \in RightMessages, Deliver(m), UNCHANGED <<reqs, task>>
      PROVE  Right'
  BY <1>d, DeliverRight DEF Right
<1>1. CASE Change
  <2>1. WorldOK'
    BY <1>k, <1>1 DEF Change, WorldOK
  <2> QED
    BY <1>1, <2>1, Frames DEF Change, OwnTypes
<1>2. CASE OtherChecks
  <2>1. PICK u \in Users : Deliver([kind |-> "check", value |-> Between(u), asked |-> FALSE])
    BY <1>2 DEF OtherChecks
  <2>2. [kind |-> "check", value |-> Between(u), asked |-> FALSE] \in RightMessages
    BY <1>k DEF WorldOK, Between, RightMessages, Messages, Values, Answers
  <2>3. Right'
    BY <1>2, <1>d, <2>1, <2>2 DEF OtherChecks
  <2>4. WorldOK'
    BY <1>k, <1>c, <1>2 DEF OtherChecks, WorldOK
  <2> QED
    BY <1>2, <2>3, <2>4, Frames DEF OtherChecks, OwnTypes
<1>3. CASE Kick
  <2>1. WorldOK'
    BY <1>k, <1>c, <1>3 DEF Kick, WorldOK
  <2> QED
    BY <1>3, <2>1, Frames DEF Kick, OwnTypes
<1>4. CASE KickNotice
  <2>1. [kind |-> "notice", value |-> "", asked |-> FALSE] \in RightMessages
    BY DEF RightMessages, Messages, Values
  <2>2. Right'
    <3>1. CASE Deliver([kind |-> "notice", value |-> "", asked |-> FALSE])
      BY <1>4, <1>d, <2>1, <3>1 DEF KickNotice
    <3>2. CASE UNCHANGED inbox
      BY <1>4, <3>2, Frames DEF KickNotice
    <3> QED
      BY <1>4, <3>1, <3>2 DEF KickNotice
  <2>3. WorldOK'
    BY <1>k, <1>4 DEF KickNotice, WorldOK
  <2> QED
    BY <1>4, <2>2, <2>3, Frames DEF KickNotice, OwnTypes
<1>5. CASE LongTime
  <2>1. [kind |-> "exit", value |-> "", asked |-> FALSE] \in RightMessages
    BY DEF RightMessages, Messages, Values
  <2>2. Right'
    BY <1>5, <1>d, <2>1 DEF LongTime
  <2>3. WorldOK'
    BY <1>k, <1>c, <1>5 DEF LongTime, WorldOK
  <2> QED
    BY <1>5, <2>2, <2>3, Frames DEF LongTime, OwnTypes
<1> QED
  BY <1>1, <1>2, <1>3, <1>4, <1>5 DEF OtherStep

-----------------------------------------------------------------------------
(* The balance.                                                            *)

\* Before the connection nothing was asked; once it was made it is not made
\* again.
LinkOK ==
  /\ link = "none" => reqs = <<>> /\ \A w \in Workers : task[w] = NoTask
  /\ link # "none" => cstate = "connected"

Held(k) == sem[k] + InFlight(k)
Owed(k) == Waiting(k) + (IF k = "check" THEN unasked ELSE 0)

\* The balance of each semaphore by itself: a file given up leaves a debt on
\* that of the files only.
Credit ==
  link # "lost" /\ Running =>
    \A k \in Kinds : (k = "receive" => ~abandoned) => Held(k) = Owed(k)

CInv == ConnectorTypeOK /\ Trying /\ OwnTypes /\ Right /\ LinkOK /\ Credit

\* What the sums are made of.
LEMMA Sums ==
  ASSUME NEW k
  PROVE  /\ Held(k) = sem[k] + (Asked(reqs, k) + Cardinality(With(k)) + Asked(inbox, k))
         /\ Held(k)' = sem'[k] + (Asked(reqs', k) + Cardinality(With(k)') + Asked(inbox', k))
         /\ Owed(k) = Waiting(k) + (IF k = "check" THEN unasked ELSE 0)
         /\ Owed(k)' = Waiting(k)' + (IF k = "check" THEN unasked' ELSE 0)
BY DEF Held, Owed, InFlight, Asked

LEMMA Terms ==
  ASSUME OwnTypes, Right, OwnTypes', Right', NEW k \in Kinds
  PROVE  /\ sem[k] \in Nat /\ sem'[k] \in Nat /\ unasked \in Nat /\ unasked' \in Nat
         /\ Asked(reqs, k) \in Nat /\ Asked(reqs', k) \in Nat
         /\ Asked(inbox, k) \in Nat /\ Asked(inbox', k) \in Nat
         /\ Cardinality(With(k)) \in Nat /\ Cardinality(With(k)') \in Nat
         /\ Waiting(k) \in {0, 1} /\ Waiting(k)' \in {0, 1}
<1>1. sem[k] \in Nat /\ sem'[k] \in Nat /\ unasked \in Nat /\ unasked' \in Nat
  BY DEF OwnTypes, SemOK
<1>2. reqs \in Seq(RightRequests) /\ inbox \in Seq(RightMessages)
      /\ reqs' \in Seq(RightRequests) /\ inbox' \in Seq(RightMessages)
  BY DEF Right
<1>3. /\ Asked(reqs, k) \in Nat /\ Asked(reqs', k) \in Nat
      /\ Asked(inbox, k) \in Nat /\ Asked(inbox', k) \in Nat
  BY <1>2, AskedFacts
<1>4. IsFiniteSet(With(k)) /\ IsFiniteSet(With(k)')
  <2>1. With(k) \in SUBSET Workers /\ With(k)' \in SUBSET Workers
    BY DEF With
  <2> QED
    BY <2>1, ClientAssumption, FS_Subset DEF ClientAssumption
<1>5. Waiting(k) \in {0, 1} /\ Waiting(k)' \in {0, 1}
  BY DEF Waiting
<1> QED
  BY <1>1, <1>3, <1>4, <1>5, FS_CardinalityType

\* What each kind of step does to the terms.
LEMMA KeptTerms ==
  ASSUME NEW k
  PROVE  /\ UNCHANGED task => Cardinality(With(k)') = Cardinality(With(k))
         /\ UNCHANGED keyboard => Waiting(k)' = Waiting(k)
         /\ pc # "wait" => Waiting(k) = 0
         /\ pc' # "wait" => Waiting(k)' = 0
<1>1. UNCHANGED task => With(k)' = With(k)
  BY DEF With
<1>2. UNCHANGED keyboard => Waiting(k)' = Waiting(k)
  BY DEF Waiting, keyboard, Kind
<1>3. (pc # "wait" => Waiting(k) = 0) /\ (pc' # "wait" => Waiting(k)' = 0)
  BY DEF Waiting
<1> QED
  BY <1>1, <1>2, <1>3

LEMMA SendTerms ==
  ASSUME Right, NEW r \in RightRequests, Send(r), NEW k
  PROVE  Asked(reqs', k) = Asked(reqs, k) + (IF link = "up" THEN One(r.kind = k /\ r.asked) ELSE 0)
<1>1. reqs \in Seq(RightRequests)
  BY DEF Right
<1>2. Asked(reqs, k) \in Nat
  BY <1>1, AskedFacts
<1>3. CASE link = "up"
  BY <1>1, <1>3, AskedFacts DEF Send
<1>4. CASE link # "up"
  BY <1>2, <1>4 DEF Send
<1> QED
  BY <1>3, <1>4

LEMMA DeliverTerms ==
  ASSUME Right, NEW m \in RightMessages, Deliver(m), NEW k
  PROVE  Asked(inbox', k) = Asked(inbox, k) + (IF link = "up" THEN One(m.kind = k /\ m.asked) ELSE 0)
<1>1. inbox \in Seq(RightMessages)
  BY DEF Right
<1>2. Asked(inbox, k) \in Nat
  BY <1>1, AskedFacts
<1>3. CASE link = "up"
  BY <1>1, <1>3, AskedFacts DEF Deliver
<1>4. CASE link # "up"
  BY <1>2, <1>4 DEF Deliver
<1> QED
  BY <1>3, <1>4

LEMMA ReceiveTerms ==
  ASSUME Right, NEW x, Receive(x), NEW k
  PROVE  Asked(inbox, k) = Asked(inbox', k) + One(x = k /\ Head(inbox).asked)
<1>1. inbox \in Seq(RightMessages) /\ inbox # <<>> /\ Head(inbox).kind = x /\ inbox' = Tail(inbox)
  BY DEF Right, Receive
<1> QED
  BY <1>1, AskedFacts

LEMMA PostTerms ==
  ASSUME SemOK, NEW x, Post(x), NEW k \in Kinds
  PROVE  sem'[k] = sem[k] + One(x = k)
BY DEF Post, SemOK, One

LEMMA ProceedTerms ==
  ASSUME KeysOK, SemOK, Proceed, pc' # "wait", NEW k \in Kinds
  PROVE  /\ sem'[k] = sem[k] - One(Kind = k)
         /\ Waiting(k) = One(Kind = k) /\ Waiting(k)' = 0
BY KindType DEF Proceed, SemOK, One, Waiting

\* A step that touches none of the terms.
LEMMA KeptBalance ==
  ASSUME NEW k, Held(k) = Owed(k), UNCHANGED <<sem, reqs, task, inbox, unasked>>,
         Waiting(k)' = Waiting(k)
  PROVE  Held(k)' = Owed(k)'
BY Sums, KeptTerms

LEMMA KeyBalance ==
  ASSUME OwnTypes, Right, OwnTypes', Right', KeyStep, link # "lost", pc' # "crashed",
         NEW k \in Kinds, Held(k) = Owed(k)
  PROVE  Held(k)' = Owed(k)'
<1>t. KeysOK /\ SemOK
  BY DEF OwnTypes
<1>k. UNCHANGED server => UNCHANGED <<reqs, task>>
  BY DEF server
<1>m. Menu => pc' # "wait"
  BY DEF Menu
<1>0. ASSUME pc # "wait", pc' # "wait", UNCHANGED <<sem, inbox, server, unasked>>
      PROVE  Held(k)' = Owed(k)'
  BY <1>0, <1>k, KeptTerms, KeptBalance
<1>p. ASSUME Proceed, pc' # "wait", UNCHANGED <<task, inbox, unasked>>,
             Asked(reqs', k) = Asked(reqs, k)
      PROVE  Held(k)' = Owed(k)'
  BY <1>t, <1>p, ProceedTerms, Sums, Terms, KeptTerms DEF One
<1>1. CASE Choose
  BY <1>0, <1>1 DEF Choose
<1>2. CASE Ask
  <2> DEFINE r == Request(Script[cmd][step], target)
  <2>1. r \in RightRequests /\ r.kind = Kind /\ r.asked
    <3>1. Kind \in Answers /\ target \in Users
      BY <1>t, KindType DEF KeysOK
    <3> QED
      BY <3>1 DEF Kind, Request, RightRequests, Requests
  <2>2. Asked(reqs', k) = Asked(reqs, k) + One(Kind = k)
    <3>1. Send(r) /\ link = "up"
      BY <1>2 DEF Ask, OwnTypes
    <3>2. One(r.kind = k /\ r.asked) = One(Kind = k)
      BY <2>1 DEF One
    <3> QED
      BY <2>1, <3>1, <3>2, SendTerms
  <2>3. Waiting(k) = 0 /\ Waiting(k)' = One(Kind = k)
    BY <1>2 DEF Ask, Waiting, Kind, One
  <2>4. UNCHANGED <<sem, task, inbox, unasked>>
    BY <1>2 DEF Ask
  <2> QED
    BY <2>2, <2>3, <2>4, Sums, Terms, KeptTerms DEF One
<1>3. CASE ProceedToNext
  <2>1. pc' # "wait" /\ Proceed /\ UNCHANGED <<task, inbox, unasked>>
        /\ Asked(reqs', k) = Asked(reqs, k)
    BY <1>3, <1>k, <1>m DEF ProceedToNext
  <2> QED
    BY <1>p, <2>1
<1>4. CASE ProceedToMenu
  <2>1. pc' # "wait" /\ Proceed /\ UNCHANGED <<task, inbox, unasked>>
    BY <1>4, <1>m DEF ProceedToMenu
  <2>2. Asked(reqs', k) = Asked(reqs, k)
    <3>1. CASE UNCHANGED reqs
      BY <3>1
    <3>2. CASE Send(Request(cmd, target)) /\ cmd \in {"blockFriend", "unblockFriend"}
      <4>1. Request(cmd, target) \in RightRequests
        <5>1. target \in Users
          BY <1>t DEF KeysOK
        <5> QED
          BY <3>2, <5>1 DEF Request, RightRequests, Requests
      <4>2. Request(cmd, target).kind # k
        BY <3>2, ScriptFacts DEF Request, Answers
      <4>3. reqs \in Seq(RightRequests)
        BY DEF Right
      <4> QED
        BY <3>2, <4>1, <4>2, SendTerms, Terms DEF One
    <3> QED
      BY <1>4, <3>1, <3>2 DEF ProceedToMenu
  <2> QED
    BY <1>p, <2>1, <2>2
<1>5. CASE ProceedToChat
  <2>1. pc' # "wait" /\ Proceed /\ UNCHANGED <<task, inbox, unasked>>
        /\ Asked(reqs', k) = Asked(reqs, k)
    BY <1>5, <1>k, <1>m DEF ProceedToChat
  <2> QED
    BY <1>p, <2>1
<1>6. CASE ProceedToGroup
  <2>1. pc' # "wait" /\ Proceed /\ UNCHANGED <<task, inbox, unasked>>
        /\ Asked(reqs', k) = Asked(reqs, k)
    BY <1>6, <1>k, <1>m DEF ProceedToGroup
  <2> QED
    BY <1>p, <2>1
<1>7. CASE EnterGroup
  BY <1>0, <1>7 DEF EnterGroup
<1>8. CASE LeaveChat
  BY <1>0, <1>8, <1>m DEF LeaveChat
<1>9. CASE ExitChatRoom
  BY <1>0, <1>9 DEF ExitChatRoom
<1> QED
  BY <1>1, <1>2, <1>3, <1>4, <1>5, <1>6, <1>7, <1>8, <1>9 DEF KeyStep, Keyboard

LEMMA IOBalance ==
  ASSUME OwnTypes, Right, OwnTypes', Right', IO, pc' # "exited", NEW k \in Kinds,
         Held(k) = Owed(k)
  PROVE  Held(k)' = Owed(k)'
<1>t. SemOK
  BY DEF OwnTypes
<1>k. UNCHANGED server => UNCHANGED <<reqs, task>>
  BY DEF server
<1>a. ASSUME inbox # <<>>, Head(inbox).kind \in Answers, Head(inbox).kind # "check"
      PROVE  Head(inbox).asked
  BY <1>a, HeadRight DEF RightMessages, Answers
<1>n. k \in Answers
  BY ScriptFacts
<1>0. ASSUME NEW x, Receive(x), Post(x), Head(inbox).asked,
             UNCHANGED <<keyboard, server, unasked>>
      PROVE  Held(k)' = Owed(k)'
  BY <1>0, <1>t, <1>k, PostTerms, ReceiveTerms, Sums, Terms, KeptTerms DEF One
<1>1. CASE ReceiveList
  <2>1. PICK x \in Kinds \ {"login", "check", "member"} : Receive(x) /\ Post(x)
    BY <1>1 DEF ReceiveList
  <2>2. Head(inbox).asked
    BY <1>a, <2>1, ScriptFacts DEF Receive
  <2> QED
    BY <1>0, <1>1, <2>1, <2>2 DEF ReceiveList
<1>2. CASE ReceiveLogin
  <2>1. Head(inbox).asked
    BY <1>a, <1>2 DEF ReceiveLogin, Receive, Answers
  <2> QED
    BY <1>0, <1>2, <2>1 DEF ReceiveLogin
<1>3. CASE ReceiveCheck
  <2>1. Receive("check") /\ Post("check") /\ UNCHANGED <<keyboard, reqs, task>>
        /\ unasked' = IF Head(inbox).asked THEN unasked ELSE unasked + 1
    BY <1>3, <1>k DEF ReceiveCheck
  <2> QED
    BY <1>t, <2>1, PostTerms, ReceiveTerms, Sums, Terms, KeptTerms DEF One
<1>4. CASE ReceiveMember
  <2>1. Head(inbox).asked
    BY <1>a, <1>4 DEF ReceiveMember, Receive, Answers
  <2> QED
    BY <1>0, <1>4, <2>1 DEF ReceiveMember
<1>5. CASE ReceiveBlocked
  <2> DEFINE r == [kind |-> "check", who |-> private_chat_id, asked |-> FALSE]
  <2>1. r \in RightRequests /\ ~r.asked
    BY DEF OwnTypes, ChatOK, RightRequests, Requests, Answers
  <2>2. Asked(reqs', k) = Asked(reqs, k)
    <3>1. Send(r)
      BY <1>5 DEF ReceiveBlocked
    <3> QED
      BY <2>1, <3>1, SendTerms, Terms DEF One
  <2>3. Asked(inbox', k) = Asked(inbox, k)
    <3>1. Receive("blocked") /\ "blocked" # k
      BY <1>5, <1>n DEF ReceiveBlocked, Answers
    <3> QED
      BY <3>1, ReceiveTerms, Terms DEF One
  <2>4. UNCHANGED <<keyboard, sem, task, unasked>>
    BY <1>5 DEF ReceiveBlocked
  <2> QED
    BY <2>2, <2>3, <2>4, Sums, KeptTerms
<1>6. CASE ReceiveNotice
  <2>1. Asked(inbox', k) = Asked(inbox, k)
    <3>1. Receive("notice") /\ "notice" # k
      BY <1>6, <1>n DEF ReceiveNotice, Answers
    <3> QED
      BY <3>1, ReceiveTerms, Terms DEF One
  <2>2. UNCHANGED <<keyboard, sem, reqs, task, unasked>>
    BY <1>6, <1>k DEF ReceiveNotice
  <2> QED
    BY <2>1, <2>2, Sums, KeptTerms
<1>7. CASE ReceiveExit
  BY <1>7 DEF ReceiveExit
<1> QED
  BY <1>1, <1>2, <1>3, <1>4, <1>5, <1>6, <1>7 DEF IO

LEMMA WorkBalance ==
  ASSUME OwnTypes, Right, OwnTypes', Right', TypeOK, LinkOK, link # "lost",
         NEW w \in Workers, WorkStep(w), NEW k \in Kinds, k = "receive" => ~abandoned',
         Held(k) = Owed(k)
  PROVE  Held(k)' = Owed(k)'
<1> DEFINE Mine == task[w] # NoTask /\ task[w].req.kind = k /\ task[w].req.asked
<1>n. k \in Answers
  BY ScriptFacts
<1>t. task \in [Workers -> RightTasks \cup {NoTask}] /\ RightTasks \subseteq Tasks
  BY DEF Right, RightTasks
<1>1. CASE Take(w)
  <2> DEFINE t == [req |-> Head(reqs), done |-> FALSE, value |-> ""]
             Next1 == Head(reqs).kind = k /\ Head(reqs).asked
  <2>1. reqs # <<>> /\ task[w] = NoTask /\ task' = [task EXCEPT ![w] = t] /\ reqs' = Tail(reqs)
    BY <1>1 DEF Take
  <2>2. t \in Tasks /\ t # NoTask
    <3>1. Head(reqs) \in Requests
      BY <2>1, HeadRight DEF RightRequests
    <3>2. t \in Tasks
      BY <3>1 DEF Tasks, Values
    <3> QED
      BY <3>2, ClientAssumption DEF ClientAssumption
  <2>3. Cardinality(With(k)') = Cardinality(With(k)) + One(Next1)
    <3>1. Cardinality(With(k)') + One(Mine)
            = Cardinality(With(k)) + One(t # NoTask /\ t.req.kind = k /\ t.req.asked)
      <4> HIDE DEF t
      <4> QED
        BY <2>1, <2>2, WithFacts
    <3>2. One(Mine) = 0 /\ One(t # NoTask /\ t.req.kind = k /\ t.req.asked) = One(Next1)
      BY <2>1, <2>2 DEF One
    <3> HIDE DEF t, Next1, Mine
    <3> QED
      BY <3>1, <3>2, Terms
  <2>4. Asked(reqs, k) = Asked(reqs', k) + One(Next1)
    <3>1. reqs \in Seq(RightRequests)
      BY DEF Right
    <3> QED
      BY <2>1, <3>1, AskedFacts
  <2>5. UNCHANGED <<keyboard, sem, inbox, unasked>>
    BY <1>1 DEF Take
  <2>6. One(Next1) \in {0, 1}
    BY DEF One
  <2> HIDE DEF Next1
  <2> QED
    BY <2>3, <2>4, <2>5, <2>6, Sums, Terms, KeptTerms
<1>2. CASE Handle(w)
  <2>1. PICK o \in Outcomes(task[w].req) :
          task' = [task EXCEPT ![w].done = TRUE, ![w].value = o[1]]
    BY <1>2 DEF Handle
  <2>2. task[w] # NoTask /\ task[w] \in Tasks
    BY <1>2, <1>t DEF Handle
  <2>3. task'[w] # NoTask /\ task'[w].req = task[w].req /\ \A x \in Workers \ {w} : task'[x] = task[x]
    <3>1. [task[w] EXCEPT !.done = TRUE, !.value = o[1]].req = task[w].req
      BY <2>2 DEF Tasks
    <3>2. task' = [task EXCEPT ![w] = [task[w] EXCEPT !.done = TRUE, !.value = o[1]]]
      BY <1>t, <2>1
    <3>3. task'[w] = [task[w] EXCEPT !.done = TRUE, !.value = o[1]]
          /\ \A x \in Workers \ {w} : task'[x] = task[x]
      BY <1>t, <3>2
    <3>4. [task[w] EXCEPT !.done = TRUE, !.value = o[1]] \in Tasks
      <4>1. o[1] \in Values
        BY OutcomesTypes DEF OwnTypes
      <4> QED
        BY <2>2, <4>1 DEF Tasks
    <3> QED
      BY <3>1, <3>3, <3>4, ClientAssumption DEF ClientAssumption
  <2>4. With(k)' = With(k)
    BY <2>2, <2>3 DEF With
  <2>5. UNCHANGED <<keyboard, sem, reqs, inbox, unasked>>
    BY <1>2 DEF Handle
  <2> QED
    BY <2>4, <2>5, Sums, KeptTerms
<1>3. CASE Answer(w)
  <2>1. task[w] # NoTask /\ task' = [task EXCEPT ![w] = NoTask]
        /\ UNCHANGED <<keyboard, sem, reqs, unasked>>
    BY <1>3 DEF Answer
  <2>2. Cardinality(With(k)') + One(Mine) = Cardinality(With(k))
    <3>1. Cardinality(With(k)') + One(Mine)
            = Cardinality(With(k)) + One(NoTask # NoTask /\ NoTask.req.kind = k /\ NoTask.req.asked)
      BY <2>1, WithFacts
    <3>2. One(NoTask # NoTask /\ NoTask.req.kind = k /\ NoTask.req.asked) = 0
      BY DEF One
    <3> HIDE DEF Mine
    <3> QED
      BY <3>1, <3>2, Terms
  <2>3. link = "up"
    BY <2>1 DEF LinkOK, OwnTypes
  <2>4. Asked(inbox', k) = Asked(inbox, k) + One(Mine)
    <3>1. CASE Blocks(w) /\ UNCHANGED inbox
      <4>1. One(Mine) = 0
        BY <1>n, <3>1 DEF Blocks, One, Answers
      <4> QED
        BY <3>1, <4>1, Terms
    <3>2. CASE Blocks(w) /\ Deliver([kind |-> "blocked", value |-> task[w].value,
                                     asked |-> task[w].req.asked])
      <4> DEFINE m == [kind |-> "blocked", value |-> task[w].value, asked |-> task[w].req.asked]
      <4>1. m \in RightMessages /\ m.kind # k
        BY <1>n, <2>1, <3>2, TaskTypes DEF RightMessages, Messages, Answers
      <4>2. One(Mine) = 0 /\ One(m.kind = k /\ m.asked) = 0
        BY <1>n, <3>2, <4>1 DEF Blocks, One, Answers
      <4> HIDE DEF Mine
      <4> QED
        BY <2>3, <3>2, <4>1, <4>2, DeliverTerms
    <3>3. CASE ~Blocks(w) /\ Deliver(Reply(w))
      <4>1. Reply(w) \in RightMessages
        BY <2>1, <3>3, TaskTypes
      <4>2. One(Reply(w).kind = k /\ Reply(w).asked) = One(Mine)
        BY <2>1 DEF Reply, One
      <4> HIDE DEF Mine
      <4> QED
        BY <2>3, <3>3, <4>1, <4>2, DeliverTerms
    <3> QED
      BY <1>3, <3>1, <3>2, <3>3, AnswerForms
  <2>5. One(Mine) \in {0, 1}
    BY DEF One
  <2> HIDE DEF Mine
  <2> QED
    BY <2>1, <2>2, <2>4, <2>5, Sums, Terms, KeptTerms
<1>4. CASE Abandon(w)
  <2>1. task[w] # NoTask /\ task[w].req.kind # k /\ task' = [task EXCEPT ![w] = NoTask]
        /\ UNCHANGED <<keyboard, sem, reqs, inbox, unasked>>
    BY <1>4 DEF Abandon
  <2>2. Cardinality(With(k)') = Cardinality(With(k))
    <3>1. Cardinality(With(k)') + One(Mine)
            = Cardinality(With(k)) + One(NoTask # NoTask /\ NoTask.req.kind = k /\ NoTask.req.asked)
      BY <2>1, WithFacts
    <3>2. One(Mine) = 0 /\ One(NoTask # NoTask /\ NoTask.req.kind = k /\ NoTask.req.asked) = 0
      BY <2>1 DEF One
    <3> HIDE DEF Mine
    <3> QED
      BY <3>1, <3>2, Terms
  <2> QED
    BY <2>1, <2>2, KeptTerms, Sums
<1> QED
  BY <1>1, <1>2, <1>3, <1>4 DEF WorkStep, Work

LEMMA OtherBalance ==
  ASSUME OwnTypes, Right, OwnTypes', Right', OtherStep, NEW k \in Kinds, Held(k) = Owed(k)
  PROVE  Held(k)' = Owed(k)'
<1>0. ASSUME NEW m \in RightMessages, ~m.asked, Deliver(m), UNCHANGED <<keyboard, sem, reqs, task, unasked>>
      PROVE  Held(k)' = Owed(k)'
  <2>1. Asked(inbox', k) = Asked(inbox, k)
    BY <1>0, DeliverTerms, Terms DEF One
  <2> QED
    BY <1>0, <2>1, Sums, KeptTerms
<1>1. CASE Change
  BY <1>1, KeptTerms, KeptBalance DEF Change
<1>2. CASE OtherChecks
  <2>1. PICK u \in Users : Deliver([kind |-> "check", value |-> Between(u), asked |-> FALSE])
    BY <1>2 DEF OtherChecks
  <2>2. [kind |-> "check", value |-> Between(u), asked |-> FALSE] \in RightMessages
    BY DEF OwnTypes, WorldOK, Between, RightMessages, Messages, Values, Answers
  <2>3. UNCHANGED <<keyboard, sem, reqs, task, unasked>>
    BY <1>2 DEF OtherChecks
  <2> HIDE DEF Held, Owed
  <2> QED
    BY <1>0, <2>1, <2>2, <2>3
<1>3. CASE Kick
  BY <1>3, KeptTerms, KeptBalance DEF Kick
<1>4. CASE KickNotice
  <2>1. [kind |-> "notice", value |-> "", asked |-> FALSE] \in RightMessages
    BY DEF RightMessages, Messages, Values
  <2>2. UNCHANGED <<keyboard, sem, reqs, task, unasked>>
    BY <1>4 DEF KickNotice
  <2>3. CASE Deliver([kind |-> "notice", value |-> "", asked |-> FALSE])
    BY <1>0, <2>1, <2>2, <2>3
  <2>4. CASE UNCHANGED inbox
    BY <2>2, <2>4, KeptTerms, KeptBalance
  <2> QED
    BY <1>4, <2>3, <2>4 DEF KickNotice
<1>5. CASE LongTime
  <2>1. [kind |-> "exit", value |-> "", asked |-> FALSE] \in RightMessages
    BY DEF RightMessages, Messages, Values
  <2>2. UNCHANGED <<keyboard, sem, reqs, task, unasked>>
        /\ Deliver([kind |-> "exit", value |-> "", asked |-> FALSE])
    BY <1>5 DEF LongTime
  <2> QED
    BY <1>0, <2>1, <2>2
<1> QED
  BY <1>1, <1>2, <1>3, <1>4, <1>5 DEF OtherStep

LEMMA StepParts ==
  ASSUME [Next]_vars
  PROVE  \/ Running /\ (LinkStep \/ KeyStep \/ IO \/ OtherStep \/ \E w \in Workers : WorkStep(w))
         \/ UNCHANGED <<connector, link, keyboard, sem, flags, chat, inbox, server, unasked>>
BY DEF Next, vars, LinkStep, KeyStep, OtherStep, WorkStep

LEMMA StepKeepsTypes ==
  ASSUME OwnTypes, Right, [Next]_vars
  PROVE  OwnTypes' /\ Right'
<1>1. CASE UNCHANGED <<connector, link, keyboard, sem, flags, chat, inbox, server, unasked>>
  BY <1>1, Frames DEF OwnTypes
<1> QED
  BY <1>1, StepParts, LinkTypes, KeyTypes, IOTypes, OtherTypes, WorkTypes

LEMMA StepKeepsLink ==
  ASSUME Trying, LinkOK, Right, [Next]_vars
  PROVE  LinkOK'
<1>s. UNCHANGED server => UNCHANGED <<reqs, task>>
  BY DEF server
<1>c. UNCHANGED connector => UNCHANGED cstate
  BY DEF connector
<1>0. ASSUME UNCHANGED <<cstate, link, task>>, link = "none" => UNCHANGED reqs
      PROVE  LinkOK'
  BY <1>0 DEF LinkOK
<1>1. CASE LinkStep
  <2>1. CASE Connect
    BY <2>1 DEF Connect, Connected, LinkOK
  <2>2. CASE Attempt
    <3>1. link # "none" => UNCHANGED cstate
      BY <2>2 DEF Attempt, LinkOK, Trying, StartInLoop, AttemptFails, ResetChannel
    <3> QED
      BY <1>s, <2>2, <3>1 DEF Attempt, LinkOK
  <2>3. CASE Lose
    BY <1>c, <2>3 DEF Lose, LinkOK
  <2> QED
    BY <1>1, <2>1, <2>2, <2>3 DEF LinkStep
<1>2. CASE KeyStep
  <2>1. CASE Ask
    BY <1>0, <1>c, <2>1 DEF Ask, Send
  <2>2. CASE ProceedToMenu
    BY <1>0, <1>c, <2>2 DEF ProceedToMenu, Send
  <2>3. CASE Choose \/ ProceedToNext \/ ProceedToChat \/ ProceedToGroup \/ EnterGroup
             \/ LeaveChat \/ ExitChatRoom
    BY <1>0, <1>c, <1>s, <2>3
       DEF Choose, ProceedToNext, ProceedToChat, ProceedToGroup, EnterGroup, LeaveChat, ExitChatRoom
  <2> QED
    BY <1>2, <2>1, <2>2, <2>3 DEF KeyStep, Keyboard
<1>3. CASE IO
  <2>1. CASE ReceiveBlocked
    BY <1>0, <1>c, <2>1 DEF ReceiveBlocked, Send
  <2>2. CASE ReceiveList \/ ReceiveLogin \/ ReceiveCheck \/ ReceiveMember \/ ReceiveNotice
             \/ ReceiveExit
    BY <1>0, <1>c, <1>s, <2>2
       DEF ReceiveList, ReceiveLogin, ReceiveCheck, ReceiveMember, ReceiveNotice, ReceiveExit
  <2> QED
    BY <1>3, <2>1, <2>2 DEF IO
<1>4. CASE OtherStep
  BY <1>0, <1>4, <1>c DEF OtherStep, Change, OtherChecks, Kick, KickNotice, LongTime
<1>5. ASSUME NEW w \in Workers, WorkStep(w)
      PROVE  LinkOK'
  <2>1. link # "none"
    BY <1>5 DEF WorkStep, Work, Take, Handle, Answer, Abandon, LinkOK
  <2>2. UNCHANGED <<cstate, link>>
    BY <1>5, <1>c DEF WorkStep, Work, Take, Handle, Answer, Abandon
  <2> QED
    BY <2>1, <2>2 DEF LinkOK
<1>6. CASE UNCHANGED <<connector, link, keyboard, sem, flags, chat, inbox, server, unasked>>
  BY <1>0, <1>6, <1>c, <1>s
<1> QED
  BY <1>1, <1>2, <1>3, <1>4, <1>5, <1>6, StepParts

LEMMA StepKeepsBalance ==
  ASSUME CInv, OwnTypes', Right', [Next]_vars
  PROVE  Credit'
<1>t. OwnTypes /\ Right /\ LinkOK /\ TypeOK
  BY TypesAreTypeOK DEF CInv
<1> SUFFICES ASSUME link' # "lost", Running', NEW k \in Kinds, k = "receive" => ~abandoned'
             PROVE  Held(k)' = Owed(k)'
  BY DEF Credit
<1>p. pc' # "exited" /\ pc' # "crashed"
  BY DEF Running
<1>1. CASE UNCHANGED <<connector, link, keyboard, sem, flags, chat, inbox, server, unasked>>
  <2>1. UNCHANGED <<reqs, task, abandoned, pc>>
    BY <1>1 DEF server, keyboard
  <2>2. Held(k) = Owed(k)
    BY <1>1, <2>1 DEF CInv, Credit, Running
  <2> QED
    BY <1>1, <2>1, <2>2, KeptTerms, KeptBalance
<1>2. CASE Running /\ (LinkStep \/ KeyStep \/ IO \/ OtherStep \/ \E w \in Workers : WorkStep(w))
  <2>1. link # "lost"
    BY <1>2, <1>t DEF LinkStep, Connect, Connected, Attempt, Lose, LinkOK, KeyStep, Choose, Keyboard,
       LeaveChat, ExitChatRoom, Ask, ProceedToNext, ProceedToMenu, ProceedToChat, ProceedToGroup,
       EnterGroup, IO, ReceiveList, ReceiveLogin, ReceiveCheck, ReceiveMember, ReceiveBlocked,
       ReceiveNotice, ReceiveExit, OtherStep, Change, OtherChecks, Kick, KickNotice, LongTime,
       WorkStep, Work, Take, Handle, Answer, Abandon
  <2>2. abandoned => abandoned'
    BY <1>2 DEF server, LinkStep, Connect, Attempt, Lose, KeyStep, Choose, Keyboard,
       LeaveChat, ExitChatRoom, Ask, ProceedToNext, ProceedToMenu, ProceedToChat, ProceedToGroup,
       EnterGroup, IO, ReceiveList, ReceiveLogin, ReceiveCheck, ReceiveMember, ReceiveBlocked,
       ReceiveNotice, ReceiveExit, OtherStep, Change, OtherChecks, Kick, KickNotice, LongTime,
       WorkStep, Work, Take, Handle, Answer, Abandon
  <2>3. Held(k) = Owed(k)
    BY <1>2, <2>1, <2>2 DEF CInv, Credit
  <2>4. CASE LinkStep
    <3>1. UNCHANGED <<sem, reqs, task, inbox, unasked, keyboard>>
      BY <2>4 DEF LinkStep, Connect, Attempt, Lose, server
    <3> QED
      BY <2>3, <3>1, KeptTerms, KeptBalance
  <2> QED
    BY <1>2, <1>t, <1>p, <2>1, <2>3, <2>4, KeyBalance, IOBalance, OtherBalance, WorkBalance
<1> QED
  BY <1>1, <1>2, StepParts

LEMMA InitInvariant ==
  ASSUME Init
  PROVE  CInv
<1>1. Trying /\ ConnectorTypeOK
  <2>1. InitDelay \in InitDelay .. MaxDelay
    BY DelayAssumption DEF DelayAssumption
  <2> QED
    BY <2>1 DEF Init, ConnectorInit, Trying, ConnectorTypeOK, AlwaysTrying
<1>2. OwnTypes
  <2>1. cmd \in Commands /\ step \in 1 .. Len(Script[cmd])
    BY ScriptFacts DEF Init
  <2>2. MaxEvents \in 0 .. MaxEvents
    BY ClientAssumption DEF ClientAssumption
  <2> QED
    BY <2>1, <2>2 DEF Init, OwnTypes, KeysOK, SemOK, FlagsOK, ChatOK, WorldOK, Users
<1>3. Right
  BY DEF Init, Right
<1>4. LinkOK
  BY DEF Init, LinkOK
<1>5. ASSUME NEW k \in Kinds
      PROVE  Held(k) = Owed(k)
  <2>1. With(k) = {}
    BY DEF Init, With
  <2>2. Asked(<<>>, k) = 0
    <3>1. {i \in 1 .. Len(<<>>) : <<>>[i].kind = k /\ <<>>[i].asked} = {}
      OBVIOUS
    <3> QED
      BY <3>1, FS_EmptySet DEF Asked
  <2>3. Waiting(k) = 0 /\ sem[k] = 0 /\ unasked = 0 /\ reqs = <<>> /\ inbox = <<>>
    BY DEF Init, Waiting
  <2> QED
    <3>1. Cardinality(With(k)) = 0 /\ Asked(reqs, k) = 0 /\ Asked(inbox, k) = 0
      BY <2>1, <2>2, <2>3, FS_EmptySet
    <3>2. Held(k) = sem[k] + (Asked(reqs, k) + Cardinality(With(k)) + Asked(inbox, k))
          /\ Owed(k) = Waiting(k) + (IF k = "check" THEN unasked ELSE 0)
      BY Sums
    <3> QED
      BY <2>3, <3>1, <3>2
<1> QED
  BY <1>1, <1>2, <1>3, <1>4, <1>5 DEF CInv, Credit

LEMMA StepInvariant ==
  ASSUME CInv, [Next]_vars
  PROVE  CInv'
<1>1. Trying'
  <2>1. CASE UNCHANGED connector
    BY <2>1 DEF CInv, connector, Trying, ConnectorTypeOK, AlwaysTrying
  <2> QED
    BY <2>1, ClientSteps, StepKeepsTrying DEF CInv
<1>2. ConnectorTypeOK'
  BY <1>1 DEF Trying
<1>3. OwnTypes' /\ Right' /\ LinkOK'
  BY StepKeepsTypes, StepKeepsLink DEF CInv
<1> QED
  BY <1>1, <1>2, <1>3, StepKeepsBalance DEF CInv

\* The types hold, for any commands of the list and any number of workers.
THEOREM TypeCorrect == Spec => []TypeOK
<1>1. CInv => TypeOK
  BY TypesAreTypeOK DEF CInv
<1> QED
  BY <1>1, InitInvariant, StepInvariant, PTL DEF Spec

\* However answers, notices, workers and the keyboard thread interleave, what
\* a semaphore holds and what is still to be answered is what is waited for,
\* while the connection is up and no worker gives up a file
\* (handleServerMessage's sem_posts, the commands' sem_waits).
THEOREM CreditKept == Spec => []CreditBalance
<1>1. CInv => CreditBalance
  BY DEF CInv, Credit, CreditBalance, Held, Owed
<1> QED
  BY <1>1, InitInvariant, StepInvariant, PTL DEF Spec

-----------------------------------------------------------------------------
(* Private chat.                                                           *)

\* What is said about a user who is no friend names no bond.
Honest(t, v) == t = Friend \/ v \notin {"friend", "block"}

\* Requests, tasks and answers of CHECK_BLOCK that the keyboard thread asked
\* for, when it asked about t.
About(t)  == {r \in RightRequests : r.kind = "check" /\ r.asked => r.who = t}
Told(t)   == {m \in RightMessages : m.kind = "check" /\ m.asked => Honest(t, m.value)}
Asking(t) == {x \in RightTasks : /\ x.req \in About(t)
                                 /\ x.req.kind = "check" /\ x.req.asked /\ x.done
                                      => Honest(t, x.value)}

Pending(t) ==
  /\ reqs \in Seq(About(t)) /\ inbox \in Seq(Told(t))
  /\ task \in [Workers -> Asking(t) \cup {NoTask}]

\* A lost connection brings nothing more.
Quiet == link = "lost" => inbox = <<>>

\* As long as no unasked answer came, check_if_block is posted only for the
\* wait that goes on, what is under way is about the user it asks about, and
\* if_friend is then what was said of that user.
Checking ==
  /\ sem["check"] <= Waiting("check")
  /\ sem["check"] > 0 /\ target # Friend => ~if_friend
  /\ link # "lost" => Pending(target)

ChatInv ==
  unasked = 0 /\ Running =>
    /\ pc = "chat" => target = Friend
    /\ "check" \in Kinds => Checking

LEMMA SecondStep ==
  ASSUME KeysOK, cmd = "privateChat", step = 2
  PROVE  Kind = "check" /\ "check" \in Kinds
<1>1. Script["privateChat"] = <<"friends", "check">>
  <2>1. /\ "privateChat" \in DOMAIN FriendScript /\ "privateChat" \notin DOMAIN EntryScript
        /\ "privateChat" \notin DOMAIN GroupScript /\ "privateChat" \notin DOMAIN ManagerScript
        /\ "privateChat" \notin DOMAIN FileScript
    BY DEF FriendScript, EntryScript, GroupScript, ManagerScript, FileScript
  <2>2. Script["privateChat"] = FriendScript["privateChat"]
    BY <2>1 DEF Script
  <2> QED
    BY <2>2 DEF FriendScript
<1>2. Kind = "check"
  BY <1>1 DEF Kind
<1> QED
  BY <1>2, KindType

\* Where none is counted there is none.
LEMMA NoneAsked ==
  ASSUME NEW S, NEW s \in Seq(S), NEW k, Asked(s, k) = 0
  PROVE  \A i \in 1 .. Len(s) : ~(s[i].kind = k /\ s[i].asked)
<1> DEFINE P == {i \in 1 .. Len(s) : s[i].kind = k /\ s[i].asked}
<1>1. IsFiniteSet(P) /\ Cardinality(P) = 0
  <2>1. IsFiniteSet(1 .. Len(s)) /\ P \in SUBSET (1 .. Len(s))
    BY FS_Interval
  <2> QED
    BY <2>1, FS_Subset DEF Asked
<1>2. P = {}
  <2> HIDE DEF P
  <2> QED
    BY <1>1, FS_EmptySet
<1> QED
  BY <1>2

LEMMA NoneWith ==
  ASSUME NEW k, NEW W, W \in SUBSET Workers, Cardinality(W) = 0
  PROVE  W = {}
BY ClientAssumption, FS_Subset, FS_EmptySet DEF ClientAssumption

LEMMA SeqOf ==
  ASSUME NEW S, NEW T, NEW s \in Seq(S), \A i \in 1 .. Len(s) : s[i] \in T
  PROVE  s \in Seq(T)
OBVIOUS

LEMMA NoneLeft ==
  ASSUME NEW a \in Nat, NEW b \in Nat, NEW c \in Nat, NEW d \in Nat, a + (b + c + d) = 0
  PROVE  a = 0 /\ b = 0 /\ c = 0 /\ d = 0
OBVIOUS

\* When the keyboard thread does not wait for CHECK_BLOCK, nothing that it
\* asked for is anywhere, so that it may turn to another user.
LEMMA Idle ==
  ASSUME OwnTypes', Right', "check" \in Kinds, Held("check")' = Owed("check")', unasked' = 0,
         NEW t
  PROVE  /\ sem'["check"] <= Waiting("check")'
         /\ Waiting("check")' = 0 =>
              /\ sem'["check"] = 0
              /\ reqs' \in Seq(About(t)) /\ inbox' \in Seq(Told(t))
              /\ task' \in [Workers -> Asking(t) \cup {NoTask}]
<1>0. Held("check")' = Owed("check")' /\ unasked' = 0
  OBVIOUS
<1>1. /\ Held("check")' = sem'["check"] + (Asked(reqs', "check") + Cardinality(With("check")')
                                                + Asked(inbox', "check"))
      /\ Owed("check")' = Waiting("check")' + unasked'
  BY DEF Held, Owed, InFlight, Asked
<1>2. reqs' \in Seq(RightRequests) /\ inbox' \in Seq(RightMessages)
      /\ task' \in [Workers -> RightTasks \cup {NoTask}]
  BY DEF Right
<1>3. /\ sem'["check"] \in Nat /\ Asked(reqs', "check") \in Nat /\ Asked(inbox', "check") \in Nat
      /\ Waiting("check")' \in {0, 1}
  BY <1>2, AskedFacts DEF OwnTypes, SemOK, Waiting
<1>4. With("check")' \in SUBSET Workers
  BY DEF With
<1>5. Cardinality(With("check")') \in Nat
  BY <1>4, ClientAssumption, FS_Subset, FS_CardinalityType DEF ClientAssumption
<1>6. sem'["check"] <= Waiting("check")'
  BY <1>0, <1>1, <1>3, <1>5
<1>7. ASSUME Waiting("check")' = 0
      PROVE  /\ sem'["check"] = 0 /\ Asked(reqs', "check") = 0 /\ Cardinality(With("check")') = 0
             /\ Asked(inbox', "check") = 0
  <2>1. sem'["check"] + (Asked(reqs', "check") + Cardinality(With("check")')
                           + Asked(inbox', "check")) = 0
    BY <1>0, <1>1, <1>7
  <2> QED
    BY <1>3, <1>5, <2>1, NoneLeft
<1>8. ASSUME Waiting("check")' = 0
      PROVE  reqs' \in Seq(About(t))
  <2>1. \A i \in 1 .. Len(reqs') : ~(reqs'[i].kind = "check" /\ reqs'[i].asked)
    BY <1>2, <1>7, <1>8, NoneAsked
  <2>2. \A i \in 1 .. Len(reqs') : reqs'[i] \in About(t)
    BY <1>2, <2>1 DEF About
  <2> QED
    BY <1>2, <2>2, SeqOf
<1>9. ASSUME Waiting("check")' = 0
      PROVE  inbox' \in Seq(Told(t))
  <2>1. \A i \in 1 .. Len(inbox') : ~(inbox'[i].kind = "check" /\ inbox'[i].asked)
    BY <1>2, <1>7, <1>9, NoneAsked
  <2>2. \A i \in 1 .. Len(inbox') : inbox'[i] \in Told(t)
    BY <1>2, <2>1 DEF Told
  <2> QED
    BY <1>2, <2>2, SeqOf
<1>10. ASSUME Waiting("check")' = 0
       PROVE  task' \in [Workers -> Asking(t) \cup {NoTask}]
  <2>1. With("check")' = {}
    BY <1>4, <1>7, <1>10, NoneWith
  <2>2. \A w \in Workers : task'[w] # NoTask => ~(task'[w].req.kind = "check" /\ task'[w].req.asked)
    BY <2>1 DEF With
  <2>3. \A w \in Workers : task'[w] # NoTask => task'[w] \in Asking(t)
    BY <1>2, <2>2 DEF Asking, About, RightTasks
  <2> QED
    BY <1>2, <2>3
<1> QED
  BY <1>6, <1>7, <1>8, <1>9, <1>10

\* What joins the queues while the keyboard thread waits was not asked for, or
\* answers what was asked about t.
LEMMA PendingQueues ==
  ASSUME NEW t, Pending(t)
  PROVE  /\ \A r \in About(t) : Send(r) => reqs' \in Seq(About(t))
         /\ \A m \in Told(t) : Deliver(m) => inbox' \in Seq(Told(t))
         /\ \A k : Receive(k) => inbox' \in Seq(Told(t)) /\ Head(inbox) \in Told(t)
         /\ reqs # <<>> => Head(reqs) \in About(t) /\ Tail(reqs) \in Seq(About(t))
<1>1. reqs \in Seq(About(t)) /\ inbox \in Seq(Told(t))
  BY DEF Pending
<1>2. \A r \in About(t) : Send(r) => reqs' \in Seq(About(t))
  BY <1>1 DEF Send
<1>3. \A m \in Told(t) : Deliver(m) => inbox' \in Seq(Told(t))
  BY <1>1 DEF Deliver
<1>4. \A k : Receive(k) => inbox' \in Seq(Told(t)) /\ Head(inbox) \in Told(t)
  BY <1>1 DEF Receive
<1>5. reqs # <<>> => Head(reqs) \in About(t) /\ Tail(reqs) \in Seq(About(t))
  BY <1>1
<1> QED
  BY <1>2, <1>3, <1>4, <1>5

LEMMA IOPending ==
  ASSUME OwnTypes, NEW t, Pending(t), IO
  PROVE  Pending(t)'
<1>s. UNCHANGED server => UNCHANGED <<reqs, task>>
  BY DEF server
<1>0. ASSUME NEW k, Receive(k), UNCHANGED <<reqs, task>>
      PROVE  Pending(t)'
  <2>1. inbox' \in Seq(Told(t))
    BY <1>0, PendingQueues
  <2> QED
    BY <1>0, <2>1 DEF Pending
<1>1. CASE ReceiveList
  BY <1>0, <1>s, <1>1 DEF ReceiveList
<1>2. CASE ReceiveLogin
  BY <1>0, <1>s, <1>2 DEF ReceiveLogin
<1>3. CASE ReceiveCheck
  BY <1>0, <1>s, <1>3 DEF ReceiveCheck
<1>4. CASE ReceiveMember
  BY <1>0, <1>s, <1>4 DEF ReceiveMember
<1>5. CASE ReceiveBlocked
  <2> DEFINE r == [kind |-> "check", who |-> private_chat_id, asked |-> FALSE]
  <2>1. r \in About(t)
    BY DEF OwnTypes, ChatOK, About, RightRequests, Requests, Answers
  <2>2. Send(r) /\ Receive("blocked") /\ UNCHANGED task
    BY <1>5 DEF ReceiveBlocked
  <2>3. reqs' \in Seq(About(t)) /\ inbox' \in Seq(Told(t))
    BY <2>1, <2>2, PendingQueues
  <2> QED
    BY <2>2, <2>3 DEF Pending
<1>6. CASE ReceiveNotice
  BY <1>0, <1>s, <1>6 DEF ReceiveNotice
<1>7. CASE ReceiveExit
  BY <1>0, <1>s, <1>7 DEF ReceiveExit
<1> QED
  BY <1>1, <1>2, <1>3, <1>4, <1>5, <1>6, <1>7 DEF IO

LEMMA OtherPending ==
  ASSUME OwnTypes, NEW t, Pending(t), OtherStep
  PROVE  Pending(t)'
<1>0. ASSUME NEW m \in Told(t), Deliver(m), UNCHANGED <<reqs, task>>
      PROVE  Pending(t)'
  <2>1. inbox' \in Seq(Told(t))
    BY <1>0, PendingQueues
  <2> QED
    BY <1>0, <2>1 DEF Pending
<1>1. CASE Change
  BY <1>1 DEF Change, Pending
<1>2. CASE OtherChecks
  <2>1. PICK u \in Users : Deliver([kind |-> "check", value |-> Between(u), asked |-> FALSE])
    BY <1>2 DEF OtherChecks
  <2>2. [kind |-> "check", value |-> Between(u), asked |-> FALSE] \in Told(t)
    BY DEF OwnTypes, WorldOK, Between, Told, RightMessages, Messages, Values, Answers
  <2> QED
    BY <1>0, <1>2, <2>1, <2>2 DEF OtherChecks
<1>3. CASE Kick
  BY <1>3 DEF Kick, Pending
<1>4. CASE KickNotice
  <2>1. [kind |-> "notice", value |-> "", asked |-> FALSE] \in Told(t)
    BY DEF Told, RightMessages, Messages, Values
  <2>2. CASE UNCHANGED inbox
    BY <1>4, <2>2 DEF KickNotice, Pending
  <2> QED
    BY <1>0, <1>4, <2>1, <2>2 DEF KickNotice
<1>5. CASE LongTime
  <2>1. [kind |-> "exit", value |-> "", asked |-> FALSE] \in Told(t)
    BY DEF Told, RightMessages, Messages, Values
  <2> QED
    BY <1>0, <1>5, <2>1 DEF LongTime
<1> QED
  BY <1>1, <1>2, <1>3, <1>4, <1>5 DEF OtherStep

\* A worker reads the row of the user that the request names, and answers with
\* what it read.
LEMMA WorkPending ==
  ASSUME OwnTypes, Right, NEW t, Pending(t), NEW w \in Workers, WorkStep(w)
  PROVE  Pending(t)'
<1>p. /\ reqs \in Seq(About(t)) /\ inbox \in Seq(Told(t))
      /\ task \in [Workers -> Asking(t) \cup {NoTask}]
  BY DEF Pending
<1>0. ASSUME NEW x \in Asking(t) \cup {NoTask}, task' = [task EXCEPT ![w] = x]
      PROVE  task' \in [Workers -> Asking(t) \cup {NoTask}]
  BY <1>0, <1>p
<1>1. CASE Take(w)
  <2> DEFINE x == [req |-> Head(reqs), done |-> FALSE, value |-> ""]
  <2>1. Head(reqs) \in About(t) /\ Tail(reqs) \in Seq(About(t))
    BY <1>1, PendingQueues DEF Take
  <2>2. x \in Asking(t)
    BY <2>1 DEF Asking, About, RightTasks, Tasks, Values, RightRequests
  <2>3. task' = [task EXCEPT ![w] = x] /\ reqs' = Tail(reqs) /\ inbox' = inbox
    BY <1>1 DEF Take
  <2> HIDE DEF x
  <2>4. task' \in [Workers -> Asking(t) \cup {NoTask}]
    BY <1>0, <2>2, <2>3
  <2> QED
    BY <1>p, <2>1, <2>3, <2>4 DEF Pending
<1>2. CASE Handle(w)
  <2>1. PICK o \in Outcomes(task[w].req) :
          task' = [task EXCEPT ![w].done = TRUE, ![w].value = o[1]]
    BY <1>2 DEF Handle
  <2> DEFINE x == [task[w] EXCEPT !.done = TRUE, !.value = o[1]]
  <2>2. task[w] \in Asking(t)
    BY <1>2, <1>p DEF Handle
  <2>3. task[w] \in RightTasks /\ task[w].req \in About(t)
    BY <2>2 DEF Asking
  <2>4. o[1] \in Values
    BY OutcomesTypes DEF OwnTypes
  <2>5. x \in RightTasks /\ x.req = task[w].req /\ x.value = o[1]
    BY <2>3, <2>4 DEF RightTasks, Tasks
  <2>6. ASSUME task[w].req.kind = "check", task[w].req.asked
        PROVE  Honest(t, o[1])
    <3>1. task[w].req.who = t
      BY <2>3, <2>6 DEF About
    <3>2. o = <<Between(t), bond>>
      BY <2>6, <3>1 DEF Outcomes
    <3> QED
      BY <3>2 DEF Between, Honest
  <2>7. x \in Asking(t)
    <3> HIDE DEF x
    <3> QED
      BY <2>3, <2>5, <2>6 DEF Asking
  <2>8. task' = [task EXCEPT ![w] = x] /\ UNCHANGED <<reqs, inbox>>
    BY <1>2, <1>p, <2>1 DEF Handle
  <2> HIDE DEF x
  <2>9. task' \in [Workers -> Asking(t) \cup {NoTask}]
    BY <1>0, <2>7, <2>8
  <2> QED
    BY <1>p, <2>8, <2>9 DEF Pending
<1>3. CASE Answer(w)
  <2>1. task[w] # NoTask /\ task[w].done /\ task' = [task EXCEPT ![w] = NoTask] /\ reqs' = reqs
    BY <1>3 DEF Answer
  <2>2. task' \in [Workers -> Asking(t) \cup {NoTask}]
    BY <1>0, <2>1
  <2>3. task[w] \in Asking(t)
    BY <1>p, <2>1
  <2>4. inbox' \in Seq(Told(t))
    <3>1. CASE UNCHANGED inbox
      BY <1>p, <3>1
    <3>2. CASE Blocks(w) /\ Deliver([kind |-> "blocked", value |-> task[w].value,
                                     asked |-> task[w].req.asked])
      <4>1. [kind |-> "blocked", value |-> task[w].value, asked |-> task[w].req.asked] \in Told(t)
        BY <2>1, <3>2, TaskTypes DEF Told, RightMessages, Messages
      <4> QED
        BY <3>2, <4>1, PendingQueues
    <3>3. CASE ~Blocks(w) /\ Deliver(Reply(w))
      <4>1. Reply(w) \in RightMessages
        BY <2>1, <3>3, TaskTypes
      <4>2. Reply(w).kind = "check" /\ Reply(w).asked => Honest(t, Reply(w).value)
        BY <2>1, <2>3 DEF Reply, Asking
      <4>3. Reply(w) \in Told(t)
        BY <4>1, <4>2 DEF Told
      <4> QED
        BY <3>3, <4>3, PendingQueues
    <3> QED
      BY <1>3, <3>1, <3>2, <3>3, AnswerForms
  <2> QED
    BY <1>p, <2>1, <2>2, <2>4 DEF Pending
<1>4. CASE Abandon(w)
  <2>1. task' = [task EXCEPT ![w] = NoTask] /\ UNCHANGED <<reqs, inbox>>
    BY <1>4 DEF Abandon
  <2>2. task' \in [Workers -> Asking(t) \cup {NoTask}]
    BY <1>0, <2>1
  <2> QED
    BY <1>p, <2>1, <2>2 DEF Pending
<1> QED
  BY <1>1, <1>2, <1>3, <1>4 DEF WorkStep, Work

LEMMA StepKeepsQuiet ==
  ASSUME Quiet, LinkOK, [Next]_vars
  PROVE  /\ Quiet'
         /\ link = "lost" => link' = "lost"
<1>0. link = "lost" => cstate = "connected" /\ inbox = <<>>
  BY DEF Quiet, LinkOK
<1>1. CASE LinkStep
  BY <1>0, <1>1 DEF LinkStep, Connect, Connected, Attempt, Lose, Quiet
<1>2. CASE KeyStep
  BY <1>0, <1>2 DEF KeyStep, Choose, Keyboard, LeaveChat, ExitChatRoom, Ask, ProceedToNext,
     ProceedToMenu, ProceedToChat, ProceedToGroup, EnterGroup, Quiet
<1>3. CASE IO
  BY <1>0, <1>3 DEF IO, ReceiveList, ReceiveLogin, ReceiveCheck, ReceiveMember, ReceiveBlocked,
     ReceiveNotice, ReceiveExit, Receive, Quiet
<1>4. CASE OtherStep
  BY <1>0, <1>4 DEF OtherStep, Change, OtherChecks, Kick, KickNotice, LongTime, Deliver, Quiet
<1>5. ASSUME NEW w \in Workers, WorkStep(w)
      PROVE  Quiet' /\ (link = "lost" => link' = "lost")
  <2>1. UNCHANGED link
    BY <1>5 DEF WorkStep, Work, Take, Handle, Answer, Abandon
  <2>2. CASE Answer(w)
    BY <1>0, <2>1, <2>2, AnswerForms DEF Deliver, Quiet
  <2>3. CASE Take(w) \/ Handle(w) \/ Abandon(w)
    BY <1>0, <2>1, <2>3 DEF Take, Handle, Abandon, Quiet
  <2> QED
    BY <1>5, <2>1, <2>2, <2>3 DEF WorkStep, Work
<1>6. CASE UNCHANGED <<connector, link, keyboard, sem, flags, chat, inbox, server, unasked>>
  BY <1>0, <1>6 DEF Quiet
<1> QED
  BY <1>1, <1>2, <1>3, <1>4, <1>5, <1>6, StepParts

\* The keyboard thread takes a post only by waiting for it, and leaves none.
LEMMA KeyTakes ==
  ASSUME OwnTypes, OwnTypes', KeyStep, "check" \in Kinds, sem["check"] <= Waiting("check")
  PROVE  sem'["check"] = 0 /\ (Ask \/ pc' # "wait")
<1>t. KeysOK /\ SemOK /\ sem["check"] \in Nat /\ sem'["check"] \in Nat
  BY DEF OwnTypes, SemOK
<1>0. ASSUME pc # "wait", UNCHANGED sem
      PROVE  sem'["check"] = 0
  BY <1>0, <1>t, KeptTerms
<1>p. ASSUME Proceed, pc' # "wait"
      PROVE  sem'["check"] = 0
  BY <1>p, <1>t, ProceedTerms DEF One
<1>1. CASE Choose \/ Ask \/ EnterGroup \/ LeaveChat \/ ExitChatRoom
  BY <1>0, <1>1 DEF Choose, Ask, EnterGroup, LeaveChat, ExitChatRoom, Menu
<1>2. CASE ProceedToNext \/ ProceedToMenu \/ ProceedToChat \/ ProceedToGroup
  BY <1>2, <1>p DEF ProceedToNext, ProceedToMenu, ProceedToChat, ProceedToGroup, Menu
<1> QED
  BY <1>1, <1>2 DEF KeyStep, Keyboard

\* Private chat is entered on what was said of the user asked about.
LEMMA KeyChat ==
  ASSUME OwnTypes, KeyStep, pc' = "chat", "check" \in Kinds => Checking
  PROVE  target' = Friend
<1>1. CASE ProceedToChat
  <2>1. cmd = "privateChat" /\ step = 2 /\ Proceed /\ if_friend /\ target' = target
    BY <1>1 DEF ProceedToChat, Menu
  <2>2. "check" \in Kinds /\ Kind = "check"
    BY <2>1, SecondStep DEF OwnTypes
  <2>3. sem["check"] > 0
    BY <2>1, <2>2 DEF Proceed
  <2> QED
    BY <2>1, <2>2, <2>3 DEF Checking
<1>2. CASE Choose \/ Ask \/ ProceedToNext \/ ProceedToMenu \/ ProceedToGroup \/ EnterGroup
           \/ LeaveChat \/ ExitChatRoom
  BY <1>2 DEF Choose, Ask, ProceedToNext, ProceedToMenu, ProceedToGroup, EnterGroup, LeaveChat,
     ExitChatRoom, Menu
<1> QED
  BY <1>1, <1>2 DEF KeyStep, Keyboard

\* A question about the user chosen joins the queue.
LEMMA AskPending ==
  ASSUME OwnTypes, NEW t, t = target, Pending(t), Ask
  PROVE  Pending(t)'
<1>1. Request(Script[cmd][step], target) \in About(t)
  <2>1. Kind \in Answers /\ target \in Users
    BY KindType DEF OwnTypes, KeysOK
  <2> QED
    BY <2>1 DEF Kind, Request, About, RightRequests, Requests
<1>2. reqs' \in Seq(About(t))
  BY <1>1, PendingQueues DEF Ask
<1> QED
  BY <1>2 DEF Ask, Pending

\* A step that is not the keyboard thread's.
LEMMA Elsewhere ==
  ASSUME LinkStep \/ IO \/ OtherStep \/ \E w \in Workers : WorkStep(w), Running'
  PROVE  UNCHANGED keyboard
<1>0. pc' # "exited"
  BY DEF Running
<1>1. CASE LinkStep \/ OtherStep
  BY <1>1 DEF LinkStep, Connect, Attempt, Lose, OtherStep, Change, OtherChecks, Kick, KickNotice,
     LongTime
<1>2. CASE IO
  BY <1>0, <1>2 DEF IO, ReceiveList, ReceiveLogin, ReceiveCheck, ReceiveMember, ReceiveBlocked,
     ReceiveNotice, ReceiveExit
<1>3. CASE \E w \in Workers : WorkStep(w)
  BY <1>3 DEF WorkStep, Work, Take, Handle, Answer, Abandon
<1> QED
  BY <1>1, <1>2, <1>3

\* An answer to the question, when it comes, says of the user asked about what
\* if_friend then holds.
LEMMA IOReads ==
  ASSUME OwnTypes, Quiet, Checking, IO, unasked = 0, unasked' = 0, UNCHANGED keyboard,
         sem'["check"] > 0, target # Friend, "check" \in Kinds
  PROVE  ~if_friend'
<1>1. CASE ReceiveCheck
  <2>1. Receive("check") /\ Head(inbox).kind = "check" /\ link # "lost"
        /\ if_friend' = (Head(inbox).value \in {"friend", "block"})
    BY <1>1 DEF ReceiveCheck, Receive, Quiet
  <2>2. Head(inbox).asked
    BY <1>1 DEF ReceiveCheck
  <2>3. PICK t : t = target
    OBVIOUS
  <2>4. Pending(t)
    BY <2>1, <2>3 DEF Checking
  <2>5. Head(inbox) \in Told(t)
    BY <2>1, <2>4, PendingQueues
  <2>6. Honest(t, Head(inbox).value)
    BY <2>1, <2>2, <2>5 DEF Told
  <2> QED
    BY <2>1, <2>3, <2>6 DEF Honest
<1>2. CASE ~ReceiveCheck
  <2>1. UNCHANGED if_friend /\ sem'["check"] = sem["check"]
    <3>1. SemOK
      BY DEF OwnTypes
    <3>2. ASSUME NEW x, x # "check", Post(x)
          PROVE  sem'["check"] = sem["check"]
      BY <3>1, <3>2 DEF Post, SemOK
    <3>3. CASE ReceiveList
      BY <3>2, <3>3 DEF ReceiveList, flags
    <3>4. CASE ReceiveLogin \/ ReceiveMember
      BY <3>2, <3>4 DEF ReceiveLogin, ReceiveMember
    <3>5. CASE ReceiveBlocked \/ ReceiveNotice \/ ReceiveExit
      BY <3>5 DEF ReceiveBlocked, ReceiveNotice, ReceiveExit, flags
    <3> QED
      BY <1>2, <3>3, <3>4, <3>5 DEF IO
  <2> QED
    BY <2>1 DEF Checking
<1> QED
  BY <1>1, <1>2

LEMMA StepKeepsChat ==
  ASSUME CInv, Quiet, ChatInv, CInv', [Next]_vars
  PROVE  ChatInv'
<1> SUFFICES ASSUME unasked' = 0, Running'
             PROVE  /\ pc' = "chat" => target' = Friend
                    /\ "check" \in Kinds => Checking'
  BY DEF ChatInv
<1>t. OwnTypes /\ Right /\ LinkOK /\ OwnTypes' /\ Right'
  BY DEF CInv
<1>n. unasked \in Nat /\ unasked' \in Nat
  BY <1>t DEF OwnTypes
<1>1. CASE UNCHANGED <<connector, link, keyboard, sem, flags, chat, inbox, server, unasked>>
  <2>1. UNCHANGED <<reqs, task, inbox, link, sem, unasked, keyboard, pc, target, if_friend>>
    BY <1>1 DEF server, keyboard, flags
  <2>2. Running
    BY <2>1 DEF Running
  <2>3. "check" \in Kinds => Checking'
    BY <2>1, <2>2, KeptTerms DEF ChatInv, Checking, Pending
  <2> QED
    BY <2>1, <2>2, <2>3 DEF ChatInv
<1>2. CASE Running /\ (LinkStep \/ KeyStep \/ IO \/ OtherStep \/ \E w \in Workers : WorkStep(w))
  <2>0. unasked = 0
    <3>1. unasked' = unasked \/ unasked' = unasked + 1
      BY <1>2 DEF LinkStep, Connect, Attempt, Lose, KeyStep, Choose, Keyboard,
         LeaveChat, ExitChatRoom, Ask, ProceedToNext, ProceedToMenu, ProceedToChat, ProceedToGroup,
         EnterGroup, IO, ReceiveList, ReceiveLogin, ReceiveCheck, ReceiveMember, ReceiveBlocked,
         ReceiveNotice, ReceiveExit, OtherStep, Change, OtherChecks, Kick, KickNotice, LongTime,
         WorkStep, Work, Take, Handle, Answer, Abandon
    <3> QED
      BY <1>n, <3>1
  <2>1. /\ pc = "chat" => target = Friend
        /\ "check" \in Kinds => Checking
    BY <1>2, <2>0 DEF ChatInv
  <2>2. pc' = "chat" => target' = Friend
    <3>1. CASE KeyStep
      BY <1>t, <2>1, <3>1, KeyChat
    <3>2. CASE UNCHANGED keyboard
      BY <2>1, <3>2 DEF keyboard
    <3> QED
      BY <1>2, <3>1, <3>2, Elsewhere
  <2>3. ASSUME "check" \in Kinds
        PROVE  Checking'
    <3>1. Checking
      BY <2>1, <2>3
    <3>2. link' # "lost" => link # "lost" /\ Held("check")' = Owed("check")'
      BY <1>t, <2>3, StepKeepsQuiet DEF CInv, Credit
    <3>3. /\ sem["check"] \in Nat /\ sem'["check"] \in Nat
          /\ Waiting("check") \in {0, 1} /\ Waiting("check")' \in {0, 1}
      BY <1>t, <2>3, Terms
    <3>4. PICK t : t = target'
      OBVIOUS
    <3>5. ASSUME link' # "lost", Waiting("check")' = 0
          PROVE  Pending(target)'
      BY <1>t, <2>3, <3>2, <3>5, Idle DEF Pending
    <3>6. CASE KeyStep
      <4>1. sem'["check"] = 0 /\ (Ask \/ pc' # "wait")
        BY <1>t, <2>3, <3>1, <3>6, KeyTakes DEF Checking
      <4>2. ASSUME link' # "lost"
            PROVE  Pending(target)'
        <5>1. CASE pc' # "wait"
          BY <3>5, <4>2, <5>1, KeptTerms
        <5>2. CASE Ask
          <6>1. target' = target
            BY <5>2 DEF Ask
          <6>2. Pending(t)
            BY <3>1, <3>2, <3>4, <4>2, <6>1 DEF Checking
          <6>3. Pending(t)'
            BY <1>t, <3>4, <5>2, <6>1, <6>2, AskPending
          <6> QED
            BY <3>4, <6>3 DEF Pending
        <5> QED
          BY <4>1, <5>1, <5>2
      <4> QED
        BY <3>3, <4>1, <4>2 DEF Checking
    <3>7. CASE UNCHANGED keyboard /\ (LinkStep \/ IO \/ OtherStep \/ \E w \in Workers : WorkStep(w))
      <4>1. target' = target /\ Waiting("check")' = Waiting("check")
        BY <3>7, KeptTerms DEF keyboard
      <4>2. link' # "lost" => Pending(target)'
        <5>1. ASSUME link' # "lost"
              PROVE  Pending(t)'
          <6>1. Pending(t)
            BY <3>1, <3>2, <3>4, <4>1, <5>1 DEF Checking
          <6>2. CASE LinkStep
            <7>1. UNCHANGED <<reqs, task, inbox>>
              BY <5>1, <6>2 DEF LinkStep, Connect, Attempt, Lose, server
            <7> QED
              BY <6>1, <7>1 DEF Pending
          <6> QED
            BY <1>t, <3>7, <6>1, <6>2, IOPending, OtherPending, WorkPending
        <5> QED
          BY <3>4, <5>1 DEF Pending
      <4>3. sem'["check"] > 0 /\ target' # Friend => ~if_friend'
        <5>1. CASE IO
          BY <1>t, <2>0, <2>3, <3>1, <3>7, <4>1, <5>1, IOReads
        <5>2. CASE LinkStep \/ OtherStep \/ \E w \in Workers : WorkStep(w)
          <6>1. UNCHANGED <<sem, if_friend>>
            BY <5>2 DEF LinkStep, Connect, Attempt, Lose, OtherStep, Change, OtherChecks, Kick,
               KickNotice, LongTime, WorkStep, Work, Take, Handle, Answer, Abandon, flags
          <6> QED
            BY <3>1, <4>1, <6>1 DEF Checking
        <5> QED
          BY <3>7, <5>1, <5>2
      <4>4. sem'["check"] <= Waiting("check")'
        <5>1. CASE link' # "lost"
          BY <1>t, <2>3, <3>2, <5>1, Idle
        <5>2. CASE link' = "lost"
          <6>1. CASE IO
            <7>1. link = "lost" /\ inbox # <<>>
              BY <5>2, <6>1 DEF IO, ReceiveList, ReceiveLogin, ReceiveCheck, ReceiveMember,
                 ReceiveBlocked, ReceiveNotice, ReceiveExit, Receive
            <7> QED
              BY <7>1 DEF Quiet
          <6>2. CASE LinkStep \/ OtherStep \/ \E w \in Workers : WorkStep(w)
            <7>1. UNCHANGED sem
              BY <6>2 DEF LinkStep, Connect, Attempt, Lose, OtherStep, Change, OtherChecks, Kick,
                 KickNotice, LongTime, WorkStep, Work, Take, Handle, Answer, Abandon
            <7> QED
              BY <3>1, <4>1, <7>1 DEF Checking
          <6> QED
            BY <3>7, <6>1, <6>2
        <5> QED
          BY <5>1, <5>2
      <4> QED
        BY <4>2, <4>3, <4>4 DEF Checking
    <3> QED
      BY <1>2, <3>6, <3>7, Elsewhere
  <2> QED
    BY <2>2, <2>3
<1> QED
  BY <1>1, <1>2, StepParts

\* As long as no CHECK_BLOCK has come that the keyboard thread did not ask
\* for, private chat is entered only with a friend, however often the user
\* asks about others before and the connection is lost: if_friend still says
\* what was said of the user chosen (privateChat after its second sem_wait).
THEOREM OnlyFriendsChat == Spec => []ChatsWithFriends
<1> DEFINE I == CInv /\ Quiet /\ ChatInv
<1>1. Init => I
  <2> SUFFICES ASSUME Init PROVE Quiet /\ ChatInv
    BY InitInvariant
  <2>1. /\ pc = "menu" /\ reqs = <<>> /\ inbox = <<>> /\ link = "none"
        /\ task = [w \in Workers |-> NoTask] /\ sem = [k \in Kinds |-> 0]
    BY DEF Init
  <2>2. Waiting("check") = 0
    BY <2>1 DEF Waiting
  <2>3. Pending(target)
    BY <2>1 DEF Pending
  <2>4. "check" \in Kinds => Checking
    BY <2>1, <2>2, <2>3 DEF Checking
  <2> QED
    BY <2>1, <2>4 DEF Quiet, ChatInv
<1>2. I /\ [Next]_vars => I'
  <2> SUFFICES ASSUME CInv, Quiet, ChatInv, [Next]_vars
               PROVE  CInv' /\ Quiet' /\ ChatInv'
    OBVIOUS
  <2>1. CInv'
    BY StepInvariant
  <2>2. Quiet'
    BY StepKeepsQuiet DEF CInv
  <2> QED
    BY <2>1, <2>2, StepKeepsChat
<1>3. I => ChatsWithFriends
  BY DEF ChatInv, ChatsWithFriends, Running
<1> QED
  BY <1>1, <1>2, <1>3, PTL DEF Spec

=============================================================================
