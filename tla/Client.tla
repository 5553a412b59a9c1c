------------------------------- MODULE Client -------------------------------
(***************************************************************************)
(* The chat client: the keyboard thread, which asks and waits on a         *)
(* semaphore for the answer, the IO thread, which handles messages and     *)
(* posts the semaphores, and the server's workers as far as they answer    *)
(* this client.  Other users block it, chat with it and kick it.           *)
(*                                                                         *)
(* A request is named for its msgid and its semaphore at once.  Requests   *)
(* whose answers only print are left out, but for those that have effects  *)
(* on this client later.                                                   *)
(***************************************************************************)
EXTENDS Connector, Sequences, FiniteSets

CONSTANTS
  Friend, Stranger,  \* another user who is a friend, and one who never is
  Workers,           \* the server's workers
  NoTask,
  Commands,  \* the commands the user gives, of those below
  MaxEvents  \* bound: what other users do, and requests to block

Users == {Friend, Stranger}
Nobody == "nobody"   \* private_chat_id = -1

\* What each command asks and waits for, in order.
EntryScript  == [reg |-> <<"reg">>, login |-> <<"login">>]

\* friendList stands for deleteFriend and sendfile.
FriendScript ==
  [privateChat |-> <<"friends", "check">>, friendList |-> <<"friends">>,
   addFriend |-> <<"users">>, addFriendRequest |-> <<"requests">>,
   blockFriend |-> <<"friends">>, unblockFriend |-> <<"blocks">>]

\* quitGroup stands for the other commands that ask for the user's groups only.
GroupScript ==
  [groupChat |-> <<"groups", "member">>, requestEnterGroup |-> <<"all groups">>,
   quitGroup |-> <<"groups">>, addSomeoneToGroup |-> <<"groups", "group requests">>]

ManagerScript == [setGroupManager |-> <<"groups", "managers">>]

FileScript == [viewfile |-> <<"files">>, receivefile |-> <<"files", "receive">>]

Script ==
  [c \in DOMAIN EntryScript \cup DOMAIN FriendScript \cup DOMAIN GroupScript
         \cup DOMAIN ManagerScript \cup DOMAIN FileScript |->
     CASE c \in DOMAIN EntryScript   -> EntryScript[c]
       [] c \in DOMAIN FriendScript  -> FriendScript[c]
       [] c \in DOMAIN GroupScript   -> GroupScript[c]
       [] c \in DOMAIN ManagerScript -> ManagerScript[c]
       [] c \in DOMAIN FileScript    -> FileScript[c]]

Answers == {"reg", "login", "friends", "check", "users", "requests", "blocks", "groups", "member",
            "all groups", "group requests", "managers", "files", "receive"}
Values  == {"yes", "no", "in use", "friend", "block", ""}

Requests == [kind : Answers \cup {"blockFriend", "unblockFriend"},
             who : Users \cup {Nobody}, asked : BOOLEAN]
Messages == [kind : Answers \cup {"blocked", "notice", "exit"}, value : Values, asked : BOOLEAN]
Tasks    == [req : Requests, done : BOOLEAN, value : Values]

ASSUME CommandAssumption == "login" \in Commands /\ Commands \subseteq DOMAIN Script
ASSUME ClientAssumption  == MaxEvents \in Nat /\ IsFiniteSet(Workers) /\ NoTask \notin Tasks

Entry == DOMAIN EntryScript
Kinds == UNION {{Script[c][i] : i \in 1..Len(Script[c])} : c \in Commands}

VARIABLES
  link,       \* the connection: none yet, up, or lost
  pc,         \* the keyboard thread
  cmd,        \* its command
  step,       \* its place in the command's script
  target,     \* the user it wants to chat with
  sem,        \* the semaphores
  if_friend, if_block, if_group_member, login_flag,
  private_chat_id, CurrentGroupChatId,  \* the group is one; TRUE: it is set
  reqs,       \* the server's queue of this client's requests
  task,       \* what each worker does
  inbox,      \* messages under way to the client
  bond,       \* the rows of friend between this user and Friend
  member,     \* the user is a member of the group
  kicking,    \* a worker has deleted the membership and not yet sent the notice
  events,     \* what other users may still do, and requests to block
  abandoned,  \* history: a worker gave a file up without an answer
  unasked     \* history: CHECK_BLOCK answers handled that the keyboard thread had not asked for

keyboard == <<pc, cmd, step, target>>
flags    == <<if_friend, if_block, if_group_member, login_flag>>
chat     == <<private_chat_id, CurrentGroupChatId>>
server   == <<reqs, task, bond, member, kicking, events, abandoned>>
vars     == <<connector, link, keyboard, sem, flags, chat, inbox, server, unasked>>

Init ==
  /\ ConnectorInit /\ link = "none"
  /\ pc = "menu" /\ cmd = "login" /\ step = 1 /\ target = Friend
  /\ sem = [k \in Kinds |-> 0]
  /\ if_friend = FALSE /\ if_block = FALSE /\ if_group_member = FALSE /\ login_flag = FALSE
  /\ private_chat_id = Nobody /\ CurrentGroupChatId = FALSE
  /\ reqs = <<>> /\ task = [w \in Workers |-> NoTask] /\ inbox = <<>>
  /\ bond = "friend" /\ member = TRUE /\ kicking = FALSE
  /\ events = MaxEvents /\ abandoned = FALSE /\ unasked = 0

Running == pc \notin {"exited", "crashed"}

-----------------------------------------------------------------------------
(* The connection. *)

\* TcpClient::newConnection and Client::onConnection.
Connect ==
  /\ Connected /\ link' = "up"
  /\ UNCHANGED <<keyboard, sem, flags, chat, inbox, server, unasked>>

Attempt ==
  /\ StartInLoop \/ AttemptFails \/ ResetChannel
  /\ UNCHANGED <<link, keyboard, sem, flags, chat, inbox, server, unasked>>

\* Nothing wakes the keyboard thread; what it sends from now on is dropped.
Lose ==
  /\ link = "up" /\ link' = "lost"
  /\ reqs' = <<>> /\ inbox' = <<>>
  /\ UNCHANGED <<connector, keyboard, sem, flags, chat, task, bond, member, kicking, events,
                 abandoned, unasked>>

-----------------------------------------------------------------------------
(* The keyboard thread. *)

Request(kind, who) == [kind |-> kind, who |-> who, asked |-> TRUE]

Send(r) == reqs' = IF link = "up" THEN Append(reqs, r) ELSE reqs

\* EnterChatRoom and EnterCommandMenu.
Choose ==
  /\ pc = "menu" /\ pc' = "ask"
  /\ cmd' \in IF login_flag THEN Commands \ Entry ELSE Commands \cap Entry
  /\ target' \in IF cmd' = "privateChat" THEN Users ELSE {Friend}
  /\ step' = 1
  /\ UNCHANGED <<connector, link, sem, flags, chat, inbox, server, unasked>>

\* m_connection is null until the connection is up.
Ask ==
  /\ pc = "ask"
  /\ pc' = IF link = "none" THEN "crashed" ELSE "wait"
  /\ Send(Request(Script[cmd][step], target))
  /\ UNCHANGED <<connector, link, cmd, step, target, sem, flags, chat, inbox,
                 task, bond, member, kicking, events, abandoned, unasked>>

Kind == Script[cmd][step]

\* sem_wait returns.
Proceed ==
  /\ pc = "wait" /\ sem[Kind] > 0
  /\ sem' = [sem EXCEPT ![Kind] = @ - 1]

\* Back in the menu; the command's variables are gone.
Menu == pc' = "menu" /\ cmd' = "login" /\ step' = 1 /\ target' = Friend

\* The answer leads to the next question, or the user leaves the command.
ProceedToNext ==
  /\ Proceed /\ step < Len(Script[cmd])
  /\ \/ pc' = "ask" /\ step' = step + 1 /\ UNCHANGED <<cmd, target>>
     \/ Menu
  /\ UNCHANGED <<connector, link, flags, chat, inbox, server, unasked>>

\* The command's last answer, and the request that may follow it.
ProceedToMenu ==
  /\ Proceed /\ step = Len(Script[cmd]) /\ cmd \notin {"privateChat", "groupChat"}
  /\ Menu
  /\ \/ /\ cmd \in {"blockFriend", "unblockFriend"} /\ events > 0
        /\ Send(Request(cmd, target)) /\ events' = events - 1
     \/ UNCHANGED <<reqs, events>>
  /\ UNCHANGED <<connector, link, flags, chat, inbox,
                 task, bond, member, kicking, abandoned, unasked>>

\* Mutation: if_friend is not looked at.
MutProceedToChat ==
  /\ Proceed /\ cmd = "privateChat" /\ step = 2
  /\ IF ~if_block
     THEN pc' = "chat" /\ private_chat_id' = target /\ UNCHANGED <<cmd, step, target>>
     ELSE Menu /\ UNCHANGED private_chat_id
  /\ UNCHANGED <<connector, link, flags, CurrentGroupChatId, inbox,
                 server, unasked>>

\* privateChat from its second sem_wait to the chat loop.
ProceedToChat ==
  /\ Proceed /\ cmd = "privateChat" /\ step = 2
  /\ IF if_friend /\ ~if_block
     THEN pc' = "chat" /\ private_chat_id' = target /\ UNCHANGED <<cmd, step, target>>
     ELSE Menu /\ UNCHANGED private_chat_id
  /\ UNCHANGED <<connector, link, flags, CurrentGroupChatId, inbox,
                 server, unasked>>

\* groupChat tests if_group_member, and sets CurrentGroupChatId after that.
ProceedToGroup ==
  /\ Proceed /\ cmd = "groupChat" /\ step = 2
  /\ IF if_group_member THEN pc' = "entering" /\ UNCHANGED <<cmd, step, target>> ELSE Menu
  /\ UNCHANGED <<connector, link, flags, chat, inbox, server, unasked>>

EnterGroup ==
  /\ pc = "entering" /\ pc' = "group"
  /\ CurrentGroupChatId' = TRUE
  /\ UNCHANGED <<connector, link, cmd, step, target, sem, flags, private_chat_id, inbox,
                 server, unasked>>

\* exit is typed, or the loop's condition has become false.
LeaveChat ==
  /\ pc \in {"chat", "group"} /\ Menu
  /\ CurrentGroupChatId' = (CurrentGroupChatId /\ pc = "chat")
  /\ UNCHANGED <<connector, link, sem, flags, private_chat_id, inbox,
                 server, unasked>>

ExitChatRoom ==
  /\ pc = "menu" /\ pc' = "exited"
  /\ UNCHANGED <<connector, link, cmd, step, target, sem, flags, chat, inbox, server, unasked>>

-----------------------------------------------------------------------------
(* The IO thread: handleServerMessage. *)

Receive(kind) ==
  /\ inbox # <<>> /\ Head(inbox).kind = kind
  /\ inbox' = Tail(inbox)

\* Mutation: the answer to a login posts nothing when the account is in use.
MutPost(kind) == sem' = [sem EXCEPT ![kind] = IF kind = "login" /\ Head(inbox).value = "in use"
                                              THEN @ ELSE @ + 1]

Post(kind) == sem' = [sem EXCEPT ![kind] = @ + 1]

\* Answers whose contents are printed.
ReceiveList ==
  /\ \E k \in Kinds \ {"login", "check", "member"} : Receive(k) /\ Post(k)
  /\ UNCHANGED <<connector, link, keyboard, flags, chat, server, unasked>>

\* LOGIN_SUCCESS, LOGIN_REPEAT, LOGIN_FAIL.
ReceiveLogin ==
  /\ Receive("login") /\ Post("login")
  /\ login_flag' = (Head(inbox).value = "yes")
  /\ UNCHANGED <<connector, link, keyboard, if_friend, if_block, if_group_member, chat,
                 server, unasked>>

\* CHECK_BLOCK, whoever asked.
ReceiveCheck ==
  /\ Receive("check") /\ Post("check")
  /\ if_block' = (Head(inbox).value = "block")
  /\ if_friend' = (Head(inbox).value \in {"friend", "block"})
  /\ unasked' = IF Head(inbox).asked THEN unasked ELSE unasked + 1
  /\ UNCHANGED <<connector, link, keyboard, if_group_member, login_flag, chat, server>>

ReceiveMember ==
  /\ Receive("member") /\ Post("member")
  /\ if_group_member' = (Head(inbox).value = "yes")
  /\ UNCHANGED <<connector, link, keyboard, if_friend, if_block, login_flag, chat,
                 server, unasked>>

\* BLOCK_FRIEND_SUCCESS and UNBLOCK_FRIEND_SUCCESS ask again about the last
\* partner, with nobody to wait for the answer.
ReceiveBlocked ==
  /\ Receive("blocked")
  /\ Send([kind |-> "check", who |-> private_chat_id, asked |-> FALSE])
  /\ UNCHANGED <<connector, link, keyboard, sem, flags, chat, task, bond, member, kicking,
                 events, abandoned, unasked>>

\* Mutation: the notice is taken for another group's.
MutReceiveNotice ==
  /\ Receive("notice")
  /\ UNCHANGED <<connector, link, keyboard, sem, flags, chat, server, unasked>>

\* KICK_SOMEONE_NOTICE
ReceiveNotice ==
  /\ Receive("notice")
  /\ if_group_member' = (if_group_member /\ ~CurrentGroupChatId)
  /\ UNCHANGED <<connector, link, keyboard, sem, if_friend, if_block, login_flag, chat,
                 server, unasked>>

\* CLIENT_LONGTIME_EXIT
ReceiveExit ==
  /\ Receive("exit") /\ pc' = "exited"
  /\ UNCHANGED <<connector, link, cmd, step, target, sem, flags, chat, server, unasked>>

-----------------------------------------------------------------------------
(* The server's workers. *)

Deliver(m) == inbox' = IF link = "up" THEN Append(inbox, m) ELSE inbox

Take(w) ==
  /\ reqs # <<>> /\ task[w] = NoTask
  /\ task' = [task EXCEPT ![w] = [req |-> Head(reqs), done |-> FALSE, value |-> ""]]
  /\ reqs' = Tail(reqs)
  /\ UNCHANGED <<connector, link, keyboard, sem, flags, chat, inbox, bond, member, kicking,
                 events, abandoned, unasked>>

Between(who) == IF who = Friend THEN bond ELSE ""

\* What the handler reads or does, for the answer, and the row after it.  The
\* row may be blocked from either side: a request to block or unblock can be
\* refused, and unblocking can leave the other side's block.
Outcomes(req) ==
  CASE req.kind = "check"  -> {<<Between(req.who), bond>>}
    [] req.kind = "member" -> {<<IF member THEN "yes" ELSE "no", bond>>}
    [] req.kind = "login"  -> {<<"yes", bond>>, <<"no", bond>>, <<"in use", bond>>}
    [] req.kind = "blockFriend" ->
         (IF bond = "" THEN {} ELSE {<<"yes", "block">>})
           \cup (IF bond = "friend" THEN {} ELSE {<<"no", bond>>})
    [] req.kind = "unblockFriend" ->
         {<<"no", bond>>} \cup (IF bond = "block" THEN {<<"yes", "block">>, <<"yes", "friend">>} ELSE {})
    [] OTHER -> {<<"", bond>>}

\* The handler's statements.
Handle(w) ==
  /\ task[w] # NoTask /\ ~task[w].done
  /\ \E o \in Outcomes(task[w].req) :
       /\ task' = [task EXCEPT ![w].done = TRUE, ![w].value = o[1]]
       /\ bond' = o[2]
  /\ UNCHANGED <<connector, link, keyboard, sem, flags, chat, inbox, reqs, member, kicking,
                 events, abandoned, unasked>>

\* Mutation: handleGroupRequestList goes on after DISPLAY_GROUP_REQUEST_FAIL.
MutAnswer(w) ==
  /\ task[w] # NoTask /\ task[w].done
  /\ LET req == task[w].req
         m == [kind |-> req.kind, value |-> task[w].value, asked |-> req.asked]
     IN IF req.kind \in {"blockFriend", "unblockFriend"}
        THEN IF task[w].value = "yes" THEN Deliver([m EXCEPT !.kind = "blocked"])
                                      ELSE UNCHANGED inbox
        ELSE IF req.kind = "group requests" /\ link = "up" THEN inbox' = inbox \o <<m, m>>
        ELSE Deliver(m)
  /\ task' = [task EXCEPT ![w] = NoTask]
  /\ UNCHANGED <<connector, link, keyboard, sem, flags, chat, reqs, bond, member, kicking,
                 events, abandoned, unasked>>

\* Every handler answers once; a refused block only prints.
Answer(w) ==
  /\ task[w] # NoTask /\ task[w].done
  /\ LET req == task[w].req
         m == [kind |-> req.kind, value |-> task[w].value, asked |-> req.asked]
     IN IF req.kind \in {"blockFriend", "unblockFriend"}
        THEN IF task[w].value = "yes" THEN Deliver([m EXCEPT !.kind = "blocked"])
                                      ELSE UNCHANGED inbox
        ELSE Deliver(m)
  /\ task' = [task EXCEPT ![w] = NoTask]
  /\ UNCHANGED <<connector, link, keyboard, sem, flags, chat, reqs, bond, member, kicking,
                 events, abandoned, unasked>>

\* handleReceiveFile returns when fstat or sendfile fails.
Abandon(w) ==
  /\ task[w] # NoTask /\ task[w].req.kind = "receive"
  /\ task' = [task EXCEPT ![w] = NoTask]
  /\ abandoned' = TRUE
  /\ UNCHANGED <<connector, link, keyboard, sem, flags, chat, inbox, reqs, bond, member,
                 kicking, events, unasked>>

-----------------------------------------------------------------------------
(* Other users. *)

Cause == events > 0 /\ events' = events - 1

\* Friend asks, blocks, deletes or becomes a friend again.
Change ==
  /\ bond' \in {"friend", "block", ""} \ {bond}
  /\ UNCHANGED <<connector, link, keyboard, sem, flags, chat, inbox, reqs, task, member,
                 kicking, events, abandoned, unasked>>

\* handleCheckBlock answers the user asked about as well.
OtherChecks ==
  /\ Cause /\ login_flag
  /\ \E u \in Users : Deliver([kind |-> "check", value |-> Between(u), asked |-> FALSE])
  /\ UNCHANGED <<connector, link, keyboard, sem, flags, chat, reqs, task, bond, member,
                 kicking, abandoned, unasked>>

\* handleKickSomeoneInGroup: the row, then the notice.
Kick ==
  /\ Cause /\ member /\ ~kicking
  /\ member' = FALSE /\ kicking' = TRUE
  /\ UNCHANGED <<connector, link, keyboard, sem, flags, chat, inbox, reqs, task, bond,
                 abandoned, unasked>>

KickNotice ==
  /\ kicking /\ kicking' = FALSE
  /\ IF login_flag THEN Deliver([kind |-> "notice", value |-> "", asked |-> FALSE])
                   ELSE UNCHANGED inbox
  /\ UNCHANGED <<connector, link, keyboard, sem, flags, chat, reqs, task, bond, member,
                 events, abandoned, unasked>>

\* The heartbeat gives the client up.
LongTime ==
  /\ Cause /\ link = "up" /\ login_flag
  /\ Deliver([kind |-> "exit", value |-> "", asked |-> FALSE])
  /\ UNCHANGED <<connector, link, keyboard, sem, flags, chat, reqs, task, bond, member,
                 kicking, abandoned, unasked>>

-----------------------------------------------------------------------------
Keyboard == Ask \/ ProceedToNext \/ ProceedToMenu \/ ProceedToChat \/ ProceedToGroup \/ EnterGroup
IO       == ReceiveList \/ ReceiveLogin \/ ReceiveCheck \/ ReceiveMember \/ ReceiveBlocked
            \/ ReceiveNotice \/ ReceiveExit
Work(w)  == Take(w) \/ Handle(w) \/ Answer(w)

Next ==
  /\ Running
  /\ \/ Connect \/ Attempt \/ Lose
     \/ Choose \/ Keyboard \/ LeaveChat \/ ExitChatRoom
     \/ IO
     \/ \E w \in Workers : Work(w) \/ Abandon(w)
     \/ Change \/ OtherChecks \/ Kick \/ KickNotice \/ LongTime

Spec == Init /\ [][Next]_vars

\* The threads go on; the user, the network and other users need not.
FairSpec ==
  /\ Spec
  /\ WF_vars(Running /\ Keyboard) /\ WF_vars(Running /\ IO) /\ WF_vars(Running /\ KickNotice)
  /\ \A w \in Workers : WF_vars(Running /\ Work(w))

-----------------------------------------------------------------------------
TypeOK ==
  /\ ConnectorTypeOK /\ link \in {"none", "up", "lost"}
  /\ pc \in {"menu", "ask", "wait", "chat", "entering", "group", "exited", "crashed"}
  /\ cmd \in Commands /\ step \in 1..Len(Script[cmd]) /\ target \in Users
  /\ sem \in [Kinds -> Nat]
  /\ reqs \in Seq(Requests) /\ inbox \in Seq(Messages) /\ task \in [Workers -> Tasks \cup {NoTask}]
  /\ {if_friend, if_block, if_group_member, login_flag, CurrentGroupChatId} \subseteq BOOLEAN
  /\ private_chat_id \in Users \cup {Nobody}
  /\ bond \in {"friend", "block", ""} /\ {member, kicking, abandoned} \subseteq BOOLEAN
  /\ events \in 0..MaxEvents /\ unasked \in Nat

\* The requests or answers of a kind in a queue that were asked for, and the
\* workers that have such a request.
Asked(queue, k) == Cardinality({i \in 1..Len(queue) : queue[i].kind = k /\ queue[i].asked})
With(k) == {w \in Workers : task[w] # NoTask /\ task[w].req.kind = k /\ task[w].req.asked}

\* Those that are queued, with a worker, or answered and under way.
InFlight(k) == Asked(reqs, k) + Cardinality(With(k)) + Asked(inbox, k)

Waiting(k) == IF pc = "wait" /\ Kind = k THEN 1 ELSE 0

\* While nothing was lost, every semaphore counts: what it holds and what is
\* still to be answered is what the keyboard thread waits for, so that it
\* never takes an old answer for a new one.  Only check_if_block is also
\* posted for answers that nobody waits for.
CreditBalance ==
  (link # "lost" /\ ~abandoned /\ Running) =>
    \A k \in Kinds :
      sem[k] + InFlight(k) = Waiting(k) + (IF k = "check" THEN unasked ELSE 0)

\* As long as no unasked CHECK_BLOCK has come, private chat is entered only
\* with a friend (privateChat after its second sem_wait).
ChatsWithFriends == pc = "chat" /\ unasked = 0 => target = Friend

\* A member kicked while it chats in the group gets out of the loop: the
\* notice clears if_group_member, and no late answer sets it again.
KickedLeaves ==
  (pc = "group" /\ kicking) ~> (~if_group_member \/ pc # "group" \/ link = "lost")

\* The keyboard thread does not wait for ever, unless the connection is lost
\* or the server gives a file up.
WaitsAnswered == pc = "wait" ~> (pc # "wait" \/ link = "lost" \/ abandoned)
=============================================================================
