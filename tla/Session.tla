------------------------------ MODULE Session ------------------------------
(***************************************************************************)
(* The session layer of the chat server: Service's three connection maps,  *)
(* the user table's online/offline column, the heartbeat, and the threads  *)
(* that touch them.  An IO thread delivers messages and close events, the  *)
(* pool's workers run the handlers, a timer runs checkIfConnAlive.  The    *)
(* IO threads and the heartbeat use m_connMutex; the handlers do not, so   *)
(* every map operation and every SQL statement of a handler is a step.     *)
(***************************************************************************)
EXTENDS Integers

CONSTANTS
  Users,     \* ids of the registered users (AUTO_INCREMENT, so positive)
  Conns,     \* connections the server may ever accept; a slot is used once
  Workers,   \* handler activations that may be pending or running at a time
  NoConn     \* "no entry" in m_userConnMap

ASSUME SessionAssumption ==
  /\ Users \subseteq Nat \ {0}
  /\ NoConn \notin Conns

Absent    == -1                 \* no entry in m_connUserMap; also "userId = -1"
DefaultId == 0                  \* what operator[] of m_connUserMap inserts
Ids       == Users \cup {DefaultId}

VARIABLES
  db,          \* user.state of each registered user
  userConn,    \* m_userConnMap
  connUser,    \* m_connUserMap
  status,      \* m_connStatusMap: TRUE is "alive", FALSE is "idle"
  sock,        \* connection life: new, up, closing (forceClose queued), down
  closeUser,   \* clientClose: the id whose state it still has to write
  uploading,   \* between SEND_FILE and SEND_FILE_END (the client sends nothing else)
  task,        \* what each worker is doing
  hb,          \* the running pass of checkIfConnAlive
  client,      \* what the peer does: out, wait (for a login reply), in, gone
  auth,        \* history: the user whose password was accepted on the connection
  heard        \* history: something arrived since the last heartbeat

maps == <<userConn, connUser, status>>
net  == <<sock, closeUser, uploading>>
env  == <<client, auth, heard>>
vars == <<db, maps, net, task, hb, env>>

IdleTask == [pc |-> "idle", conn |-> NoConn, user |-> Absent, dest |-> NoConn]
IdlePass == [pc |-> "idle", todo |-> {}, conn |-> NoConn, user |-> Absent]

TaskPC == {"idle", "login", "mapUser", "mapConn", "markAlive", "setOnline",
           "reply", "store", "lookup", "deliver",
           "recvKey", "recvErase", "stream", "recvFind", "recvRemap"}

TypeOK ==
  /\ db \in [Users -> {"online", "offline"}]
  /\ userConn \in [Ids -> Conns \cup {NoConn}]
  /\ connUser \in [Conns -> Ids \cup {Absent}]
  /\ status \in [Conns -> {"alive", "idle", "absent"}]
  /\ sock \in [Conns -> {"new", "up", "closing", "down"}]
  /\ closeUser \in [Conns -> Ids \cup {Absent}]
  /\ uploading \in [Conns -> BOOLEAN]
  /\ task \in [Workers -> [pc : TaskPC, conn : Conns \cup {NoConn},
                           user : Ids \cup {Absent}, dest : Conns \cup {NoConn}]]
  /\ hb \in [pc : {"idle", "drop", "erase", "offline"}, todo : SUBSET Conns,
             conn : Conns \cup {NoConn}, user : Ids \cup {Absent}]
  /\ client \in [Conns -> {"out", "wait", "in", "gone"}]
  /\ auth \in [Conns -> Users \cup {Absent}]
  /\ heard \in [Conns -> BOOLEAN]

Init ==
  /\ db = [u \in Users |-> "offline"]
  /\ userConn = [i \in Ids |-> NoConn]
  /\ connUser = [c \in Conns |-> Absent]
  /\ status = [c \in Conns |-> "absent"]
  /\ sock = [c \in Conns |-> "new"]
  /\ closeUser = [c \in Conns |-> Absent]
  /\ uploading = [c \in Conns |-> FALSE]
  /\ task = [w \in Workers |-> IdleTask]
  /\ hb = IdlePass
  /\ client = [c \in Conns |-> "out"]
  /\ auth = [c \in Conns |-> Absent]
  /\ heard = [c \in Conns |-> FALSE]

-----------------------------------------------------------------------------
(* Helpers.                                                                *)

\* The heartbeat holds m_connMutex for its whole pass.
MutexFree == hb.pc = "idle"

Readable(c) == sock[c] \in {"up", "closing"}

\* m_connUserMap[c] reads the entry and inserts 0 when there is none.
LookupId(c) == IF connUser[c] = Absent THEN DefaultId ELSE connUser[c]
TouchId(c)  == connUser' = [connUser EXCEPT ![c] = LookupId(c)]

SetStatus(c, s) == status' = [status EXCEPT ![c] = s]

At(w, pc)      == task[w].pc = pc
Goto(w, pc)    == task' = [task EXCEPT ![w].pc = pc]
Finish(w)      == task' = [task EXCEPT ![w] = IdleTask]
Spawn(w, pc, c, u) ==
  /\ At(w, "idle")
  /\ task' = [task EXCEPT ![w] = [IdleTask EXCEPT !.pc = pc, !.conn = c, !.user = u]]

\* query(id) then updateState: an id without a row updates nothing.
WriteState(id, s) ==
  db' = IF id \in Users THEN [db EXCEPT ![id] = s] ELSE db

-----------------------------------------------------------------------------
(* IO threads.                                                             *)

\* onConnection, connected branch: setConnStatus(conn, true).
Open(c) ==
  /\ sock[c] = "new" /\ MutexFree
  /\ sock' = [sock EXCEPT ![c] = "up"]
  /\ SetStatus(c, "alive")
  /\ heard' = [heard EXCEPT ![c] = TRUE]
  /\ UNCHANGED <<db, userConn, connUser, closeUser, uploading, task, hb, client, auth>>

\* Mutation: a message no longer refreshes the heartbeat flag.
MutDispatch(c, w, pc, u) ==
  /\ Readable(c) /\ ~uploading[c] /\ MutexFree
  /\ Spawn(w, pc, c, u)
  /\ heard' = [heard EXCEPT ![c] = TRUE]
  /\ UNCHANGED <<db, maps, net, hb, auth>>

\* onJsonMessage: mark the connection alive, hand the handler to a worker.
Dispatch(c, w, pc, u) ==
  /\ Readable(c) /\ ~uploading[c] /\ MutexFree
  /\ SetStatus(c, "alive")
  /\ Spawn(w, pc, c, u)
  /\ heard' = [heard EXCEPT ![c] = TRUE]
  /\ UNCHANGED <<db, userConn, connUser, net, hb, auth>>

ReceiveLogin(c, w, u) ==
  /\ client[c] = "out"
  /\ client' = [client EXCEPT ![c] = "wait"]
  /\ Dispatch(c, w, "login", u)

ReceiveChat(c, w, to) ==
  /\ client[c] = "in" /\ to # auth[c]       \* the client chats with friends only
  /\ Dispatch(c, w, "store", to)
  /\ UNCHANGED client

ReceiveFileRequest(c, w) ==
  /\ client[c] = "in"
  /\ Dispatch(c, w, "recvKey", Absent)
  /\ UNCHANGED client

\* SEND_FILE: the codec enters transfer mode and takes the connection out of
\* the heartbeat's map; SEND_FILE_END puts it back.
BeginUpload(c) ==
  /\ client[c] = "in" /\ Readable(c) /\ ~uploading[c] /\ MutexFree
  /\ uploading' = [uploading EXCEPT ![c] = TRUE]
  /\ SetStatus(c, "absent")
  /\ UNCHANGED <<db, userConn, connUser, sock, closeUser, task, hb, env>>

\* Mutation: the connection is not put back under the heartbeat.
MutEndUpload(c) ==
  /\ client[c] = "in" /\ Readable(c) /\ uploading[c] /\ MutexFree
  /\ uploading' = [uploading EXCEPT ![c] = FALSE]
  /\ heard' = [heard EXCEPT ![c] = TRUE]
  /\ UNCHANGED <<db, maps, sock, closeUser, task, hb, client, auth>>

EndUpload(c) ==
  /\ client[c] = "in" /\ Readable(c) /\ uploading[c] /\ MutexFree
  /\ uploading' = [uploading EXCEPT ![c] = FALSE]
  /\ SetStatus(c, "alive")
  /\ heard' = [heard EXCEPT ![c] = TRUE]
  /\ UNCHANGED <<db, userConn, connUser, sock, closeUser, task, hb, client, auth>>

\* clientClose, the block under m_connMutex.  What the codec and the peer
\* keep for a connection is never consulted again once it is down.
CloseConn(c) ==
  /\ Readable(c) /\ MutexFree
  /\ sock' = [sock EXCEPT ![c] = "down"]
  /\ SetStatus(c, "absent")
  /\ uploading' = [uploading EXCEPT ![c] = FALSE]
  /\ client' = [client EXCEPT ![c] = "gone"]
  /\ heard' = [heard EXCEPT ![c] = FALSE]
  /\ IF connUser[c] # Absent
       THEN /\ connUser' = [connUser EXCEPT ![c] = Absent]
            /\ userConn' = [userConn EXCEPT ![connUser[c]] = NoConn]
            /\ closeUser' = [closeUser EXCEPT ![c] = connUser[c]]
       ELSE UNCHANGED <<connUser, userConn, closeUser>>
  /\ UNCHANGED <<db, task, hb, auth>>

\* clientClose, the state update after the mutex is released.
CloseOffline(c) ==
  /\ closeUser[c] # Absent
  /\ WriteState(closeUser[c], "offline")
  /\ closeUser' = [closeUser EXCEPT ![c] = Absent]
  /\ UNCHANGED <<maps, sock, uploading, task, hb, env>>

\* The peer's machine vanishes: no more bytes, and no FIN either.
PeerVanish(c) ==
  /\ Readable(c) /\ client[c] # "gone"
  /\ client' = [client EXCEPT ![c] = "gone"]
  /\ UNCHANGED <<db, maps, net, task, hb, auth, heard>>

-----------------------------------------------------------------------------
(* Service::login on a worker.                                             *)

\* Mutation: only the state is looked at, not the password.
MutLoginQuery(w) ==
  LET c == task[w].conn
      u == task[w].user
  IN  /\ At(w, "login") /\ db[u] = "offline"
      /\ \/ auth' = [auth EXCEPT ![c] = u]
         \/ UNCHANGED auth
      /\ Goto(w, "mapUser")
      /\ UNCHANGED <<db, maps, net, hb, client, heard>>

LoginQuery(w) ==
  LET c == task[w].conn
      u == task[w].user
      refuse == /\ client' = [client EXCEPT ![c] = IF @ = "wait" THEN "out" ELSE @]
                /\ Finish(w)
                /\ UNCHANGED auth
  IN  /\ At(w, "login")
      /\ \/ refuse                                     \* LOGIN_FAIL: wrong password
         \/ db[u] = "online" /\ refuse                 \* LOGIN_REPEAT
         \/ /\ db[u] = "offline"
            /\ auth' = [auth EXCEPT ![c] = u]
            /\ Goto(w, "mapUser")
            /\ UNCHANGED client
      /\ UNCHANGED <<db, maps, net, hb, heard>>

LoginMapUser(w) ==
  /\ At(w, "mapUser")
  /\ userConn' = [userConn EXCEPT ![task[w].user] = task[w].conn]
  /\ Goto(w, "mapConn")
  /\ UNCHANGED <<db, connUser, status, net, hb, env>>

LoginMapConn(w) ==
  /\ At(w, "mapConn")
  /\ connUser' = [connUser EXCEPT ![task[w].conn] = task[w].user]
  /\ Goto(w, "markAlive")
  /\ UNCHANGED <<db, userConn, status, net, hb, env>>

LoginMarkAlive(w) ==
  /\ At(w, "markAlive")
  /\ SetStatus(task[w].conn, "alive")
  /\ Goto(w, "setOnline")
  /\ UNCHANGED <<db, userConn, connUser, net, hb, env>>

LoginSetOnline(w) ==
  /\ At(w, "setOnline")
  /\ WriteState(task[w].user, "online")
  /\ Goto(w, "reply")
  /\ UNCHANGED <<maps, net, hb, env>>

\* LOGIN_SUCCESS; the friends' FRIEND_ONLINE notices change no state.
LoginReply(w) ==
  /\ At(w, "reply")
  /\ client' = [client EXCEPT ![task[w].conn] = IF @ = "wait" THEN "in" ELSE @]
  /\ Finish(w)
  /\ UNCHANGED <<db, maps, net, hb, auth, heard>>

Login(w) ==
  \/ LoginQuery(w) \/ LoginMapUser(w) \/ LoginMapConn(w)
  \/ LoginMarkAlive(w) \/ LoginSetOnline(w) \/ LoginReply(w)

-----------------------------------------------------------------------------
(* Service::handlePrivateChat: the sender's id is read when the handler    *)
(* runs, the receiver's connection is looked up, then written to.          *)

ChatStore(w) ==
  /\ At(w, "store")
  /\ TouchId(task[w].conn)
  /\ Goto(w, "lookup")
  /\ UNCHANGED <<db, userConn, status, net, hb, env>>

ChatLookup(w) ==
  /\ At(w, "lookup")
  /\ IF userConn[task[w].user] = NoConn
       THEN Finish(w)
       ELSE task' = [task EXCEPT ![w].pc = "deliver",
                                 ![w].dest = userConn[task[w].user]]
  /\ UNCHANGED <<db, maps, net, hb, env>>

ChatDeliver(w) ==
  /\ At(w, "deliver")
  /\ Finish(w)
  /\ UNCHANGED <<db, maps, net, hb, env>>

Chat(w) == ChatStore(w) \/ ChatLookup(w) \/ ChatDeliver(w)

-----------------------------------------------------------------------------
(* Service::handleReceiveFile: the user is taken out of m_userConnMap while *)
(* the file is streamed and put back after it.                             *)

RecvKey(w) ==
  /\ At(w, "recvKey")
  /\ \/ /\ Finish(w)                          \* open or fstat failed
        /\ UNCHANGED connUser
     \/ /\ TouchId(task[w].conn)
        /\ task' = [task EXCEPT ![w].pc = "recvErase",
                                ![w].user = LookupId(task[w].conn)]
  /\ UNCHANGED <<db, userConn, status, net, hb, env>>

RecvErase(w) ==
  /\ At(w, "recvErase")
  /\ userConn' = [userConn EXCEPT ![task[w].user] = NoConn]
  /\ Goto(w, "stream")
  /\ UNCHANGED <<db, connUser, status, net, hb, env>>

\* sendfile runs to its end, or an error return leaves the user unmapped.
RecvStream(w) ==
  /\ At(w, "stream")
  /\ Goto(w, "recvFind") \/ Finish(w)
  /\ UNCHANGED <<db, maps, net, hb, env>>

RecvFind(w) ==
  /\ At(w, "recvFind")
  /\ TouchId(task[w].conn)
  /\ task' = [task EXCEPT ![w].pc = "recvRemap",
                          ![w].user = LookupId(task[w].conn)]
  /\ UNCHANGED <<db, userConn, status, net, hb, env>>

RecvRemap(w) ==
  /\ At(w, "recvRemap")
  /\ userConn' = [userConn EXCEPT ![task[w].user] = task[w].conn]
  /\ Finish(w)
  /\ UNCHANGED <<db, connUser, status, net, hb, env>>

SendFile(w) ==
  RecvKey(w) \/ RecvErase(w) \/ RecvStream(w) \/ RecvFind(w) \/ RecvRemap(w)

-----------------------------------------------------------------------------
(* Service::checkIfConnAlive, every 300 s on an IO loop.                   *)

\* One pass over m_connStatusMap: idle connections are condemned, the flags
\* of the others are lowered.
HeartbeatTick ==
  LET doomed == {c \in Conns : status[c] = "idle"}
  IN  /\ MutexFree
      /\ hb' = IF doomed = {} THEN hb ELSE [hb EXCEPT !.pc = "drop", !.todo = doomed]
      /\ status' = [c \in Conns |-> IF status[c] = "alive" THEN "idle" ELSE status[c]]
      /\ heard' = [c \in Conns |-> FALSE]
      /\ UNCHANGED <<db, userConn, connUser, net, task, client, auth>>

\* Mutation: the maps are cleared without closing the connection first.
MutHeartbeatDrop(c) ==
  /\ hb.pc = "drop" /\ c \in hb.todo
  /\ hb' = [pc |-> "erase", todo |-> hb.todo \ {c}, conn |-> c, user |-> LookupId(c)]
  /\ TouchId(c)
  /\ UNCHANGED <<db, userConn, status, net, task, env>>

\* The id is read (and inserted), the notice sent, forceClose queued.
HeartbeatDrop(c) ==
  /\ hb.pc = "drop" /\ c \in hb.todo
  /\ hb' = [pc |-> "erase", todo |-> hb.todo \ {c}, conn |-> c, user |-> LookupId(c)]
  /\ TouchId(c)
  /\ sock' = [sock EXCEPT ![c] = IF @ = "up" THEN "closing" ELSE @]
  /\ UNCHANGED <<db, userConn, status, closeUser, uploading, task, env>>

HeartbeatErase ==
  /\ hb.pc = "erase"
  /\ userConn' = [userConn EXCEPT ![hb.user] = NoConn]
  /\ connUser' = [connUser EXCEPT ![hb.conn] = Absent]
  /\ SetStatus(hb.conn, "absent")
  /\ hb' = [hb EXCEPT !.pc = "offline"]
  /\ UNCHANGED <<db, net, task, env>>

\* Mutation: the pass forgets the account's state.
MutHeartbeatOffline ==
  /\ hb.pc = "offline"
  /\ hb' = IF hb.todo = {} THEN IdlePass
           ELSE [IdlePass EXCEPT !.pc = "drop", !.todo = hb.todo]
  /\ UNCHANGED <<db, maps, net, task, env>>

HeartbeatOffline ==
  /\ hb.pc = "offline"
  /\ WriteState(hb.user, "offline")
  /\ hb' = IF hb.todo = {} THEN IdlePass
           ELSE [IdlePass EXCEPT !.pc = "drop", !.todo = hb.todo]
  /\ UNCHANGED <<maps, net, task, env>>

HeartbeatPass == (\E c \in Conns : HeartbeatDrop(c)) \/ HeartbeatErase \/ HeartbeatOffline

-----------------------------------------------------------------------------
\* The process ends (SIGINT's reset and exit, or a crash) and a new one runs
\* UserstateInit before it listens: nothing in memory survives.
Restart ==
  /\ db' = [u \in Users |-> "offline"]
  /\ userConn' = [i \in Ids |-> NoConn]
  /\ connUser' = [c \in Conns |-> Absent]
  /\ status' = [c \in Conns |-> "absent"]
  /\ sock' = [c \in Conns |-> IF sock[c] = "new" THEN "new" ELSE "down"]
  /\ closeUser' = [c \in Conns |-> Absent]
  /\ uploading' = [c \in Conns |-> FALSE]
  /\ task' = [w \in Workers |-> IdleTask]
  /\ hb' = IdlePass
  /\ client' = [c \in Conns |-> IF sock[c] = "new" THEN client[c] ELSE "gone"]
  /\ heard' = [c \in Conns |-> FALSE]
  /\ UNCHANGED auth

IOStep(c) ==
  \/ Open(c) \/ BeginUpload(c) \/ EndUpload(c)
  \/ CloseConn(c) \/ CloseOffline(c) \/ PeerVanish(c)
  \/ \E w \in Workers : \/ \E u \in Users : ReceiveLogin(c, w, u) \/ ReceiveChat(c, w, u)
                        \/ ReceiveFileRequest(c, w)

WorkerStep(w) == Login(w) \/ Chat(w) \/ SendFile(w)

Next ==
  \/ \E c \in Conns : IOStep(c)
  \/ \E w \in Workers : WorkerStep(w)
  \/ HeartbeatTick \/ HeartbeatPass
  \/ Restart

Spec == Init /\ [][Next]_vars

\* Every thread that can run is scheduled; the timer keeps firing; a queued
\* forceClose and the state update after a close are carried out.  The mutex
\* is free between passes, so a close that waits for it gets it.
FairSpec ==
  /\ Spec
  /\ \A w \in Workers : WF_vars(WorkerStep(w))
  /\ WF_vars(HeartbeatTick) /\ WF_vars(HeartbeatPass)
  /\ \A c \in Conns : /\ SF_vars(sock[c] = "closing" /\ CloseConn(c))
                      /\ WF_vars(CloseOffline(c))

-----------------------------------------------------------------------------
(* Properties.                                                             *)

\* Whatever handlers, closes and heartbeats interleave, m_userConnMap leads a
\* user's messages only to a connection on which that user's password was
\* accepted (login :149, handleReceiveFile :989).
RoutedToOwner ==
  \A u \in Users : userConn[u] # NoConn => auth[userConn[u]] = u

\* m_connUserMap never takes a connection for another user's; at worst a late
\* handler finds the id 0 that operator[] inserts.  While the connection is
\* up, a logged-in client's messages are stored under its own id: the
\* heartbeat queues the close before it forgets the id (:1087-1090).
SenderAttributed ==
  \A c \in Conns :
    /\ connUser[c] \in {Absent, DefaultId, auth[c]}
    /\ sock[c] = "up" /\ client[c] = "in" => connUser[c] = auth[c]

\* The heartbeat watches an open connection exactly when no upload is running
\* on it ("防止心跳超时", ServerJsonCodec.h :64 and :74): an upload is never cut
\* for silence, and nothing else escapes the timeout.
WatchedUnlessUploading ==
  \A c \in Conns : sock[c] = "up" => (status[c] = "absent" <=> uploading[c])

\* checkIfConnAlive condemns only connections it has not heard from since its
\* previous pass.
HeardNotDropped ==
  [][\A c \in Conns : c \in hb'.todo \ hb.todo => ~heard[c]]_vars

\* A peer that vanished without a FIN loses its connection after at most two
\* heartbeats, unless it vanished in the middle of an upload.
SilentPeerDropped ==
  \A c \in Conns :
    (client[c] = "gone" /\ sock[c] = "up" /\ ~uploading[c]) ~> (sock[c] = "down")

\* A login that completed after its connection was closed leaves a session
\* with no peer; the heartbeat finds it and frees the account.
LateLoginRepaired ==
  \A c \in Conns, u \in Users :
    (sock[c] = "down" /\ connUser[c] = u /\ status[c] # "absent")
      ~> (db[u] = "offline")

\* "处理客户端异常退出 ... 更新用户的状态信息" (service.cc :1100, :1122): once a
\* client's connection is gone, its account does not stay online for good.
ClosedUserGoesOffline ==
  \A c \in Conns, u \in Users :
    (sock[c] = "down" /\ auth[c] = u)
      ~> (db[u] = "offline" \/ \E d \in Conns : d # c /\ auth[d] = u)
=============================================================================
