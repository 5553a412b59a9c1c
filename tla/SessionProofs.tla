--------------------------- MODULE SessionProofs ---------------------------
(***************************************************************************)
(* Proofs about Session, for any number of users, connections and workers. *)
(* The safety properties are not inductive: whether a login may still      *)
(* write a connection's id depends on what its client was told, so IInv    *)
(* ties the running tasks, the client's phase and the accepted password.   *)
(***************************************************************************)
EXTENDS Session, TLAPS

LoginPC == {"login", "mapUser", "mapConn", "markAlive", "setOnline", "reply"}
ChatPC  == {"store", "lookup", "deliver"}
RecvPC  == {"recvKey", "recvErase", "stream", "recvFind", "recvRemap"}

LoggingIn(w, c) == task[w].pc \in LoginPC /\ task[w].conn = c

\* What a running task knows of its connection and its user.
TaskOK ==
  \A w \in Workers : task[w].pc # "idle" =>
    /\ task[w].conn \in Conns
    /\ sock[task[w].conn] # "new"
    /\ task[w].pc \in LoginPC => task[w].user \in Users
    /\ task[w].pc = "login" => auth[task[w].conn] = Absent
    /\ task[w].pc \in LoginPC \ {"login"} => auth[task[w].conn] = task[w].user
    /\ task[w].pc \in ChatPC => task[w].user \in Users
    /\ task[w].pc \in RecvPC => auth[task[w].conn] \in Users
    /\ task[w].pc \in {"recvErase", "recvRemap"}
         => task[w].user \in {DefaultId, auth[task[w].conn]}

\* A client has at most one login under way, and none before it asks for one,
\* after it was let in, or while it uploads.
OneLogin ==
  /\ \A v, w \in Workers, c \in Conns : LoggingIn(v, c) /\ LoggingIn(w, c) => v = w
  /\ \A c \in Conns, w \in Workers :
       client[c] \in {"out", "in"} \/ uploading[c] => ~LoggingIn(w, c)

ClientOK ==
  \A c \in Conns :
    /\ sock[c] = "new" => client[c] = "out" /\ status[c] = "absent" /\ ~uploading[c]
    /\ client[c] = "out" => auth[c] = Absent
    /\ client[c] = "in" => auth[c] \in Users

\* A login that has written the id can count on it while the connection is up.
IdKept ==
  \A w \in Workers :
    task[w].pc \in {"markAlive", "setOnline", "reply"} /\ sock[task[w].conn] = "up"
      => connUser[task[w].conn] = task[w].user

PassOK ==
  /\ \A c \in hb.todo : sock[c] # "new"
  /\ hb.pc \in {"erase", "offline"} =>
       hb.conn \in Conns /\ hb.user \in Ids /\ sock[hb.conn] \in {"closing", "down"}

IInv ==
  /\ TypeOK /\ RoutedToOwner /\ SenderAttributed /\ WatchedUnlessUploading
  /\ TaskOK /\ OneLogin /\ ClientOK /\ IdKept /\ PassOK

USE SessionAssumption DEF Absent, DefaultId, Ids, IdleTask, IdlePass, TaskPC,
    LoginPC, ChatPC, RecvPC, maps, net, env, IInv

-----------------------------------------------------------------------------
(* Every step keeps IInv: one lemma per action.                            *)

\* A new connection (onConnection) starts under the heartbeat and with no session.
LEMMA OpenInv ==
  ASSUME NEW c \in Conns, IInv, Open(c)
  PROVE  IInv'
<1> USE DEF Open, SetStatus
<1>1. TypeOK'
  BY DEF TypeOK
<1>2. SenderAttributed'
  BY DEF SenderAttributed, ClientOK
<1>3. WatchedUnlessUploading'
  BY DEF TypeOK, WatchedUnlessUploading, ClientOK
<1>4. TaskOK'
  BY DEF TaskOK
<1>5. ClientOK'
  BY DEF TypeOK, ClientOK
<1>6. IdKept'
  BY DEF IdKept, TaskOK
<1>7. PassOK'
  BY DEF PassOK
<1>8. (RoutedToOwner /\ OneLogin)'
  BY DEF RoutedToOwner, OneLogin, LoggingIn
<1> QED
  BY <1>1, <1>2, <1>3, <1>4, <1>5, <1>6, <1>7, <1>8

\* A login request starts the connection's only login.
LEMMA ReceiveLoginInv ==
  ASSUME NEW c \in Conns, NEW w \in Workers, NEW u \in Users, IInv, ReceiveLogin(c, w, u)
  PROVE  IInv'
<1> USE DEF ReceiveLogin, Dispatch, SetStatus, Spawn, At, Readable, MutexFree
<1>1. TypeOK'
  BY DEF TypeOK
<1>2. SenderAttributed'
  BY DEF SenderAttributed
<1>3. WatchedUnlessUploading'
  BY DEF WatchedUnlessUploading
<1>4. TaskOK'
  BY DEF TaskOK, ClientOK
<1>5. OneLogin'
  BY DEF TypeOK, OneLogin, LoggingIn
<1>6. ClientOK'
  BY DEF ClientOK
<1>7. IdKept'
  BY DEF IdKept
<1>8. (RoutedToOwner /\ PassOK)'
  BY DEF RoutedToOwner, PassOK
<1> QED
  BY <1>1, <1>2, <1>3, <1>4, <1>5, <1>6, <1>7, <1>8

\* A chat request leaves the maps to its worker.
LEMMA ReceiveChatInv ==
  ASSUME NEW c \in Conns, NEW w \in Workers, NEW u \in Users, IInv, ReceiveChat(c, w, u)
  PROVE  IInv'
<1> USE DEF ReceiveChat, Dispatch, SetStatus, Spawn, At, Readable, MutexFree
<1>1. TypeOK'
  BY DEF TypeOK
<1>2. WatchedUnlessUploading'
  BY DEF WatchedUnlessUploading
<1>3. TaskOK'
  BY DEF TaskOK
<1>4. OneLogin'
  BY DEF OneLogin, LoggingIn
<1>5. ClientOK'
  BY DEF ClientOK
<1>6. IdKept'
  BY DEF IdKept
<1>7. (RoutedToOwner /\ SenderAttributed /\ PassOK)'
  BY DEF RoutedToOwner, SenderAttributed, PassOK
<1> QED
  BY <1>1, <1>2, <1>3, <1>4, <1>5, <1>6, <1>7

\* A file request comes from a client that was let in.
LEMMA ReceiveFileRequestInv ==
  ASSUME NEW c \in Conns, NEW w \in Workers, IInv, ReceiveFileRequest(c, w)
  PROVE  IInv'
<1> USE DEF ReceiveFileRequest, Dispatch, SetStatus, Spawn, At, Readable, MutexFree
<1>1. TypeOK'
  BY DEF TypeOK
<1>2. WatchedUnlessUploading'
  BY DEF WatchedUnlessUploading
<1>3. TaskOK'
  BY DEF TaskOK, ClientOK
<1>4. OneLogin'
  BY DEF OneLogin, LoggingIn
<1>5. ClientOK'
  BY DEF ClientOK
<1>6. IdKept'
  BY DEF IdKept
<1>7. (RoutedToOwner /\ SenderAttributed /\ PassOK)'
  BY DEF RoutedToOwner, SenderAttributed, PassOK
<1> QED
  BY <1>1, <1>2, <1>3, <1>4, <1>5, <1>6, <1>7

\* An upload starts (SEND_FILE) with no login under way, so nothing re-adds the status.
LEMMA BeginUploadInv ==
  ASSUME NEW c \in Conns, IInv, BeginUpload(c)
  PROVE  IInv'
<1> USE DEF BeginUpload, SetStatus, Readable
<1>1. TypeOK'
  BY DEF TypeOK
<1>2. WatchedUnlessUploading'
  BY DEF TypeOK, WatchedUnlessUploading
<1>3. OneLogin'
  BY DEF OneLogin, LoggingIn
<1>4. ClientOK'
  BY DEF ClientOK
<1>5. (RoutedToOwner /\ SenderAttributed /\ TaskOK /\ IdKept /\ PassOK)'
  BY DEF RoutedToOwner, SenderAttributed, TaskOK, IdKept, PassOK
<1> QED
  BY <1>1, <1>2, <1>3, <1>4, <1>5

\* The end of an upload puts the connection back under the heartbeat.
LEMMA EndUploadInv ==
  ASSUME NEW c \in Conns, IInv, EndUpload(c)
  PROVE  IInv'
<1> USE DEF EndUpload, SetStatus, Readable
<1>1. TypeOK'
  BY DEF TypeOK
<1>2. WatchedUnlessUploading'
  BY DEF TypeOK, WatchedUnlessUploading
<1>3. OneLogin'
  BY DEF OneLogin, LoggingIn
<1>4. ClientOK'
  BY DEF ClientOK
<1>5. (RoutedToOwner /\ SenderAttributed /\ TaskOK /\ IdKept /\ PassOK)'
  BY DEF RoutedToOwner, SenderAttributed, TaskOK, IdKept, PassOK
<1> QED
  BY <1>1, <1>2, <1>3, <1>4, <1>5

\* clientClose forgets the connection and its user in one locked block.
LEMMA CloseConnInv ==
  ASSUME NEW c \in Conns, IInv, CloseConn(c)
  PROVE  IInv'
<1> USE DEF CloseConn, SetStatus, Readable
<1>1. TypeOK'
  BY DEF TypeOK
<1>2. RoutedToOwner'
  BY DEF TypeOK, RoutedToOwner
<1>3. SenderAttributed'
  BY DEF TypeOK, SenderAttributed
<1>4. WatchedUnlessUploading'
  BY DEF TypeOK, WatchedUnlessUploading
<1>5. TaskOK'
  BY DEF TaskOK
<1>6. OneLogin'
  BY DEF OneLogin, LoggingIn
<1>7. ClientOK'
  BY DEF ClientOK
<1>8. IdKept'
  BY DEF TypeOK, IdKept, TaskOK, LoggingIn
<1>9. PassOK'
  BY DEF PassOK
<1> QED
  BY <1>1, <1>2, <1>3, <1>4, <1>5, <1>6, <1>7, <1>8, <1>9

\* clientClose's late database write touches none of the maps.
LEMMA CloseOfflineInv ==
  ASSUME NEW c \in Conns, IInv, CloseOffline(c)
  PROVE  IInv'
<1> USE DEF CloseOffline, WriteState
<1>1. TypeOK'
  BY DEF TypeOK
<1>2. (/\ RoutedToOwner /\ SenderAttributed /\ WatchedUnlessUploading
        /\ TaskOK /\ OneLogin /\ ClientOK /\ IdKept /\ PassOK)'
  BY DEF RoutedToOwner, SenderAttributed, WatchedUnlessUploading, TaskOK, OneLogin,
         ClientOK, IdKept, PassOK, LoggingIn
<1> QED
  BY <1>1, <1>2

\* A peer that vanishes leaves the server's state as it is.
LEMMA PeerVanishInv ==
  ASSUME NEW c \in Conns, IInv, PeerVanish(c)
  PROVE  IInv'
<1> USE DEF PeerVanish, Readable
<1>1. TypeOK'
  BY DEF TypeOK
<1>2. SenderAttributed'
  BY DEF SenderAttributed
<1>3. OneLogin'
  BY DEF OneLogin, LoggingIn
<1>4. ClientOK'
  BY DEF ClientOK
<1>5. (RoutedToOwner /\ WatchedUnlessUploading /\ TaskOK /\ IdKept /\ PassOK)'
  BY DEF RoutedToOwner, WatchedUnlessUploading, TaskOK, IdKept, PassOK
<1> QED
  BY <1>1, <1>2, <1>3, <1>4, <1>5

\* Only the query's success ties the connection to a user.
LEMMA LoginQueryInv ==
  ASSUME NEW w \in Workers, IInv, LoginQuery(w)
  PROVE  IInv'
<1> USE DEF LoginQuery, Finish, Goto, At
<1>1. TypeOK'
  BY DEF TypeOK, TaskOK
<1>2. RoutedToOwner'
  BY DEF TypeOK, RoutedToOwner, TaskOK
<1>3. SenderAttributed'
  BY DEF TypeOK, SenderAttributed, TaskOK, ClientOK
<1>4. TaskOK'
  <2>1. \A v \in Workers : v # w /\ task[v].pc \in LoginPC => task[v].conn # task[w].conn
    BY DEF TaskOK, OneLogin, LoggingIn
  <2>2. CASE auth' = auth
    BY <2>2 DEF TypeOK, TaskOK
  <2>3. CASE auth' = [auth EXCEPT ![task[w].conn] = task[w].user] /\ Goto(w, "mapUser")
    <3>1. auth[task[w].conn] = Absent /\ task[w].user \in Users /\ task[w].conn \in Conns
      BY DEF TaskOK
    <3>2. \A v \in Workers : task[v].pc \in RecvPC => task[v].conn # task[w].conn
      BY <3>1 DEF TaskOK
    <3> QED
      BY <2>1, <2>3, <3>1, <3>2 DEF TypeOK, TaskOK
  <2> QED
    BY <2>2, <2>3
<1>5. OneLogin'
  BY DEF TypeOK, OneLogin, LoggingIn
<1>6. ClientOK'
  BY DEF TypeOK, ClientOK, TaskOK, OneLogin, LoggingIn
<1>7. IdKept'
  BY DEF TypeOK, IdKept, TaskOK
<1>8. (WatchedUnlessUploading /\ PassOK)'
  BY DEF WatchedUnlessUploading, PassOK
<1> QED
  BY <1>1, <1>2, <1>3, <1>4, <1>5, <1>6, <1>7, <1>8

\* login :149 maps the user to the connection that gave its password.
LEMMA LoginMapUserInv ==
  ASSUME NEW w \in Workers, IInv, LoginMapUser(w)
  PROVE  IInv'
<1> USE DEF LoginMapUser, Goto, At
<1>1. TypeOK'
  BY DEF TypeOK, TaskOK
<1>2. RoutedToOwner'
  BY DEF RoutedToOwner, TaskOK
<1>3. TaskOK'
  BY DEF TaskOK
<1>4. OneLogin'
  BY DEF OneLogin, LoggingIn
<1>5. IdKept'
  BY DEF IdKept
<1>6. (SenderAttributed /\ WatchedUnlessUploading /\ ClientOK /\ PassOK)'
  BY DEF SenderAttributed, WatchedUnlessUploading, ClientOK, PassOK
<1> QED
  BY <1>1, <1>2, <1>3, <1>4, <1>5, <1>6

\* login :150 maps the connection to the user whose password it gave.
LEMMA LoginMapConnInv ==
  ASSUME NEW w \in Workers, IInv, LoginMapConn(w)
  PROVE  IInv'
<1> USE DEF LoginMapConn, Goto, At
<1>1. TypeOK'
  BY DEF TypeOK, TaskOK
<1>2. SenderAttributed'
  BY DEF SenderAttributed, TaskOK
<1>3. TaskOK'
  BY DEF TaskOK
<1>4. OneLogin'
  BY DEF OneLogin, LoggingIn
<1>5. IdKept'
  BY DEF TypeOK, IdKept, TaskOK
<1>6. (RoutedToOwner /\ WatchedUnlessUploading /\ ClientOK /\ PassOK)'
  BY DEF RoutedToOwner, WatchedUnlessUploading, ClientOK, PassOK
<1> QED
  BY <1>1, <1>2, <1>3, <1>4, <1>5, <1>6

\* login :151 cannot meet an upload on its own connection.
LEMMA LoginMarkAliveInv ==
  ASSUME NEW w \in Workers, IInv, LoginMarkAlive(w)
  PROVE  IInv'
<1> USE DEF LoginMarkAlive, Goto, At, SetStatus
<1>1. TypeOK'
  BY DEF TypeOK, TaskOK
<1>2. WatchedUnlessUploading'
  BY DEF WatchedUnlessUploading, OneLogin, LoggingIn
<1>3. TaskOK'
  BY DEF TaskOK
<1>4. OneLogin'
  BY DEF OneLogin, LoggingIn
<1>5. ClientOK'
  BY DEF ClientOK, TaskOK
<1>6. IdKept'
  BY DEF IdKept
<1>7. (RoutedToOwner /\ SenderAttributed /\ PassOK)'
  BY DEF RoutedToOwner, SenderAttributed, PassOK
<1> QED
  BY <1>1, <1>2, <1>3, <1>4, <1>5, <1>6, <1>7

\* login :154 writes the user's row and nothing else.
LEMMA LoginSetOnlineInv ==
  ASSUME NEW w \in Workers, IInv, LoginSetOnline(w)
  PROVE  IInv'
<1> USE DEF LoginSetOnline, Goto, At, WriteState
<1>1. TypeOK'
  BY DEF TypeOK
<1>2. TaskOK'
  BY DEF TaskOK
<1>3. OneLogin'
  BY DEF OneLogin, LoggingIn
<1>4. IdKept'
  BY DEF IdKept
<1>5. (RoutedToOwner /\ SenderAttributed /\ WatchedUnlessUploading /\ ClientOK /\ PassOK)'
  BY DEF RoutedToOwner, SenderAttributed, WatchedUnlessUploading, ClientOK, PassOK
<1> QED
  BY <1>1, <1>2, <1>3, <1>4, <1>5

\* The client is told of its success after the maps are written.
LEMMA LoginReplyInv ==
  ASSUME NEW w \in Workers, IInv, LoginReply(w)
  PROVE  IInv'
<1> USE DEF LoginReply, Finish, At
<1>1. TypeOK'
  BY DEF TypeOK
<1>2. SenderAttributed'
  BY DEF SenderAttributed, TaskOK, IdKept
<1>3. TaskOK'
  BY DEF TaskOK
<1>4. OneLogin'
  BY DEF TypeOK, OneLogin, LoggingIn
<1>5. ClientOK'
  BY DEF ClientOK, TaskOK
<1>6. IdKept'
  BY DEF IdKept
<1>7. (RoutedToOwner /\ WatchedUnlessUploading /\ PassOK)'
  BY DEF RoutedToOwner, WatchedUnlessUploading, PassOK
<1> QED
  BY <1>1, <1>2, <1>3, <1>4, <1>5, <1>6, <1>7

\* Reading the sender's id may insert 0 for a closed connection.
LEMMA ChatStoreInv ==
  ASSUME NEW w \in Workers, IInv, ChatStore(w)
  PROVE  IInv'
<1> USE DEF ChatStore, Goto, At, TouchId, LookupId
<1>1. TypeOK'
  BY DEF TypeOK, TaskOK
<1>2. SenderAttributed'
  BY DEF SenderAttributed, ClientOK
<1>3. TaskOK'
  BY DEF TaskOK
<1>4. OneLogin'
  BY DEF OneLogin, LoggingIn
<1>5. IdKept'
  BY DEF IdKept, TaskOK
<1>6. (RoutedToOwner /\ WatchedUnlessUploading /\ ClientOK /\ PassOK)'
  BY DEF RoutedToOwner, WatchedUnlessUploading, ClientOK, PassOK
<1> QED
  BY <1>1, <1>2, <1>3, <1>4, <1>5, <1>6

\* The receiver's connection is looked up without changing the maps.
LEMMA ChatLookupInv ==
  ASSUME NEW w \in Workers, IInv, ChatLookup(w)
  PROVE  IInv'
<1> USE DEF ChatLookup, Finish, At
<1>1. TypeOK'
  BY DEF TypeOK, TaskOK
<1>2. TaskOK'
  BY DEF TypeOK, TaskOK, ClientOK, SenderAttributed
<1>3. OneLogin'
  <2>1. \A v \in Workers, c \in Conns : LoggingIn(v, c)' => LoggingIn(v, c)
    BY DEF TypeOK, LoggingIn
  <2> QED
    BY <2>1 DEF OneLogin
<1>4. IdKept'
  BY DEF TypeOK, IdKept, OneLogin, LoggingIn
<1>5. (RoutedToOwner /\ SenderAttributed /\ WatchedUnlessUploading /\ ClientOK /\ PassOK)'
  BY DEF RoutedToOwner, SenderAttributed, WatchedUnlessUploading, ClientOK, PassOK
<1> QED
  BY <1>1, <1>2, <1>3, <1>4, <1>5

\* Delivering a message changes no state.
LEMMA ChatDeliverInv ==
  ASSUME NEW w \in Workers, IInv, ChatDeliver(w)
  PROVE  IInv'
<1> USE DEF ChatDeliver, Finish, At
<1>1. TypeOK'
  BY DEF TypeOK
<1>2. TaskOK'
  BY DEF TaskOK
<1>3. OneLogin'
  BY DEF OneLogin, LoggingIn
<1>4. IdKept'
  BY DEF IdKept
<1>5. (RoutedToOwner /\ SenderAttributed /\ WatchedUnlessUploading /\ ClientOK /\ PassOK)'
  BY DEF RoutedToOwner, SenderAttributed, WatchedUnlessUploading, ClientOK, PassOK
<1> QED
  BY <1>1, <1>2, <1>3, <1>4, <1>5

\* handleReceiveFile :931 reads its own user, or 0 after a close.
LEMMA RecvKeyInv ==
  ASSUME NEW w \in Workers, IInv, RecvKey(w)
  PROVE  IInv'
<1> USE DEF RecvKey, Finish, At, TouchId, LookupId
<1>1. TypeOK'
  BY DEF TypeOK
<1>2. SenderAttributed'
  BY DEF TypeOK, SenderAttributed, TaskOK
<1>3. TaskOK'
  BY DEF TypeOK, TaskOK, ClientOK, SenderAttributed
<1>4. OneLogin'
  <2>1. \A v \in Workers, c \in Conns : LoggingIn(v, c)' => LoggingIn(v, c)
    BY DEF TypeOK, LoggingIn
  <2> QED
    BY <2>1 DEF OneLogin
<1>5. IdKept'
  <2> SUFFICES ASSUME NEW v \in Workers,
                      task[v].pc' \in {"markAlive", "setOnline", "reply"},
                      (sock[task[v].conn] = "up")'
               PROVE  (connUser[task[v].conn] = task[v].user)'
    BY DEF IdKept
  <2>1. v # w /\ task'[v] = task[v] /\ sock' = sock
    BY DEF TypeOK
  <2>2. connUser[task[v].conn] = task[v].user
    BY <2>1 DEF IdKept
  <2>3. task[v].user \in Users /\ task[v].conn \in Conns
    BY <2>1 DEF TypeOK, TaskOK
  <2>4. connUser'[task[v].conn] = connUser[task[v].conn]
    BY <2>2, <2>3 DEF TypeOK
  <2> QED
    BY <2>1, <2>2, <2>4
<1>6. (RoutedToOwner /\ WatchedUnlessUploading /\ ClientOK /\ PassOK)'
  BY DEF RoutedToOwner, WatchedUnlessUploading, ClientOK, PassOK
<1> QED
  BY <1>1, <1>2, <1>3, <1>4, <1>5, <1>6

\* Erasing the user's entry leaves no wrong one.
LEMMA RecvEraseInv ==
  ASSUME NEW w \in Workers, IInv, RecvErase(w)
  PROVE  IInv'
<1> USE DEF RecvErase, Goto, At
<1>1. TypeOK'
  <2>1. task[w].user \in Ids
    BY DEF TaskOK
  <2>2. userConn' \in [Ids -> Conns \cup {NoConn}]
    BY <2>1 DEF TypeOK
  <2> QED
    BY <2>2 DEF TypeOK
<1>2. RoutedToOwner'
  BY DEF RoutedToOwner
<1>3. TaskOK'
  BY DEF TaskOK
<1>4. OneLogin'
  BY DEF OneLogin, LoggingIn
<1>5. IdKept'
  BY DEF IdKept
<1>6. (SenderAttributed /\ WatchedUnlessUploading /\ ClientOK /\ PassOK)'
  BY DEF SenderAttributed, WatchedUnlessUploading, ClientOK, PassOK
<1> QED
  BY <1>1, <1>2, <1>3, <1>4, <1>5, <1>6

\* sendfile changes no state.
LEMMA RecvStreamInv ==
  ASSUME NEW w \in Workers, IInv, RecvStream(w)
  PROVE  IInv'
<1> USE DEF RecvStream, Goto, Finish, At
<1>1. TypeOK'
  BY DEF TypeOK
<1>2. TaskOK'
  BY DEF TypeOK, TaskOK, ClientOK, SenderAttributed
<1>3. OneLogin'
  <2>1. \A v \in Workers, c \in Conns : LoggingIn(v, c)' => LoggingIn(v, c)
    BY DEF TypeOK, LoggingIn
  <2> QED
    BY <2>1 DEF OneLogin
<1>4. IdKept'
  BY DEF TypeOK, IdKept
<1>5. (RoutedToOwner /\ SenderAttributed /\ WatchedUnlessUploading /\ ClientOK /\ PassOK)'
  BY DEF RoutedToOwner, SenderAttributed, WatchedUnlessUploading, ClientOK, PassOK
<1> QED
  BY <1>1, <1>2, <1>3, <1>4, <1>5

\* handleReceiveFile :989 reads its own user, or 0 after a close.
LEMMA RecvFindInv ==
  ASSUME NEW w \in Workers, IInv, RecvFind(w)
  PROVE  IInv'
<1> USE DEF RecvFind, At, TouchId, LookupId
<1>1. TypeOK'
  <2> DEFINE id == LookupId(task[w].conn)
             Task == [pc : TaskPC, conn : Conns \cup {NoConn},
                      user : Ids \cup {Absent}, dest : Conns \cup {NoConn}]
  <2>1. id \in Ids /\ task[w].conn \in Conns
    BY DEF TypeOK, TaskOK
  <2>2. task' = [task EXCEPT ![w] = [task[w] EXCEPT !.pc = "recvRemap", !.user = id]]
    OBVIOUS
  <2>3. connUser' \in [Conns -> Ids \cup {Absent}]
    BY <2>1 DEF TypeOK
  <2>4. [task[w] EXCEPT !.pc = "recvRemap", !.user = id] \in Task
    <3>1. task[w] \in Task
      BY DEF TypeOK
    <3> HIDE DEF id, RecvFind, Ids, IInv
    <3> QED
      BY <2>1, <3>1
  <2>5. task' \in [Workers -> Task]
    <3> HIDE DEF id, RecvFind, Task
    <3>1. task \in [Workers -> Task]
      BY DEF TypeOK, Task
    <3> QED
      BY <2>2, <2>4, <3>1
  <2> QED
    BY <2>3, <2>5 DEF TypeOK
<1>2. SenderAttributed'
  BY DEF SenderAttributed, TaskOK
<1>3. TaskOK'
  BY DEF TypeOK, TaskOK, SenderAttributed
<1>4. OneLogin'
  BY DEF TypeOK, OneLogin, LoggingIn
<1>5. IdKept'
  BY DEF TypeOK, IdKept, TaskOK, PassOK
<1>6. (RoutedToOwner /\ WatchedUnlessUploading /\ ClientOK /\ PassOK)'
  BY DEF RoutedToOwner, WatchedUnlessUploading, ClientOK, PassOK
<1> QED
  BY <1>1, <1>2, <1>3, <1>4, <1>5, <1>6

\* The user is mapped back to the connection that gave its password.
LEMMA RecvRemapInv ==
  ASSUME NEW w \in Workers, IInv, RecvRemap(w)
  PROVE  IInv'
<1> USE DEF RecvRemap, Finish, At
<1>1. TypeOK'
  BY DEF TypeOK
<1>2. RoutedToOwner'
  BY DEF RoutedToOwner, TaskOK
<1>3. TaskOK'
  BY DEF TaskOK
<1>4. OneLogin'
  BY DEF OneLogin, LoggingIn
<1>5. IdKept'
  BY DEF IdKept
<1>6. (SenderAttributed /\ WatchedUnlessUploading /\ ClientOK /\ PassOK)'
  BY DEF SenderAttributed, WatchedUnlessUploading, ClientOK, PassOK
<1> QED
  BY <1>1, <1>2, <1>3, <1>4, <1>5, <1>6

\* A heartbeat condemns only connections that were opened.
LEMMA HeartbeatTickInv ==
  ASSUME IInv, HeartbeatTick
  PROVE  IInv'
<1> USE DEF HeartbeatTick, MutexFree
<1>1. TypeOK'
  BY DEF TypeOK
<1>2. WatchedUnlessUploading'
  BY DEF WatchedUnlessUploading
<1>3. ClientOK'
  BY DEF ClientOK
<1>4. PassOK'
  BY DEF PassOK, ClientOK
<1>5. (RoutedToOwner /\ SenderAttributed /\ TaskOK /\ OneLogin /\ IdKept)'
  BY DEF RoutedToOwner, SenderAttributed, TaskOK, OneLogin, IdKept, LoggingIn
<1> QED
  BY <1>1, <1>2, <1>3, <1>4, <1>5

\* A condemned connection's close is queued before its maps are cleared.
LEMMA HeartbeatDropInv ==
  ASSUME NEW c \in Conns, IInv, HeartbeatDrop(c)
  PROVE  IInv'
<1> USE DEF HeartbeatDrop, TouchId, LookupId
<1>1. TypeOK'
  BY DEF TypeOK
<1>2. SenderAttributed'
  BY DEF TypeOK, SenderAttributed
<1>3. WatchedUnlessUploading'
  BY DEF WatchedUnlessUploading
<1>4. TaskOK'
  BY DEF TaskOK
<1>5. ClientOK'
  BY DEF ClientOK
<1>6. IdKept'
  BY DEF TypeOK, IdKept
<1>7. PassOK'
  BY DEF TypeOK, PassOK
<1>8. (RoutedToOwner /\ OneLogin)'
  BY DEF RoutedToOwner, OneLogin, LoggingIn
<1> QED
  BY <1>1, <1>2, <1>3, <1>4, <1>5, <1>6, <1>7, <1>8

\* The heartbeat clears the maps of a connection that is no longer up.
LEMMA HeartbeatEraseInv ==
  ASSUME IInv, HeartbeatErase
  PROVE  IInv'
<1> USE DEF HeartbeatErase, SetStatus
<1>1. TypeOK'
  BY DEF TypeOK
<1>2. RoutedToOwner'
  BY DEF RoutedToOwner
<1>3. SenderAttributed'
  BY DEF SenderAttributed, PassOK
<1>4. WatchedUnlessUploading'
  BY DEF WatchedUnlessUploading, PassOK
<1>5. ClientOK'
  BY DEF ClientOK
<1>6. IdKept'
  BY DEF IdKept, PassOK
<1>7. PassOK'
  BY DEF PassOK
<1>8. (TaskOK /\ OneLogin)'
  BY DEF TaskOK, OneLogin, LoggingIn
<1> QED
  BY <1>1, <1>2, <1>3, <1>4, <1>5, <1>6, <1>7, <1>8

\* The heartbeat's database write touches none of the maps.
LEMMA HeartbeatOfflineInv ==
  ASSUME IInv, HeartbeatOffline
  PROVE  IInv'
<1> USE DEF HeartbeatOffline, WriteState
<1>1. TypeOK'
  BY DEF TypeOK
<1>2. PassOK'
  BY DEF PassOK
<1>3. (/\ RoutedToOwner /\ SenderAttributed /\ WatchedUnlessUploading
        /\ TaskOK /\ OneLogin /\ ClientOK /\ IdKept)'
  BY DEF RoutedToOwner, SenderAttributed, WatchedUnlessUploading, TaskOK, OneLogin,
         ClientOK, IdKept, LoggingIn
<1> QED
  BY <1>1, <1>2, <1>3

\* Nothing in memory survives a restart.
LEMMA RestartInv ==
  ASSUME IInv, Restart
  PROVE  IInv'
<1> USE DEF Restart
<1>1. TypeOK'
  BY DEF TypeOK
<1>2. RoutedToOwner'
  BY DEF RoutedToOwner
<1>3. SenderAttributed'
  BY DEF SenderAttributed
<1>4. WatchedUnlessUploading'
  BY DEF WatchedUnlessUploading
<1>5. TaskOK'
  BY DEF TaskOK
<1>6. OneLogin'
  BY DEF OneLogin, LoggingIn
<1>7. ClientOK'
  BY DEF ClientOK
<1>8. IdKept'
  BY DEF IdKept
<1>9. PassOK'
  BY DEF PassOK
<1> QED
  BY <1>1, <1>2, <1>3, <1>4, <1>5, <1>6, <1>7, <1>8, <1>9

\* The server starts (groupUserListMapInit, UserstateInit) in the invariant.
LEMMA InitInv == Init => IInv
<1> SUFFICES ASSUME Init PROVE IInv
  OBVIOUS
<1>1. TypeOK
  BY DEF Init, TypeOK
<1>2. RoutedToOwner /\ SenderAttributed /\ WatchedUnlessUploading
  BY DEF Init, RoutedToOwner, SenderAttributed, WatchedUnlessUploading
<1>3. TaskOK /\ OneLogin /\ ClientOK /\ IdKept /\ PassOK
  BY DEF Init, TaskOK, OneLogin, LoggingIn, ClientOK, IdKept, PassOK
<1> QED
  BY <1>1, <1>2, <1>3

\* Every step of an IO thread, a worker, the heartbeat or a restart keeps it.
LEMMA NextInv == IInv /\ [Next]_vars => IInv'
<1> SUFFICES ASSUME IInv, [Next]_vars PROVE IInv'
  OBVIOUS
<1>1. ASSUME NEW c \in Conns, IOStep(c) PROVE IInv'
  BY <1>1, OpenInv, BeginUploadInv, EndUploadInv, CloseConnInv, CloseOfflineInv,
     PeerVanishInv, ReceiveLoginInv, ReceiveChatInv, ReceiveFileRequestInv DEF IOStep
<1>2. ASSUME NEW w \in Workers, WorkerStep(w) PROVE IInv'
  <2>1. CASE Login(w)
    BY <2>1, LoginQueryInv, LoginMapUserInv, LoginMapConnInv, LoginMarkAliveInv,
       LoginSetOnlineInv, LoginReplyInv DEF Login
  <2>2. CASE Chat(w)
    BY <2>2, ChatStoreInv, ChatLookupInv, ChatDeliverInv DEF Chat
  <2>3. CASE SendFile(w)
    BY <2>3, RecvKeyInv, RecvEraseInv, RecvStreamInv, RecvFindInv, RecvRemapInv DEF SendFile
  <2> QED
    BY <1>2, <2>1, <2>2, <2>3 DEF WorkerStep
<1>3. CASE HeartbeatTick \/ HeartbeatPass
  BY <1>3, HeartbeatTickInv, HeartbeatDropInv, HeartbeatEraseInv, HeartbeatOfflineInv
     DEF HeartbeatPass
<1>4. CASE Restart
  BY <1>4, RestartInv
<1>5. CASE UNCHANGED vars
  BY <1>5 DEF vars, maps, net, env, IInv, TypeOK, RoutedToOwner, SenderAttributed,
     WatchedUnlessUploading, TaskOK, OneLogin, LoggingIn, ClientOK, IdKept, PassOK
<1> QED
  BY <1>1, <1>2, <1>3, <1>4, <1>5 DEF Next

-----------------------------------------------------------------------------
(* The results.                                                            *)

\* The inductive invariant holds in every reachable state of the session layer.
THEOREM InductiveInvariant == Spec => []IInv
  BY InitInv, NextInv, PTL DEF Spec

\* Service's maps, the user table and the tasks only hold values of their types.
THEOREM TypeCorrect == Spec => []TypeOK
<1>1. IInv => TypeOK
  OBVIOUS
<1> QED
  BY <1>1, InductiveInvariant, PTL

\* m_userConnMap leads a user's messages only to a connection on which that
\* user's password was accepted, whatever logins, closes, file downloads and
\* heartbeats interleave.
THEOREM RoutingCorrect == Spec => []RoutedToOwner
<1>1. IInv => RoutedToOwner
  OBVIOUS
<1> QED
  BY <1>1, InductiveInvariant, PTL

\* A message is stored under its sender's id, or under 0 once the connection
\* is no longer up; never under another user's id.
THEOREM AttributionCorrect == Spec => []SenderAttributed
<1>1. IInv => SenderAttributed
  OBVIOUS
<1> QED
  BY <1>1, InductiveInvariant, PTL

\* An open connection is under the heartbeat exactly when it is not uploading.
THEOREM HeartbeatCoverage == Spec => []WatchedUnlessUploading
<1>1. IInv => WatchedUnlessUploading
  OBVIOUS
<1> QED
  BY <1>1, InductiveInvariant, PTL

\* What the heartbeat will condemn has been silent since its last pass.
IdleIsSilent == \A c \in Conns : status[c] = "idle" => ~heard[c]

\* The status and the arrival of messages change together (onJsonMessage
\* :64-70 calls setConnStatus before it hands the message on).
LEMMA IdleInv == TypeOK /\ IdleIsSilent /\ [Next]_vars => IdleIsSilent'
<1> SUFFICES ASSUME TypeOK, IdleIsSilent, [Next]_vars PROVE IdleIsSilent'
  OBVIOUS
<1> USE DEF TypeOK, IdleIsSilent
<1>1. ASSUME NEW c \in Conns, IOStep(c) PROVE IdleIsSilent'
  <2>1. CASE Open(c) \/ BeginUpload(c) \/ EndUpload(c)
    BY <2>1 DEF Open, BeginUpload, EndUpload, SetStatus
  <2>2. CASE CloseConn(c) \/ CloseOffline(c) \/ PeerVanish(c)
    BY <2>2 DEF CloseConn, CloseOffline, PeerVanish, SetStatus
  <2>3. ASSUME NEW w \in Workers, NEW u \in Users \cup {Absent}, NEW pc, Dispatch(c, w, pc, u)
        PROVE  IdleIsSilent'
    BY <2>3 DEF Dispatch, SetStatus
  <2> QED
    BY <1>1, <2>1, <2>2, <2>3 DEF IOStep, ReceiveLogin, ReceiveChat, ReceiveFileRequest
<1>2. ASSUME NEW w \in Workers, WorkerStep(w) PROVE IdleIsSilent'
  <2>1. CASE LoginMarkAlive(w)
    BY <2>1 DEF LoginMarkAlive, SetStatus
  <2>2. CASE \/ LoginQuery(w) \/ LoginMapUser(w) \/ LoginMapConn(w)
            \/ LoginSetOnline(w) \/ LoginReply(w)
    BY <2>2 DEF LoginQuery, LoginMapUser, LoginMapConn, LoginSetOnline, LoginReply
  <2>3. CASE Chat(w)
    BY <2>3 DEF Chat, ChatStore, ChatLookup, ChatDeliver
  <2>4. CASE SendFile(w)
    BY <2>4 DEF SendFile, RecvKey, RecvErase, RecvStream, RecvFind, RecvRemap
  <2> QED
    BY <1>2, <2>1, <2>2, <2>3, <2>4 DEF WorkerStep, Login
<1>3. CASE HeartbeatTick
  BY <1>3 DEF HeartbeatTick
<1>4. CASE HeartbeatPass
  BY <1>4 DEF HeartbeatPass, HeartbeatDrop, HeartbeatErase, HeartbeatOffline, SetStatus
<1>5. CASE Restart
  BY <1>5 DEF Restart
<1>6. CASE UNCHANGED vars
  BY <1>6 DEF vars, maps, env
<1> QED
  BY <1>1, <1>2, <1>3, <1>4, <1>5, <1>6 DEF Next

\* No step but the heartbeat's pass condemns a connection.
LEMMA CondemnedWereIdle ==
  ASSUME TypeOK, Next, NEW c \in Conns, c \in hb'.todo \ hb.todo
  PROVE  status[c] = "idle"
<1> USE DEF TypeOK
<1>1. CASE HeartbeatTick
  BY <1>1 DEF HeartbeatTick, MutexFree
<1>2. CASE HeartbeatPass
  <2>1. hb'.todo \subseteq hb.todo
    <3>1. ASSUME NEW d \in Conns, HeartbeatDrop(d) PROVE hb'.todo \subseteq hb.todo
      BY <3>1 DEF HeartbeatDrop
    <3>2. CASE HeartbeatErase
      BY <3>2 DEF HeartbeatErase
    <3>3. CASE HeartbeatOffline
      <4>1. hb'.todo = {} \/ hb'.todo = hb.todo
        BY <3>3 DEF HeartbeatOffline
      <4> QED
        BY <4>1
    <3> QED
      BY <1>2, <3>1, <3>2, <3>3 DEF HeartbeatPass
  <2> QED
    BY <2>1
<1>3. CASE Restart
  BY <1>3 DEF Restart
<1>4. ASSUME NEW d \in Conns, IOStep(d) PROVE hb' = hb
  BY <1>4 DEF IOStep, Open, BeginUpload, EndUpload, CloseConn, CloseOffline, PeerVanish,
     ReceiveLogin, ReceiveChat, ReceiveFileRequest, Dispatch
<1>5. ASSUME NEW w \in Workers, WorkerStep(w) PROVE hb' = hb
  BY <1>5 DEF WorkerStep, Login, LoginQuery, LoginMapUser, LoginMapConn, LoginMarkAlive,
     LoginSetOnline, LoginReply, Chat, ChatStore, ChatLookup, ChatDeliver, SendFile,
     RecvKey, RecvErase, RecvStream, RecvFind, RecvRemap
<1> QED
  BY <1>1, <1>2, <1>3, <1>4, <1>5 DEF Next

\* checkIfConnAlive condemns only connections it has not heard from since its
\* previous pass.
THEOREM HeartbeatPatience == Spec => HeardNotDropped
<1> DEFINE Silent(c) == c \in hb'.todo \ hb.todo => ~heard[c]
<1>1. Init => IdleIsSilent
  BY DEF Init, IdleIsSilent
<1>2. TypeOK /\ IdleIsSilent /\ [Next]_vars => [\A c \in Conns : Silent(c)]_vars
  BY CondemnedWereIdle DEF IdleIsSilent
<1>3. QED
  BY <1>1, <1>2, IdleInv, TypeCorrect, PTL DEF Spec, HeardNotDropped
=============================================================================
