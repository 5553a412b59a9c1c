------------------------------ MODULE TcpConn ------------------------------
(***************************************************************************)
(* The life of server connections in m_netlib: TcpServer's table on the    *)
(* main loop, TcpConnection and its channel on an IO loop, and the threads *)
(* that call forceClose (the heartbeat) and send (the handlers) from       *)
(* outside.  Work crosses threads as functors in the loops' FIFO queues;   *)
(* m_state is read and written without a lock.  assert is compiled in: a   *)
(* failed one ends the process.                                            *)
(***************************************************************************)
EXTENDS Integers, Sequences

CONSTANTS
  Conns,       \* connections, accepted at most once each
  ExtThreads,  \* threads outside the loops: heartbeat and handlers
  CloserOf,    \* who may close each connection: subset of {"peer", "heartbeat"}
  Sends,       \* connections that handlers write to
  MaxQueued    \* bound: functors waiting in the two queues when a send is queued

ASSUME TcpConnAssumption ==
  /\ CloserOf \in [Conns -> SUBSET {"peer", "heartbeat"}]
  /\ Sends \subseteq Conns
  /\ MaxQueued \in Nat

VARIABLES
  state,     \* m_state
  chan,      \* m_channel: EPoller's index and the events asked for
  outbuf,    \* m_outputBuffer holds bytes
  peer,      \* the other end: open, fin (closed), rst (resets what we write)
  table,     \* m_connections
  ioQ,       \* m_pendingFunctors of the IO loop
  batch,     \* functors the IO loop has swapped out and is running
  mainQ,     \* m_pendingFunctors of the main loop
  ext,       \* what each outside thread is doing
  forced,    \* connections the heartbeat has asked to close
  ups, downs, \* history: connection callbacks run, connected and not
  late,      \* history: a message callback ran after the down callback
  failed     \* the assert that ended the process

conn == <<state, chan, outbuf>>
hist == <<ups, downs, late>>
vars == <<conn, peer, table, ioQ, batch, mainQ, ext, forced, hist, failed>>

Asserts == {"connectDestroyed:36", "connectEstablished:46", "handleClose:70",
            "removeConnectionInLoop:74"}
NoChannel == [index |-> "new", read |-> FALSE, write |-> FALSE]
Functor   == {"established", "send", "forceClose", "destroyed"} \X Conns
Rest      == [pc |-> "rest"]

TypeOK ==
  /\ state \in [Conns -> {"none", "kConnecting", "kConnected", "kDisconnecting", "kDisconnected"}]
  /\ chan \in [Conns -> [index : {"new", "added", "deleted"}, read : BOOLEAN, write : BOOLEAN]]
  /\ outbuf \in [Conns -> BOOLEAN]
  /\ peer \in [Conns -> {"open", "fin", "rst"}]
  /\ table \subseteq Conns /\ forced \subseteq Conns
  /\ ioQ \in Seq(Functor) /\ batch \in Seq(Functor) /\ mainQ \in Seq(Conns)
  /\ ext \in [ExtThreads -> {Rest} \cup [pc : {"force", "send"}, conn : Conns]]
  /\ ups \in [Conns -> 0 .. 1] /\ downs \in [Conns -> 0 .. 1]
  /\ late \in [Conns -> BOOLEAN]
  /\ failed \in {"none"} \cup Asserts

Init ==
  /\ state = [c \in Conns |-> "none"]
  /\ chan = [c \in Conns |-> NoChannel]
  /\ outbuf = [c \in Conns |-> FALSE]
  /\ peer = [c \in Conns |-> "open"]
  /\ table = {} /\ forced = {}
  /\ ioQ = <<>> /\ batch = <<>> /\ mainQ = <<>>
  /\ ext = [t \in ExtThreads |-> Rest]
  /\ ups = [c \in Conns |-> 0] /\ downs = [c \in Conns |-> 0]
  /\ late = [c \in Conns |-> FALSE]
  /\ failed = "none"

-----------------------------------------------------------------------------
(* Helpers.                                                                *)

Alive(c) == state[c] \in {"kConnected", "kDisconnecting"}

QueueInLoop(fn, c) == ioQ' = Append(ioQ, <<fn, c>>)

SetState(c, s) == state' = [state EXCEPT ![c] = s]

Abort(where) ==
  /\ failed' = where
  /\ UNCHANGED <<conn, peer, table, ioQ, batch, mainQ, ext, forced, hist>>

\* Channel::disableAll -> EPoller::updateChannel: an added channel is taken
\* out of epoll; any other is added, with no events asked for.
Disabled(ch) ==
  [index |-> IF ch.index = "added" THEN "deleted" ELSE "added", read |-> FALSE, write |-> FALSE]

EnableWriting(ch)  == [ch EXCEPT !.index = "added", !.write = TRUE]

DisableWriting(ch) == IF ch.read THEN [ch EXCEPT !.write = FALSE] ELSE Disabled(ch)

\* TcpConnection::handleClose: the state stays; TcpServer::removeConnection is
\* queued on the main loop.
HandleClose(c) ==
  /\ chan' = [chan EXCEPT ![c] = Disabled(@)]
  /\ mainQ' = Append(mainQ, c)

-----------------------------------------------------------------------------
(* Main loop.                                                              *)

\* Mutation: m_nextConnId is not advanced, so a name may be used again.
MutNewConnection(c) ==
  /\ SetState(c, "kConnecting")
  /\ table' = table \cup {c}
  /\ QueueInLoop("established", c)
  /\ UNCHANGED <<chan, outbuf, peer, batch, mainQ, ext, forced, hist, failed>>

\* TcpServer::newConnection.
NewConnection(c) ==
  /\ state[c] = "none"
  /\ SetState(c, "kConnecting")
  /\ table' = table \cup {c}
  /\ QueueInLoop("established", c)
  /\ UNCHANGED <<chan, outbuf, peer, batch, mainQ, ext, forced, hist, failed>>

\* Mutation: the IO loop is asked, the entry stays in the table.
MutKeepEntry ==
  /\ mainQ # <<>>
  /\ mainQ' = Tail(mainQ)
  /\ QueueInLoop("destroyed", Head(mainQ))
  /\ UNCHANGED <<conn, peer, table, batch, ext, forced, hist, failed>>

\* Mutation: the entry goes, the IO loop is not asked to destroy the connection.
MutRemoveConnection ==
  /\ mainQ # <<>>
  /\ table' = table \ {Head(mainQ)}
  /\ mainQ' = Tail(mainQ)
  /\ UNCHANGED <<conn, peer, ioQ, batch, ext, forced, hist, failed>>

\* TcpServer::removeConnectionInLoop.
RemoveConnection ==
  LET c == Head(mainQ)
  IN  /\ mainQ # <<>>
      /\ IF c \notin table
           THEN Abort("removeConnectionInLoop:74")
           ELSE /\ table' = table \ {c}
                /\ mainQ' = Tail(mainQ)
                /\ QueueInLoop("destroyed", c)
                /\ UNCHANGED <<conn, peer, batch, ext, forced, hist, failed>>

-----------------------------------------------------------------------------
(* IO loop: events of the poll, then one batch of functors.                *)

Polled(c) == batch = <<>> /\ chan[c].index = "added"

\* handleRead with bytes: the message callback; on a bad message the codec
\* calls shutdown, after which the peer is expected to close.
ReadMessage(c) ==
  /\ Polled(c) /\ chan[c].read /\ peer[c] = "open"
  /\ late' = [late EXCEPT ![c] = @ \/ downs[c] > 0]
  /\ \/ UNCHANGED state
     \/ /\ "peer" \in CloserOf[c]
        /\ state[c] = "kConnected" /\ SetState(c, "kDisconnecting")
  /\ UNCHANGED <<chan, outbuf, peer, table, ioQ, batch, mainQ, ext, forced, ups, downs, failed>>

\* handleRead with no bytes, or POLLHUP without POLLIN: handleClose.
ReadClose(c) ==
  /\ Polled(c)
  /\ \/ chan[c].read /\ peer[c] # "open"
     \/ ~chan[c].read /\ peer[c] = "rst"
  /\ IF ~Alive(c)
       THEN Abort("handleClose:70")
       ELSE /\ HandleClose(c)
            /\ UNCHANGED <<state, outbuf, peer, table, ioQ, batch, ext, forced, hist, failed>>

\* handleWrite, when it empties the buffer.
WriteDone(c) ==
  /\ Polled(c) /\ chan[c].write /\ outbuf[c] /\ peer[c] # "rst"
  /\ outbuf' = [outbuf EXCEPT ![c] = FALSE]
  /\ chan' = [chan EXCEPT ![c] = DisableWriting(@)]
  /\ UNCHANGED <<state, peer, table, ioQ, batch, mainQ, ext, forced, hist, failed>>

\* Mutation: the queue is copied instead of swapped out.
MutSwapFunctors ==
  /\ batch = <<>> /\ ioQ # <<>>
  /\ batch' = ioQ
  /\ UNCHANGED <<conn, peer, table, ioQ, mainQ, ext, forced, hist, failed>>

\* doPendingFunctors: swap the queue out.
SwapFunctors ==
  /\ batch = <<>> /\ ioQ # <<>>
  /\ batch' = ioQ
  /\ ioQ' = <<>>
  /\ UNCHANGED <<conn, peer, table, mainQ, ext, forced, hist, failed>>

Running(fn, c) == batch # <<>> /\ Head(batch) = <<fn, c>>

\* TcpConnection::connectEstablished.
Established(c) ==
  /\ Running("established", c)
  /\ IF state[c] # "kConnecting"
       THEN Abort("connectEstablished:46")
       ELSE /\ SetState(c, "kConnected")
            /\ chan' = [chan EXCEPT ![c] = [index |-> "added", read |-> TRUE, write |-> FALSE]]
            /\ batch' = Tail(batch)
            /\ ups' = [ups EXCEPT ![c] = @ + 1]
            /\ UNCHANGED <<outbuf, peer, table, ioQ, mainQ, ext, forced, downs, late, failed>>

\* TcpConnection::sendInLoop, whatever the state by now: all is written, or
\* what is left is buffered and writing enabled.  A reset socket takes nothing.
SendInLoop(c) ==
  /\ Running("send", c)
  /\ batch' = Tail(batch)
  /\ \/ ~chan[c].write /\ ~outbuf[c] /\ peer[c] # "rst" /\ UNCHANGED <<chan, outbuf>>
     \/ /\ outbuf' = [outbuf EXCEPT ![c] = TRUE]
        /\ chan' = [chan EXCEPT ![c] = IF @.write THEN @ ELSE EnableWriting(@)]
  /\ UNCHANGED <<state, peer, table, ioQ, mainQ, ext, forced, hist, failed>>

\* TcpConnection::forceCloseInLoop.
ForceCloseInLoop(c) ==
  /\ Running("forceClose", c)
  /\ batch' = Tail(batch)
  /\ IF Alive(c) THEN HandleClose(c) ELSE UNCHANGED <<chan, mainQ>>
  /\ UNCHANGED <<state, outbuf, peer, table, ioQ, ext, forced, hist, failed>>

\* Mutation: the channel is left in epoll.
MutDestroyed(c) ==
  /\ Running("destroyed", c)
  /\ SetState(c, "kDisconnected")
  /\ chan' = [chan EXCEPT ![c] = [@ EXCEPT !.index = "added", !.read = TRUE]]
  /\ batch' = Tail(batch)
  /\ downs' = [downs EXCEPT ![c] = @ + 1]
  /\ UNCHANGED <<outbuf, peer, table, ioQ, mainQ, ext, forced, ups, late, failed>>

\* TcpConnection::connectDestroyed, with Server::onConnection's forceClose,
\* which the state turns into a no-op; removeChannel forgets the channel.
Destroyed(c) ==
  /\ Running("destroyed", c)
  /\ IF ~Alive(c)
       THEN Abort("connectDestroyed:36")
       ELSE /\ SetState(c, "kDisconnected")
            /\ chan' = [chan EXCEPT ![c] = NoChannel]
            /\ batch' = Tail(batch)
            /\ downs' = [downs EXCEPT ![c] = @ + 1]
            /\ UNCHANGED <<outbuf, peer, table, ioQ, mainQ, ext, forced, ups, late, failed>>

-----------------------------------------------------------------------------
(* Threads outside the loops: the state is tested, then acted upon.        *)

\* forceClose, called by the heartbeat on connections it has not seen closed.
ForceCheck(t, c) ==
  /\ ext[t] = Rest /\ "heartbeat" \in CloserOf[c] /\ c \notin forced
  /\ Alive(c) /\ downs[c] = 0
  /\ forced' = forced \cup {c}
  /\ ext' = [ext EXCEPT ![t] = [pc |-> "force", conn |-> c]]
  /\ UNCHANGED <<conn, peer, table, ioQ, batch, mainQ, hist, failed>>

ForceAct(t) ==
  /\ ext[t].pc = "force"
  /\ SetState(ext[t].conn, "kDisconnecting")
  /\ QueueInLoop("forceClose", ext[t].conn)
  /\ ext' = [ext EXCEPT ![t] = Rest]
  /\ UNCHANGED <<chan, outbuf, peer, table, batch, mainQ, forced, hist, failed>>

\* send.
SendCheck(t, c) ==
  /\ ext[t] = Rest /\ c \in Sends /\ state[c] = "kConnected"
  /\ Len(ioQ) + Len(mainQ) < MaxQueued
  /\ ext' = [ext EXCEPT ![t] = [pc |-> "send", conn |-> c]]
  /\ UNCHANGED <<conn, peer, table, ioQ, batch, mainQ, forced, hist, failed>>

SendAct(t) ==
  /\ ext[t].pc = "send"
  /\ QueueInLoop("send", ext[t].conn)
  /\ ext' = [ext EXCEPT ![t] = Rest]
  /\ UNCHANGED <<conn, peer, table, batch, mainQ, forced, hist, failed>>

\* The peer closes; if it is written to after that it answers with a reset.
PeerClose(c) ==
  /\ "peer" \in CloserOf[c] /\ state[c] # "none"
  /\ \/ peer[c] = "open" /\ peer' = [peer EXCEPT ![c] = "fin"]
     \/ peer[c] = "fin" /\ c \in Sends /\ peer' = [peer EXCEPT ![c] = "rst"]
  /\ UNCHANGED <<conn, table, ioQ, batch, mainQ, ext, forced, hist, failed>>

-----------------------------------------------------------------------------
IOEvent(c) == ReadMessage(c) \/ ReadClose(c) \/ WriteDone(c)

IOFunctor(c) ==
  \/ Established(c) \/ SendInLoop(c) \/ ForceCloseInLoop(c) \/ Destroyed(c)

Next ==
  /\ failed = "none"
  /\ \/ \E c \in Conns : NewConnection(c) \/ IOEvent(c) \/ IOFunctor(c) \/ PeerClose(c)
     \/ RemoveConnection \/ SwapFunctors
     \/ \E t \in ExtThreads : \/ \E c \in Conns : ForceCheck(t, c) \/ SendCheck(t, c)
                              \/ ForceAct(t) \/ SendAct(t)

Spec == Init /\ [][Next]_vars

\* Both loops run; epoll is level-triggered, so a closed peer keeps being
\* reported; a thread that has tested the state goes on to act.
FairSpec ==
  /\ Spec
  /\ WF_vars(failed = "none" /\ RemoveConnection)
  /\ WF_vars(failed = "none" /\ SwapFunctors)
  /\ \A c \in Conns : /\ WF_vars(failed = "none" /\ IOFunctor(c))
                      /\ SF_vars(failed = "none" /\ ReadClose(c))
  /\ \A t \in ExtThreads : WF_vars(failed = "none" /\ (ForceAct(t) \/ SendAct(t)))

-----------------------------------------------------------------------------
(* Properties.                                                             *)

\* Server::onConnection hears of a connection once when it is up and at most
\* once when it is down, in this order: clientClose never runs twice.  The
\* table has let go of a connection before it is destroyed.
CallbackOrder ==
  \A c \in Conns : /\ downs[c] <= ups[c] /\ ups[c] <= 1
                   /\ downs[c] = 1 => c \notin table

\* No message reaches the codec and the handlers after clientClose has run.
NoLateMessage == \A c \in Conns : ~late[c]

\* An assert fails only where a connection has two closers: its peer has
\* closed it, and the heartbeat forces it or a handler writes to it.
FailsOnlyWithTwoClosers ==
  failed # "none" => \E c \in Conns : peer[c] # "open" /\ (c \in forced \/ c \in Sends)

\* "assert(n == 1)" (TcpServer.cc :74): the connection is still in the table
\* when it is removed.
RemovedOnce == failed # "removeConnectionInLoop:74"

\* A connection that its peer closed or the heartbeat condemned is taken down
\* and reported (unless an assert ends the process first).
ClosedIsReported ==
  \A c \in Conns :
    (ups[c] = 1 /\ (peer[c] # "open" \/ c \in forced)) ~> (downs[c] = 1 \/ failed # "none")
=============================================================================
