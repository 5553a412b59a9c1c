---------------------------- MODULE TcpConnProofs ----------------------------
(***************************************************************************)
(* Proofs about the connections of m_netlib and what they carry.           *)
(*                                                                         *)
(* TcpConn: the life of a connection, for any number of connections,       *)
(* outside threads and closers.  The invariant speaks of one connection at *)
(* a time (ConnInv): which functors of it wait in the loops, in relation   *)
(* to its state, to the table's entry and to the callbacks it has had; a   *)
(* step changes it for one connection, and the others are framed.          *)
(*                                                                         *)
(* Buffer: for every size of its parts a buffer is a queue of bytes.       *)
(* Appending and reading from a descriptor add at the end, whichever way   *)
(* room is made, retrieving takes from the front, and the asserts of the   *)
(* class hold.                                                             *)
(*                                                                         *)
(* Transfer: for every file, size of the socket's buffer and of the input  *)
(* buffer, and number of chat messages.  The bytes between sender and      *)
(* receiver (Stream) are those that the messages transmitted and the part  *)
(* of the file copied make, without the first ones, which the receiver has *)
(* taken (Carries); a step moves bytes along, adds a message or a byte of  *)
(* the file at the end, or takes one from the front.  There is one header, *)
(* queued before the file (OneHeader), and behind it at most the message   *)
(* of the worker that found the connection before (FewInv).                *)
(***************************************************************************)
EXTENDS TcpConn, Transfer, SequenceTheorems, WellFoundedInduction, TLAPS

-----------------------------------------------------------------------------
(* Queues.                                                                 *)

In(q, x) == \E i \in DOMAIN q : q[i] = x

AtMostOnce(q, x) == \A i, j \in DOMAIN q : q[i] = x /\ q[j] = x => i = j

LEMMA PushFacts ==
  ASSUME NEW S, NEW q \in Seq(S), NEW x \in S, NEW y
  PROVE  /\ In(Append(q, x), y) <=> In(q, y) \/ y = x
         /\ AtMostOnce(q, y) /\ (y # x \/ ~In(q, y)) => AtMostOnce(Append(q, x), y)
<1> DEFINE a == Append(q, x)
<1>1. /\ DOMAIN a = DOMAIN q \cup {Len(q) + 1} /\ a[Len(q) + 1] = x
      /\ \A i \in DOMAIN q : a[i] = q[i]
  OBVIOUS
<1> HIDE DEF a
<1>2. In(a, y) <=> In(q, y) \/ y = x
  BY <1>1 DEF In
<1>3. AtMostOnce(q, y) /\ (y # x \/ ~In(q, y)) => AtMostOnce(a, y)
  BY <1>1 DEF In, AtMostOnce
<1> QED
  BY <1>2, <1>3 DEF a

LEMMA PopFacts ==
  ASSUME NEW S, NEW q \in Seq(S), q # <<>>, NEW y
  PROVE  /\ In(q, Head(q))
         /\ In(Tail(q), y) => In(q, y)
         /\ In(q, y) /\ y # Head(q) => In(Tail(q), y)
         /\ AtMostOnce(q, y) => AtMostOnce(Tail(q), y)
         /\ AtMostOnce(q, y) /\ y = Head(q) => ~In(Tail(q), y)
<1> DEFINE t == Tail(q)
           h == Head(q)
<1>1. /\ Len(q) \in Nat /\ Len(q) > 0 /\ DOMAIN q = 1 .. Len(q) /\ DOMAIN t = 1 .. Len(q) - 1
      /\ \A i \in 1 .. Len(q) - 1 : t[i] = q[i + 1]
      /\ h = q[1]
  OBVIOUS
<1> HIDE DEF t, h
<1>2. \A i \in DOMAIN t : i + 1 \in DOMAIN q /\ t[i] = q[i + 1]
  BY <1>1
<1>3. \A i \in DOMAIN q : i # 1 => i - 1 \in DOMAIN t /\ t[i - 1] = q[i]
  BY <1>1
<1>4. 1 \in DOMAIN q
  BY <1>1
<1>5. In(q, h)
  BY <1>1, <1>4 DEF In
<1>6. In(t, y) => In(q, y)
  BY <1>2 DEF In
<1>7. In(q, y) /\ y # h => In(t, y)
  BY <1>1, <1>3 DEF In
<1>8. AtMostOnce(q, y) => AtMostOnce(t, y)
  <2> SUFFICES ASSUME AtMostOnce(q, y), NEW i \in DOMAIN t, NEW j \in DOMAIN t, t[i] = y, t[j] = y
               PROVE  i = j
    BY DEF AtMostOnce
  <2>1. i + 1 = j + 1
    BY <1>2 DEF AtMostOnce
  <2> QED
    BY <1>1, <2>1
<1>9. AtMostOnce(q, y) /\ y = h => ~In(t, y)
  <2> SUFFICES ASSUME AtMostOnce(q, y), y = h, NEW i \in DOMAIN t, t[i] = y
               PROVE  FALSE
    BY DEF In
  <2>1. i + 1 = 1
    BY <1>1, <1>2, <1>4 DEF AtMostOnce
  <2> QED
    BY <1>1, <2>1
<1> QED
  BY <1>5, <1>6, <1>7, <1>8, <1>9 DEF t, h

\* What the IO loop still has to run, in order.
Todo == batch \o ioQ

Kinds == {"established", "send", "forceClose", "destroyed"}

Waits(fn, c)  == In(Todo, <<fn, c>>)
Single(fn, c) == AtMostOnce(Todo, <<fn, c>>)

Removing(c)     == In(mainQ, c)
RemovesOnce(c)  == AtMostOnce(mainQ, c)

\* Functor fn of c, and nothing else, joins the queue.
Posts(fn, c) ==
  \A g \in Kinds, d \in Conns :
    /\ Waits(g, d)' <=> Waits(g, d) \/ (g = fn /\ d = c)
    /\ Single(g, d) /\ (g # fn \/ d # c \/ ~Waits(g, d)) => Single(g, d)'

\* It leaves the queue, to run.
Runs(fn, c) ==
  /\ Waits(fn, c)
  /\ Single(fn, c) => ~Waits(fn, c)'
  /\ \A g \in Kinds, d \in Conns :
       /\ Waits(g, d)' => Waits(g, d)
       /\ g # fn \/ d # c => (Waits(g, d) => Waits(g, d)')
       /\ Single(g, d) => Single(g, d)'

QueueSame ==
  \A g \in Kinds, d \in Conns : (Waits(g, d)' <=> Waits(g, d)) /\ (Single(g, d) => Single(g, d)')

MainSame == \A d \in Conns : (Removing(d)' <=> Removing(d)) /\ (RemovesOnce(d) => RemovesOnce(d)')

LEMMA QueueKept == (UNCHANGED <<batch, ioQ>> => QueueSame) /\ (UNCHANGED mainQ => MainSame)
BY DEF QueueSame, MainSame, Waits, Single, Todo, Removing, RemovesOnce

LEMMA TodoType == ASSUME TypeOK PROVE Todo \in Seq(Functor)
BY DEF TypeOK, Todo

LEMMA FunctorKinds == Functor = Kinds \X Conns
BY DEF Functor, Kinds

LEMMA PostForm ==
  ASSUME TypeOK, NEW fn \in Kinds, NEW c \in Conns, QueueInLoop(fn, c), UNCHANGED batch
  PROVE  Posts(fn, c)
<1>1. Todo' = Append(Todo, <<fn, c>>)
  <2>1. batch \in Seq(Functor) /\ ioQ \in Seq(Functor) /\ <<fn, c>> \in Functor
    BY FunctorKinds DEF TypeOK
  <2> QED
    BY <2>1 DEF QueueInLoop, Todo
<1>2. Todo \in Seq(Functor) /\ <<fn, c>> \in Functor
  BY TodoType, FunctorKinds
<1>3. ASSUME NEW g \in Kinds, NEW d \in Conns
      PROVE  /\ In(Todo', <<g, d>>) <=> In(Todo, <<g, d>>) \/ (g = fn /\ d = c)
             /\ AtMostOnce(Todo, <<g, d>>) /\ (g # fn \/ d # c \/ ~In(Todo, <<g, d>>)) => AtMostOnce(Todo', <<g, d>>)
  <2>1. <<g, d>> = <<fn, c>> <=> g = fn /\ d = c
    OBVIOUS
  <2> QED
    BY <1>1, <1>2, <2>1, PushFacts
<1> QED
  BY <1>3 DEF Posts, Waits, Single

LEMMA RunForm ==
  ASSUME TypeOK, NEW fn \in Kinds, NEW c \in Conns, Running(fn, c), batch' = Tail(batch), UNCHANGED ioQ
  PROVE  Runs(fn, c)
<1>1. Todo # <<>> /\ Head(Todo) = <<fn, c>> /\ Todo' = Tail(Todo)
  <2>1. batch \in Seq(Functor) /\ ioQ \in Seq(Functor) /\ batch # <<>> /\ Head(batch) = <<fn, c>>
    BY DEF TypeOK, Running
  <2> QED
    BY <2>1 DEF Todo
<1>2. Todo \in Seq(Functor)
  BY TodoType
<1>3. ASSUME NEW g \in Kinds, NEW d \in Conns
      PROVE  /\ In(Todo', <<g, d>>) => In(Todo, <<g, d>>)
             /\ g # fn \/ d # c => (In(Todo, <<g, d>>) => In(Todo', <<g, d>>))
             /\ AtMostOnce(Todo, <<g, d>>) => AtMostOnce(Todo', <<g, d>>)
  <2>1. <<g, d>> = <<fn, c>> <=> g = fn /\ d = c
    OBVIOUS
  <2> QED
    BY <1>1, <1>2, <2>1, PopFacts
<1>4. In(Todo, <<fn, c>>) /\ (AtMostOnce(Todo, <<fn, c>>) => ~In(Todo', <<fn, c>>))
  BY <1>1, <1>2, PopFacts
<1> QED
  BY <1>3, <1>4 DEF Runs, Waits, Single

LEMMA SwapForm == ASSUME TypeOK, SwapFunctors PROVE QueueSame
<1>1. Todo' = Todo
  BY DEF SwapFunctors, Todo, TypeOK
<1> QED
  BY <1>1 DEF QueueSame, Waits, Single

\* The main loop is asked to remove c.
LEMMA CloseForm ==
  ASSUME TypeOK, NEW c \in Conns, mainQ' = Append(mainQ, c)
  PROVE  \A d \in Conns : /\ Removing(d)' <=> Removing(d) \/ d = c
                          /\ RemovesOnce(d) /\ (d # c \/ ~Removing(d)) => RemovesOnce(d)'
<1>1. mainQ \in Seq(Conns)
  BY DEF TypeOK
<1> QED
  BY <1>1, PushFacts DEF Removing, RemovesOnce

LEMMA RemoveForm ==
  ASSUME TypeOK, mainQ # <<>>, mainQ' = Tail(mainQ), NEW c, c = Head(mainQ)
  PROVE  /\ c \in Conns /\ Removing(c)
         /\ RemovesOnce(c) => ~Removing(c)'
         /\ \A d \in Conns : /\ Removing(d)' => Removing(d)
                             /\ d # c => (Removing(d) => Removing(d)')
                             /\ RemovesOnce(d) => RemovesOnce(d)'
<1>1. mainQ \in Seq(Conns)
  BY DEF TypeOK
<1>2. c \in Conns
  BY <1>1
<1>3. ASSUME NEW d \in Conns
      PROVE  /\ In(mainQ', d) => In(mainQ, d)
             /\ d # c => (In(mainQ, d) => In(mainQ', d))
             /\ AtMostOnce(mainQ, d) => AtMostOnce(mainQ', d)
  BY <1>1, PopFacts
<1>4. In(mainQ, c) /\ (AtMostOnce(mainQ, c) => ~In(mainQ', c))
  BY <1>1, PopFacts
<1> QED
  BY <1>2, <1>3, <1>4 DEF Removing, RemovesOnce

-----------------------------------------------------------------------------
(* What holds of each connection.                                          *)

Visits(t, c)  == ext[t].pc # "rest" /\ ext[t].conn = c
Forcing(t, c) == ext[t].pc = "force" /\ ext[t].conn = c

\* handleClose has run for c.
Closing(c) == Removing(c) \/ (c \notin table /\ state[c] # "none")

\* A forceClose of c is still to come.
ForcePending(c) == Waits("forceClose", c) \/ \E t \in ExtThreads : Forcing(t, c)

\* Two closers at work.
Guilty(c) == peer[c] # "open" /\ (c \in forced \/ c \in Sends)

\* The callbacks that have run tell the state, the functors that wait and the
\* table's entry.
Birth(c) ==
  /\ ups[c] = 0 <=> state[c] \in {"none", "kConnecting"}
  /\ downs[c] <= ups[c]
  /\ ups[c] = 1 /\ downs[c] = 0 => Alive(c)
  /\ Waits("established", c) => state[c] = "kConnecting"
  /\ state[c] = "kConnecting" => c \in table
  /\ c \in table => state[c] # "none" /\ downs[c] = 0
  /\ Waits("destroyed", c) => c \notin table /\ downs[c] = 0

\* A connection that is not up is known to the acceptor only.
Untouched(c) ==
  ups[c] = 0 =>
    /\ ~Removing(c) /\ chan[c] = NoChannel /\ c \notin forced
    /\ \A fn \in Kinds \ {"established"} : ~Waits(fn, c)
    /\ \A t \in ExtThreads : ~Visits(t, c)

Singles(c) == \A fn \in Kinds \ {"send"} : Single(fn, c)

\* The heartbeat forces a connection at most once.
Forces(c) ==
  /\ ForcePending(c) => c \in forced
  /\ \A s, t \in ExtThreads : Forcing(s, c) /\ Forcing(t, c) => s = t
  /\ Waits("forceClose", c) => \A t \in ExtThreads : ~Forcing(t, c)

\* What has closed a connection: its peer, unless its one forceClose is over.
\* After that nothing is read any more.
Blame(c) ==
  /\ chan[c].read => ~Closing(c)
  /\ Closing(c) => peer[c] # "open" \/ c \in forced
  /\ Closing(c) /\ ForcePending(c) => peer[c] # "open"
  /\ peer[c] = "rst" => c \in Sends

\* With one closer a connection is removed once, while it is in the table.
RemovedOk(c) == ~Guilty(c) => RemovesOnce(c) /\ (Removing(c) => c \in table)

ConnInv(c) == Birth(c) /\ Untouched(c) /\ Singles(c) /\ Forces(c) /\ Blame(c) /\ RemovedOk(c) /\ ~late[c]

\* The asserts that never fail, and who is to blame for the others.
FailOK == failed # "none" => failed \in {"handleClose:70", "removeConnectionInLoop:74"} /\ \E c \in Conns : Guilty(c)

IInv == TypeOK /\ FailOK /\ \A c \in Conns : ConnInv(c)

\* A step that has nothing to do with connection d.
SameConn(d) ==
  /\ state'[d] = state[d] /\ chan'[d] = chan[d] /\ peer'[d] = peer[d] /\ late'[d] = late[d]
  /\ ups'[d] = ups[d] /\ downs'[d] = downs[d]
  /\ d \in table' <=> d \in table
  /\ d \in forced' <=> d \in forced
  /\ \A fn \in Kinds : (Waits(fn, d)' <=> Waits(fn, d)) /\ (Single(fn, d) => Single(fn, d)')
  /\ (Removing(d)' <=> Removing(d)) /\ (RemovesOnce(d) => RemovesOnce(d)')
  /\ \A t \in ExtThreads : (Visits(t, d)' <=> Visits(t, d)) /\ (Forcing(t, d)' <=> Forcing(t, d))

LEMMA OthersFramed ==
  ASSUME NEW d \in Conns, ConnInv(d), SameConn(d)
  PROVE  ConnInv(d)'
<1> USE DEF ConnInv, SameConn
<1>1. Closing(d)' <=> Closing(d)
  BY DEF Closing
<1>2. ForcePending(d)' <=> ForcePending(d)
  BY DEF ForcePending, Kinds
<1>3. Guilty(d)' <=> Guilty(d)
  BY DEF Guilty
<1>4. Birth(d)'
  BY DEF Birth, Alive, Kinds
<1>5. Untouched(d)'
  BY DEF Untouched
<1>6. Singles(d)'
  BY DEF Singles
<1>7. Forces(d)'
  BY <1>2 DEF Forces, Kinds
<1>8. Blame(d)'
  BY <1>1, <1>2 DEF Blame
<1>9. RemovedOk(d)'
  BY <1>3 DEF RemovedOk
<1> QED
  BY <1>4, <1>5, <1>6, <1>7, <1>8, <1>9

LEMMA InitConns == ASSUME Init PROVE \A c \in Conns : ConnInv(c)
<1> SUFFICES ASSUME NEW c \in Conns PROVE ConnInv(c)
  OBVIOUS
<1>1. Todo = <<>>
  BY DEF Init, Todo
<1>2. \A fn : ~Waits(fn, c) /\ Single(fn, c)
  BY <1>1 DEF Waits, Single, In, AtMostOnce
<1>3. ~Removing(c) /\ RemovesOnce(c)
  BY DEF Init, Removing, RemovesOnce, In, AtMostOnce
<1>4. \A t \in ExtThreads : ~Visits(t, c) /\ ~Forcing(t, c)
  BY DEF Init, Visits, Forcing, Rest
<1>5. ~Closing(c) /\ ~ForcePending(c)
  BY <1>2, <1>3, <1>4 DEF Closing, ForcePending, Init
<1>6. Birth(c) /\ Untouched(c)
  BY <1>2, <1>3, <1>4 DEF Birth, Untouched, Init, Alive
<1>7. Singles(c) /\ Forces(c) /\ Blame(c) /\ RemovedOk(c) /\ ~late[c]
  BY <1>2, <1>3, <1>4, <1>5 DEF Singles, Forces, Blame, RemovedOk, Init, NoChannel
<1> QED
  BY <1>6, <1>7 DEF ConnInv

-----------------------------------------------------------------------------
(* The steps.                                                              *)

ExtSame ==
  \A t \in ExtThreads, d \in Conns : (Visits(t, d)' <=> Visits(t, d)) /\ (Forcing(t, d)' <=> Forcing(t, d))

LEMMA ExtKept == UNCHANGED ext => ExtSame
BY DEF ExtSame, Visits, Forcing

ConnsOK == TypeOK /\ \A c \in Conns : ConnInv(c)

LEMMA NewConnectionOK ==
  ASSUME ConnsOK, NEW c \in Conns, NewConnection(c)
  PROVE  \A d \in Conns : ConnInv(d)'
<1>1. Posts("established", c) /\ MainSame /\ ExtSame
  BY PostForm, QueueKept, ExtKept DEF ConnsOK, NewConnection, Kinds, hist
<1>2. /\ state'[c] = "kConnecting" /\ \A d \in Conns \ {c} : state'[d] = state[d]
      /\ table' = table \cup {c}
      /\ UNCHANGED <<chan, outbuf, peer, forced, ups, downs, late>>
  BY DEF ConnsOK, TypeOK, NewConnection, SetState, hist
<1>3. ASSUME NEW d \in Conns, d # c
      PROVE  ConnInv(d)'
  <2>1. SameConn(d)
    BY <1>1, <1>2, <1>3 DEF SameConn, Posts, MainSame, ExtSame
  <2> QED
    BY <2>1, OthersFramed DEF ConnsOK
<1>4. ConnInv(c)'
  <2>1. ConnInv(c) /\ state[c] = "none" /\ ups[c] \in {0, 1} /\ downs[c] \in {0, 1}
    BY DEF ConnsOK, TypeOK, NewConnection
  <2>2. Birth(c)' /\ Untouched(c)' /\ Singles(c)'
    BY <1>1, <1>2, <2>1 DEF ConnInv, Birth, Untouched, Singles, Kinds, Posts, MainSame, ExtSame, Alive
  <2>3. Forces(c)' /\ Blame(c)' /\ RemovedOk(c)' /\ ~late'[c]
    BY <1>1, <1>2, <2>1 DEF ConnInv, Birth, Untouched, Forces, Blame, RemovedOk, Closing, ForcePending, Guilty,
                            Kinds, Posts, MainSame, ExtSame
  <2> QED
    BY <2>2, <2>3 DEF ConnInv
<1> QED
  BY <1>3, <1>4

\* removeConnectionInLoop with the connection in the table.
LEMMA RemoveConnectionOK ==
  ASSUME ConnsOK, RemoveConnection, failed' = failed, failed = "none"
  PROVE  \A d \in Conns : ConnInv(d)'
<1> DEFINE h == Head(mainQ)
<1>1. mainQ # <<>> /\ h \in Conns
  BY DEF ConnsOK, TypeOK, RemoveConnection
<1>2. PICK c \in Conns : c = h
  BY <1>1
<1>3. /\ c \in table /\ table' = table \ {c} /\ mainQ' = Tail(mainQ) /\ QueueInLoop("destroyed", c)
      /\ UNCHANGED <<state, chan, outbuf, peer, batch, ext, forced, ups, downs, late>>
  BY <1>2 DEF RemoveConnection, Abort, conn, hist
<1>4. Posts("destroyed", c) /\ ExtSame
  BY <1>3, PostForm, ExtKept DEF ConnsOK, Kinds
<1>5. /\ Removing(c) /\ (RemovesOnce(c) => ~Removing(c)')
      /\ \A d \in Conns : /\ Removing(d)' => Removing(d)
                          /\ d # c => (Removing(d) => Removing(d)')
                          /\ RemovesOnce(d) => RemovesOnce(d)'
  BY <1>1, <1>2, <1>3, RemoveForm DEF ConnsOK
<1>6. ASSUME NEW d \in Conns, d # c
      PROVE  ConnInv(d)'
  <2>1. SameConn(d)
    BY <1>3, <1>4, <1>5, <1>6 DEF SameConn, Posts, ExtSame
  <2> QED
    BY <2>1, OthersFramed DEF ConnsOK
<1>7. ConnInv(c)'
  <2>1. ConnInv(c) /\ ups[c] \in {0, 1} /\ downs[c] \in {0, 1}
    BY DEF ConnsOK, TypeOK
  <2>2. Birth(c)' /\ Untouched(c)' /\ Singles(c)'
    BY <1>3, <1>4, <1>5, <2>1 DEF ConnInv, Birth, Untouched, Singles, Kinds, Posts, ExtSame, Alive
  <2>3. Forces(c)' /\ Blame(c)' /\ ~late'[c]
    BY <1>3, <1>4, <1>5, <2>1 DEF ConnInv, Birth, Untouched, Forces, Blame, Closing, ForcePending, Kinds, Posts, ExtSame
  <2>4. RemovedOk(c)'
    BY <1>3, <1>5, <2>1 DEF ConnInv, RemovedOk, Guilty
  <2> QED
    BY <2>2, <2>3, <2>4 DEF ConnInv
<1> QED
  BY <1>6, <1>7

\* A step that leaves queues and threads alone and changes connection c only.
LEMMA LocalStep ==
  ASSUME ConnsOK, NEW c \in Conns, QueueSame, MainSame, ExtSame, UNCHANGED <<table, forced, ups, downs>>,
         \A d \in Conns \ {c} : state'[d] = state[d] /\ chan'[d] = chan[d] /\ peer'[d] = peer[d] /\ late'[d] = late[d],
         Birth(c) => Birth(c)', Untouched(c)', Blame(c)', RemovedOk(c)', ~late'[c]
  PROVE  \A d \in Conns : ConnInv(d)'
<1>1. ASSUME NEW d \in Conns, d # c
      PROVE  ConnInv(d)'
  <2>1. SameConn(d)
    BY <1>1 DEF SameConn, QueueSame, MainSame, ExtSame
  <2> QED
    BY <2>1, OthersFramed DEF ConnsOK
<1>2. ConnInv(c)'
  <2>1. ConnInv(c)
    BY DEF ConnsOK
  <2>2. Singles(c)'
    BY <2>1 DEF ConnInv, Singles, QueueSame
  <2>3. Forces(c)'
    BY <2>1 DEF ConnInv, Forces, ForcePending, QueueSame, ExtSame, Kinds
  <2> QED
    BY <2>1, <2>2, <2>3 DEF ConnInv
<1> QED
  BY <1>1, <1>2

LEMMA ReadMessageOK ==
  ASSUME ConnsOK, NEW c \in Conns, ReadMessage(c)
  PROVE  \A d \in Conns : ConnInv(d)'
<1>1. QueueSame /\ MainSame /\ ExtSame /\ UNCHANGED <<table, forced, ups, downs, chan, peer>>
  BY QueueKept, ExtKept DEF ReadMessage
<1>2. /\ state'[c] = state[c] \/ (state[c] = "kConnected" /\ state'[c] = "kDisconnecting")
      /\ late'[c] = (late[c] \/ downs[c] > 0)
      /\ \A d \in Conns \ {c} : state'[d] = state[d] /\ late'[d] = late[d]
  BY DEF ConnsOK, TypeOK, ReadMessage, SetState
<1>3. ConnInv(c) /\ chan[c].read /\ ups[c] \in {0, 1} /\ downs[c] \in {0, 1}
  BY DEF ConnsOK, TypeOK, ReadMessage
<1>4. ups[c] = 1
  BY <1>3 DEF ConnInv, Untouched, NoChannel
<1>5. downs[c] = 0
  BY <1>3, <1>4 DEF ConnInv, Birth, Blame, Closing
<1>6. Birth(c)' /\ Untouched(c)'
  BY <1>1, <1>2, <1>3, <1>4 DEF ConnInv, Birth, Untouched, Alive, QueueSame, MainSame, ExtSame, Kinds
<1>7. Blame(c)' /\ RemovedOk(c)' /\ ~late'[c]
  <2>1. ~late'[c]
    <3>1. ~(downs[c] > 0) /\ ~late[c]
      BY <1>3, <1>5 DEF ConnInv
    <3> QED
      BY <1>2, <3>1, Zenon
  <2>2. Closing(c)' <=> Closing(c)
    BY <1>1, <1>2 DEF Closing, MainSame
  <2>3. ForcePending(c)' <=> ForcePending(c)
    BY <1>1 DEF ForcePending, QueueSame, ExtSame, Kinds
  <2> QED
    BY <1>1, <1>3, <2>1, <2>2, <2>3 DEF ConnInv, Blame, RemovedOk, Guilty, MainSame
<1> QED
  BY <1>1, <1>2, <1>6, <1>7, LocalStep

LEMMA WriteDoneOK ==
  ASSUME ConnsOK, NEW c \in Conns, WriteDone(c)
  PROVE  \A d \in Conns : ConnInv(d)'
<1>1. QueueSame /\ MainSame /\ ExtSame /\ UNCHANGED <<table, forced, ups, downs, state, peer, late>>
  BY QueueKept, ExtKept DEF WriteDone, hist
<1>2. (chan'[c].read => chan[c].read) /\ \A d \in Conns \ {c} : chan'[d] = chan[d]
  <2>1. chan'[c] = DisableWriting(chan[c]) /\ \A d \in Conns \ {c} : chan'[d] = chan[d]
    BY DEF ConnsOK, TypeOK, WriteDone
  <2>2. DisableWriting(chan[c]).read => chan[c].read
    BY DEF DisableWriting, Disabled
  <2> QED
    BY <2>1, <2>2
<1>3. ConnInv(c) /\ chan[c].write /\ ups[c] \in {0, 1}
  BY DEF ConnsOK, TypeOK, WriteDone
<1>4. ups[c] = 1
  BY <1>3 DEF ConnInv, Untouched, NoChannel
<1>5. Birth(c)' /\ Untouched(c)'
  BY <1>1, <1>3, <1>4 DEF ConnInv, Birth, Untouched, Alive, QueueSame, Kinds
<1>6. Blame(c)' /\ RemovedOk(c)' /\ ~late'[c]
  <2>1. Closing(c)' <=> Closing(c)
    BY <1>1 DEF Closing, MainSame
  <2>2. ForcePending(c)' <=> ForcePending(c)
    BY <1>1 DEF ForcePending, QueueSame, ExtSame, Kinds
  <2> QED
    BY <1>1, <1>2, <1>3, <2>1, <2>2 DEF ConnInv, Blame, RemovedOk, Guilty, MainSame
<1> QED
  BY <1>1, <1>2, <1>5, <1>6, LocalStep

LEMMA PeerCloseOK ==
  ASSUME ConnsOK, NEW c \in Conns, PeerClose(c)
  PROVE  \A d \in Conns : ConnInv(d)'
<1>1. QueueSame /\ MainSame /\ ExtSame /\ UNCHANGED <<table, forced, ups, downs, state, chan, late>>
  BY QueueKept, ExtKept DEF PeerClose, conn, hist
<1>2. /\ peer'[c] # "open" /\ (peer'[c] = "rst" => c \in Sends)
      /\ \A d \in Conns \ {c} : peer'[d] = peer[d]
  BY DEF ConnsOK, TypeOK, PeerClose
<1>3. ConnInv(c)
  BY DEF ConnsOK
<1>4. Birth(c)' /\ Untouched(c)'
  BY <1>1, <1>3 DEF ConnInv, Birth, Untouched, Alive, QueueSame, MainSame, ExtSame, Kinds
<1>5. Blame(c)' /\ RemovedOk(c)' /\ ~late'[c]
  <2>1. Closing(c)' <=> Closing(c)
    BY <1>1 DEF Closing, MainSame
  <2> QED
    BY <1>1, <1>2, <1>3, <2>1 DEF ConnInv, Blame, RemovedOk, Guilty, MainSame
<1> QED
  BY <1>1, <1>2, <1>4, <1>5, LocalStep

\* TcpConnection::handleClose, from a poll or from forceCloseInLoop: c is not
\* closing yet, or it has two closers.
LEMMA HandleCloseOK ==
  ASSUME ConnsOK, NEW c \in Conns, HandleClose(c), ups[c] = 1, UNCHANGED <<state, peer, table, forced, ups, downs, late>>, ExtSame,
         \A fn \in Kinds, d \in Conns : (Waits(fn, d)' => Waits(fn, d)) /\ (Single(fn, d) => Single(fn, d)'),
         \A fn \in Kinds, d \in Conns \ {c} : Waits(fn, d)' <=> Waits(fn, d),
         peer[c] # "open" \/ (c \in forced /\ ~ForcePending(c)'),
         ~Closing(c) \/ Guilty(c)
  PROVE  \A d \in Conns : ConnInv(d)'
<1>1. /\ ~chan'[c].read /\ \A d \in Conns \ {c} : chan'[d] = chan[d]
      /\ mainQ' = Append(mainQ, c)
  BY DEF ConnsOK, TypeOK, HandleClose, Disabled
<1>2. \A d \in Conns : /\ Removing(d)' <=> Removing(d) \/ d = c
                       /\ RemovesOnce(d) /\ (d # c \/ ~Removing(d)) => RemovesOnce(d)'
  BY <1>1, CloseForm DEF ConnsOK
<1>3. ASSUME NEW d \in Conns, d # c
      PROVE  ConnInv(d)'
  <2>1. SameConn(d)
    BY <1>1, <1>2, <1>3 DEF SameConn, ExtSame
  <2> QED
    BY <2>1, OthersFramed DEF ConnsOK
<1>4. ConnInv(c)'
  <2>1. ConnInv(c)
    BY DEF ConnsOK
  <2>2. Birth(c)' /\ Untouched(c)' /\ Singles(c)'
    BY <2>1 DEF ConnInv, Birth, Untouched, Singles, Alive, Kinds
  <2>3. ForcePending(c)' => ForcePending(c)
    BY DEF ForcePending, ExtSame, Kinds
  <2>4. Forces(c)'
    BY <2>1, <2>3 DEF ConnInv, Forces, ExtSame, Kinds
  <2>5. Blame(c)'
    BY <1>1, <2>1, <2>3 DEF ConnInv, Blame
  <2>6. RemovedOk(c)'
    <3> SUFFICES ASSUME ~Guilty(c)
                 PROVE  RemovesOnce(c)' /\ c \in table
      BY DEF RemovedOk, Guilty
    <3>1. ~Removing(c) /\ (c \in table \/ state[c] = "none") /\ RemovesOnce(c)
      BY <2>1 DEF Closing, ConnInv, RemovedOk
    <3>2. state[c] # "none"
      BY <2>1 DEF ConnInv, Birth
    <3> QED
      BY <1>2, <3>1, <3>2
  <2> QED
    BY <2>1, <2>2, <2>4, <2>5, <2>6 DEF ConnInv
<1> QED
  BY <1>3, <1>4

LEMMA ReadCloseOK ==
  ASSUME ConnsOK, NEW c \in Conns, ReadClose(c), failed' = failed, failed = "none"
  PROVE  \A d \in Conns : ConnInv(d)'
<1>1. HandleClose(c) /\ UNCHANGED <<state, peer, table, forced, ups, downs, late>> /\ QueueSame /\ ExtSame
  BY QueueKept, ExtKept DEF ReadClose, Abort, hist
<1>2. ConnInv(c) /\ chan[c].index = "added" /\ ups[c] \in {0, 1}
  BY DEF ConnsOK, TypeOK, ReadClose, Polled
<1>3. (chan[c].read /\ peer[c] # "open") \/ peer[c] = "rst"
  BY DEF ReadClose
<1>4. ups[c] = 1
  BY <1>2 DEF ConnInv, Untouched, NoChannel
<1>5. peer[c] # "open" /\ (~Closing(c) \/ Guilty(c))
  BY <1>2, <1>3 DEF ConnInv, Blame, Guilty
<1> QED
  BY <1>1, <1>4, <1>5, HandleCloseOK DEF QueueSame

LEMMA ForceCloseInLoopOK ==
  ASSUME ConnsOK, NEW c \in Conns, ForceCloseInLoop(c)
  PROVE  \A d \in Conns : ConnInv(d)'
<1>1. UNCHANGED <<state, peer, table, forced, ups, downs, late>> /\ Runs("forceClose", c) /\ ExtSame
  BY RunForm, ExtKept DEF ConnsOK, ForceCloseInLoop, Kinds, hist
<1>2. ConnInv(c) /\ Waits("forceClose", c) /\ ups[c] \in {0, 1}
  BY <1>1 DEF ConnsOK, TypeOK, Runs
<1>3. ups[c] = 1
  BY <1>2 DEF ConnInv, Untouched, Kinds
<1>4. ForcePending(c) /\ c \in forced
  BY <1>2 DEF ConnInv, Forces, ForcePending
<1>5. ~ForcePending(c)'
  <2>1. ~Waits("forceClose", c)'
    BY <1>1, <1>2 DEF ConnInv, Singles, Kinds, Runs
  <2>2. \A t \in ExtThreads : ~Forcing(t, c)'
    BY <1>1, <1>2 DEF ConnInv, Forces, ExtSame
  <2> QED
    BY <2>1, <2>2 DEF ForcePending
<1>6. CASE Alive(c)
  <2>1. HandleClose(c)
    BY <1>6 DEF ForceCloseInLoop
  <2>2. ~Closing(c) \/ Guilty(c)
    BY <1>2, <1>4 DEF ConnInv, Blame, Guilty
  <2>3. /\ \A fn \in Kinds, d \in Conns : (Waits(fn, d)' => Waits(fn, d)) /\ (Single(fn, d) => Single(fn, d)')
        /\ \A fn \in Kinds, d \in Conns \ {c} : Waits(fn, d)' <=> Waits(fn, d)
    BY <1>1 DEF Runs
  <2> QED
    BY <1>1, <1>3, <1>4, <1>5, <2>1, <2>2, <2>3, HandleCloseOK
<1>7. CASE ~Alive(c)
  <2>1. chan' = chan /\ MainSame
    BY <1>7, QueueKept DEF ForceCloseInLoop
  <2>2. ASSUME NEW d \in Conns, d # c
        PROVE  ConnInv(d)'
    <3>1. SameConn(d)
      BY <1>1, <2>1, <2>2 DEF SameConn, Runs, MainSame, ExtSame
    <3> QED
      BY <3>1, OthersFramed DEF ConnsOK
  <2>3. Birth(c)' /\ Untouched(c)' /\ Singles(c)'
    BY <1>1, <1>2, <1>3, <2>1 DEF ConnInv, Birth, Untouched, Singles, Alive, Kinds, Runs, MainSame
  <2>4. Forces(c)' /\ Blame(c)' /\ RemovedOk(c)'
    <3>1. Closing(c)' <=> Closing(c)
      BY <1>1, <2>1 DEF Closing, MainSame
    <3>2. ~Waits("forceClose", c)'
      BY <1>5 DEF ForcePending
    <3> QED
      BY <1>1, <1>2, <1>5, <2>1, <3>1, <3>2 DEF ConnInv, Forces, Blame, RemovedOk, Guilty, MainSame, ExtSame
  <2> QED
    BY <1>1, <1>2, <2>2, <2>3, <2>4 DEF ConnInv
<1> QED
  BY <1>6, <1>7

\* connectEstablished finds the state that newConnection has set.
LEMMA EstablishedOK ==
  ASSUME ConnsOK, NEW c \in Conns, Established(c), failed = "none"
  PROVE  failed' = failed /\ \A d \in Conns : ConnInv(d)'
<1>1. ConnInv(c) /\ Running("established", c) /\ batch # <<>> /\ ups[c] \in {0, 1} /\ downs[c] \in {0, 1}
  BY DEF ConnsOK, TypeOK, Established, Running
<1>2. Waits("established", c)
  <2>1. batch \in Seq(Functor) /\ ioQ \in Seq(Functor)
    BY DEF ConnsOK, TypeOK
  <2>2. Todo # <<>> /\ Head(Todo) = <<"established", c>> /\ Todo \in Seq(Functor)
    BY <1>1, <2>1 DEF Running, Todo
  <2> QED
    BY <2>2, PopFacts DEF Waits
<1>3. state[c] = "kConnecting" /\ ups[c] = 0 /\ downs[c] = 0 /\ c \in table
  BY <1>1, <1>2 DEF ConnInv, Birth
<1>4. /\ state'[c] = "kConnected" /\ ups'[c] = 1 /\ failed' = failed
      /\ \A d \in Conns \ {c} : state'[d] = state[d] /\ chan'[d] = chan[d] /\ ups'[d] = ups[d]
      /\ batch' = Tail(batch)
      /\ UNCHANGED <<peer, table, ioQ, mainQ, ext, forced, downs, late>>
  BY <1>3 DEF ConnsOK, TypeOK, Established, SetState
<1>5. Runs("established", c) /\ MainSame /\ ExtSame
  BY <1>1, <1>4, RunForm, QueueKept, ExtKept DEF ConnsOK, Kinds
<1>6. ASSUME NEW d \in Conns, d # c
      PROVE  ConnInv(d)'
  <2>1. SameConn(d)
    BY <1>4, <1>5, <1>6 DEF SameConn, Runs, MainSame, ExtSame
  <2> QED
    BY <2>1, OthersFramed DEF ConnsOK
<1>7. ~Waits("established", c)' /\ \A fn \in Kinds \ {"established"} : ~Waits(fn, c)'
  BY <1>1, <1>3, <1>5 DEF ConnInv, Singles, Untouched, Kinds, Runs
<1>8. /\ ~Removing(c)' /\ ~Closing(c)' /\ ~ForcePending(c)' /\ c \notin forced
      /\ \A t \in ExtThreads : ~Visits(t, c)' /\ ~Forcing(t, c)'
  <2>1. ~Removing(c)' /\ c \notin forced /\ \A t \in ExtThreads : ~Visits(t, c)'
    BY <1>1, <1>3, <1>5 DEF ConnInv, Untouched, MainSame, ExtSame
  <2>2. \A t \in ExtThreads : ~Forcing(t, c)'
    BY <2>1 DEF Visits, Forcing
  <2> QED
    BY <1>3, <1>4, <1>7, <2>1, <2>2 DEF Closing, ForcePending, Kinds
<1>9. Birth(c)' /\ Untouched(c)' /\ Singles(c)'
  BY <1>1, <1>3, <1>4, <1>5, <1>7 DEF ConnInv, Birth, Untouched, Singles, Alive, Kinds, Runs
<1>10. Forces(c)' /\ Blame(c)' /\ RemovedOk(c)'
  BY <1>1, <1>4, <1>5, <1>7, <1>8 DEF ConnInv, Forces, Blame, RemovedOk, Guilty, MainSame, Kinds
<1> QED
  BY <1>1, <1>4, <1>6, <1>9, <1>10 DEF ConnInv

LEMMA SendInLoopOK ==
  ASSUME ConnsOK, NEW c \in Conns, SendInLoop(c)
  PROVE  \A d \in Conns : ConnInv(d)'
<1>1. /\ Runs("send", c) /\ MainSame /\ ExtSame
      /\ UNCHANGED <<state, peer, table, forced, ups, downs, late>>
  BY RunForm, QueueKept, ExtKept DEF ConnsOK, SendInLoop, Kinds, hist
<1>2. chan'[c].read = chan[c].read /\ \A d \in Conns \ {c} : chan'[d] = chan[d]
  <2>1. \/ chan' = chan
        \/ chan' = [chan EXCEPT ![c] = EnableWriting(chan[c])]
    BY DEF ConnsOK, TypeOK, SendInLoop
  <2>2. /\ chan \in [Conns -> [index : {"new", "added", "deleted"}, read : BOOLEAN, write : BOOLEAN]]
        /\ EnableWriting(chan[c]).read = chan[c].read
    BY DEF ConnsOK, TypeOK, EnableWriting
  <2> QED
    BY <2>1, <2>2
<1>3. ConnInv(c) /\ Waits("send", c) /\ ups[c] \in {0, 1}
  BY <1>1 DEF ConnsOK, TypeOK, Runs
<1>4. ups[c] = 1
  BY <1>3 DEF ConnInv, Untouched, Kinds
<1>5. ASSUME NEW d \in Conns, d # c
      PROVE  ConnInv(d)'
  <2>1. SameConn(d)
    BY <1>1, <1>2, <1>5 DEF SameConn, Runs, MainSame, ExtSame
  <2> QED
    BY <2>1, OthersFramed DEF ConnsOK
<1>6. Birth(c)' /\ Untouched(c)' /\ Singles(c)'
  BY <1>1, <1>3, <1>4 DEF ConnInv, Birth, Untouched, Singles, Alive, Kinds, Runs
<1>7. Forces(c)' /\ Blame(c)' /\ RemovedOk(c)'
  <2>1. Closing(c)' <=> Closing(c)
    BY <1>1 DEF Closing, MainSame
  <2>2. ForcePending(c)' <=> ForcePending(c)
    BY <1>1 DEF ForcePending, Runs, ExtSame, Kinds
  <2> QED
    BY <1>1, <1>2, <1>3, <2>1, <2>2 DEF ConnInv, Forces, Blame, RemovedOk, Guilty, MainSame, ExtSame, Runs, Kinds
<1> QED
  BY <1>1, <1>3, <1>5, <1>6, <1>7 DEF ConnInv

\* connectDestroyed finds the connection up: it is queued once, by the step
\* that takes the entry out of the table.
LEMMA DestroyedOK ==
  ASSUME ConnsOK, NEW c \in Conns, Destroyed(c), failed = "none"
  PROVE  failed' = failed /\ \A d \in Conns : ConnInv(d)'
<1>1. ConnInv(c) /\ Running("destroyed", c) /\ batch # <<>> /\ ups[c] \in {0, 1} /\ downs[c] \in {0, 1}
  BY DEF ConnsOK, TypeOK, Destroyed, Running
<1>2. Waits("destroyed", c)
  <2>1. batch \in Seq(Functor) /\ ioQ \in Seq(Functor)
    BY DEF ConnsOK, TypeOK
  <2>2. Todo # <<>> /\ Head(Todo) = <<"destroyed", c>> /\ Todo \in Seq(Functor)
    BY <1>1, <2>1 DEF Running, Todo
  <2> QED
    BY <2>2, PopFacts DEF Waits
<1>3. ups[c] = 1 /\ downs[c] = 0 /\ c \notin table
  BY <1>1, <1>2 DEF ConnInv, Birth, Untouched, Kinds
<1>4. Alive(c)
  BY <1>1, <1>3 DEF ConnInv, Birth
<1>5. /\ state'[c] = "kDisconnected" /\ downs'[c] = 1 /\ ~chan'[c].read /\ failed' = failed
      /\ \A d \in Conns \ {c} : state'[d] = state[d] /\ chan'[d] = chan[d] /\ downs'[d] = downs[d]
      /\ batch' = Tail(batch)
      /\ UNCHANGED <<peer, table, ioQ, mainQ, ext, forced, ups, late>>
  BY <1>3, <1>4 DEF ConnsOK, TypeOK, Destroyed, SetState, NoChannel
<1>6. Runs("destroyed", c) /\ MainSame /\ ExtSame
  BY <1>1, <1>5, RunForm, QueueKept, ExtKept DEF ConnsOK, Kinds
<1>7. ASSUME NEW d \in Conns, d # c
      PROVE  ConnInv(d)'
  <2>1. SameConn(d)
    BY <1>5, <1>6, <1>7 DEF SameConn, Runs, MainSame, ExtSame
  <2> QED
    BY <2>1, OthersFramed DEF ConnsOK
<1>8. ~Waits("destroyed", c)'
  BY <1>1, <1>6 DEF ConnInv, Singles, Kinds, Runs
<1>9. Birth(c)' /\ Untouched(c)' /\ Singles(c)'
  BY <1>1, <1>3, <1>5, <1>6, <1>8 DEF ConnInv, Birth, Untouched, Singles, Alive, Kinds, Runs
<1>10. Forces(c)' /\ Blame(c)' /\ RemovedOk(c)'
  <2>1. Closing(c)
    BY <1>3, <1>4 DEF Closing, Alive
  <2>2. ForcePending(c)' <=> ForcePending(c)
    BY <1>6 DEF ForcePending, Runs, ExtSame, Kinds
  <2> QED
    BY <1>1, <1>5, <1>6, <2>1, <2>2 DEF ConnInv, Forces, Blame, RemovedOk, Guilty, MainSame, ExtSame, Runs, Kinds
<1> QED
  BY <1>1, <1>5, <1>7, <1>9, <1>10 DEF ConnInv

LEMMA SwapFunctorsOK ==
  ASSUME ConnsOK, SwapFunctors
  PROVE  \A d \in Conns : ConnInv(d)'
<1>1. QueueSame /\ MainSame /\ ExtSame /\ UNCHANGED <<state, chan, peer, table, forced, ups, downs, late>>
  BY SwapForm, QueueKept, ExtKept DEF ConnsOK, SwapFunctors, conn, hist
<1>2. ASSUME NEW d \in Conns
      PROVE  SameConn(d)
  BY <1>1 DEF SameConn, QueueSame, MainSame, ExtSame
<1> QED
  BY <1>2, OthersFramed DEF ConnsOK

\* A thread tests c's state: it visits c now, and no other connection.
Calls(t, c, at) ==
  /\ ext[t].pc = "rest"
  /\ ext'[t].pc = at /\ ext'[t].conn = c
  /\ \A s \in ExtThreads \ {t} : ext'[s] = ext[s]

\* It has acted, and visits none.
Leaves(t, c) ==
  /\ ext[t].conn = c /\ ext'[t].pc = "rest"
  /\ \A s \in ExtThreads \ {t} : ext'[s] = ext[s]

LEMMA CallForm ==
  ASSUME NEW t \in ExtThreads, NEW c \in Conns, NEW at \in {"force", "send"}, Calls(t, c, at)
  PROVE  /\ \A s \in ExtThreads, d \in Conns :
              /\ Visits(s, d)' <=> Visits(s, d) \/ (s = t /\ d = c)
              /\ Forcing(s, d)' <=> Forcing(s, d) \/ (s = t /\ d = c /\ at = "force")
<1> SUFFICES ASSUME NEW s \in ExtThreads, NEW d \in Conns
             PROVE  /\ Visits(s, d)' <=> Visits(s, d) \/ (s = t /\ d = c)
                    /\ Forcing(s, d)' <=> Forcing(s, d) \/ (s = t /\ d = c /\ at = "force")
  OBVIOUS
<1>1. CASE s = t
  BY <1>1 DEF Calls, Visits, Forcing
<1>2. CASE s # t
  <2>1. ext'[s] = ext[s]
    BY <1>2 DEF Calls
  <2> QED
    BY <1>2, <2>1 DEF Visits, Forcing
<1> QED
  BY <1>1, <1>2

LEMMA LeaveForm ==
  ASSUME NEW t \in ExtThreads, NEW c \in Conns, Leaves(t, c)
  PROVE  \A s \in ExtThreads, d \in Conns :
           /\ Visits(s, d)' <=> Visits(s, d) /\ s # t
           /\ Forcing(s, d)' <=> Forcing(s, d) /\ s # t
           /\ d # c => (Visits(s, d)' <=> Visits(s, d)) /\ (Forcing(s, d)' <=> Forcing(s, d))
<1> SUFFICES ASSUME NEW s \in ExtThreads, NEW d \in Conns
             PROVE  /\ Visits(s, d)' <=> Visits(s, d) /\ s # t
                    /\ Forcing(s, d)' <=> Forcing(s, d) /\ s # t
                    /\ d # c => (Visits(s, d)' <=> Visits(s, d)) /\ (Forcing(s, d)' <=> Forcing(s, d))
  OBVIOUS
<1>1. CASE s = t
  BY <1>1 DEF Leaves, Visits, Forcing
<1>2. CASE s # t
  <2>1. ext'[s] = ext[s]
    BY <1>2 DEF Leaves
  <2> QED
    BY <1>2, <2>1 DEF Visits, Forcing
<1> QED
  BY <1>1, <1>2

\* The heartbeat condemns c once: no forceClose of c is pending yet.
LEMMA ForceCheckOK ==
  ASSUME ConnsOK, NEW t \in ExtThreads, NEW c \in Conns, ForceCheck(t, c)
  PROVE  \A d \in Conns : ConnInv(d)'
<1>1. /\ QueueSame /\ MainSame /\ forced' = forced \cup {c}
      /\ UNCHANGED <<state, chan, peer, table, ups, downs, late>>
  BY QueueKept DEF ForceCheck, conn, hist
<1>2. Calls(t, c, "force")
  BY DEF ConnsOK, TypeOK, ForceCheck, Calls, Rest
<1>3. \A s \in ExtThreads, d \in Conns : /\ Visits(s, d)' <=> Visits(s, d) \/ (s = t /\ d = c)
                                         /\ Forcing(s, d)' <=> Forcing(s, d) \/ (s = t /\ d = c)
  BY <1>2, CallForm
<1>4. ConnInv(c) /\ c \notin forced /\ Alive(c) /\ downs[c] = 0 /\ ups[c] \in {0, 1}
  BY DEF ConnsOK, TypeOK, ForceCheck
<1>5. ASSUME NEW d \in Conns, d # c
      PROVE  ConnInv(d)'
  <2>1. SameConn(d)
    BY <1>1, <1>3, <1>5 DEF SameConn, QueueSame, MainSame
  <2> QED
    BY <2>1, OthersFramed DEF ConnsOK
<1>6. ups[c] = 1 /\ ~ForcePending(c)
  BY <1>4 DEF ConnInv, Birth, Forces, Alive
<1>7. Birth(c)' /\ Untouched(c)' /\ Singles(c)'
  BY <1>1, <1>4, <1>6 DEF ConnInv, Birth, Untouched, Singles, Alive, Kinds, QueueSame
<1>8. Forces(c)'
  BY <1>1, <1>3, <1>4, <1>6 DEF ConnInv, Forces, ForcePending, QueueSame, Kinds
<1>9. Blame(c)' /\ RemovedOk(c)'
  <2>1. Closing(c)' <=> Closing(c)
    BY <1>1 DEF Closing, MainSame
  <2>2. Closing(c) => peer[c] # "open"
    BY <1>4 DEF ConnInv, Blame
  <2> QED
    BY <1>1, <1>4, <2>1, <2>2 DEF ConnInv, Blame, RemovedOk, Guilty, MainSame
<1> QED
  BY <1>1, <1>4, <1>5, <1>7, <1>8, <1>9 DEF ConnInv

\* The state is tested before and set after: the connection may be down by now.
LEMMA ForceActOK ==
  ASSUME ConnsOK, NEW t \in ExtThreads, ForceAct(t)
  PROVE  \A d \in Conns : ConnInv(d)'
<1>1. PICK c \in Conns : c = ext[t].conn /\ Visits(t, c) /\ Forcing(t, c)
  BY DEF ConnsOK, TypeOK, ForceAct, Rest, Visits, Forcing
<1>2. /\ Posts("forceClose", c) /\ MainSame
      /\ state'[c] = "kDisconnecting" /\ \A d \in Conns \ {c} : state'[d] = state[d]
      /\ UNCHANGED <<chan, peer, table, forced, ups, downs, late>>
  BY <1>1, PostForm, QueueKept DEF ConnsOK, TypeOK, ForceAct, SetState, Kinds, hist
<1>3. Leaves(t, c)
  BY <1>1 DEF ConnsOK, TypeOK, ForceAct, Leaves, Rest
<1>4. \A s \in ExtThreads, d \in Conns : /\ Visits(s, d)' <=> Visits(s, d) /\ s # t
                                         /\ Forcing(s, d)' <=> Forcing(s, d) /\ s # t
                                         /\ d # c => (Visits(s, d)' <=> Visits(s, d)) /\ (Forcing(s, d)' <=> Forcing(s, d))
  BY <1>3, LeaveForm
<1>5. ConnInv(c) /\ ups[c] \in {0, 1} /\ downs[c] \in {0, 1}
  BY DEF ConnsOK, TypeOK
<1>6. ASSUME NEW d \in Conns, d # c
      PROVE  ConnInv(d)'
  <2>1. SameConn(d)
    BY <1>2, <1>4, <1>6 DEF SameConn, Posts, MainSame
  <2> QED
    BY <2>1, OthersFramed DEF ConnsOK
<1>7. ups[c] = 1 /\ state[c] \notin {"none", "kConnecting"}
  BY <1>1, <1>5 DEF ConnInv, Birth, Untouched
<1>8. /\ ForcePending(c) /\ ~Waits("forceClose", c)
      /\ \A s \in ExtThreads : ~Forcing(s, c)'
  BY <1>1, <1>4, <1>5 DEF ConnInv, Forces, ForcePending
<1>9. Birth(c)' /\ Untouched(c)' /\ Singles(c)'
  BY <1>2, <1>5, <1>7, <1>8 DEF ConnInv, Birth, Untouched, Singles, Alive, Kinds, Posts
<1>10. Forces(c)' /\ Blame(c)' /\ RemovedOk(c)'
  <2>1. Closing(c)' <=> Closing(c)
    BY <1>2, <1>7 DEF Closing, MainSame
  <2> QED
    BY <1>2, <1>5, <1>8, <2>1 DEF ConnInv, Forces, ForcePending, Blame, RemovedOk, Guilty, MainSame
<1> QED
  BY <1>2, <1>5, <1>6, <1>9, <1>10 DEF ConnInv

LEMMA SendCheckOK ==
  ASSUME ConnsOK, NEW t \in ExtThreads, NEW c \in Conns, SendCheck(t, c)
  PROVE  \A d \in Conns : ConnInv(d)'
<1>1. QueueSame /\ MainSame /\ UNCHANGED <<state, chan, peer, table, forced, ups, downs, late>>
  BY QueueKept DEF SendCheck, conn, hist
<1>2. Calls(t, c, "send")
  BY DEF ConnsOK, TypeOK, SendCheck, Calls, Rest
<1>3. \A s \in ExtThreads, d \in Conns : /\ Visits(s, d)' <=> Visits(s, d) \/ (s = t /\ d = c)
                                         /\ Forcing(s, d)' <=> Forcing(s, d)
  BY <1>2, CallForm
<1>4. ConnInv(c) /\ state[c] = "kConnected" /\ ups[c] \in {0, 1}
  BY DEF ConnsOK, TypeOK, SendCheck
<1>5. ASSUME NEW d \in Conns, d # c
      PROVE  ConnInv(d)'
  <2>1. SameConn(d)
    BY <1>1, <1>3, <1>5 DEF SameConn, QueueSame, MainSame
  <2> QED
    BY <2>1, OthersFramed DEF ConnsOK
<1>6. ups[c] = 1
  BY <1>4 DEF ConnInv, Birth
<1>7. Birth(c)' /\ Untouched(c)' /\ Singles(c)'
  BY <1>1, <1>4, <1>6 DEF ConnInv, Birth, Untouched, Singles, Alive, Kinds, QueueSame
<1>8. Forces(c)' /\ Blame(c)' /\ RemovedOk(c)'
  <2>1. Closing(c)' <=> Closing(c)
    BY <1>1 DEF Closing, MainSame
  <2>2. ForcePending(c)' <=> ForcePending(c)
    BY <1>1, <1>3 DEF ForcePending, QueueSame, Kinds
  <2> QED
    BY <1>1, <1>3, <1>4, <2>1, <2>2 DEF ConnInv, Forces, Blame, RemovedOk, Guilty, MainSame, QueueSame, Kinds
<1> QED
  BY <1>1, <1>4, <1>5, <1>7, <1>8 DEF ConnInv

LEMMA SendActOK ==
  ASSUME ConnsOK, NEW t \in ExtThreads, SendAct(t)
  PROVE  \A d \in Conns : ConnInv(d)'
<1>1. PICK c \in Conns : c = ext[t].conn /\ Visits(t, c) /\ \A d \in Conns : ~Forcing(t, d)
  BY DEF ConnsOK, TypeOK, SendAct, Rest, Visits, Forcing
<1>2. /\ Posts("send", c) /\ MainSame
      /\ UNCHANGED <<state, chan, peer, table, forced, ups, downs, late>>
  BY <1>1, PostForm, QueueKept DEF ConnsOK, SendAct, Kinds, conn, hist
<1>3. Leaves(t, c)
  BY <1>1 DEF ConnsOK, TypeOK, SendAct, Leaves, Rest
<1>4. \A s \in ExtThreads, d \in Conns : /\ Visits(s, d)' <=> Visits(s, d) /\ s # t
                                         /\ Forcing(s, d)' <=> Forcing(s, d)
                                         /\ d # c => (Visits(s, d)' <=> Visits(s, d))
  BY <1>1, <1>3, LeaveForm
<1>5. ConnInv(c) /\ ups[c] \in {0, 1}
  BY DEF ConnsOK, TypeOK
<1>6. ASSUME NEW d \in Conns, d # c
      PROVE  ConnInv(d)'
  <2>1. SameConn(d)
    BY <1>2, <1>4, <1>6 DEF SameConn, Posts, MainSame
  <2> QED
    BY <2>1, OthersFramed DEF ConnsOK
<1>7. ups[c] = 1
  BY <1>1, <1>5 DEF ConnInv, Untouched
<1>8. Birth(c)' /\ Untouched(c)' /\ Singles(c)'
  BY <1>2, <1>5, <1>7 DEF ConnInv, Birth, Untouched, Singles, Alive, Kinds, Posts
<1>9. Forces(c)' /\ Blame(c)' /\ RemovedOk(c)'
  <2>1. Closing(c)' <=> Closing(c)
    BY <1>2 DEF Closing, MainSame
  <2>2. ForcePending(c)' <=> ForcePending(c)
    BY <1>2, <1>4 DEF ForcePending, Posts, Kinds
  <2>3. Waits("forceClose", c)' <=> Waits("forceClose", c)
    BY <1>2 DEF Posts, Kinds
  <2> QED
    BY <1>2, <1>4, <1>5, <2>1, <2>2, <2>3 DEF ConnInv, Forces, Blame, RemovedOk, Guilty, MainSame
<1> QED
  BY <1>2, <1>5, <1>6, <1>8, <1>9 DEF ConnInv

-----------------------------------------------------------------------------
(* The asserts that may fail.                                              *)

LEMMA AbortOK ==
  ASSUME ConnsOK, NEW w, Abort(w)
  PROVE  \A d \in Conns : ConnInv(d)' /\ (Guilty(d)' <=> Guilty(d))
<1>1. QueueSame /\ MainSame /\ ExtSame /\ UNCHANGED <<state, chan, peer, table, forced, ups, downs, late>>
  BY QueueKept, ExtKept DEF Abort, conn, hist
<1>2. ASSUME NEW d \in Conns
      PROVE  SameConn(d) /\ (Guilty(d)' <=> Guilty(d))
  BY <1>1 DEF SameConn, QueueSame, MainSame, ExtSame, Guilty
<1> QED
  BY <1>2, OthersFramed DEF ConnsOK

\* The poll reports a connection that is not up: its peer has reset it, which
\* takes a write.
LEMMA ReadCloseFails ==
  ASSUME ConnsOK, NEW c \in Conns, ReadClose(c), ~Alive(c)
  PROVE  Guilty(c)
<1>1. ConnInv(c) /\ chan[c].index = "added" /\ ups[c] \in {0, 1} /\ downs[c] \in {0, 1}
  BY DEF ConnsOK, TypeOK, ReadClose, Polled
<1>2. (chan[c].read /\ peer[c] # "open") \/ peer[c] = "rst"
  BY DEF ReadClose
<1>3. ups[c] = 1
  BY <1>1 DEF ConnInv, Untouched, NoChannel
<1>4. downs[c] = 1
  BY <1>1, <1>3 DEF ConnInv, Birth
<1>5. c \notin table /\ state[c] # "none"
  BY <1>1, <1>3, <1>4 DEF ConnInv, Birth
<1>6. ~chan[c].read
  BY <1>1, <1>5 DEF ConnInv, Blame, Closing
<1> QED
  BY <1>1, <1>2, <1>6 DEF ConnInv, Blame, Guilty

\* A connection is removed that the table no longer holds.
LEMMA RemoveConnectionFails ==
  ASSUME ConnsOK, RemoveConnection, Head(mainQ) \notin table
  PROVE  \E c \in Conns : Guilty(c)
<1>1. mainQ # <<>> /\ mainQ \in Seq(Conns)
  BY DEF ConnsOK, TypeOK, RemoveConnection
<1>2. PICK c \in Conns : c = Head(mainQ)
  BY <1>1
<1>3. Removing(c) /\ c \notin table
  BY <1>1, <1>2, PopFacts DEF Removing
<1>4. ConnInv(c)
  BY DEF ConnsOK
<1> QED
  BY <1>3, <1>4 DEF ConnInv, RemovedOk

-----------------------------------------------------------------------------
(* Types.                                                                  *)

ConnType ==
  /\ state \in [Conns -> {"none", "kConnecting", "kConnected", "kDisconnecting", "kDisconnected"}]
  /\ chan \in [Conns -> [index : {"new", "added", "deleted"}, read : BOOLEAN, write : BOOLEAN]]
  /\ outbuf \in [Conns -> BOOLEAN]
  /\ peer \in [Conns -> {"open", "fin", "rst"}]
  /\ table \subseteq Conns /\ forced \subseteq Conns

WorkType ==
  /\ ioQ \in Seq(Functor) /\ batch \in Seq(Functor) /\ mainQ \in Seq(Conns)
  /\ ext \in [ExtThreads -> {Rest} \cup [pc : {"force", "send"}, conn : Conns]]
  /\ failed \in {"none"} \cup Asserts

HistType ==
  /\ ups \in [Conns -> 0 .. 1] /\ downs \in [Conns -> 0 .. 1]
  /\ late \in [Conns -> BOOLEAN]

LEMMA TypeParts == TypeOK <=> ConnType /\ WorkType /\ HistType
BY DEF TypeOK, ConnType, WorkType, HistType

Channels == [index : {"new", "added", "deleted"}, read : BOOLEAN, write : BOOLEAN]

LEMMA ChannelType ==
  /\ NoChannel \in Channels
  /\ [index |-> "added", read |-> TRUE, write |-> FALSE] \in Channels
  /\ \A ch \in Channels : Disabled(ch) \in Channels /\ EnableWriting(ch) \in Channels /\ DisableWriting(ch) \in Channels
<1>1. NoChannel \in Channels /\ [index |-> "added", read |-> TRUE, write |-> FALSE] \in Channels
  BY DEF NoChannel, Channels
<1>2. ASSUME NEW ch \in Channels
      PROVE  Disabled(ch) \in Channels /\ EnableWriting(ch) \in Channels /\ DisableWriting(ch) \in Channels
  <2>1. Disabled(ch) \in Channels
    BY DEF Disabled, Channels
  <2>2. [ch EXCEPT !.index = "added", !.write = TRUE] \in Channels
    BY DEF Channels
  <2>3. [ch EXCEPT !.write = FALSE] \in Channels
    BY DEF Channels
  <2> QED
    BY <2>1, <2>2, <2>3 DEF EnableWriting, DisableWriting
<1> QED
  BY <1>1, <1>2

LEMMA TypesKept ==
  ASSUME TypeOK, UNCHANGED vars
  PROVE  TypeOK'
BY DEF TypeOK, vars, conn, hist

LEMMA AbortTypes ==
  ASSUME TypeOK, NEW w \in Asserts, Abort(w)
  PROVE  TypeOK'
BY DEF TypeOK, Abort, conn, hist

LEMMA MainTypes ==
  ASSUME TypeOK, RemoveConnection \/ \E c \in Conns : NewConnection(c)
  PROVE  TypeOK'
<1>1. ASSUME NEW c \in Conns, NewConnection(c)
      PROVE  TypeOK'
  <2>1. <<"established", c>> \in Functor
    BY DEF Functor
  <2> QED
    BY <1>1, <2>1 DEF TypeOK, NewConnection, SetState, QueueInLoop, hist
<1>2. CASE RemoveConnection /\ Head(mainQ) \in table
  <2>1. mainQ \in Seq(Conns) /\ mainQ # <<>>
    BY <1>2 DEF TypeOK, RemoveConnection
  <2>2. <<"destroyed", Head(mainQ)>> \in Functor /\ Tail(mainQ) \in Seq(Conns)
    BY <2>1 DEF Functor
  <2> QED
    <3>1. /\ table' = table \ {Head(mainQ)} /\ mainQ' = Tail(mainQ) /\ ioQ' = Append(ioQ, <<"destroyed", Head(mainQ)>>)
          /\ UNCHANGED <<state, chan, outbuf, peer, batch, ext, forced, ups, downs, late, failed>>
      BY <1>2 DEF RemoveConnection, QueueInLoop, conn, hist
    <3>2. table' \subseteq Conns /\ ioQ' \in Seq(Functor)
      BY <2>2, <3>1 DEF TypeOK
    <3> QED
      BY <2>2, <3>1, <3>2 DEF TypeOK
<1>3. CASE RemoveConnection /\ Head(mainQ) \notin table
  <2>1. Abort("removeConnectionInLoop:74")
    BY <1>3 DEF RemoveConnection
  <2> QED
    BY <2>1, AbortTypes DEF Asserts
<1> QED
  BY <1>1, <1>2, <1>3

LEMMA EventTypes ==
  ASSUME TypeOK, NEW c \in Conns, IOEvent(c) \/ PeerClose(c)
  PROVE  TypeOK'
<1>0. chan \in [Conns -> Channels] /\ chan[c] \in Channels
  BY DEF TypeOK, Channels
<1>1. CASE ReadMessage(c)
  <2>1. (late[c] \/ downs[c] > 0) \in BOOLEAN
    BY DEF TypeOK
  <2>2. HistType'
    BY <1>1, <2>1 DEF TypeOK, HistType, ReadMessage
  <2>3. ConnType' /\ WorkType'
    BY <1>1 DEF TypeOK, ConnType, WorkType, ReadMessage, SetState
  <2> QED
    BY <2>2, <2>3 DEF TypeOK, ConnType, WorkType, HistType
<1>2. CASE ReadClose(c) /\ ~Alive(c)
  <2>1. Abort("handleClose:70")
    BY <1>2 DEF ReadClose
  <2> QED
    BY <2>1, AbortTypes DEF Asserts
<1>3. CASE ReadClose(c) /\ Alive(c)
  <2>1. chan' \in [Conns -> Channels] /\ mainQ' \in Seq(Conns)
    <3>1. chan' = [chan EXCEPT ![c] = Disabled(chan[c])] /\ mainQ' = Append(mainQ, c)
      BY <1>3 DEF ReadClose, HandleClose
    <3>2. chan' \in [Conns -> Channels]
      BY <1>0, <3>1, ChannelType
    <3> QED
      BY <3>1, <3>2 DEF TypeOK
  <2> QED
    BY <1>3, <2>1 DEF TypeOK, ReadClose, Channels, hist
<1>4. CASE WriteDone(c)
  <2>1. chan' \in [Conns -> Channels]
    BY <1>0, <1>4, ChannelType DEF WriteDone
  <2> QED
    BY <1>4, <2>1 DEF TypeOK, WriteDone, Channels, hist
<1>5. CASE PeerClose(c)
  BY <1>5 DEF TypeOK, PeerClose, conn, hist
<1> QED
  BY <1>1, <1>2, <1>3, <1>4, <1>5 DEF IOEvent

LEMMA FunctorTypes ==
  ASSUME ConnsOK, NEW c \in Conns, IOFunctor(c)
  PROVE  TypeOK'
<1>0. TypeOK /\ chan \in [Conns -> Channels] /\ chan[c] \in Channels
  BY DEF ConnsOK, TypeOK, Channels
<1>1. ASSUME batch # <<>>, batch' = Tail(batch)
      PROVE  batch' \in Seq(Functor)
  BY <1>0, <1>1 DEF TypeOK
<1>2. CASE Established(c)
  <2>1. CASE state[c] # "kConnecting"
    <3>1. Abort("connectEstablished:46")
      BY <1>2, <2>1 DEF Established
    <3> QED
      BY <1>0, <3>1, AbortTypes DEF Asserts
  <2>2. CASE state[c] = "kConnecting"
    <3>1. ups[c] = 0
      BY <2>2 DEF ConnsOK, ConnInv, Birth
    <3>2. batch' \in Seq(Functor) /\ ups' \in [Conns -> 0 .. 1] /\ chan' \in [Conns -> Channels]
      <4>1. batch' \in Seq(Functor) /\ ups' \in [Conns -> 0 .. 1]
        <5>1. batch # <<>> /\ batch' = Tail(batch) /\ ups' = [ups EXCEPT ![c] = ups[c] + 1]
          BY <1>2, <2>2 DEF Established, Running
        <5> QED
          BY <1>0, <1>1, <3>1, <5>1 DEF TypeOK
      <4>2. chan' \in [Conns -> Channels]
        BY <1>0, <1>2, <2>2, ChannelType DEF Established
      <4> QED
        BY <4>1, <4>2
    <3> QED
      BY <1>0, <1>2, <2>2, <3>2 DEF TypeOK, Established, SetState, Channels
  <2> QED
    BY <2>1, <2>2
<1>3. CASE SendInLoop(c)
  <2>1. batch' \in Seq(Functor) /\ chan' \in [Conns -> Channels] /\ outbuf' \in [Conns -> BOOLEAN]
    <3>1. batch' \in Seq(Functor) /\ outbuf' \in [Conns -> BOOLEAN]
      BY <1>0, <1>1, <1>3 DEF TypeOK, SendInLoop, Running
    <3>2. chan' = chan \/ chan' = [chan EXCEPT ![c] = EnableWriting(chan[c])]
      BY <1>0, <1>3 DEF SendInLoop
    <3>3. chan' \in [Conns -> Channels]
      BY <1>0, <3>2, ChannelType
    <3> QED
      BY <3>1, <3>3
  <2> QED
    BY <1>0, <1>3, <2>1 DEF TypeOK, SendInLoop, Channels, hist
<1>4. CASE ForceCloseInLoop(c)
  <2>1. batch' \in Seq(Functor) /\ chan' \in [Conns -> Channels] /\ mainQ' \in Seq(Conns)
    <3>1. batch' \in Seq(Functor) /\ mainQ' \in Seq(Conns)
      <4>1. batch # <<>> /\ batch' = Tail(batch) /\ (mainQ' = mainQ \/ mainQ' = Append(mainQ, c))
        BY <1>4 DEF ForceCloseInLoop, HandleClose, Running
      <4>2. mainQ \in Seq(Conns)
        BY <1>0 DEF TypeOK
      <4>3. mainQ' \in Seq(Conns)
        BY <4>1, <4>2
      <4> QED
        BY <1>1, <4>1, <4>3
    <3>2. chan' = chan \/ chan' = [chan EXCEPT ![c] = Disabled(chan[c])]
      BY <1>4 DEF ForceCloseInLoop, HandleClose
    <3>3. chan' \in [Conns -> Channels]
      BY <1>0, <3>2, ChannelType
    <3> QED
      BY <3>1, <3>3
  <2> QED
    BY <1>0, <1>4, <2>1 DEF TypeOK, ForceCloseInLoop, Channels, hist
<1>5. CASE Destroyed(c)
  <2>1. CASE ~Alive(c)
    <3>1. Abort("connectDestroyed:36")
      BY <1>5, <2>1 DEF Destroyed
    <3> QED
      BY <1>0, <3>1, AbortTypes DEF Asserts
  <2>2. CASE Alive(c)
    <3>1. downs[c] = 0
      <4>1. batch \in Seq(Functor) /\ ioQ \in Seq(Functor) /\ batch # <<>> /\ Head(batch) = <<"destroyed", c>>
        BY <1>0, <1>5 DEF TypeOK, Destroyed, Running
      <4>2. Todo # <<>> /\ Head(Todo) = <<"destroyed", c>> /\ Todo \in Seq(Functor)
        BY <4>1 DEF Todo
      <4> QED
        BY <4>2, PopFacts DEF Waits, ConnsOK, ConnInv, Birth
    <3>2. batch' \in Seq(Functor) /\ downs' \in [Conns -> 0 .. 1] /\ chan' \in [Conns -> Channels]
      <4>1. batch' \in Seq(Functor) /\ downs' \in [Conns -> 0 .. 1]
        BY <1>0, <1>1, <1>5, <2>2, <3>1 DEF TypeOK, Destroyed, Running
      <4>2. chan' \in [Conns -> Channels]
        BY <1>0, <1>5, <2>2, ChannelType DEF Destroyed
      <4> QED
        BY <4>1, <4>2
    <3> QED
      BY <1>0, <1>5, <2>2, <3>2 DEF TypeOK, Destroyed, SetState, Channels
  <2> QED
    BY <2>1, <2>2
<1> QED
  BY <1>2, <1>3, <1>4, <1>5 DEF IOFunctor

LEMMA ThreadTypes ==
  ASSUME TypeOK, SwapFunctors \/ \E t \in ExtThreads : \/ \E c \in Conns : ForceCheck(t, c) \/ SendCheck(t, c)
                                                       \/ ForceAct(t) \/ SendAct(t)
  PROVE  TypeOK'
<1>1. CASE SwapFunctors
  BY <1>1 DEF TypeOK, SwapFunctors, conn, hist
<1>2. ASSUME NEW t \in ExtThreads, NEW c \in Conns, ForceCheck(t, c)
      PROVE  TypeOK'
  BY <1>2 DEF TypeOK, ForceCheck, conn, hist
<1>3. ASSUME NEW t \in ExtThreads, NEW c \in Conns, SendCheck(t, c)
      PROVE  TypeOK'
  BY <1>3 DEF TypeOK, SendCheck, conn, hist
<1>4. ASSUME NEW t \in ExtThreads, NEW at, ext[t].pc = at, at \in {"force", "send"}
      PROVE  ext[t].conn \in Conns
  BY <1>4 DEF TypeOK, Rest
<1>5. ASSUME NEW t \in ExtThreads, ForceAct(t)
      PROVE  TypeOK'
  <2>1. <<"forceClose", ext[t].conn>> \in Functor
    BY <1>4, <1>5 DEF Functor, ForceAct
  <2>2. ext[t].conn \in Conns
    BY <1>4, <1>5 DEF ForceAct
  <2>3. ConnType'
    BY <1>5, <2>2 DEF TypeOK, ConnType, ForceAct, SetState
  <2>4. WorkType'
    BY <1>5, <2>1 DEF TypeOK, WorkType, ForceAct, QueueInLoop
  <2>5. HistType'
    BY <1>5 DEF TypeOK, HistType, ForceAct, hist
  <2> QED
    BY <2>3, <2>4, <2>5 DEF TypeOK, ConnType, WorkType, HistType
<1>6. ASSUME NEW t \in ExtThreads, SendAct(t)
      PROVE  TypeOK'
  <2>1. <<"send", ext[t].conn>> \in Functor
    BY <1>4, <1>6 DEF Functor, SendAct
  <2> QED
    BY <1>6, <2>1 DEF TypeOK, SendAct, QueueInLoop, conn, hist
<1> QED
  BY <1>1, <1>2, <1>3, <1>5, <1>6

-----------------------------------------------------------------------------
(* The invariant and what follows from it.                                 *)

LEMMA InitInv == Init => IInv
<1> SUFFICES ASSUME Init PROVE IInv
  OBVIOUS
<1>1. TypeOK
  BY DEF Init, TypeOK, NoChannel, Rest, Functor
<1>2. FailOK
  BY DEF Init, FailOK
<1> QED
  BY <1>1, <1>2, InitConns DEF IInv

LEMMA NextInv == IInv /\ [Next]_vars => IInv'
<1> SUFFICES ASSUME IInv, [Next]_vars PROVE IInv'
  OBVIOUS
<1>0. ConnsOK /\ TypeOK
  BY DEF IInv, ConnsOK
<1> DEFINE Good == \A d \in Conns : ConnInv(d)
<1>1. CASE UNCHANGED vars
  <2>1. QueueSame /\ MainSame /\ ExtSame /\ UNCHANGED <<state, chan, peer, table, forced, ups, downs, late, failed>>
    BY <1>1, QueueKept, ExtKept DEF vars, conn, hist
  <2>2. ASSUME NEW d \in Conns
        PROVE  ConnInv(d)' /\ (Guilty(d)' <=> Guilty(d))
    <3>1. SameConn(d) /\ (Guilty(d)' <=> Guilty(d))
      BY <2>1 DEF SameConn, QueueSame, MainSame, ExtSame, Guilty
    <3> QED
      BY <1>0, <3>1, OthersFramed DEF ConnsOK
  <2>3. FailOK'
    BY <2>1, <2>2 DEF IInv, FailOK
  <2>4. TypeOK'
    BY <1>0, <1>1, TypesKept
  <2> QED
    BY <2>2, <2>3, <2>4 DEF IInv
<1>2. CASE Next
  <2>0. failed = "none"
    BY <1>2 DEF Next
  <2>1. ASSUME NEW c \in Conns, NewConnection(c)
        PROVE  Good' /\ failed' = failed
    BY <1>0, <2>1, NewConnectionOK DEF NewConnection
  <2>2. ASSUME RemoveConnection
        PROVE  Good' /\ FailOK'
    <3>1. CASE Head(mainQ) \in table
      <4>1. failed' = failed
        BY <2>2, <3>1 DEF RemoveConnection
      <4> QED
        BY <1>0, <2>0, <2>2, <4>1, RemoveConnectionOK DEF FailOK
    <3>2. CASE Head(mainQ) \notin table
      <4>1. Abort("removeConnectionInLoop:74") /\ failed' = "removeConnectionInLoop:74"
        BY <2>2, <3>2 DEF RemoveConnection, Abort
      <4>2. \E c \in Conns : Guilty(c)
        BY <1>0, <2>2, <3>2, RemoveConnectionFails
      <4>3. \A d \in Conns : ConnInv(d)' /\ (Guilty(d)' <=> Guilty(d))
        BY <1>0, <4>1, AbortOK
      <4> QED
        BY <4>1, <4>2, <4>3 DEF FailOK
    <3> QED
      BY <3>1, <3>2
  <2>3. ASSUME NEW c \in Conns, ReadClose(c)
        PROVE  Good' /\ FailOK'
    <3>1. CASE Alive(c)
      <4>1. failed' = failed
        BY <2>3, <3>1 DEF ReadClose
      <4> QED
        BY <1>0, <2>0, <2>3, <4>1, ReadCloseOK DEF FailOK
    <3>2. CASE ~Alive(c)
      <4>1. Abort("handleClose:70") /\ failed' = "handleClose:70"
        BY <2>3, <3>2 DEF ReadClose, Abort
      <4>2. Guilty(c)
        BY <1>0, <2>3, <3>2, ReadCloseFails
      <4>3. \A d \in Conns : ConnInv(d)' /\ (Guilty(d)' <=> Guilty(d))
        BY <1>0, <4>1, AbortOK
      <4> QED
        BY <4>1, <4>2, <4>3 DEF FailOK
    <3> QED
      BY <3>1, <3>2
  <2>4. ASSUME NEW c \in Conns, ReadMessage(c) \/ WriteDone(c) \/ PeerClose(c)
        PROVE  Good' /\ failed' = failed
    BY <1>0, <2>4, ReadMessageOK, WriteDoneOK, PeerCloseOK DEF ReadMessage, WriteDone, PeerClose
  <2>5. ASSUME NEW c \in Conns, IOFunctor(c)
        PROVE  Good' /\ failed' = failed
    <3>1. CASE Established(c)
      BY <1>0, <2>0, <3>1, EstablishedOK
    <3>2. CASE SendInLoop(c)
      BY <1>0, <3>2, SendInLoopOK DEF SendInLoop
    <3>3. CASE ForceCloseInLoop(c)
      BY <1>0, <3>3, ForceCloseInLoopOK DEF ForceCloseInLoop
    <3>4. CASE Destroyed(c)
      BY <1>0, <2>0, <3>4, DestroyedOK
    <3> QED
      BY <2>5, <3>1, <3>2, <3>3, <3>4 DEF IOFunctor
  <2>6. ASSUME SwapFunctors
        PROVE  Good' /\ failed' = failed
    BY <1>0, <2>6, SwapFunctorsOK DEF SwapFunctors
  <2>7. ASSUME NEW t \in ExtThreads,
               \/ \E c \in Conns : ForceCheck(t, c) \/ SendCheck(t, c)
               \/ ForceAct(t) \/ SendAct(t)
        PROVE  Good' /\ failed' = failed
    <3>1. ASSUME NEW c \in Conns, ForceCheck(t, c)
          PROVE  Good' /\ failed' = failed
      BY <1>0, <3>1, ForceCheckOK DEF ForceCheck
    <3>2. ASSUME NEW c \in Conns, SendCheck(t, c)
          PROVE  Good' /\ failed' = failed
      BY <1>0, <3>2, SendCheckOK DEF SendCheck
    <3>3. CASE ForceAct(t)
      BY <1>0, <3>3, ForceActOK DEF ForceAct
    <3>4. CASE SendAct(t)
      BY <1>0, <3>4, SendActOK DEF SendAct
    <3> QED
      BY <2>7, <3>1, <3>2, <3>3, <3>4
  <2> HIDE DEF Good
  <2>8. failed' = failed => FailOK'
    BY <2>0 DEF FailOK
  <2>9. Good' /\ FailOK'
    BY <1>2, <2>1, <2>2, <2>3, <2>4, <2>5, <2>6, <2>7, <2>8 DEF Next, IOEvent
  <2>10. TypeOK'
    BY <1>0, <1>2, MainTypes, EventTypes, FunctorTypes, ThreadTypes DEF Next
  <2> QED
    BY <2>9, <2>10 DEF IInv, Good
<1> QED
  BY <1>1, <1>2

\* The invariant of the connections: every state that TcpServer and
\* TcpConnection can reach, for any connections, threads and closers.
THEOREM InductiveInvariant == Spec => []IInv
<1> QED
  BY InitInv, NextInv, PTL DEF Spec

\* TypeOK: one value per variable of the code; the connection callback runs
\* at most twice for a connection, once up and once down.
THEOREM TypeCorrect == Spec => []TypeOK
<1>1. IInv => TypeOK
  BY DEF IInv
<1> QED
  BY <1>1, InductiveInvariant, PTL

\* CallbackOrder: Server::onConnection hears up before down, and clientClose
\* runs once, after TcpServer has let go of the connection.
THEOREM CallbacksOrdered == Spec => []CallbackOrder
<1>1. IInv => CallbackOrder
  <2> SUFFICES ASSUME IInv, NEW c \in Conns
               PROVE  downs[c] <= ups[c] /\ ups[c] <= 1 /\ (downs[c] = 1 => c \notin table)
    BY DEF CallbackOrder
  <2>1. Birth(c) /\ ups[c] \in {0, 1} /\ downs[c] \in {0, 1}
    BY DEF IInv, TypeOK, ConnInv
  <2> QED
    BY <2>1 DEF Birth
<1> QED
  BY <1>1, InductiveInvariant, PTL

\* NoLateMessage: the handlers see no message of a connection after
\* clientClose has run for it, however poll events and functors interleave.
THEOREM NoMessageAfterDown == Spec => []NoLateMessage
<1>1. IInv => NoLateMessage
  BY DEF IInv, ConnInv, NoLateMessage
<1> QED
  BY <1>1, InductiveInvariant, PTL

\* FailsOnlyWithTwoClosers: the asserts of handleClose and
\* removeConnectionInLoop take a connection that its peer closes while the
\* server forces it or writes to it.
THEOREM BlameTwoClosers == Spec => []FailsOnlyWithTwoClosers
<1>1. IInv => FailsOnlyWithTwoClosers
  BY DEF IInv, FailOK, Guilty, FailsOnlyWithTwoClosers
<1> QED
  BY <1>1, InductiveInvariant, PTL

\* The asserts of connectEstablished (:46) and connectDestroyed (:36) never
\* fail: the functors find the state their senders left.
THEOREM OtherAssertsHold ==
  Spec => [](failed \notin {"connectEstablished:46", "connectDestroyed:36"})
<1>1. IInv => failed \notin {"connectEstablished:46", "connectDestroyed:36"}
  BY DEF IInv, FailOK
<1> QED
  BY <1>1, InductiveInvariant, PTL

-----------------------------------------------------------------------------
(* Buffer.                                                                 *)

LEMMA ContentsType ==
  ASSUME NEW b, BufferOK(b)
  PROVE  /\ readableBytes(b) \in Nat /\ writableBytes(b) \in Nat
         /\ Contents(b) \in Seq(Bytes) /\ Len(Contents(b)) = readableBytes(b)
<1> USE BufferAssumption DEF BufferOK, readableBytes, writableBytes
<1>1. readableBytes(b) \in Nat /\ writableBytes(b) \in Nat
  OBVIOUS
<1>2. \A i \in 1..readableBytes(b) : b.data[b.read + i] \in Bytes
  OBVIOUS
<1>3. Contents(b) \in [1..readableBytes(b) -> Bytes]
  BY <1>2 DEF Contents
<1>4. Contents(b) \in Seq(Bytes)
  BY <1>1, <1>3
<1> QED
  BY <1>1, <1>3, <1>4

LEMMA ResizedOK ==
  ASSUME NEW b, BufferOK(b), NEW n \in Nat, b.write <= n
  PROVE  /\ BufferOK(Resized(b, n))
         /\ Contents(Resized(b, n)) = Contents(b)
         /\ writableBytes(Resized(b, n)) = n - b.write
<1> USE BufferAssumption DEF BufferOK, readableBytes, writableBytes
<1> DEFINE c == Resized(b, n)
<1>1. /\ c.data = [i \in 1..n |-> IF i <= b.size THEN b.data[i] ELSE Unset]
      /\ c.size = n /\ c.read = b.read /\ c.write = b.write
  BY DEF Resized
<1>2. c.data \in [1..n -> Bytes \cup {Unset}]
  BY <1>1
<1>3. \A i \in (c.read + 1)..c.write : c.data[i] = b.data[i]
  BY <1>1
<1>4. BufferOK(c)
  BY <1>1, <1>2, <1>3
<1>5. Contents(c) = Contents(b)
  BY <1>1, <1>3 DEF Contents
<1> QED
  BY <1>1, <1>4, <1>5

LEMMA CompactedOK ==
  ASSUME NEW b, BufferOK(b)
  PROVE  /\ BufferOK(Compacted(b))
         /\ Contents(Compacted(b)) = Contents(b)
         /\ writableBytes(Compacted(b)) = writableBytes(b) + prependableBytes(b) - CheapPrepend
<1> USE BufferAssumption DEF BufferOK, readableBytes, writableBytes, prependableBytes
<1> DEFINE c == Compacted(b)
<1>1. /\ c.data = [i \in 1..b.size |->
                     IF CheapPrepend < i /\ i <= CheapPrepend + readableBytes(b)
                     THEN b.data[b.read + i - CheapPrepend] ELSE b.data[i]]
      /\ c.size = b.size /\ c.read = CheapPrepend
      /\ c.write = CheapPrepend + readableBytes(b)
  BY DEF Compacted
<1>2. \A i \in 1..readableBytes(b) :
        c.data[CheapPrepend + i] = b.data[b.read + i] /\ b.data[b.read + i] \in Bytes
  <2> SUFFICES ASSUME NEW i \in 1..readableBytes(b)
               PROVE  c.data[CheapPrepend + i] = b.data[b.read + i] /\ b.data[b.read + i] \in Bytes
    OBVIOUS
  <2>1. CheapPrepend + i \in 1..b.size /\ b.read + (CheapPrepend + i) - CheapPrepend = b.read + i
    OBVIOUS
  <2>2. CheapPrepend < CheapPrepend + i /\ CheapPrepend + i <= CheapPrepend + readableBytes(b)
    OBVIOUS
  <2>3. b.read + i \in (b.read + 1)..b.write
    OBVIOUS
  <2>4. b.data[b.read + i] \in Bytes
    BY <2>3
  <2> QED
    BY <1>1, <2>1, <2>2, <2>4
<1>3. c.data \in [1..b.size -> Bytes \cup {Unset}]
  <2>1. \A i \in 1..b.size :
          CheapPrepend < i /\ i <= CheapPrepend + readableBytes(b) =>
            b.read + i - CheapPrepend \in 1..b.size
    OBVIOUS
  <2> QED
    BY <1>1, <2>1
<1>4. \A i \in (c.read + 1)..c.write : c.data[i] \in Bytes
  <2> SUFFICES ASSUME NEW i \in (c.read + 1)..c.write PROVE c.data[i] \in Bytes
    OBVIOUS
  <2>1. i - CheapPrepend \in 1..readableBytes(b) /\ CheapPrepend + (i - CheapPrepend) = i
    BY <1>1
  <2> QED
    BY <1>2, <2>1
<1>5. BufferOK(c)
  BY <1>1, <1>3, <1>4
<1>6. Contents(c) = Contents(b)
  BY <1>1, <1>2 DEF Contents
<1>7. writableBytes(c) = writableBytes(b) + prependableBytes(b) - CheapPrepend
  BY <1>1
<1> QED
  BY <1>5, <1>6, <1>7

\* makeSpace: there is room for n bytes and nothing readable is lost.  Its assert
\* kCheapPrepend < m_readIndex holds when ensureWritableBytes calls it.
LEMMA EnsureOK ==
  ASSUME NEW b, BufferOK(b), NEW n \in Nat
  PROVE  LET c == ensureWritableBytes(b, n) IN
         /\ BufferOK(c) /\ Contents(c) = Contents(b) /\ n <= writableBytes(c)
<1> USE BufferAssumption
<1>1. CASE writableBytes(b) >= n
  BY <1>1, ContentsType DEF ensureWritableBytes
<1>2. CASE /\ writableBytes(b) < n
           /\ writableBytes(b) + prependableBytes(b) < n + CheapPrepend
  <2>1. b.write \in Nat /\ b.write + n \in Nat /\ b.write <= b.write + n
    BY DEF BufferOK
  <2>2. ensureWritableBytes(b, n) = Resized(b, b.write + n)
    BY <1>2 DEF ensureWritableBytes, makeSpace
  <2> QED
    BY <2>1, <2>2, ResizedOK
<1>3. CASE /\ writableBytes(b) < n
           /\ ~(writableBytes(b) + prependableBytes(b) < n + CheapPrepend)
  <2>1. ensureWritableBytes(b, n) = Compacted(b)
    BY <1>3 DEF ensureWritableBytes, makeSpace
  <2>2. writableBytes(b) + prependableBytes(b) - CheapPrepend >= n
    BY <1>3, ContentsType DEF prependableBytes, BufferOK
  <2> QED
    BY <2>1, <2>2, CompactedOK
<1> QED
  BY <1>1, <1>2, <1>3, ContentsType

\* The asserts in makeSpace: bytes move only towards the front.
THEOREM MakeSpaceAsserts ==
  ASSUME NEW b, BufferOK(b), NEW n \in Nat, writableBytes(b) < n,
         ~(writableBytes(b) + prependableBytes(b) < n + CheapPrepend)
  PROVE  /\ CheapPrepend < b.read
         /\ readableBytes(Compacted(b)) = readableBytes(b)
<1>1. CheapPrepend < b.read
  BY ContentsType, BufferAssumption DEF prependableBytes, BufferOK
<1>2. readableBytes(Compacted(b)) = readableBytes(b)
  BY CompactedOK, ContentsType
<1> QED
  BY <1>1, <1>2

LEMMA FilledOK ==
  ASSUME NEW b, BufferOK(b), NEW s \in Seq(Bytes), Len(s) <= writableBytes(b)
  PROVE  BufferOK(Filled(b, s)) /\ Contents(Filled(b, s)) = Contents(b) \o s
<1> USE BufferAssumption DEF BufferOK, readableBytes, writableBytes
<1> DEFINE c == Filled(b, s)
<1>1. /\ c.data = [i \in 1..b.size |->
                     IF b.write < i /\ i <= b.write + Len(s) THEN s[i - b.write] ELSE b.data[i]]
      /\ c.size = b.size /\ c.read = b.read /\ c.write = b.write + Len(s)
  BY DEF Filled
<1>2. Len(s) \in Nat /\ \A i \in 1..Len(s) : s[i] \in Bytes
  OBVIOUS
<1>3. c.data \in [1..b.size -> Bytes \cup {Unset}]
  BY <1>1, <1>2
<1>4. \A i \in (c.read + 1)..c.write :
        c.data[i] = IF b.write < i THEN s[i - b.write] ELSE b.data[i]
  BY <1>1, <1>2
<1>5. BufferOK(c)
  BY <1>1, <1>2, <1>3, <1>4
<1>6. readableBytes(c) = readableBytes(b) + Len(s)
  BY <1>1, <1>2
<1>7. Contents(b) \in Seq(Bytes) /\ Len(Contents(b)) = readableBytes(b)
  BY ContentsType
<1>8. Contents(c) \in Seq(Bytes) /\ Len(Contents(c)) = readableBytes(c)
  BY <1>5, ContentsType
<1>9. \A i \in 1..Len(Contents(c)) : Contents(c)[i] = (Contents(b) \o s)[i]
  <2> SUFFICES ASSUME NEW i \in 1..readableBytes(c)
               PROVE  Contents(c)[i] = (Contents(b) \o s)[i]
    BY <1>8
  <2>1. Contents(c)[i] = c.data[c.read + i]
    BY DEF Contents
  <2>2. /\ c.read + i \in (c.read + 1)..c.write /\ c.read = b.read
        /\ b.write < c.read + i <=> ~(i <= readableBytes(b))
        /\ c.read + i - b.write = i - readableBytes(b)
    BY <1>1, <1>2, <1>6
  <2>3. (Contents(b) \o s)[i] = IF i <= readableBytes(b) THEN Contents(b)[i]
                                ELSE s[i - readableBytes(b)]
    BY <1>2, <1>6, <1>7, ConcatProperties
  <2>4. i <= readableBytes(b) => Contents(b)[i] = b.data[b.read + i]
    BY DEF Contents
  <2>5. CASE i <= readableBytes(b)
    BY <1>4, <2>1, <2>2, <2>3, <2>4, <2>5
  <2>6. CASE ~(i <= readableBytes(b))
    BY <1>4, <2>1, <2>2, <2>3, <2>6
  <2> QED
    BY <2>5, <2>6
<1>10. Contents(b) \o s \in Seq(Bytes) /\ Len(Contents(b) \o s) = readableBytes(b) + Len(s)
  BY <1>7, ConcatProperties
<1>11. Contents(c) = Contents(b) \o s
  BY <1>6, <1>8, <1>9, <1>10, SeqEqual
<1> QED
  BY <1>5, <1>11

\* append adds at the end of the queue.
THEOREM AppendQueues ==
  ASSUME NEW b, BufferOK(b), NEW s \in Seq(Bytes)
  PROVE  BufferOK(append(b, s)) /\ Contents(append(b, s)) = Contents(b) \o s
<1>1. Len(s) \in Nat
  OBVIOUS
<1> QED
  BY <1>1, EnsureOK, FilledOK DEF append

LEMMA SplitSeq ==
  ASSUME NEW S, NEW s \in Seq(S), NEW n \in Nat, n <= Len(s)
  PROVE  SubSeq(s, 1, n) \o SubSeq(s, n + 1, Len(s)) = s
<1> DEFINE s1 == SubSeq(s, 1, n)
           s2 == SubSeq(s, n + 1, Len(s))
<1>1. s1 \in Seq(S) /\ Len(s1) = n /\ \A i \in 1..n : s1[i] = s[i]
  BY SubSeqProperties
<1>2. s2 \in Seq(S) /\ Len(s2) = Len(s) - n /\ \A i \in 1..(Len(s) - n) : s2[i] = s[n + i]
  BY SubSeqProperties
<1> HIDE DEF s1, s2
<1>0. Len(s) \in Nat /\ n + (Len(s) - n) = Len(s) /\ Len(s1) + Len(s2) = Len(s)
  BY <1>1, <1>2
<1>3. /\ s1 \o s2 \in Seq(S) /\ Len(s1 \o s2) = Len(s)
      /\ \A i \in 1..Len(s) : (s1 \o s2)[i] = IF i <= n THEN s1[i] ELSE s2[i - n]
  <2>1. /\ s1 \o s2 \in Seq(S) /\ Len(s1 \o s2) = Len(s1) + Len(s2)
        /\ \A i \in 1..(Len(s1) + Len(s2)) :
              (s1 \o s2)[i] = IF i <= Len(s1) THEN s1[i] ELSE s2[i - Len(s1)]
    BY <1>1, <1>2, ConcatProperties
  <2> QED
    BY <1>0, <1>1, <2>1
<1>4. \A i \in 1..Len(s) : (s1 \o s2)[i] = s[i]
  BY <1>1, <1>2, <1>3
<1>5. s1 \o s2 = s
  BY <1>3, <1>4, SeqEqual
<1> QED
  BY <1>5 DEF s1, s2

\* readFd adds at the end of the queue, also what did not fit in the buffer.
THEOREM ReadFdQueues ==
  ASSUME NEW b, BufferOK(b), NEW s \in Seq(Bytes)
  PROVE  BufferOK(readFd(b, s)) /\ Contents(readFd(b, s)) = Contents(b) \o s
<1>1. CASE Len(s) <= writableBytes(b)
  BY <1>1, FilledOK DEF readFd
<1>2. CASE ~(Len(s) <= writableBytes(b))
  <2> DEFINE n == writableBytes(b)
             s1 == SubSeq(s, 1, n)
             s2 == SubSeq(s, n + 1, Len(s))
  <2>1. n \in Nat /\ n <= Len(s)
    BY <1>2, ContentsType
  <2>2. s1 \in Seq(Bytes) /\ s2 \in Seq(Bytes) /\ Len(s1) = n
    BY <2>1
  <2>6. s1 \o s2 = s
    BY <2>1, SplitSeq
  <2>3. /\ BufferOK(Filled(b, s1))
        /\ Contents(Filled(b, s1)) = Contents(b) \o s1
    <3>1. Len(s1) <= writableBytes(b)
      BY <2>1, <2>2
    <3> QED
      BY <2>2, <3>1, FilledOK
  <2>4. /\ BufferOK(append(Filled(b, s1), s2))
        /\ Contents(append(Filled(b, s1), s2)) = (Contents(b) \o s1) \o s2
    BY <2>2, <2>3, AppendQueues
  <2>5. (Contents(b) \o s1) \o s2 = Contents(b) \o (s1 \o s2)
    <3>1. Contents(b) \in Seq(Bytes)
      BY ContentsType
    <3> HIDE DEF s1, s2
    <3> QED
      BY <2>2, <3>1, ConcatAssociative
  <2> QED
    BY <1>2, <2>6, <2>4, <2>5 DEF readFd
<1> QED
  BY <1>1, <1>2

\* retrieve takes from the front of the queue.
THEOREM RetrieveDequeues ==
  ASSUME NEW b, BufferOK(b), NEW n \in Nat, n <= readableBytes(b)
  PROVE  /\ BufferOK(retrieve(b, n))
         /\ Contents(retrieve(b, n)) = SubSeq(Contents(b), n + 1, Len(Contents(b)))
<1> USE BufferAssumption DEF BufferOK, readableBytes
<1> DEFINE c == retrieve(b, n)
<1>0. Contents(b) \in Seq(Bytes) /\ Len(Contents(b)) = readableBytes(b)
  BY ContentsType
<1>1. CASE n < readableBytes(b)
  <2>1. /\ c.data = b.data /\ c.size = b.size /\ c.read = b.read + n /\ c.write = b.write
    BY <1>1 DEF retrieve
  <2>2. BufferOK(c)
    BY <1>1, <2>1
  <2>3. Contents(c) = [i \in 1..(readableBytes(b) - n) |-> b.data[b.read + n + i]]
    BY <2>1 DEF Contents
  <2>4. \A i \in 1..(readableBytes(b) - n) : Contents(b)[n + i] = b.data[b.read + n + i]
    BY DEF Contents
  <2>5. SubSeq(Contents(b), n + 1, Len(Contents(b))) =
          [i \in 1..(readableBytes(b) - n) |-> Contents(b)[n + i]]
    BY <1>0, <1>1
  <2> QED
    BY <2>2, <2>3, <2>4, <2>5
<1>2. CASE n = readableBytes(b)
  <2>1. /\ c.data = b.data /\ c.size = b.size
        /\ c.read = CheapPrepend /\ c.write = CheapPrepend
    BY <1>2 DEF retrieve, retrieveAll
  <2>2. BufferOK(c)
    BY <2>1
  <2>3. Contents(c) = <<>>
    BY <2>1 DEF Contents
  <2>4. SubSeq(Contents(b), n + 1, Len(Contents(b))) = <<>>
    BY <1>0, <1>2
  <2> QED
    BY <2>2, <2>3, <2>4
<1> QED
  BY <1>1, <1>2

-----------------------------------------------------------------------------
(* Transfer.                                                               *)

\* A message takes three bytes.
Thrice(n) == n + n + n

\* The header is among the first n of the messages s.
HeaderBy(s, n) == \E j \in 1..n : s[j] = "h"

\* The bytes that the first n messages take, with the file f after its header.
After(s, f, n) == Thrice(n) + (IF HeaderBy(s, n) THEN Len(f) ELSE 0)

\* q is the stream of the messages s and of c bytes of the file f, without its
\* first d bytes.
Carries(q, d, s, f, c) ==
  /\ Len(q) + d = Thrice(Len(s)) + c
  /\ \A i \in 1..Len(s), x \in 1..Len(q), o \in 1..3 :
       d + x = After(s, f, i - 1) + o => q[x] = Frame(s[i])[o]
  /\ \A i \in 1..Len(s), x \in 1..Len(q), b \in 1..c :
       s[i] = "h" /\ d + x = Thrice(i) + b => q[x] = f[b]

USE DEF Thrice

LEMMA AfterFacts ==
  ASSUME NEW s, NEW f \in Seq(Bytes), NEW n \in Nat
  PROVE  /\ After(s, f, n) \in Nat
         /\ HeaderBy(s, n) => After(s, f, n) = Thrice(n) + Len(f)
         /\ ~HeaderBy(s, n) => After(s, f, n) = Thrice(n)
<1>1. Len(f) \in Nat
  OBVIOUS
<1>2. CASE HeaderBy(s, n)
  <2>1. After(s, f, n) = Thrice(n) + Len(f)
    BY <1>2 DEF After
  <2> QED
    BY <1>1, <1>2, <2>1
<1>3. CASE ~HeaderBy(s, n)
  <2>1. After(s, f, n) = Thrice(n)
    BY <1>1, <1>3 DEF After
  <2> QED
    BY <1>3, <2>1
<1> QED
  BY <1>2, <1>3

LEMMA ConcatFacts ==
  ASSUME NEW S, NEW p \in Seq(S), NEW q \in Seq(S), NEW n \in Nat, Len(q) = n
  PROVE  /\ p \o q \in Seq(S) /\ Len(p \o q) = Len(p) + n
         /\ \A x \in 1..(Len(p) + n) : (p \o q)[x] = IF x <= Len(p) THEN p[x] ELSE q[x - Len(p)]
BY ConcatProperties

\* The receiver takes n bytes.
LEMMA CarriesRest ==
  ASSUME NEW q \in Seq(Bytes), NEW d \in Nat, NEW s \in Seq(MessageKinds), NEW f \in Seq(Bytes),
         NEW c \in 0..Len(f), NEW n \in Nat, n <= Len(q), Carries(q, d, s, f, c)
  PROVE  Carries(SubSeq(q, n + 1, Len(q)), d + n, s, f, c)
<1> DEFINE r == SubSeq(q, n + 1, Len(q))
<1>1. r \in Seq(Bytes) /\ Len(r) = Len(q) - n /\ \A x \in 1..Len(r) : n + x \in 1..Len(q) /\ r[x] = q[n + x]
  <2>1. n + 1 \in 1..(Len(q) + 1) /\ Len(q) \in Nat
    OBVIOUS
  <2> QED
    BY <2>1, SubSeqProperties
<1> HIDE DEF r
<1>0. Len(s) \in Nat /\ Len(q) \in Nat /\ Len(f) \in Nat /\ c \in Nat /\ d \in Nat
  OBVIOUS
<1>a. Len(q) + d = Thrice(Len(s)) + c
  BY DEF Carries
<1>b. Len(r) = Len(q) - n
  BY <1>1
<1>2. Len(r) + (d + n) = Thrice(Len(s)) + c
  BY <1>0, <1>a, <1>b
<1>3. ASSUME NEW i \in 1..Len(s), NEW x \in 1..Len(r), NEW o \in 1..3, (d + n) + x = After(s, f, i - 1) + o
      PROVE  r[x] = Frame(s[i])[o]
  <2>1. x \in Int
    BY <1>0, <1>b
  <2>2. d + (n + x) = (d + n) + x
    BY <2>1
  <2>3. n + x \in 1..Len(q) /\ r[x] = q[n + x]
    BY <1>1
  <2> QED
    BY <1>3, <2>2, <2>3 DEF Carries
<1>4. ASSUME NEW i \in 1..Len(s), NEW x \in 1..Len(r), NEW b \in 1..c, s[i] = "h", (d + n) + x = Thrice(i) + b
      PROVE  r[x] = f[b]
  <2>1. x \in Int
    BY <1>0, <1>b
  <2>2. d + (n + x) = (d + n) + x
    BY <2>1
  <2>3. n + x \in 1..Len(q) /\ r[x] = q[n + x]
    BY <1>1
  <2>4. d + (n + x) = Thrice(i) + b
    BY <1>4, <2>2
  <2> QED
    BY <1>4, <2>3, <2>4 DEF Carries
<1>5. Carries(r, d + n, s, f, c)
  BY ONLY <1>2, <1>3, <1>4 DEF Carries
<1> QED
  BY <1>5 DEF r

LEMMA FrameFacts ==
  ASSUME NEW k \in MessageKinds
  PROVE  /\ Frame(k) \in Seq(Bytes) /\ Len(Frame(k)) = 3
         /\ Frame(k)[1] = k /\ Frame(k)[2] = "CR" /\ Frame(k)[3] = "LF"
BY TransferAssumption DEF Frame, MessageKinds

LEMMA FrameAdded ==
  ASSUME NEW q \in Seq(Bytes), NEW k \in MessageKinds
  PROVE  /\ q \o Frame(k) \in Seq(Bytes) /\ Len(q \o Frame(k)) = Len(q) + 3
         /\ \A x \in 1..(Len(q) + 3) :
              (q \o Frame(k))[x] = IF x <= Len(q) THEN q[x] ELSE Frame(k)[x - Len(q)]
<1>1. Frame(k) \in Seq(Bytes) /\ Len(Frame(k)) = 3 /\ 3 \in Nat
  BY FrameFacts
<1> QED
  BY <1>1, ConcatFacts

\* A message is transmitted, after the whole of the file or before its header.
LEMMA CarriesFrame ==
  ASSUME NEW q \in Seq(Bytes), NEW d \in Nat, NEW s \in Seq(MessageKinds), NEW f \in Seq(Bytes),
         NEW c \in 0..Len(f), NEW k \in MessageKinds, Carries(q, d, s, f, c),
         HeaderBy(s, Len(s)) => c = Len(f), ~HeaderBy(s, Len(s)) => c = 0,
         k = "h" => ~HeaderBy(s, Len(s))
  PROVE  Carries(q \o Frame(k), d, Append(s, k), f, c)
<1> DEFINE r == q \o Frame(k)
           t == Append(s, k)
<1>p. Frame(k) \in Seq(Bytes) /\ Len(Frame(k)) = 3
  BY FrameFacts
<1>1. /\ r \in Seq(Bytes) /\ Len(r) = Len(q) + 3
      /\ \A x \in 1..Len(r) : r[x] = IF x <= Len(q) THEN q[x] ELSE Frame(k)[x - Len(q)]
  BY FrameAdded
<1>2. /\ t \in Seq(MessageKinds) /\ Len(t) = Len(s) + 1 /\ t[Len(s) + 1] = k
      /\ \A i \in 1..Len(s) : t[i] = s[i]
  BY AppendProperties
<1> HIDE DEF r, t
<1>0. Len(s) \in Nat /\ Len(q) \in Nat /\ Len(f) \in Nat /\ c \in Nat /\ d \in Nat
  OBVIOUS
<1>a. Len(q) + d = Thrice(Len(s)) + c
  BY DEF Carries
<1>b. Len(r) = Len(q) + 3 /\ Len(t) = Len(s) + 1
  BY <1>1, <1>2
<1>3. Len(r) + d = Thrice(Len(t)) + c
  BY ONLY <1>0, <1>a, <1>b DEF Thrice
<1>4. \A n \in 0..Len(s) : HeaderBy(t, n) <=> HeaderBy(s, n)
  <2> SUFFICES ASSUME NEW n \in 0..Len(s)
               PROVE  HeaderBy(t, n) <=> HeaderBy(s, n)
    OBVIOUS
  <2>1. \A j \in 1..n : j \in 1..Len(s)
    BY <1>0
  <2>2. \A j \in 1..n : t[j] = s[j]
    BY <1>2, <2>1
  <2> QED
    BY <2>2 DEF HeaderBy
<1>5. \A n \in 0..Len(s) : After(t, f, n) = After(s, f, n)
  BY <1>4 DEF After
<1>6. After(s, f, Len(s)) = Len(q) + d
  BY <1>0, <1>a, AfterFacts
<1>7. \A i \in 1..Len(s) : After(s, f, i - 1) \in Nat /\ After(s, f, i - 1) + 3 <= Len(q) + d
  <2> SUFFICES ASSUME NEW i \in 1..Len(s)
               PROVE  After(s, f, i - 1) \in Nat /\ After(s, f, i - 1) + 3 <= Len(q) + d
    OBVIOUS
  <2>1. HeaderBy(s, i - 1) => HeaderBy(s, Len(s))
    BY <1>0 DEF HeaderBy
  <2>2. i - 1 \in Nat /\ i <= Len(s)
    BY <1>0
  <2>3. After(s, f, i - 1) \in Nat /\ After(s, f, i - 1) <= Thrice(i - 1) + c
    BY <1>0, <2>1, <2>2, AfterFacts
  <2> QED
    BY <1>0, <1>a, <2>2, <2>3
<1>8. ASSUME NEW i \in 1..Len(t), NEW x \in 1..Len(r), NEW o \in 1..3, d + x = After(t, f, i - 1) + o
      PROVE  r[x] = Frame(t[i])[o]
  <2>0. i \in 1..Len(s) \/ i = Len(s) + 1
    BY <1>0, <1>b
  <2>x. x \in Int /\ x >= 1 /\ x <= Len(q) + 3 /\ o \in 1..3
    BY <1>0, <1>b
  <2>1. CASE i \in 1..Len(s)
    <3>0. i - 1 \in 0..Len(s)
      BY <1>0, <2>1
    <3>1. d + x = After(s, f, i - 1) + o
      BY <1>5, <1>8, <3>0
    <3>2. After(s, f, i - 1) \in Nat /\ After(s, f, i - 1) + 3 <= Len(q) + d
      BY <1>7, <2>1
    <3>3. x \in 1..Len(q)
      BY <1>0, <2>x, <3>1, <3>2
    <3>4. q[x] = Frame(s[i])[o]
      BY <2>1, <3>1, <3>3 DEF Carries
    <3>5. x <= Len(q)
      BY <1>0, <3>3
    <3> QED
      BY <1>1, <1>2, <2>1, <3>4, <3>5
  <2>2. CASE i = Len(s) + 1
    <3>0. i - 1 = Len(s) /\ Len(s) \in 0..Len(s)
      BY <1>0, <2>2
    <3>1. d + x = (Len(q) + d) + o
      BY <1>5, <1>6, <1>8, <3>0
    <3>2. x - Len(q) = o /\ ~(x <= Len(q))
      BY <1>0, <2>x, <3>1
    <3> QED
      BY <1>1, <1>2, <2>2, <3>2
  <2> QED
    BY <2>0, <2>1, <2>2
<1>9. ASSUME NEW i \in 1..Len(t), NEW x \in 1..Len(r), NEW b \in 1..c, t[i] = "h", d + x = Thrice(i) + b
      PROVE  r[x] = f[b]
  <2>0. i \in 1..Len(s) \/ i = Len(s) + 1
    BY <1>0, <1>b
  <2>1. i \in 1..Len(s)
    <3> SUFFICES ASSUME i = Len(s) + 1 PROVE FALSE
      BY <2>0
    <3>1. k = "h"
      BY <1>2, <1>9
    <3>2. c = 0
      BY <3>1
    <3> QED
      BY <1>0, <3>2
  <2>2. s[i] = "h"
    BY <1>2, <1>9, <2>1
  <2>3. x \in 1..Len(q) /\ x <= Len(q)
    BY <1>0, <1>a, <1>b, <1>9, <2>1
  <2>4. q[x] = f[b]
    BY <1>9, <2>1, <2>2, <2>3 DEF Carries
  <2> QED
    BY <1>1, <2>3, <2>4
<1>10. Carries(r, d, t, f, c)
  BY ONLY <1>3, <1>8, <1>9 DEF Carries
<1> QED
  BY <1>10 DEF r, t

\* Bytes of the file follow its header.
LEMMA CarriesFile ==
  ASSUME NEW q \in Seq(Bytes), NEW d \in Nat, NEW s \in Seq(MessageKinds), NEW f \in Seq(Bytes),
         NEW c \in 0..Len(f), NEW n \in Nat, c + n <= Len(f), Carries(q, d, s, f, c),
         ~HeaderBy(s, Len(s) - 1)
  PROVE  Carries(q \o SubSeq(f, c + 1, c + n), d, s, f, c + n)
<1> DEFINE p == SubSeq(f, c + 1, c + n)
           r == q \o p
<1>0. Len(s) \in Nat /\ Len(q) \in Nat /\ Len(f) \in Nat /\ c \in Nat /\ d \in Nat
  OBVIOUS
<1>1. p \in Seq(Bytes) /\ Len(p) = n /\ \A x \in 1..n : p[x] = f[c + x]
  <2>1. c + 1 \in 1..(Len(f) + 1) /\ c + n \in c..Len(f) /\ c \in Nat
    BY <1>0
  <2> QED
    BY <2>1, SubSeqProperties
<1> HIDE DEF p
<1>2. /\ r \in Seq(Bytes) /\ Len(r) = Len(q) + n
      /\ \A x \in 1..Len(r) : r[x] = IF x <= Len(q) THEN q[x] ELSE p[x - Len(q)]
  BY <1>1, ConcatProperties
<1> HIDE DEF r
<1>a. Len(q) + d = Thrice(Len(s)) + c
  BY DEF Carries
<1>b. Len(r) = Len(q) + n
  BY <1>2
<1>c. n \in Nat
  OBVIOUS
<1>3. Len(r) + d = Thrice(Len(s)) + (c + n)
  <2>1. Len(r) + d = (Len(q) + d) + n
    BY <1>0, <1>b, <1>c
  <2>2. Thrice(Len(s)) \in Nat
    BY <1>0
  <2> HIDE DEF Thrice
  <2>3. Len(r) + d = (Thrice(Len(s)) + c) + n
    BY <1>a, <2>1
  <2> QED
    BY <1>0, <1>c, <2>2, <2>3
<1>4. ASSUME NEW i \in 1..Len(s), NEW x \in 1..Len(r), NEW o \in 1..3, d + x = After(s, f, i - 1) + o
      PROVE  r[x] = Frame(s[i])[o]
  <2>1. ~HeaderBy(s, i - 1)
    BY <1>0 DEF HeaderBy
  <2>2. After(s, f, i - 1) = Thrice(i - 1)
    BY <1>0, <2>1, AfterFacts
  <2>3. x \in 1..Len(q) /\ x <= Len(q)
    BY <1>0, <1>a, <1>b, <1>4, <2>2
  <2>4. q[x] = Frame(s[i])[o]
    BY <1>4, <2>3 DEF Carries
  <2> QED
    BY <1>2, <2>3, <2>4
<1>5. ASSUME NEW i \in 1..Len(s), NEW x \in 1..Len(r), NEW b \in 1..(c + n), s[i] = "h", d + x = Thrice(i) + b
      PROVE  r[x] = f[b]
  <2>1. i = Len(s)
    <3> SUFFICES ASSUME i # Len(s) PROVE FALSE
      OBVIOUS
    <3>1. i \in 1..(Len(s) - 1)
      BY <1>0
    <3> QED
      BY <1>5, <3>1 DEF HeaderBy
  <2>x. x \in Int /\ x >= 1 /\ b \in Int /\ b >= 1 /\ b <= c + n
    BY <1>0, <1>b
  <2>2. CASE b <= c
    <3>1. x \in 1..Len(q) /\ x <= Len(q) /\ b \in 1..c
      BY <1>0, <1>a, <1>5, <2>x, <2>1, <2>2
    <3>2. q[x] = f[b]
      BY <1>5, <3>1 DEF Carries
    <3> QED
      BY <1>2, <3>1, <3>2
  <2>3. CASE ~(b <= c)
    <3>1. ~(x <= Len(q)) /\ x - Len(q) = b - c /\ b - c \in 1..n /\ c + (b - c) = b
      BY <1>0, <1>a, <1>5, <2>x, <2>1, <2>3
    <3>2. r[x] = p[b - c]
      BY <1>2, <3>1
    <3>3. p[b - c] = f[c + (b - c)]
      BY <1>1, <3>1
    <3> QED
      BY <3>1, <3>2, <3>3
  <2> QED
    BY <2>2, <2>3
<1>6. Carries(r, d, s, f, c + n)
  BY ONLY <1>3, <1>4, <1>5 DEF Carries
<1> QED
  BY <1>6 DEF r, p

\* What is left of a stream without its first m messages starts with a message.
LEMMA Framing ==
  ASSUME NEW q \in Seq(Bytes), NEW s \in Seq(MessageKinds), NEW f \in Seq(Bytes), NEW c \in 0..Len(f),
         NEW m \in 0..Len(s), Carries(q, After(s, f, m), s, f, c), Len(q) > 0,
         c > 0 => HeaderBy(s, Len(s))
  PROVE  /\ m < Len(s) /\ m + 1 \in 1..Len(s)
         /\ \A o \in 1..3 : o <= Len(q) => q[o] = Frame(s[m + 1])[o]
<1>0. Len(s) \in Nat /\ Len(q) \in Nat /\ Len(f) \in Nat /\ c \in Nat /\ m \in Nat
  OBVIOUS
<1>1. Len(q) + After(s, f, m) = Thrice(Len(s)) + c
  BY DEF Carries
<1>2. m < Len(s)
  <2> SUFFICES ASSUME m = Len(s) PROVE FALSE
    BY <1>0
  <2>1. After(s, f, m) \in Nat /\ After(s, f, m) >= Thrice(Len(s)) + c
    BY <1>0, AfterFacts
  <2> QED
    BY <1>0, <1>1, <2>1
<1>3. m + 1 \in 1..Len(s) /\ (m + 1) - 1 = m
  BY <1>0, <1>2
<1>4. After(s, f, m) \in Nat
  BY <1>0, AfterFacts
<1>5. ASSUME NEW o \in 1..3, o <= Len(q)
      PROVE  q[o] = Frame(s[m + 1])[o]
  <2>1. o \in 1..Len(q)
    BY <1>0, <1>5
  <2>2. After(s, f, m) + o = After(s, f, (m + 1) - 1) + o
    BY <1>3
  <2> QED
    BY <1>3, <2>1, <2>2 DEF Carries
<1> QED
  BY <1>2, <1>3, <1>5

\* After g bytes of the file what is left starts with the next ones.
LEMMA InsideFile ==
  ASSUME NEW q \in Seq(Bytes), NEW s \in Seq(MessageKinds), NEW f \in Seq(Bytes), NEW c \in 0..Len(f),
         NEW m \in Nat, m < Len(s), s[m + 1] = "h", ~HeaderBy(s, m),
         NEW g \in 0..Len(f), Carries(q, After(s, f, m) + 3 + g, s, f, c),
         HeaderBy(s, Len(s) - 1) => c = Len(f),
         NEW n \in Nat, n <= Len(q), g + n <= Len(f)
  PROVE  \A x \in 1..n : q[x] = f[g + x]
<1>0. Len(s) \in Nat /\ Len(q) \in Nat /\ Len(f) \in Nat /\ c \in Nat /\ g \in Nat
  OBVIOUS
<1>1. After(s, f, m) = Thrice(m)
  BY AfterFacts
<1>2. Len(q) + (Thrice(m) + 3 + g) = Thrice(Len(s)) + c
  BY <1>1 DEF Carries
<1>3. g + n <= c
  <2>1. CASE m + 1 = Len(s)
    BY <1>0, <1>2, <2>1
  <2>2. CASE m + 1 # Len(s)
    <3>1. m + 1 \in 1..(Len(s) - 1)
      BY <1>0, <2>2
    <3>2. c = Len(f)
      BY <3>1 DEF HeaderBy
    <3> QED
      BY <3>2
  <2> QED
    BY <2>1, <2>2
<1>4. m + 1 \in 1..Len(s)
  BY <1>0
<1> SUFFICES ASSUME NEW x \in 1..n PROVE q[x] = f[g + x]
  OBVIOUS
<1>5. x \in 1..Len(q) /\ g + x \in 1..c
  BY <1>0, <1>3
<1>6. (After(s, f, m) + 3 + g) + x = Thrice(m + 1) + (g + x)
  BY <1>0, <1>1
<1> QED
  BY <1>4, <1>5, <1>6 DEF Carries

HIDE DEF Thrice

LEMMA Regroup ==
  ASSUME NEW S, NEW p \in Seq(S), NEW q \in Seq(S), NEW r \in Seq(S), NEW u \in Seq(S)
  PROVE  (p \o q) \o r = p \o (q \o r) /\ (p \o q) \o (r \o u) = p \o ((q \o r) \o u)
OBVIOUS

\* Parts of a stream moved from one place to the next.
LEMMA PartsKept ==
  ASSUME NEW p \in Seq(Bytes), NEW q \in Seq(Bytes), NEW n \in Nat, n <= Len(q)
  PROVE  (p \o SubSeq(q, 1, n)) \o SubSeq(q, n + 1, Len(q)) = p \o q
<1> DEFINE q1 == SubSeq(q, 1, n)
           q2 == SubSeq(q, n + 1, Len(q))
<1>1. q1 \in Seq(Bytes) /\ q2 \in Seq(Bytes)
  BY SubSeqProperties
<1>2. q1 \o q2 = q
  BY SplitSeq
<1> HIDE DEF q1, q2
<1>3. (p \o q1) \o q2 = p \o (q1 \o q2)
  BY <1>1
<1> QED
  BY ONLY <1>2, <1>3 DEF q1, q2

LEMMA PartsMoved ==
  ASSUME NEW p \in Seq(Bytes), NEW q \in Seq(Bytes), NEW r \in Seq(Bytes), NEW n \in Nat, n <= Len(q)
  PROVE  (p \o SubSeq(q, 1, n)) \o (SubSeq(q, n + 1, Len(q)) \o r) = p \o (q \o r)
<1> DEFINE q1 == SubSeq(q, 1, n)
           q2 == SubSeq(q, n + 1, Len(q))
<1>1. q1 \in Seq(Bytes) /\ q2 \in Seq(Bytes)
  BY SubSeqProperties
<1>2. q1 \o q2 = q
  BY SplitSeq
<1> HIDE DEF q1, q2
<1>3. (p \o q1) \o (q2 \o r) = p \o ((q1 \o q2) \o r)
  BY <1>1
<1> QED
  BY ONLY <1>2, <1>3 DEF q1, q2

\* The front of a stream is taken from the front of its first part.
LEMMA FrontTaken ==
  ASSUME NEW p \in Seq(Bytes), NEW q \in Seq(Bytes), NEW n \in Nat, n <= Len(p)
  PROVE  SubSeq(p, n + 1, Len(p)) \o q = SubSeq(p \o q, n + 1, Len(p \o q))
<1> DEFINE p2 == SubSeq(p, n + 1, Len(p))
           w  == p \o q
           w2 == SubSeq(w, n + 1, Len(w))
<1>1. p2 \in Seq(Bytes) /\ Len(p2) = Len(p) - n /\ \A x \in 1..(Len(p) - n) : p2[x] = p[n + x]
  BY SubSeqProperties
<1>2. w \in Seq(Bytes) /\ Len(w) = Len(p) + Len(q)
      /\ \A x \in 1..(Len(p) + Len(q)) : w[x] = IF x <= Len(p) THEN p[x] ELSE q[x - Len(p)]
  BY ConcatProperties
<1>0. Len(p) \in Nat /\ Len(q) \in Nat
  OBVIOUS
<1> HIDE DEF p2, w
<1>w. n <= Len(w)
  BY <1>0, <1>2
<1>3. w2 \in Seq(Bytes) /\ Len(w2) = Len(w) - n /\ \A x \in 1..(Len(w) - n) : w2[x] = w[n + x]
  BY <1>2, <1>w, SubSeqProperties
<1> HIDE DEF w2
<1>4. /\ p2 \o q \in Seq(Bytes) /\ Len(p2 \o q) = Len(p2) + Len(q)
      /\ \A x \in 1..(Len(p2) + Len(q)) : (p2 \o q)[x] = IF x <= Len(p2) THEN p2[x] ELSE q[x - Len(p2)]
  BY <1>1, ConcatProperties
<1>5. Len(p2 \o q) = Len(w2) /\ Len(w2) = Len(p) + Len(q) - n /\ Len(p2) = Len(p) - n
  BY <1>0, <1>1, <1>2, <1>3, <1>4
<1>6. ASSUME NEW x \in 1..Len(w2)
      PROVE  (p2 \o q)[x] = w2[x]
  <2>1. x \in 1..(Len(p2) + Len(q)) /\ x \in 1..(Len(w) - n) /\ n + x \in 1..(Len(p) + Len(q))
    BY <1>0, <1>2, <1>5
  <2>2. w2[x] = w[n + x] /\ w[n + x] = IF n + x <= Len(p) THEN p[n + x] ELSE q[(n + x) - Len(p)]
    BY <1>2, <1>3, <2>1
  <2>3. (p2 \o q)[x] = IF x <= Len(p2) THEN p2[x] ELSE q[x - Len(p2)]
    BY <1>4, <2>1
  <2>4. CASE x <= Len(p2)
    <3>1. n + x <= Len(p) /\ x \in 1..(Len(p) - n)
      BY <1>0, <1>5, <2>1, <2>4
    <3>2. p2[x] = p[n + x]
      BY <1>1, <3>1
    <3> QED
      BY <2>2, <2>3, <2>4, <3>1, <3>2
  <2>5. CASE ~(x <= Len(p2))
    <3>1. ~(n + x <= Len(p)) /\ (n + x) - Len(p) = x - Len(p2)
      BY <1>0, <1>5, <2>1, <2>5
    <3> QED
      BY <2>2, <2>3, <2>5, <3>1
  <2> QED
    BY <2>4, <2>5
<1>7. p2 \o q = w2
  BY <1>3, <1>4, <1>5, <1>6, SeqEqual
<1> QED
  BY <1>7 DEF p2, w2, w

\* What sendInLoop makes of a message: the part that the socket takes and the
\* rest, which waits behind what waits already.
LEMMA PartsAdded ==
  ASSUME NEW p \in Seq(Bytes), NEW q \in Seq(Bytes), NEW r \in Seq(Bytes), NEW n \in Nat, n <= Len(r),
         q = <<>> \/ n = 0
  PROVE  (p \o SubSeq(r, 1, n)) \o (q \o SubSeq(r, n + 1, Len(r))) = (p \o q) \o r
<1> DEFINE r1 == SubSeq(r, 1, n)
           r2 == SubSeq(r, n + 1, Len(r))
<1>1. r1 \in Seq(Bytes) /\ r2 \in Seq(Bytes)
  BY SubSeqProperties
<1>2. r1 \o r2 = r
  BY SplitSeq
<1>3. n = 0 => r1 = <<>> /\ r2 = r
  OBVIOUS
<1> HIDE DEF r1, r2
<1>4. CASE q = <<>>
  <2>1. (p \o r1) \o r2 = p \o (r1 \o r2)
    BY <1>1
  <2>2. q \o r2 = r2 /\ p \o q = p
    BY <1>1, <1>4, ConcatEmptySeq
  <2> QED
    BY ONLY <1>2, <2>1, <2>2 DEF r1, r2
<1>5. CASE n = 0
  <2>1. p \o r1 = p
    BY <1>3, <1>5, ConcatEmptySeq
  <2>2. p \o (q \o r) = (p \o q) \o r
    OBVIOUS
  <2> QED
    BY ONLY <1>3, <1>5, <2>1, <2>2 DEF r1, r2
<1> QED
  BY <1>4, <1>5

\* What has been transmitted and not yet been taken from the input buffer.
Stream == Contents(inbuf) \o (wire \o outputBuffer)

\* The bytes on their way.
Bits ==
  /\ wire \in Seq(Bytes) /\ Len(wire) <= WireSize /\ outputBuffer \in Seq(Bytes)
  /\ BufferOK(inbuf)

LEMMA BitsFacts ==
  ASSUME Bits
  PROVE  /\ Contents(inbuf) \in Seq(Bytes) /\ wire \o outputBuffer \in Seq(Bytes)
         /\ Stream \in Seq(Bytes)
         /\ Space \in Nat /\ Len(wire) \in Nat /\ WireSize \in Nat /\ Len(wire) + Space = WireSize
<1>1. Contents(inbuf) \in Seq(Bytes)
  BY ContentsType DEF Bits
<1>2. wire \o outputBuffer \in Seq(Bytes)
  BY DEF Bits
<1>3. Stream \in Seq(Bytes)
  BY <1>1, <1>2 DEF Stream
<1>4. Len(wire) \in Nat /\ WireSize \in Nat /\ Len(wire) <= WireSize
  BY TransferAssumption DEF Bits
<1>5. Space \in Nat /\ Len(wire) + Space = WireSize
  BY <1>4 DEF Space
<1> QED
  BY <1>1, <1>2, <1>3, <1>4, <1>5

LEMMA LeastFacts ==
  ASSUME NEW i \in Nat, NEW j \in Nat
  PROVE  Least(i, j) \in Nat /\ Least(i, j) <= i /\ Least(i, j) <= j
BY DEF Least

\* Some bytes go into the socket.
LEMMA WireGrows ==
  ASSUME Bits, NEW r \in Seq(Bytes), NEW n \in Nat, n <= Len(r), n <= Space
  PROVE  /\ SubSeq(r, 1, n) \in Seq(Bytes) /\ SubSeq(r, n + 1, Len(r)) \in Seq(Bytes)
         /\ wire \o SubSeq(r, 1, n) \in Seq(Bytes)
         /\ Len(wire \o SubSeq(r, 1, n)) <= WireSize
<1> DEFINE r1 == SubSeq(r, 1, n)
           r2 == SubSeq(r, n + 1, Len(r))
<1>1. r1 \in Seq(Bytes) /\ Len(r1) = n /\ r2 \in Seq(Bytes)
  BY SubSeqProperties
<1> HIDE DEF r1, r2
<1>2. wire \in Seq(Bytes)
  BY DEF Bits
<1>3. wire \o r1 \in Seq(Bytes) /\ Len(wire \o r1) = Len(wire) + Len(r1)
  BY <1>1, <1>2, ConcatProperties
<1>4. Len(wire) + n <= WireSize
  BY BitsFacts
<1>5. Len(wire \o r1) <= WireSize
  BY <1>1, <1>3, <1>4
<1> QED
  BY <1>1, <1>3, <1>5 DEF r1, r2

LEMMA TransmitStream ==
  ASSUME Bits, NEW kind \in MessageKinds, Transmit(kind), UNCHANGED inbuf
  PROVE  Bits' /\ Stream' = Stream \o Frame(kind)
<1> DEFINE C == Contents(inbuf)
           F == Frame(kind)
           n == IF outputBuffer = <<>> THEN Least(3, Space) ELSE 0
<1>0. F \in Seq(Bytes) /\ Len(F) = 3
  BY FrameFacts
<1>1. n \in Nat /\ n <= Len(F) /\ n <= Space /\ (outputBuffer = <<>> \/ n = 0)
  <2>1. 3 \in Nat /\ Space \in Nat
    BY BitsFacts
  <2>2. Least(3, Space) \in Nat /\ Least(3, Space) <= 3 /\ Least(3, Space) <= Space
    BY <2>1, LeastFacts
  <2> QED
    BY <1>0, <2>1, <2>2
<1>2. wire' = wire \o SubSeq(F, 1, n) /\ outputBuffer' = outputBuffer \o SubSeq(F, n + 1, Len(F))
  BY <1>0 DEF Transmit
<1> HIDE DEF F, n
<1>3. /\ SubSeq(F, 1, n) \in Seq(Bytes) /\ SubSeq(F, n + 1, Len(F)) \in Seq(Bytes)
      /\ wire' \in Seq(Bytes) /\ Len(wire') <= WireSize
  BY <1>0, <1>1, <1>2, WireGrows
<1>4. wire \in Seq(Bytes) /\ outputBuffer \in Seq(Bytes) /\ C \in Seq(Bytes)
  BY BitsFacts DEF Bits
<1>5. outputBuffer' \in Seq(Bytes)
  BY <1>2, <1>3, <1>4
<1>6. wire' \o outputBuffer' = (wire \o outputBuffer) \o F
  <2>1. /\ wire \in Seq(Bytes) /\ outputBuffer \in Seq(Bytes) /\ F \in Seq(Bytes)
        /\ n \in Nat /\ n <= Len(F) /\ (outputBuffer = <<>> \/ n = 0)
    BY <1>0, <1>1, <1>4
  <2>2. (wire \o SubSeq(F, 1, n)) \o (outputBuffer \o SubSeq(F, n + 1, Len(F))) = (wire \o outputBuffer) \o F
    BY ONLY <2>1, PartsAdded
  <2> QED
    BY ONLY <1>2, <2>2
<1>7. C \o ((wire \o outputBuffer) \o F) = (C \o (wire \o outputBuffer)) \o F
  <2>1. F \in Seq(Bytes) /\ wire \o outputBuffer \in Seq(Bytes)
    BY <1>0, BitsFacts
  <2> HIDE DEF C
  <2> QED
    BY <1>4, <2>1
<1>8. Bits'
  BY <1>3, <1>5 DEF Bits
<1>9. Stream' = Stream \o F
  BY <1>6, <1>7 DEF Stream
<1> QED
  BY <1>8, <1>9 DEF F

LEMMA HandleWriteStream ==
  ASSUME Bits, HandleWrite
  PROVE  Bits' /\ Stream' = Stream
<1> DEFINE n == Least(Len(outputBuffer), Space)
<1>1. wire \in Seq(Bytes) /\ outputBuffer \in Seq(Bytes) /\ Len(outputBuffer) \in Nat
  BY DEF Bits
<1>2. n \in Nat /\ n <= Len(outputBuffer) /\ n <= Space
  BY <1>1, BitsFacts, LeastFacts
<1>3. /\ wire' = wire \o SubSeq(outputBuffer, 1, n)
      /\ outputBuffer' = SubSeq(outputBuffer, n + 1, Len(outputBuffer))
      /\ inbuf' = inbuf
  BY DEF HandleWrite, receiver
<1> HIDE DEF n
<1>4. wire' \in Seq(Bytes) /\ Len(wire') <= WireSize /\ outputBuffer' \in Seq(Bytes)
  BY <1>1, <1>2, <1>3, WireGrows
<1>5. wire' \o outputBuffer' = wire \o outputBuffer
  <2>1. wire \in Seq(Bytes) /\ outputBuffer \in Seq(Bytes) /\ n \in Nat /\ n <= Len(outputBuffer)
    BY <1>1, <1>2
  <2>2. (wire \o SubSeq(outputBuffer, 1, n)) \o SubSeq(outputBuffer, n + 1, Len(outputBuffer)) = wire \o outputBuffer
    BY ONLY <2>1, PartsKept
  <2> QED
    BY ONLY <1>3, <2>2
<1> QED
  BY <1>3, <1>4, <1>5 DEF Bits, Stream

\* The thread that sends the file writes to the socket itself.
LEMMA DirectStream ==
  ASSUME Bits, NEW r \in Seq(Bytes), NEW n \in Nat, n <= Len(r), n <= Space,
         wire' = wire \o SubSeq(r, 1, n), UNCHANGED <<outputBuffer, inbuf>>
  PROVE  /\ Bits'
         /\ outputBuffer = <<>> => Stream' = Stream \o SubSeq(r, 1, n)
<1> DEFINE C == Contents(inbuf)
           r1 == SubSeq(r, 1, n)
<1>1. r1 \in Seq(Bytes) /\ wire' \in Seq(Bytes) /\ Len(wire') <= WireSize
  BY WireGrows
<1>2. Bits'
  BY <1>1 DEF Bits
<1>3. ASSUME outputBuffer = <<>>
      PROVE  Stream' = Stream \o r1
  <2>1. C \in Seq(Bytes) /\ wire \in Seq(Bytes) /\ wire' = wire \o r1
    BY BitsFacts DEF Bits
  <2>2. Stream = C \o wire /\ Stream' = C \o wire'
    BY <1>1, <1>3, <2>1, ConcatEmptySeq DEF Stream
  <2> HIDE DEF C, r1
  <2>3. C \o (wire \o r1) = (C \o wire) \o r1
    BY <1>1, <2>1
  <2> QED
    BY <2>1, <2>2, <2>3
<1> QED
  BY <1>2, <1>3

LEMMA HandleReadStream ==
  ASSUME Bits, HandleRead
  PROVE  Bits' /\ Stream' = Stream
<1>0. Len(wire) \in Nat /\ ReadvLimit(inbuf) \in Int
  BY ContentsType, BufferAssumption DEF Bits, ReadvLimit
<1>1. PICK n \in 1..Least(Len(wire), ReadvLimit(inbuf)) :
        /\ inbuf' = readFd(inbuf, SubSeq(wire, 1, n))
        /\ wire' = SubSeq(wire, n + 1, Len(wire))
  BY DEF HandleRead
<1>2. n \in Nat /\ n <= Len(wire)
  BY <1>0 DEF Least
<1>3. outputBuffer' = outputBuffer
  BY DEF HandleRead
<1> DEFINE C == Contents(inbuf)
           w1 == SubSeq(wire, 1, n)
           w2 == SubSeq(wire, n + 1, Len(wire))
<1>4. wire \in Seq(Bytes) /\ outputBuffer \in Seq(Bytes) /\ C \in Seq(Bytes) /\ Len(wire) <= WireSize
  BY BitsFacts DEF Bits
<1>5. w1 \in Seq(Bytes) /\ w2 \in Seq(Bytes) /\ Len(w2) = Len(wire) - n
  BY <1>2, <1>4, SubSeqProperties
<1>6. BufferOK(inbuf') /\ Contents(inbuf') = C \o w1
  BY <1>1, <1>5, ReadFdQueues DEF Bits
<1>7. Len(w2) <= WireSize
  BY <1>0, <1>2, <1>4, <1>5, TransferAssumption
<1>8. (C \o w1) \o (w2 \o outputBuffer) = C \o (wire \o outputBuffer)
  <2> HIDE DEF C
  <2>1. /\ wire \in Seq(Bytes) /\ outputBuffer \in Seq(Bytes) /\ C \in Seq(Bytes)
        /\ n \in Nat /\ n <= Len(wire)
    BY <1>2, <1>4
  <2> QED
    BY ONLY <2>1, PartsMoved
<1> QED
  BY <1>1, <1>3, <1>4, <1>5, <1>6, <1>7, <1>8 DEF Bits, Stream

\* onMessage takes n bytes from the input buffer.
LEMMA RetrieveStream ==
  ASSUME Bits, NEW n \in Nat, n <= readableBytes(inbuf), inbuf' = retrieve(inbuf, n),
         UNCHANGED <<wire, outputBuffer>>
  PROVE  Bits' /\ Stream' = SubSeq(Stream, n + 1, Len(Stream))
<1> DEFINE C == Contents(inbuf)
           r == wire \o outputBuffer
<1>1. C \in Seq(Bytes) /\ Len(C) = readableBytes(inbuf) /\ r \in Seq(Bytes)
  BY ContentsType, BitsFacts DEF Bits
<1>2. BufferOK(inbuf') /\ Contents(inbuf') = SubSeq(C, n + 1, Len(C))
  BY RetrieveDequeues DEF Bits
<1>3. Bits'
  BY <1>2 DEF Bits
<1>4. Stream' = SubSeq(C, n + 1, Len(C)) \o r /\ Stream = C \o r
  BY <1>2 DEF Stream
<1> HIDE DEF C, r
<1>5. SubSeq(C, n + 1, Len(C)) \o r = SubSeq(C \o r, n + 1, Len(C \o r))
  BY <1>1, FrontTaken
<1> QED
  BY <1>3, <1>4, <1>5

\* The readable bytes are the front of the stream.
LEMMA StreamFront ==
  ASSUME Bits
  PROVE  /\ readableBytes(inbuf) \in Nat /\ Len(Contents(inbuf)) = readableBytes(inbuf)
         /\ Contents(inbuf) \in Seq(Bytes)
         /\ readableBytes(inbuf) <= Len(Stream)
         /\ \A x \in 1..readableBytes(inbuf) : Contents(inbuf)[x] = Stream[x]
<1> DEFINE C == Contents(inbuf)
           r == wire \o outputBuffer
<1>1. C \in Seq(Bytes) /\ Len(C) = readableBytes(inbuf) /\ r \in Seq(Bytes) /\ readableBytes(inbuf) \in Nat
  BY ContentsType, BitsFacts DEF Bits
<1>2. Stream = C \o r
  BY DEF Stream
<1> HIDE DEF C, r
<1>3. Len(C \o r) = Len(C) + Len(r) /\ \A x \in 1..Len(C) : C[x] = (C \o r)[x]
  <2>1. C \in Seq(Bytes) /\ r \in Seq(Bytes)
    BY <1>1
  <2>2. Len(C) \in Nat /\ Len(r) \in Nat
    BY <2>1
  <2>3. /\ Len(C \o r) = Len(C) + Len(r)
        /\ \A x \in 1..(Len(C) + Len(r)) : (C \o r)[x] = IF x <= Len(C) THEN C[x] ELSE r[x - Len(C)]
    BY ONLY <2>1, ConcatProperties
  <2> QED
    BY <2>2, <2>3
<1>4. Len(C) <= Len(C \o r)
  BY <1>1, <1>3
<1> QED
  BY <1>1, <1>2, <1>3, <1>4 DEF C

LEMMA NatOrder == OpToRel(<, Nat) = {ss \in Nat \X Nat : ss[1] < ss[2]}
  BY DEF OpToRel

LEMMA FirstOf ==
  ASSUME NEW S \in SUBSET Nat, S # {}, NEW k, k = (CHOOSE i \in S : \A j \in S : i <= j)
  PROVE  k \in S /\ \A j \in S : k <= j
<1>1. PICK x \in S : \A y \in S : <<y, x>> \notin OpToRel(<, Nat)
  BY NatLessThanWellFounded, WFMin
<1>2. ASSUME NEW y \in S
      PROVE  x <= y
  <2>1. <<y, x>> \notin {ss \in Nat \X Nat : ss[1] < ss[2]}
    BY <1>1, NatOrder
  <2> QED
    BY <2>1
<1> QED
  BY <1>2

\* The first CR LF and the text before it are readable.
LEMMA TextFacts ==
  ASSUME Bits, CRLFs # {}, NEW n, n = findCRLF + 1
  PROVE  /\ findCRLF \in CRLFs /\ (\A j \in CRLFs : findCRLF <= j) /\ Text \in Seq(Bytes)
         /\ n \in Nat /\ n <= readableBytes(inbuf)
<1>0. readableBytes(inbuf) \in Nat /\ Len(Contents(inbuf)) = readableBytes(inbuf) /\ Contents(inbuf) \in Seq(Bytes)
  BY StreamFront
<1>1. CRLFs \in SUBSET Nat
  BY <1>0 DEF CRLFs
<1>2. findCRLF \in CRLFs /\ \A j \in CRLFs : findCRLF <= j
  BY <1>1, FirstOf DEF findCRLF
<1>3. findCRLF \in 1..(readableBytes(inbuf) - 1)
  BY <1>2 DEF CRLFs
<1>4. Text \in Seq(Bytes)
  <2>1. findCRLF - 1 \in Nat /\ findCRLF - 1 <= Len(Contents(inbuf))
    BY <1>0, <1>3
  <2> DEFINE C == Contents(inbuf)
             k == findCRLF - 1
  <2> HIDE DEF C, k
  <2>2. C \in Seq(Bytes) /\ k \in Nat /\ k <= Len(C)
    BY <1>0, <2>1 DEF C, k
  <2>3. SubSeq(C, 1, k) \in Seq(Bytes)
    BY <2>2, SubSeqProperties
  <2> QED
    BY <2>3 DEF Text, C, k
<1> QED
  BY <1>0, <1>2, <1>3, <1>4

LEMMA RetrieveTextStream ==
  ASSUME Bits, CRLFs # {}, RetrieveText, UNCHANGED <<wire, outputBuffer>>
  PROVE  Bits' /\ Stream' = SubSeq(Stream, (findCRLF + 1) + 1, Len(Stream))
<1> DEFINE n == findCRLF + 1
<1>1. n \in Nat /\ n <= readableBytes(inbuf)
  BY TextFacts
<1>2. inbuf' = retrieve(inbuf, n)
  BY DEF RetrieveText
<1> HIDE DEF n
<1>3. Bits' /\ Stream' = SubSeq(Stream, n + 1, Len(Stream))
  BY <1>1, <1>2, RetrieveStream
<1> QED
  BY <1>3 DEF n

-----------------------------------------------------------------------------
(* Types.                                                                  *)

SenderOK ==
  /\ side \in {"server", "client"}
  /\ pc \in {"idle", "unmapped", "copying", "mapped", "ended", "done"}
  /\ file \in Files /\ copied \in 0..Len(file)
  /\ mapped \in BOOLEAN

OthersOK ==
  /\ holder \in BOOLEAN /\ chats \in 0..MaxChats /\ (holder => side = "server" /\ chats > 0)
  /\ loopQ \in Seq(MessageKinds)

ReceiverOK ==
  /\ busy \in BOOLEAN /\ left \in Nat \cup {None} /\ got \in Seq(Bytes)
  /\ decoded \in Seq(Seq(Bytes))

HistoryOK ==
  /\ sent \in Seq(MessageKinds) /\ intruders \in Nat
  /\ faults \subseteq {"overtook", "truncated", "cut", "not opened"}

\* A worker that has looked a connection up still has its message to send.
Typed == SenderOK /\ OthersOK /\ Bits /\ ReceiverOK /\ HistoryOK

LEMMA KindFacts == {"h", "m", "e", "f"} = MessageKinds
BY DEF MessageKinds

LEMMA SentGrows ==
  ASSUME Typed, NEW kind \in MessageKinds, Transmit(kind), faults' = faults
  PROVE  HistoryOK'
<1>1. sent \in Seq(MessageKinds) /\ intruders \in Nat
  BY DEF Typed, HistoryOK
<1>2. sent' \in Seq(MessageKinds)
  BY <1>1 DEF Transmit
<1>3. intruders' \in Nat
  BY <1>1 DEF Transmit
<1> QED
  BY <1>2, <1>3 DEF Typed, HistoryOK

LEMMA InitTyped == TransferInit => Typed
<1> SUFFICES ASSUME TransferInit PROVE Typed
  OBVIOUS
<1>1. SenderOK
  <2>1. file \in Files /\ Len(file) \in Nat /\ copied = 0
    BY TransferAssumption DEF TransferInit
  <2> QED
    BY <2>1 DEF TransferInit, SenderOK
<1>2. OthersOK
  <2>1. MaxChats \in 0..MaxChats /\ <<>> \in Seq(MessageKinds)
    BY TransferAssumption
  <2> QED
    BY <2>1 DEF TransferInit, OthersOK
<1>3. Bits
  <2>1. BufferOK(EmptyBuffer)
    <3>1. /\ EmptyBuffer.data = [i \in 1..(CheapPrepend + InitialSize) |-> Unset]
          /\ EmptyBuffer.size = CheapPrepend + InitialSize
          /\ EmptyBuffer.read = CheapPrepend /\ EmptyBuffer.write = CheapPrepend
      BY DEF EmptyBuffer
    <3> QED
      BY <3>1, BufferAssumption DEF BufferOK
  <2> QED
    <3>1. <<>> \in Seq(Bytes) /\ Len(<<>>) <= WireSize
      BY TransferAssumption
    <3> QED
      BY <2>1, <3>1 DEF TransferInit, Bits
<1>4. ReceiverOK
  <2>1. <<>> \in Seq(Bytes) /\ <<>> \in Seq(Seq(Bytes))
    OBVIOUS
  <2> QED
    BY <2>1 DEF TransferInit, ReceiverOK
<1>5. HistoryOK
  BY DEF TransferInit, HistoryOK
<1> QED
  BY <1>1, <1>2, <1>3, <1>4, <1>5 DEF Typed

LEMMA PostTyped ==
  ASSUME Typed, NEW kind \in MessageKinds, Post(kind)
  PROVE  loopQ' \in Seq(MessageKinds)
<1>1. loopQ \in Seq(MessageKinds)
  BY DEF Typed, OthersOK
<1> QED
  BY <1>1 DEF Post

LEMMA BitsSame == Bits /\ UNCHANGED <<wire, outputBuffer, inbuf>> => Bits' /\ Stream' = Stream
BY DEF Bits, Stream

LEMMA PartsSame ==
  /\ SenderOK /\ UNCHANGED sender => SenderOK'
  /\ OthersOK /\ UNCHANGED <<side, others, loopQ>> => OthersOK'
  /\ ReceiverOK /\ UNCHANGED <<busy, left, got, decoded>> => ReceiverOK'
  /\ HistoryOK /\ UNCHANGED history => HistoryOK'
<1>1. SenderOK /\ UNCHANGED sender => SenderOK'
  BY DEF SenderOK, sender
<1>2. OthersOK /\ UNCHANGED <<side, others, loopQ>> => OthersOK'
  <2> SUFFICES ASSUME OthersOK, UNCHANGED <<side, others, loopQ>> PROVE OthersOK'
    OBVIOUS
  <2>1. side' = side /\ holder' = holder /\ chats' = chats /\ loopQ' = loopQ
    BY DEF others
  <2> QED
    BY <2>1 DEF OthersOK
<1>3. ReceiverOK /\ UNCHANGED <<busy, left, got, decoded>> => ReceiverOK'
  BY DEF ReceiverOK
<1>4. HistoryOK /\ UNCHANGED history => HistoryOK'
  BY DEF HistoryOK, history
<1> QED
  BY <1>1, <1>2, <1>3, <1>4

LEMMA LoopTyped == Typed /\ Loop => Typed'
<1> SUFFICES ASSUME Typed, Loop PROVE Typed'
  OBVIOUS
<1> USE DEF sender, others, receiver, history
<1>1. CASE SendQueued
  <2>1. loopQ \in Seq(MessageKinds) /\ loopQ # <<>>
    BY <1>1 DEF SendQueued, Typed, OthersOK
  <2>2. Head(loopQ) \in MessageKinds /\ loopQ' \in Seq(MessageKinds)
    BY <1>1, <2>1 DEF SendQueued
  <2>3. Transmit(Head(loopQ)) /\ UNCHANGED inbuf
    BY <1>1 DEF SendQueued
  <2>4. Bits'
    BY <2>2, <2>3, TransmitStream DEF Typed
  <2>5. HistoryOK'
    BY <1>1, <2>2, <2>3, SentGrows DEF SendQueued
  <2>6. SenderOK' /\ OthersOK' /\ ReceiverOK'
    BY <1>1, <2>2 DEF SendQueued, Typed, SenderOK, OthersOK, ReceiverOK
  <2> QED
    BY <2>4, <2>5, <2>6 DEF Typed
<1>2. CASE HandleWrite
  <2>1. Bits'
    BY <1>2, HandleWriteStream DEF Typed
  <2>2. SenderOK' /\ OthersOK' /\ ReceiverOK' /\ HistoryOK'
    BY <1>2 DEF HandleWrite, Typed, SenderOK, OthersOK, ReceiverOK, HistoryOK
  <2> QED
    BY <2>1, <2>2 DEF Typed
<1> QED
  BY <1>1, <1>2 DEF Loop

LEMMA CopyFacts ==
  ASSUME Typed, CopyFile, NEW n, n = Least(Len(file) - copied, Space)
  PROVE  /\ n \in Nat /\ n > 0 /\ n <= Space /\ copied \in Nat /\ copied + n <= Len(file)
         /\ file \in Seq(Bytes) /\ copied' = copied + n
         /\ wire' = wire \o SubSeq(file, copied + 1, copied + n)
         /\ UNCHANGED <<outputBuffer, inbuf>>
<1>1. file \in Seq(Bytes) /\ copied \in 0..Len(file) /\ Len(file) \in Nat
  BY TransferAssumption DEF Typed, SenderOK
<1>2. Len(file) - copied \in Nat /\ Space \in Nat /\ copied \in Nat
  BY <1>1, BitsFacts DEF Typed
<1>3. n \in Nat /\ n <= Len(file) - copied /\ n <= Space
  BY <1>2, LeastFacts
<1>4. n > 0 /\ copied' = copied + n /\ wire' = wire \o SubSeq(file, copied + 1, copied + n)
  BY DEF CopyFile
<1>5. copied + n <= Len(file)
  BY <1>1, <1>2, <1>3
<1>6. UNCHANGED <<outputBuffer, inbuf>>
  BY DEF CopyFile, receiver
<1> QED
  BY <1>1, <1>2, <1>3, <1>4, <1>5, <1>6

LEMMA CopyStream ==
  ASSUME Typed, CopyFile, NEW n, n = Least(Len(file) - copied, Space)
  PROVE  /\ Bits'
         /\ outputBuffer = <<>> => Stream' = Stream \o SubSeq(file, copied + 1, copied + n)
<1> DEFINE p == SubSeq(file, copied + 1, copied + n)
<1>1. /\ n \in Nat /\ n <= Space /\ copied \in Nat /\ copied + n <= Len(file)
      /\ file \in Seq(Bytes) /\ wire' = wire \o p
      /\ UNCHANGED <<outputBuffer, inbuf>>
  BY CopyFacts
<1>2. p \in Seq(Bytes) /\ Len(p) = n
  <2>1. copied + 1 \in 1..(Len(file) + 1) /\ copied + n \in copied..Len(file)
    BY <1>1
  <2> QED
    BY <1>1, <2>1, SubSeqProperties
<1> HIDE DEF p
<1>3. SubSeq(p, 1, n) = p
  BY <1>1, <1>2
<1>4. /\ Bits'
      /\ outputBuffer = <<>> => Stream' = Stream \o SubSeq(p, 1, n)
  <2>1. wire' = wire \o SubSeq(p, 1, n) /\ n <= Len(p) /\ n <= Space /\ n \in Nat
    BY <1>1, <1>2, <1>3
  <2> QED
    BY <1>1, <1>2, <2>1, DirectStream DEF Typed
<1> QED
  BY <1>3, <1>4 DEF p

LEMMA DirectSendStream ==
  ASSUME Typed, NEW kind \in MessageKinds, DirectSend(kind), UNCHANGED inbuf
  PROVE  /\ Bits' /\ HistoryOK'
         /\ faults' = {} => /\ faults = {} /\ loopQ = <<>>
                            /\ Stream' = Stream \o Frame(kind)
<1> DEFINE F == Frame(kind)
           n == Least(3, Space)
<1>0. F \in Seq(Bytes) /\ Len(F) = 3 /\ 3 \in Nat /\ Space \in Nat
  BY FrameFacts, BitsFacts DEF Typed
<1>1. n \in Nat /\ n <= Len(F) /\ n <= Space
  BY <1>0, LeastFacts
<1>2. wire' = wire \o SubSeq(F, 1, n) /\ UNCHANGED <<outputBuffer, inbuf>>
  BY DEF DirectSend
<1>3. faults' = {} => faults = {} /\ loopQ = <<>> /\ outputBuffer = <<>> /\ ~(Space < 3)
  BY DEF DirectSend
<1>4. ~(Space < 3) => n = 3
  BY <1>0 DEF Least
<1>h. HistoryOK'
  <2>1. sent \in Seq(MessageKinds)
    BY DEF Typed, HistoryOK
  <2>2. sent' \in Seq(MessageKinds)
    BY <2>1 DEF DirectSend
  <2>3. intruders' = intruders
    BY DEF DirectSend
  <2>4. faults' \subseteq {"overtook", "truncated", "cut", "not opened"}
    BY DEF DirectSend, Typed, HistoryOK
  <2> QED
    BY <2>2, <2>3, <2>4 DEF Typed, HistoryOK
<1> HIDE DEF F, n
<1>5. /\ Bits'
      /\ outputBuffer = <<>> => Stream' = Stream \o SubSeq(F, 1, n)
  BY <1>0, <1>1, <1>2, DirectStream DEF Typed
<1>6. n = 3 => SubSeq(F, 1, n) = F
  BY <1>0
<1> QED
  BY <1>h, <1>3, <1>4, <1>5, <1>6 DEF F

LEMMA ThreadTyped == Typed /\ Thread => Typed'
<1> SUFFICES ASSUME Typed, Thread PROVE Typed'
  OBVIOUS
<1> USE DEF others, queues, receiver, history
<1>1. CASE Unmap \/ Remap
  <2>1. Bits'
    BY <1>1, BitsSame DEF Unmap, Remap, Typed
  <2>2. SenderOK'
    BY <1>1 DEF Unmap, Remap, Typed, SenderOK
  <2>3. OthersOK' /\ ReceiverOK' /\ HistoryOK'
    BY <1>1, PartsSame DEF Unmap, Remap, Typed
  <2> QED
    BY <2>1, <2>2, <2>3 DEF Typed
<1>2. CASE SendHeader
  <2>1. Bits'
    BY <1>2, BitsSame DEF SendHeader, Post, Typed
  <2>2. loopQ' \in Seq(MessageKinds)
    BY <1>2, KindFacts, PostTyped DEF SendHeader
  <2>3. SenderOK' /\ OthersOK' /\ ReceiverOK' /\ HistoryOK'
    BY <1>2, <2>2 DEF SendHeader, Post, Typed, SenderOK, OthersOK, ReceiverOK, HistoryOK
  <2> QED
    BY <2>1, <2>3 DEF Typed
<1>3. CASE CopyFile
  <2>1. Bits'
    BY <1>3, CopyStream
  <2>2. copied' \in 0..Len(file)
    <3>1. PICK n : n = Least(Len(file) - copied, Space)
      OBVIOUS
    <3>2. n \in Nat /\ copied \in Nat /\ copied + n <= Len(file) /\ copied' = copied + n
      BY <1>3, <3>1, CopyFacts
    <3>3. Len(file) \in Nat
      BY TransferAssumption DEF Typed, SenderOK
    <3> QED
      BY <3>2, <3>3
  <2>3. SenderOK'
    BY <1>3, <2>2 DEF CopyFile, Typed, SenderOK
  <2>4. OthersOK' /\ ReceiverOK'
    BY <1>3 DEF CopyFile, Typed, OthersOK, ReceiverOK
  <2>5. HistoryOK'
    BY <1>3 DEF CopyFile, Typed, HistoryOK
  <2> QED
    BY <2>1, <2>3, <2>4, <2>5 DEF Typed
<1>4. CASE SendEnd \/ SendLast
  <2>1. PICK kind \in MessageKinds :
          /\ pc' \in {"ended", "done"}
          /\ \/ Post(kind)
             \/ DirectSend(kind)
          /\ UNCHANGED <<side, file, copied, mapped, others, receiver>>
    BY <1>4, KindFacts DEF SendEnd, SendLast, SendAfter
  <2>2. SenderOK' /\ ReceiverOK'
    BY <2>1 DEF Typed, SenderOK, ReceiverOK
  <2>3. CASE Post(kind)
    <3>1. loopQ' \in Seq(MessageKinds)
      BY <2>3, PostTyped
    <3>2. OthersOK' /\ HistoryOK'
      BY <2>1, <2>3, <3>1 DEF Post, Typed, OthersOK, HistoryOK
    <3>3. Bits'
      BY <2>1, <2>3, BitsSame DEF Post, Typed
    <3> QED
      BY <2>2, <3>2, <3>3 DEF Typed
  <2>4. CASE DirectSend(kind)
    <3>1. OthersOK'
      BY <2>1, <2>4 DEF DirectSend, Typed, OthersOK
    <3>2. Bits' /\ HistoryOK'
      BY <2>1, <2>4, DirectSendStream
    <3> QED
      BY <2>2, <3>1, <3>2 DEF Typed
  <2> QED
    BY <2>1, <2>3, <2>4
<1> QED
  BY <1>1, <1>2, <1>3, <1>4 DEF Thread

LEMMA OthersTyped == Typed /\ (Others \/ Truncate) => Typed'
<1> SUFFICES ASSUME Typed, Others \/ Truncate PROVE Typed'
  OBVIOUS
<1> USE DEF sender, others, queues, receiver, history
<1>1. CASE Look \/ Truncate
  <2>1. Bits'
    BY <1>1, BitsSame DEF Look, Truncate, Typed
  <2>2. SenderOK' /\ ReceiverOK'
    BY <1>1 DEF Look, Truncate, Typed, SenderOK, ReceiverOK
  <2>3. OthersOK'
    <3>1. CASE Truncate
      BY <3>1, PartsSame DEF Truncate, Typed
    <3>2. CASE Look
      <4>1. side' = side /\ side = "server" /\ holder' = TRUE /\ chats' = chats /\ loopQ' = loopQ /\ chats > 0
        BY <3>2 DEF Look
      <4> QED
        BY <4>1 DEF Typed, OthersOK
    <3> QED
      BY <1>1, <3>1, <3>2
  <2>4. HistoryOK'
    BY <1>1 DEF Look, Truncate, Typed, HistoryOK
  <2> QED
    BY <2>1, <2>2, <2>3, <2>4 DEF Typed
<1>2. CASE Deliver
  <2>1. Bits'
    BY <1>2, BitsSame DEF Deliver, Post, Typed
  <2>2. loopQ' \in Seq(MessageKinds)
    BY <1>2, KindFacts, PostTyped DEF Deliver
  <2>3. chats' \in 0..MaxChats
    BY <1>2, TransferAssumption DEF Deliver, Typed, OthersOK
  <2>4. OthersOK'
    BY <1>2, <2>2, <2>3 DEF Deliver, OthersOK
  <2>5. SenderOK' /\ ReceiverOK' /\ HistoryOK'
    BY <1>2 DEF Deliver, Post, Typed, SenderOK, ReceiverOK, HistoryOK
  <2> QED
    BY <2>1, <2>4, <2>5 DEF Typed
<1>3. CASE SendFromLoop
  <2>1. "m" \in MessageKinds
    BY KindFacts
  <2>2. Transmit("m") /\ UNCHANGED <<inbuf, faults>>
    BY <1>3 DEF SendFromLoop
  <2>3. Bits' /\ HistoryOK'
    BY <2>1, <2>2, TransmitStream, SentGrows DEF Typed
  <2>4. chats' \in 0..MaxChats
    BY <1>3, TransferAssumption DEF SendFromLoop, Typed, OthersOK
  <2>5. holder' = holder /\ loopQ' = loopQ
    BY <1>3 DEF SendFromLoop
  <2>6. OthersOK'
    <3>1. side = "client" /\ side' = side
      BY <1>3 DEF SendFromLoop
    <3>2. holder = FALSE /\ loopQ \in Seq(MessageKinds)
      BY <3>1 DEF Typed, OthersOK
    <3> QED
      BY <2>4, <2>5, <3>2 DEF OthersOK
  <2>7. SenderOK' /\ ReceiverOK'
    BY <1>3 DEF SendFromLoop, Typed, SenderOK, ReceiverOK
  <2> QED
    BY <2>3, <2>6, <2>7 DEF Typed
<1> QED
  BY <1>1, <1>2, <1>3 DEF Others

LEMMA FileBytesFacts ==
  ASSUME Typed, FileBytes, NEW n, n = Least(readableBytes(inbuf), left)
  PROVE  /\ n \in Nat /\ n <= readableBytes(inbuf) /\ n <= left /\ left \in Nat
         /\ inbuf' = retrieve(inbuf, n) /\ UNCHANGED <<wire, outputBuffer>>
         /\ got' = got \o SubSeq(Contents(inbuf), 1, n)
         /\ SubSeq(Contents(inbuf), 1, n) \in Seq(Bytes) /\ Len(SubSeq(Contents(inbuf), 1, n)) = n
         /\ \A x \in 1..n : SubSeq(Contents(inbuf), 1, n)[x] = Contents(inbuf)[x]
         /\ left' = IF left = n THEN None ELSE left - n
         /\ decoded' = IF left = n THEN Append(decoded, got') ELSE decoded
<1>1. left \in Nat
  BY DEF Typed, ReceiverOK, FileBytes
<1>2. readableBytes(inbuf) \in Nat /\ Contents(inbuf) \in Seq(Bytes) /\ Len(Contents(inbuf)) = readableBytes(inbuf)
  BY StreamFront DEF Typed
<1>3. n \in Nat /\ n <= readableBytes(inbuf) /\ n <= left
  BY <1>1, <1>2, LeastFacts
<1>4. /\ inbuf' = retrieve(inbuf, n) /\ UNCHANGED <<wire, outputBuffer>>
      /\ got' = got \o SubSeq(Contents(inbuf), 1, n)
      /\ left' = IF left = n THEN None ELSE left - n
      /\ decoded' = IF left = n THEN Append(decoded, got') ELSE decoded
  BY DEF FileBytes, queues
<1> DEFINE C == Contents(inbuf)
<1>5. C \in Seq(Bytes) /\ n \in Nat /\ n <= Len(C)
  BY <1>2, <1>3
<1> HIDE DEF C
<1>6. /\ SubSeq(C, 1, n) \in Seq(Bytes) /\ Len(SubSeq(C, 1, n)) = n
      /\ \A x \in 1..n : SubSeq(C, 1, n)[x] = C[x]
  BY <1>5, SubSeqProperties
<1> QED
  BY <1>1, <1>3, <1>4, <1>6 DEF C

LEMMA ReceiveTyped == Typed /\ Receive => Typed'
<1> SUFFICES ASSUME Typed, Receive PROVE Typed'
  OBVIOUS
<1> USE DEF sender, others, queues, history
<1>1. CASE HandleRead
  <2>1. Bits'
    BY <1>1, HandleReadStream DEF Typed
  <2>2. SenderOK' /\ OthersOK' /\ ReceiverOK' /\ HistoryOK'
    BY <1>1 DEF HandleRead, Typed, SenderOK, OthersOK, ReceiverOK, HistoryOK
  <2> QED
    BY <2>1, <2>2 DEF Typed
<1>2. CASE Leave
  <2>1. Bits'
    BY <1>2, BitsSame DEF Leave, Typed
  <2>2. SenderOK' /\ OthersOK' /\ ReceiverOK' /\ HistoryOK'
    BY <1>2 DEF Leave, Typed, SenderOK, OthersOK, ReceiverOK, HistoryOK
  <2> QED
    BY <2>1, <2>2 DEF Typed
<1>3. CASE Message \/ Header \/ HeaderFails
  <2>1. CRLFs # {} /\ RetrieveText /\ UNCHANGED <<wire, outputBuffer>>
    BY <1>3 DEF Message, Header, HeaderFails
  <2>2. Bits' /\ Text \in Seq(Bytes)
    BY <2>1, RetrieveTextStream, TextFacts DEF Typed
  <2>3. SenderOK' /\ OthersOK'
    BY <1>3, PartsSame DEF Message, Header, HeaderFails, Typed
  <2>4. HistoryOK'
    BY <1>3 DEF Message, Header, HeaderFails, Typed, HistoryOK
  <2>5. busy' \in BOOLEAN
    BY <1>3 DEF Message, Header, HeaderFails, Typed, ReceiverOK
  <2>6. decoded' \in Seq(Seq(Bytes))
    <3>1. decoded' \in {decoded, Append(decoded, Text)}
      BY <1>3 DEF Message, Header, HeaderFails
    <3>2. decoded \in Seq(Seq(Bytes))
      BY DEF Typed, ReceiverOK
    <3> QED
      BY <2>2, <3>1, <3>2
  <2>7. left' \in Nat \cup {None} /\ got' \in Seq(Bytes)
    <3>1. Len(file) \in Nat /\ <<>> \in Seq(Bytes)
      BY TransferAssumption DEF Typed, SenderOK
    <3> QED
      BY <1>3, <3>1 DEF Message, Header, HeaderFails, Typed, ReceiverOK
  <2>8. ReceiverOK'
    BY <2>5, <2>6, <2>7 DEF ReceiverOK
  <2> QED
    BY <2>2, <2>3, <2>4, <2>8 DEF Typed
<1>4. CASE FileBytes
  <2>1. PICK n : n = Least(readableBytes(inbuf), left)
    OBVIOUS
  <2>2. /\ n \in Nat /\ n <= readableBytes(inbuf) /\ n <= left /\ left \in Nat
        /\ inbuf' = retrieve(inbuf, n) /\ UNCHANGED <<wire, outputBuffer>>
        /\ got' = got \o SubSeq(Contents(inbuf), 1, n)
        /\ SubSeq(Contents(inbuf), 1, n) \in Seq(Bytes)
        /\ left' = IF left = n THEN None ELSE left - n
        /\ decoded' = IF left = n THEN Append(decoded, got') ELSE decoded
    BY <1>4, <2>1, FileBytesFacts
  <2>3. Bits'
    BY <2>2, RetrieveStream DEF Typed
  <2>4. got' \in Seq(Bytes)
    BY <2>2 DEF Typed, ReceiverOK
  <2>5. left' \in Nat \cup {None}
    BY <2>2
  <2>6. decoded' \in Seq(Seq(Bytes))
    BY <2>2, <2>4 DEF Typed, ReceiverOK
  <2>7. busy' = busy
    BY <1>4 DEF FileBytes
  <2>8. ReceiverOK'
    BY <2>4, <2>5, <2>6, <2>7 DEF Typed, ReceiverOK
  <2>9. SenderOK' /\ OthersOK' /\ HistoryOK'
    BY <1>4 DEF FileBytes, Typed, SenderOK, OthersOK, HistoryOK
  <2> QED
    BY <2>3, <2>8, <2>9 DEF Typed
<1> QED
  BY <1>1, <1>2, <1>3, <1>4 DEF Receive

LEMMA StepTyped == Typed /\ [TransferNext]_transferVars => Typed'
<1> SUFFICES ASSUME Typed, [TransferNext]_transferVars PROVE Typed'
  OBVIOUS
<1>1. CASE UNCHANGED transferVars
  BY <1>1 DEF transferVars, sender, others, queues, receiver, history, Typed,
              SenderOK, OthersOK, Bits, ReceiverOK, HistoryOK
<1>2. CASE TransferNext
  BY <1>2, LoopTyped, ThreadTyped, OthersTyped, ReceiveTyped DEF TransferNext
<1> QED
  BY <1>1, <1>2

\* TransferTypeOK: through every readFd and retrieve of onMessage the input
\* buffer keeps its indices in order over bytes that were written, as the
\* theorems about Buffer require, and the socket's buffer keeps to its size.
THEOREM TransferTypes == TransferSpec => []TransferTypeOK
<1>1. TransferInit => Typed
  BY InitTyped
<1>2. Typed /\ [TransferNext]_transferVars => Typed'
  BY StepTyped
<1>3. Typed => TransferTypeOK
  BY DEF Typed, SenderOK, OthersOK, Bits, ReceiverOK, HistoryOK, TransferTypeOK
<1> QED
  BY <1>1, <1>2, <1>3, PTL DEF TransferSpec

-----------------------------------------------------------------------------
(* The header: queued once, transmitted once.                              *)

HeaderQueued == In(loopQ, "h")
HeaderSent   == In(sent, "h")

\* There is one header.  It is queued before the file is copied and stays
\* queued until it is transmitted.
OneHeader ==
  /\ pc \in {"idle", "unmapped"} => ~HeaderQueued /\ ~HeaderSent /\ copied = 0
  /\ pc \notin {"idle", "unmapped"} => (HeaderQueued <=> ~HeaderSent)
  /\ AtMostOnce(loopQ, "h") /\ AtMostOnce(sent, "h")
  /\ pc \notin {"idle", "unmapped", "copying"} => copied = Len(file)

HeaderSame == (HeaderQueued' <=> HeaderQueued) /\ (AtMostOnce(loopQ, "h") => AtMostOnce(loopQ', "h"))
SentSame   == (HeaderSent' <=> HeaderSent) /\ (AtMostOnce(sent, "h") => AtMostOnce(sent', "h"))

LEMMA SameHeader ==
  /\ loopQ' = loopQ => HeaderSame
  /\ sent' = sent => SentSame
BY DEF HeaderSame, SentSame, HeaderQueued, HeaderSent

LEMMA OtherKind ==
  ASSUME Typed, NEW k \in MessageKinds, k # "h"
  PROVE  /\ loopQ' = Append(loopQ, k) => HeaderSame
         /\ sent' = Append(sent, k) => SentSame
<1>1. loopQ \in Seq(MessageKinds) /\ sent \in Seq(MessageKinds)
  BY DEF Typed, OthersOK, HistoryOK
<1>2. /\ In(Append(loopQ, k), "h") <=> In(loopQ, "h")
      /\ AtMostOnce(loopQ, "h") => AtMostOnce(Append(loopQ, k), "h")
  BY <1>1, PushFacts
<1>3. /\ In(Append(sent, k), "h") <=> In(sent, "h")
      /\ AtMostOnce(sent, "h") => AtMostOnce(Append(sent, k), "h")
  BY <1>1, PushFacts
<1>4. ASSUME loopQ' = Append(loopQ, k)
      PROVE  HeaderSame
  BY <1>2, <1>4 DEF HeaderSame, HeaderQueued
<1>5. ASSUME sent' = Append(sent, k)
      PROVE  SentSame
  BY <1>3, <1>5 DEF SentSame, HeaderSent
<1> QED
  BY <1>4, <1>5

\* A functor runs: the header leaves the queue, or another message.
LEMMA QueuedSent ==
  ASSUME Typed, OneHeader, SendQueued
  PROVE  /\ Head(loopQ) \in MessageKinds /\ Transmit(Head(loopQ))
         /\ sent' = Append(sent, Head(loopQ)) /\ loopQ' = Tail(loopQ)
         /\ Head(loopQ) = "h" => /\ HeaderQueued /\ ~HeaderSent /\ ~HeaderQueued' /\ HeaderSent'
                                 /\ AtMostOnce(sent', "h") /\ AtMostOnce(loopQ', "h")
         /\ Head(loopQ) # "h" => HeaderSame /\ SentSame
<1> DEFINE k == Head(loopQ)
<1>1. loopQ \in Seq(MessageKinds) /\ sent \in Seq(MessageKinds) /\ loopQ # <<>>
  BY DEF Typed, OthersOK, HistoryOK, SendQueued
<1>2. k \in MessageKinds
  BY <1>1
<1>3. Transmit(k) /\ sent' = Append(sent, k) /\ loopQ' = Tail(loopQ)
  BY DEF SendQueued, Transmit
<1>4. /\ In(loopQ, k)
      /\ In(Tail(loopQ), "h") => In(loopQ, "h")
      /\ In(loopQ, "h") /\ "h" # k => In(Tail(loopQ), "h")
      /\ AtMostOnce(loopQ, "h") => AtMostOnce(Tail(loopQ), "h")
      /\ AtMostOnce(loopQ, "h") /\ "h" = k => ~In(Tail(loopQ), "h")
  BY <1>1, PopFacts
<1>5. /\ In(Append(sent, k), "h") <=> In(sent, "h") \/ "h" = k
      /\ AtMostOnce(sent, "h") /\ ("h" # k \/ ~In(sent, "h")) => AtMostOnce(Append(sent, k), "h")
  BY <1>1, <1>2, PushFacts
<1>6. AtMostOnce(loopQ, "h") /\ AtMostOnce(sent, "h")
  BY DEF OneHeader
<1> HIDE DEF k
<1>7. ASSUME k = "h"
      PROVE  /\ HeaderQueued /\ ~HeaderSent /\ ~HeaderQueued' /\ HeaderSent'
             /\ AtMostOnce(sent', "h") /\ AtMostOnce(loopQ', "h")
  <2>1. HeaderQueued
    BY <1>4, <1>7 DEF HeaderQueued
  <2>2. ~HeaderSent
    BY <2>1 DEF OneHeader
  <2>3. ~HeaderQueued' /\ HeaderSent'
    BY <1>3, <1>4, <1>5, <1>6, <1>7 DEF HeaderQueued, HeaderSent
  <2>4. AtMostOnce(sent', "h") /\ AtMostOnce(loopQ', "h")
    BY <1>3, <1>4, <1>5, <1>6, <2>2 DEF HeaderSent
  <2> QED
    BY <2>1, <2>2, <2>3, <2>4
<1>8. ASSUME k # "h"
      PROVE  HeaderSame /\ SentSame
  BY <1>3, <1>4, <1>5, <1>8 DEF HeaderSame, SentSame, HeaderQueued, HeaderSent
<1> QED
  BY <1>2, <1>3, <1>7, <1>8 DEF k

LEMMA InitHeader == TransferInit => OneHeader
<1> SUFFICES ASSUME TransferInit PROVE OneHeader
  OBVIOUS
<1>1. loopQ = <<>> /\ sent = <<>> /\ pc = "idle" /\ copied = 0
  BY DEF TransferInit
<1>2. ~In(<<>>, "h") /\ AtMostOnce(<<>>, "h")
  BY DEF In, AtMostOnce
<1> QED
  BY <1>1, <1>2 DEF OneHeader, HeaderQueued, HeaderSent

\* Nothing that the header's place depends on changes.
LEMMA HeaderKept ==
  ASSUME OneHeader, HeaderSame, SentSame, UNCHANGED <<pc, copied, file>>
  PROVE  OneHeader'
BY DEF OneHeader, HeaderSame, SentSame

LEMMA StepHeader ==
  ASSUME Typed, OneHeader, [TransferNext]_transferVars
  PROVE  OneHeader'
<1> USE DEF sender, others, queues, receiver, history
<1>1. CASE UNCHANGED transferVars
  BY <1>1, HeaderKept, SameHeader DEF transferVars
<1>2. CASE SendQueued
  <2>1. UNCHANGED <<pc, copied, file>>
    BY <1>2 DEF SendQueued
  <2>2. CASE Head(loopQ) = "h"
    <3>1. /\ HeaderQueued /\ ~HeaderSent /\ ~HeaderQueued' /\ HeaderSent'
          /\ AtMostOnce(sent', "h") /\ AtMostOnce(loopQ', "h")
      BY <1>2, <2>2, QueuedSent
    <3> QED
      BY <2>1, <3>1 DEF OneHeader
  <2>3. CASE Head(loopQ) # "h"
    BY <1>2, <2>1, <2>3, QueuedSent, HeaderKept
  <2> QED
    BY <2>2, <2>3
<1>3. CASE HandleWrite \/ Receive \/ Look \/ Truncate
  BY <1>3, HeaderKept, SameHeader
     DEF HandleWrite, Receive, HandleRead, Leave, Message, Header, HeaderFails, FileBytes, Look, Truncate
<1>4. CASE Unmap
  <2>1. pc = "idle" /\ pc' = "unmapped" /\ copied' = copied /\ file' = file /\ HeaderSame /\ SentSame
    BY <1>4, SameHeader DEF Unmap
  <2> QED
    BY <2>1 DEF OneHeader, HeaderSame, SentSame
<1>5. CASE SendHeader
  <2>1. pc = "unmapped" /\ pc' = "copying" /\ copied' = copied /\ file' = file /\ SentSame
    BY <1>5, SameHeader DEF SendHeader, Post
  <2>2. loopQ' = Append(loopQ, "h") /\ loopQ \in Seq(MessageKinds) /\ "h" \in MessageKinds
    BY <1>5, KindFacts DEF SendHeader, Post, Typed, OthersOK
  <2>3. ~In(loopQ, "h") /\ AtMostOnce(loopQ, "h") /\ ~HeaderSent
    BY <2>1 DEF OneHeader, HeaderQueued
  <2>4. In(loopQ', "h") /\ AtMostOnce(loopQ', "h")
    BY <2>2, <2>3, PushFacts
  <2> QED
    BY <2>1, <2>3, <2>4 DEF OneHeader, SentSame, HeaderQueued
<1>6. CASE CopyFile
  <2>1. pc = "copying" /\ pc' = pc /\ HeaderSame /\ SentSame
    BY <1>6, SameHeader DEF CopyFile
  <2> QED
    BY <2>1 DEF OneHeader, HeaderSame, SentSame
<1>7. CASE Remap
  <2>1. /\ pc = "copying" /\ pc' = "mapped" /\ copied = Len(file) /\ copied' = copied /\ file' = file
        /\ HeaderSame /\ SentSame
    BY <1>7, SameHeader DEF Remap
  <2> QED
    BY <2>1 DEF OneHeader, HeaderSame, SentSame
<1>8. CASE SendEnd \/ SendLast
  <2>1. PICK kind \in MessageKinds :
          /\ kind # "h" /\ pc \in {"mapped", "ended"} /\ pc' \in {"ended", "done"}
          /\ copied' = copied /\ file' = file
          /\ \/ Post(kind)
             \/ DirectSend(kind)
    BY <1>8, KindFacts DEF SendEnd, SendLast, SendAfter
  <2>2. HeaderSame /\ SentSame
    BY <2>1, SameHeader, OtherKind DEF Post, DirectSend
  <2> QED
    BY <2>1, <2>2 DEF OneHeader, HeaderSame, SentSame
<1>9. CASE Deliver \/ SendFromLoop
  <2>1. "m" \in MessageKinds /\ UNCHANGED <<pc, copied, file>>
    BY <1>9, KindFacts DEF Deliver, SendFromLoop
  <2>2. HeaderSame /\ SentSame
    BY <1>9, <2>1, SameHeader, OtherKind DEF Deliver, SendFromLoop, Post, Transmit
  <2> QED
    BY <2>1, <2>2, HeaderKept
<1> QED
  BY <1>1, <1>2, <1>3, <1>4, <1>5, <1>6, <1>7, <1>8, <1>9 DEF TransferNext, Loop, Thread, Others

-----------------------------------------------------------------------------
(* What can get into the file.                                             *)

Looked == IF holder THEN 1 ELSE 0

\* While the user is unmapped nobody else finds the connection: what is behind
\* the header is at most the message of the worker that found it before.
FewInv ==
  side = "server" =>
    /\ pc \in {"idle", "unmapped"} => intruders = 0
    /\ pc \in {"unmapped", "copying"} => ~mapped
    /\ intruders <= 1
    /\ pc = "copying" /\ HeaderSent => intruders + Len(loopQ) + Looked <= 1
    /\ pc = "copying" /\ ~HeaderSent =>
         /\ intruders = 0
         /\ \A i \in DOMAIN loopQ : loopQ[i] = "h" => Len(loopQ) - i + Looked <= 1

LEMMA HeaderOutFacts == ASSUME Typed PROVE HeaderOut <=> pc = "copying" /\ ~HeaderQueued
<1>1. DOMAIN loopQ = 1..Len(loopQ)
  BY DEF Typed, OthersOK
<1> QED
  BY <1>1 DEF HeaderOut, HeaderQueued, In

LEMMA FewTypes ==
  ASSUME Typed
  PROVE  /\ Looked \in 0..1 /\ intruders \in Nat /\ Len(loopQ) \in Nat /\ loopQ \in Seq(MessageKinds)
         /\ (holder => Looked = 1) /\ (~holder => Looked = 0)
<1>1. intruders \in Nat /\ loopQ \in Seq(MessageKinds)
  BY DEF Typed, OthersOK, HistoryOK
<1> QED
  BY <1>1 DEF Looked

LEMMA QueueTail ==
  ASSUME NEW S, NEW q \in Seq(S), q # <<>>
  PROVE  /\ Len(q) \in Nat /\ Len(q) > 0 /\ Len(Tail(q)) = Len(q) - 1
         /\ \A i \in DOMAIN Tail(q) : i \in Nat /\ i + 1 \in DOMAIN q /\ Tail(q)[i] = q[i + 1]
         /\ 1 \in DOMAIN q /\ q[1] = Head(q)
OBVIOUS

LEMMA QueuePush ==
  ASSUME NEW S, NEW q \in Seq(S), NEW x \in S
  PROVE  /\ Len(q) \in Nat /\ Len(Append(q, x)) = Len(q) + 1
         /\ \A i \in DOMAIN Append(q, x) :
              /\ i \in Nat
              /\ i # Len(q) + 1 => i \in DOMAIN q /\ Append(q, x)[i] = q[i]
         /\ Append(q, x)[Len(q) + 1] = x
OBVIOUS

LEMMA SendQueuedFew ==
  ASSUME Typed, OneHeader, FewInv, SendQueued
  PROVE  FewInv'
<1>1. UNCHANGED <<side, pc, file, copied, mapped, holder>>
  BY DEF SendQueued, sender, others
<1> SUFFICES ASSUME side = "server" PROVE FewInv'
  BY <1>1 DEF FewInv
<1>2. /\ Head(loopQ) \in MessageKinds /\ Transmit(Head(loopQ)) /\ loopQ' = Tail(loopQ)
      /\ Head(loopQ) = "h" => HeaderQueued /\ ~HeaderSent /\ HeaderSent'
      /\ Head(loopQ) # "h" => HeaderSame /\ SentSame
  BY QueuedSent
<1>3. /\ intruders \in Nat /\ Looked \in 0..1 /\ Looked' = Looked
      /\ loopQ # <<>> /\ loopQ \in Seq(MessageKinds)
  BY <1>1, FewTypes DEF SendQueued, Looked
<1>4. /\ Len(loopQ) \in Nat /\ Len(loopQ') = Len(loopQ) - 1
      /\ \A i \in DOMAIN loopQ' : i \in Nat /\ i + 1 \in DOMAIN loopQ /\ loopQ'[i] = loopQ[i + 1]
      /\ 1 \in DOMAIN loopQ /\ loopQ[1] = Head(loopQ)
  BY <1>2, <1>3, QueueTail
<1>5. /\ intruders' \in {intruders, intruders + 1}
      /\ ~HeaderOut => intruders' = intruders
  BY <1>2 DEF Transmit
<1>6. HeaderOut <=> pc = "copying" /\ ~HeaderQueued
  BY HeaderOutFacts
<1>7. pc = "copying" => (HeaderQueued <=> ~HeaderSent)
  BY DEF OneHeader
<1>8. CASE pc # "copying"
  <2>1. intruders' = intruders
    BY <1>5, <1>6, <1>8
  <2> QED
    BY <1>1, <1>8, <2>1 DEF FewInv
<1>9. CASE pc = "copying" /\ HeaderSent
  <2>1. HeaderSent' /\ intruders + Len(loopQ) + Looked <= 1 /\ ~mapped
    BY <1>2, <1>9 DEF FewInv, SentSame
  <2>2. intruders' + Len(loopQ') + Looked' <= 1
    BY <1>3, <1>4, <1>5, <2>1
  <2>3. Len(loopQ') \in Nat /\ intruders' \in Nat
    BY <1>2, <1>3, <1>5
  <2>4. intruders' <= 1
    BY <1>3, <2>2, <2>3
  <2> QED
    BY <1>1, <1>9, <2>1, <2>2, <2>4 DEF FewInv
<1>10. CASE pc = "copying" /\ ~HeaderSent
  <2>1. intruders' = intruders /\ intruders = 0
    BY <1>5, <1>6, <1>7, <1>10 DEF FewInv
  <2>2. \A i \in DOMAIN loopQ : loopQ[i] = "h" => Len(loopQ) - i + Looked <= 1
    BY <1>10 DEF FewInv
  <2>3. CASE Head(loopQ) = "h"
    <3>1. Len(loopQ) - 1 + Looked <= 1
      BY <1>4, <2>2, <2>3
    <3>2. intruders' + Len(loopQ') + Looked' <= 1
      BY <1>3, <1>4, <2>1, <3>1
    <3> QED
      BY <1>1, <1>2, <1>10, <2>1, <2>3, <3>2 DEF FewInv
  <2>4. CASE Head(loopQ) # "h"
    <3>1. ~HeaderSent'
      BY <1>2, <1>10, <2>4 DEF SentSame
    <3>2. ASSUME NEW i \in DOMAIN loopQ', loopQ'[i] = "h"
          PROVE  Len(loopQ') - i + Looked' <= 1
      <4>1. Len(loopQ) - (i + 1) + Looked <= 1
        BY <1>4, <2>2, <3>2
      <4>2. i \in Nat
        BY <1>4
      <4> QED
        BY <1>3, <1>4, <4>1, <4>2
    <3> QED
      BY <1>1, <1>10, <2>1, <3>1, <3>2 DEF FewInv
  <2> QED
    BY <2>3, <2>4
<1> QED
  BY <1>8, <1>9, <1>10

\* Steps that add nothing to the queue and after which no more is unmapped.
LEMMA FewKept ==
  ASSUME FewInv, UNCHANGED <<side, pc, mapped, holder, loopQ, sent, intruders>>
  PROVE  FewInv'
BY DEF FewInv, Looked, HeaderSent

LEMMA StepFew ==
  ASSUME Typed, OneHeader, FewInv, [TransferNext]_transferVars
  PROVE  FewInv'
<1> USE DEF sender, others, queues, receiver, history
<1>1. CASE UNCHANGED transferVars
  BY <1>1, FewKept DEF transferVars
<1>2. CASE SendQueued
  BY <1>2, SendQueuedFew
<1>3. CASE HandleWrite \/ Receive \/ Truncate \/ CopyFile
  BY <1>3, FewKept
     DEF HandleWrite, Receive, HandleRead, Leave, Message, Header, HeaderFails, FileBytes, Truncate, CopyFile
<1>4. CASE Unmap
  <2>1. /\ pc = "idle" /\ pc' = "unmapped" /\ (side = "server" => mapped' = FALSE)
        /\ side' = side /\ intruders' = intruders
    BY <1>4 DEF Unmap
  <2> QED
    BY <2>1 DEF FewInv
<1>5. CASE SendHeader
  <2> SUFFICES ASSUME side = "server" PROVE FewInv'
    BY <1>5 DEF SendHeader, FewInv
  <2>1. /\ pc = "unmapped" /\ pc' = "copying" /\ mapped' = mapped /\ holder' = holder
        /\ intruders' = intruders /\ sent' = sent /\ loopQ' = Append(loopQ, "h")
    BY <1>5 DEF SendHeader, Post
  <2>2. ~HeaderSent' /\ ~HeaderQueued /\ intruders = 0 /\ ~mapped
    BY <2>1 DEF FewInv, OneHeader, HeaderSent
  <2>3. ASSUME NEW i \in DOMAIN loopQ', loopQ'[i] = "h"
        PROVE  Len(loopQ') - i + Looked' <= 1
    <3>1. loopQ \in Seq(MessageKinds) /\ "h" \in MessageKinds /\ Looked \in 0..1 /\ Looked' = Looked
      BY <2>1, FewTypes, KindFacts DEF Looked
    <3>2. /\ Len(loopQ) \in Nat /\ Len(loopQ') = Len(loopQ) + 1
          /\ i \in Nat
          /\ i # Len(loopQ) + 1 => i \in DOMAIN loopQ /\ loopQ'[i] = loopQ[i]
      BY <2>1, <3>1, QueuePush
    <3>3. i = Len(loopQ) + 1
      BY <2>2, <2>3, <3>2 DEF HeaderQueued, In
    <3> QED
      BY <3>1, <3>2, <3>3
  <2> QED
    BY <2>1, <2>2, <2>3 DEF FewInv
<1>6. CASE Remap
  <2>1. pc = "copying" /\ pc' = "mapped" /\ side' = side /\ intruders' = intruders
    BY <1>6 DEF Remap
  <2> QED
    BY <2>1 DEF FewInv
<1>7. CASE SendEnd \/ SendLast
  <2>1. /\ pc \in {"mapped", "ended"} /\ pc' \in {"ended", "done"} /\ side' = side /\ intruders' = intruders
    BY <1>7 DEF SendEnd, SendLast, SendAfter, Post, DirectSend
  <2> QED
    BY <2>1 DEF FewInv
<1>8. CASE Look
  <2>1. UNCHANGED <<side, pc, mapped, intruders>> /\ mapped
    BY <1>8 DEF Look
  <2> QED
    BY <2>1 DEF FewInv
<1>9. CASE Deliver
  <2> SUFFICES ASSUME side = "server" PROVE FewInv'
    BY <1>9 DEF Deliver, FewInv
  <2>1. /\ UNCHANGED <<side, pc, mapped, intruders, sent>> /\ holder /\ holder' = FALSE
        /\ loopQ' = Append(loopQ, "m")
    BY <1>9 DEF Deliver, Post
  <2>2. loopQ \in Seq(MessageKinds) /\ "m" \in MessageKinds /\ Looked = 1 /\ Looked' = 0 /\ intruders \in Nat
    BY <2>1, FewTypes, KindFacts DEF Looked
  <2>3. /\ Len(loopQ) \in Nat /\ Len(loopQ') = Len(loopQ) + 1
        /\ \A i \in DOMAIN loopQ' : i \in Nat /\ (i # Len(loopQ) + 1 => i \in DOMAIN loopQ /\ loopQ'[i] = loopQ[i])
        /\ loopQ'[Len(loopQ) + 1] = "m"
    BY <2>1, <2>2, QueuePush
  <2>4. HeaderSent' <=> HeaderSent
    BY <2>1 DEF HeaderSent
  <2>5. intruders + Len(loopQ) + Looked <= 1 => intruders' + Len(loopQ') + Looked' <= 1
    BY <2>1, <2>2, <2>3
  <2>6. ASSUME \A i \in DOMAIN loopQ : loopQ[i] = "h" => Len(loopQ) - i + Looked <= 1,
               NEW i \in DOMAIN loopQ', loopQ'[i] = "h"
        PROVE  Len(loopQ') - i + Looked' <= 1
    <3>1. i # Len(loopQ) + 1
      BY <2>3, <2>6
    <3>2. Len(loopQ) - i + Looked <= 1
      BY <2>3, <2>6, <3>1
    <3>3. i \in Nat
      BY <2>3
    <3> QED
      BY <2>2, <2>3, <3>2, <3>3
  <2> QED
    BY <2>1, <2>4, <2>5, <2>6 DEF FewInv
<1>10. CASE SendFromLoop
  BY <1>10 DEF SendFromLoop, FewInv
<1> QED
  BY <1>1, <1>2, <1>3, <1>4, <1>5, <1>6, <1>7, <1>8, <1>9, <1>10 DEF TransferNext, Loop, Thread, Others

LEMMA InitFew == TransferInit => FewInv
BY DEF TransferInit, FewInv

LEMMA HeaderAlways == TransferSpec => [](Typed /\ OneHeader)
<1>1. TransferInit => Typed /\ OneHeader
  BY InitTyped, InitHeader
<1>2. Typed /\ OneHeader /\ [TransferNext]_transferVars => (Typed /\ OneHeader)'
  BY StepTyped, StepHeader
<1> QED
  BY <1>1, <1>2, PTL DEF TransferSpec

\* FewIntruders: after m_userConnMap.erase in handleReceiveFile at most one
\* message, of a worker that holds the connection already, is transmitted
\* between the header and the end of the file.
THEOREM IntrudersFew == TransferSpec => []FewIntruders
<1>1. TransferInit => FewInv
  BY InitFew
<1>2. Typed /\ OneHeader /\ FewInv /\ [TransferNext]_transferVars => FewInv'
  BY StepFew
<1>3. FewInv => FewIntruders
  BY DEF FewInv, FewIntruders
<1> QED
  BY <1>1, <1>2, <1>3, HeaderAlways, PTL DEF TransferSpec

USE DEF Thrice

-----------------------------------------------------------------------------
(* The stream.                                                             *)

\* The bytes taken from the stream: whole messages, with the file after its
\* header, and of the one at hand the header and what has come of the file.
Taken == After(sent, file, Len(decoded)) + (IF left = None THEN 0 ELSE 3 + Len(got))

\* The file follows its header and is whole when another message follows.
Steady ==
  /\ copied > 0 => HeaderSent
  /\ HeaderBy(sent, Len(sent) - 1) => copied = Len(file)

OnTheWay == Carries(Stream, Taken, sent, file, copied)

\* In file mode the receiver has read the header and a part of the file.
InFile ==
  left # None =>
    /\ Len(decoded) < Len(sent) /\ sent[Len(decoded) + 1] = "h"
    /\ Len(got) + left = Len(file)
    /\ \A x \in 1..Len(got) : got[x] = file[x]

Agree ==
  /\ Len(decoded) <= Len(sent)
  /\ \A i \in 1..Len(decoded) : decoded[i] = Meant(sent[i])

StreamInv == Undisturbed => Steady /\ OnTheWay /\ InFile /\ Agree

LEMMA StreamTypes ==
  ASSUME Typed
  PROVE  /\ sent \in Seq(MessageKinds) /\ file \in Seq(Bytes) /\ copied \in 0..Len(file)
         /\ Stream \in Seq(Bytes) /\ decoded \in Seq(Seq(Bytes)) /\ got \in Seq(Bytes)
         /\ Len(sent) \in Nat /\ Len(file) \in Nat /\ copied \in Nat /\ Len(decoded) \in Nat
         /\ Len(got) \in Nat /\ Taken \in Nat
<1>1. /\ sent \in Seq(MessageKinds) /\ file \in Seq(Bytes) /\ copied \in 0..Len(file)
      /\ decoded \in Seq(Seq(Bytes)) /\ got \in Seq(Bytes)
  BY TransferAssumption DEF Typed, SenderOK, ReceiverOK, HistoryOK
<1>2. Stream \in Seq(Bytes)
  BY BitsFacts DEF Typed
<1>3. Len(sent) \in Nat /\ Len(file) \in Nat /\ copied \in Nat /\ Len(decoded) \in Nat /\ Len(got) \in Nat
  BY <1>1
<1>4. After(sent, file, Len(decoded)) \in Nat
  BY <1>1, <1>3, AfterFacts
<1>5. Taken \in Nat
  BY <1>3, <1>4 DEF Taken
<1> QED
  BY <1>1, <1>2, <1>3, <1>5

LEMMA HeaderByFacts ==
  ASSUME Typed
  PROVE  /\ HeaderSent <=> HeaderBy(sent, Len(sent))
         /\ AtMostOnce(sent, "h") => \A m \in 0..(Len(sent) - 1) : sent[m + 1] = "h" => ~HeaderBy(sent, m)
<1>1. sent \in Seq(MessageKinds) /\ Len(sent) \in Nat /\ DOMAIN sent = 1..Len(sent)
  BY StreamTypes
<1>2. HeaderSent <=> HeaderBy(sent, Len(sent))
  BY <1>1 DEF HeaderSent, In, HeaderBy
<1>3. ASSUME AtMostOnce(sent, "h"), NEW m \in 0..(Len(sent) - 1), sent[m + 1] = "h"
      PROVE  ~HeaderBy(sent, m)
  <2> SUFFICES ASSUME NEW j \in 1..m, sent[j] = "h" PROVE FALSE
    BY DEF HeaderBy
  <2>1. j \in DOMAIN sent /\ m + 1 \in DOMAIN sent /\ j # m + 1
    BY <1>1
  <2> QED
    BY <1>3, <2>1 DEF AtMostOnce
<1> QED
  BY <1>2, <1>3

\* Bytes move, or none do.
LEMMA StreamKept ==
  ASSUME StreamInv, Stream' = Stream, UNCHANGED <<file, copied, sent, left, got, decoded>>,
         Undisturbed' => Undisturbed
  PROVE  StreamInv'
BY DEF StreamInv, Steady, OnTheWay, InFile, Agree, Taken, HeaderSent, Meant

\* The prefixes of the messages are kept when one is appended.
LEMMA AfterAppend ==
  ASSUME NEW s \in Seq(MessageKinds), NEW k \in MessageKinds, NEW f, NEW m \in 0..Len(s)
  PROVE  /\ HeaderBy(Append(s, k), m) <=> HeaderBy(s, m)
         /\ After(Append(s, k), f, m) = After(s, f, m)
<1>1. HeaderBy(Append(s, k), m) <=> HeaderBy(s, m)
  <2>1. \A j \in 1..m : Append(s, k)[j] = s[j]
    OBVIOUS
  <2> QED
    BY <2>1 DEF HeaderBy
<1> QED
  BY <1>1 DEF After

\* A message is transmitted.
LEMMA MessageSent ==
  ASSUME Typed, Steady, OnTheWay, InFile, Agree, NEW kind \in MessageKinds,
         sent' = Append(sent, kind), Stream' = Stream \o Frame(kind),
         UNCHANGED <<file, copied, left, got, decoded>>,
         HeaderSent => copied = Len(file), kind = "h" => ~HeaderSent
  PROVE  Steady' /\ OnTheWay' /\ InFile' /\ Agree'
<1>1. /\ sent \in Seq(MessageKinds) /\ file \in Seq(Bytes) /\ copied \in 0..Len(file)
      /\ Stream \in Seq(Bytes) /\ Len(sent) \in Nat /\ copied \in Nat /\ Len(decoded) \in Nat
      /\ Taken \in Nat
  BY StreamTypes
<1>2. HeaderSent <=> HeaderBy(sent, Len(sent))
  BY HeaderByFacts
<1>3. /\ Len(sent') = Len(sent) + 1 /\ Len(sent') - 1 = Len(sent)
      /\ \A i \in 1..Len(sent) : sent'[i] = sent[i]
  BY <1>1
<1>4. Len(decoded) <= Len(sent) /\ Len(decoded) \in 0..Len(sent) /\ Len(sent) \in 0..Len(sent)
  BY <1>1 DEF Agree
<1>5. After(sent', file, Len(decoded)) = After(sent, file, Len(decoded))
  BY <1>1, <1>4, AfterAppend
<1>6. HeaderBy(sent', Len(sent)) <=> HeaderSent
  BY <1>1, <1>2, <1>4, AfterAppend
<1>7. Steady'
  <2>1. HeaderSent => HeaderSent'
    BY <1>1, PushFacts DEF HeaderSent
  <2> QED
    BY <1>3, <1>6, <2>1 DEF Steady
<1>8. OnTheWay'
  <2>1. Taken' = Taken
    BY <1>5 DEF Taken
  <2>2. ~HeaderSent => copied = 0
    BY <1>1 DEF Steady
  <2>3. Carries(Stream \o Frame(kind), Taken, Append(sent, kind), file, copied)
    BY <1>1, <1>2, <2>2, CarriesFrame DEF OnTheWay
  <2> QED
    BY <2>1, <2>3 DEF OnTheWay
<1>9. InFile'
  <2>1. left # None => Len(decoded) + 1 \in 1..Len(sent)
    BY <1>1 DEF InFile
  <2>2. left # None => Len(decoded) < Len(sent')
    BY <1>1, <1>3 DEF InFile
  <2> QED
    BY <1>3, <2>1, <2>2 DEF InFile
<1>10. Agree'
  <2>1. Len(decoded') <= Len(sent')
    BY <1>1, <1>3, <1>4
  <2>2. ASSUME NEW i \in 1..Len(decoded)
        PROVE  decoded[i] = Meant(sent[i]) /\ sent'[i] = sent[i]
    BY <1>1, <1>3, <1>4 DEF Agree
  <2> QED
    BY <2>1, <2>2 DEF Agree, Meant
<1> QED
  BY <1>7, <1>8, <1>9, <1>10

\* A part of the file is copied.
LEMMA FileCopied ==
  ASSUME Typed, OneHeader, Steady, OnTheWay, InFile, Agree, NEW n \in Nat,
         n > 0, copied + n <= Len(file), HeaderSent,
         copied' = copied + n, Stream' = Stream \o SubSeq(file, copied + 1, copied + n),
         UNCHANGED <<file, sent, left, got, decoded>>
  PROVE  Steady' /\ OnTheWay' /\ InFile' /\ Agree'
<1>1. /\ sent \in Seq(MessageKinds) /\ file \in Seq(Bytes) /\ copied \in 0..Len(file)
      /\ Stream \in Seq(Bytes) /\ Len(sent) \in Nat /\ copied \in Nat /\ Len(file) \in Nat
      /\ Taken \in Nat
  BY StreamTypes
<1>2. ~HeaderBy(sent, Len(sent) - 1)
  BY <1>1 DEF Steady
<1>3. Steady'
  BY <1>2 DEF Steady, HeaderSent
<1>4. OnTheWay'
  <2>1. Taken' = Taken
    BY DEF Taken
  <2>2. Carries(Stream \o SubSeq(file, copied + 1, copied + n), Taken, sent, file, copied + n)
    BY <1>1, <1>2, CarriesFile DEF OnTheWay
  <2> QED
    BY <2>1, <2>2 DEF OnTheWay
<1>5. InFile' /\ Agree'
  BY DEF InFile, Agree, Meant
<1> QED
  BY <1>3, <1>4, <1>5

LEMMA AfterNext ==
  ASSUME NEW s \in Seq(MessageKinds), NEW f \in Seq(Bytes), NEW m \in Nat, m < Len(s)
  PROVE  /\ s[m + 1] # "h" => After(s, f, m + 1) = After(s, f, m) + 3
         /\ s[m + 1] = "h" /\ ~HeaderBy(s, m) => After(s, f, m + 1) = After(s, f, m) + 3 + Len(f)
<1>0. Len(f) \in Nat /\ m + 1 \in Nat
  OBVIOUS
<1>1. /\ HeaderBy(s, m) => After(s, f, m) = Thrice(m) + Len(f)
      /\ ~HeaderBy(s, m) => After(s, f, m) = Thrice(m)
      /\ HeaderBy(s, m + 1) => After(s, f, m + 1) = Thrice(m + 1) + Len(f)
      /\ ~HeaderBy(s, m + 1) => After(s, f, m + 1) = Thrice(m + 1)
  BY <1>0, AfterFacts
<1>2. Thrice(m + 1) = Thrice(m) + 3 /\ Thrice(m) \in Nat
  OBVIOUS
<1>3. HeaderBy(s, m + 1) <=> HeaderBy(s, m) \/ s[m + 1] = "h"
  <2>1. \A j : j \in 1..(m + 1) <=> j \in 1..m \/ j = m + 1
    OBVIOUS
  <2> QED
    BY <2>1 DEF HeaderBy
<1> HIDE DEF Thrice
<1>4. CASE HeaderBy(s, m)
  BY <1>0, <1>1, <1>2, <1>3, <1>4
<1>5. CASE ~HeaderBy(s, m)
  BY <1>0, <1>1, <1>2, <1>3, <1>5
<1> QED
  BY <1>4, <1>5

LEMMA OneByte ==
  ASSUME NEW s \in Seq(Bytes), Len(s) = 1
  PROVE  s = <<s[1]>>
<1> DEFINE t == <<s[1]>>
<1>1. s[1] \in Bytes
  <2>1. 1 \in 1..Len(s)
    OBVIOUS
  <2> QED
    BY <2>1, ElementOfSeq
<1>2. t \in Seq(Bytes) /\ Len(t) = 1 /\ t[1] = s[1]
  BY <1>1
<1> HIDE DEF t
<1>3. \A i \in 1..Len(s) : s[i] = t[i]
  BY <1>2
<1>4. Len(s) = Len(t)
  BY <1>2
<1>5. s = t
  BY <1>2, <1>3, <1>4, SeqEqual
<1> QED
  BY <1>5 DEF t

\* What the receiver finds between messages is the next one, whole.
LEMMA NextMessage ==
  ASSUME Typed, Steady, OnTheWay, Agree, left = None, CRLFs # {},
         NEW m, m = Len(decoded)
  PROVE  /\ m \in Nat /\ m < Len(sent) /\ sent[m + 1] \in MessageKinds
         /\ findCRLF = 2 /\ Text = <<sent[m + 1]>>
         /\ 3 \in Nat /\ 3 <= readableBytes(inbuf)
         /\ Taken = After(sent, file, m)
<1>1. /\ sent \in Seq(MessageKinds) /\ file \in Seq(Bytes) /\ copied \in 0..Len(file)
      /\ Stream \in Seq(Bytes) /\ Len(sent) \in Nat /\ copied \in Nat /\ m \in Nat
  BY StreamTypes
<1>2. m \in 0..Len(sent)
  BY <1>1 DEF Agree
<1>3. Taken = After(sent, file, m)
  <2>1. After(sent, file, m) \in Nat
    BY <1>1, AfterFacts
  <2> QED
    BY <2>1 DEF Taken
<1>4. /\ readableBytes(inbuf) \in Nat /\ readableBytes(inbuf) <= Len(Stream) /\ Len(Stream) \in Nat
      /\ \A x \in 1..readableBytes(inbuf) : Contents(inbuf)[x] = Stream[x]
      /\ Contents(inbuf) \in Seq(Bytes) /\ Len(Contents(inbuf)) = readableBytes(inbuf)
  BY <1>1, StreamFront DEF Typed
<1>5. findCRLF \in CRLFs /\ \A j \in CRLFs : findCRLF <= j
  BY TextFacts DEF Typed
<1>6. /\ findCRLF \in 1..(readableBytes(inbuf) - 1)
      /\ Contents(inbuf)[findCRLF] = "CR"
  BY <1>5 DEF CRLFs
<1>7. copied > 0 => HeaderBy(sent, Len(sent))
  BY HeaderByFacts DEF Steady
<1>8. /\ m < Len(sent) /\ m + 1 \in 1..Len(sent)
      /\ \A o \in 1..3 : o <= Len(Stream) => Stream[o] = Frame(sent[m + 1])[o]
  <2>1. Carries(Stream, After(sent, file, m), sent, file, copied)
    BY <1>3 DEF OnTheWay
  <2>2. Len(Stream) > 0
    BY <1>4, <1>6
  <2> QED
    BY <1>1, <1>2, <1>7, <2>1, <2>2, Framing
<1>9. sent[m + 1] \in MessageKinds
  BY <1>1, <1>8
<1> DEFINE k == sent[m + 1]
<1>10. Frame(k)[1] = k /\ Frame(k)[2] = "CR" /\ Frame(k)[3] = "LF" /\ k # "CR"
  BY <1>9, FrameFacts DEF MessageKinds
<1> HIDE DEF k
<1>11. \A o \in 1..3 : o <= readableBytes(inbuf) => Contents(inbuf)[o] = Frame(k)[o]
  <2> SUFFICES ASSUME NEW o \in 1..3, o <= readableBytes(inbuf)
               PROVE  Contents(inbuf)[o] = Frame(k)[o]
    OBVIOUS
  <2>1. o \in 1..readableBytes(inbuf) /\ o <= Len(Stream)
    BY <1>4
  <2> QED
    BY <1>4, <1>8, <2>1 DEF k
<1>12. findCRLF # 1
  <2> SUFFICES ASSUME findCRLF = 1 PROVE FALSE
    OBVIOUS
  <2>1. 1 \in 1..3 /\ 1 <= readableBytes(inbuf)
    BY <1>4, <1>6
  <2> QED
    BY <1>6, <1>10, <1>11, <2>1
<1>13. 3 <= readableBytes(inbuf)
  BY <1>4, <1>6, <1>12
<1>14. 2 \in CRLFs
  <2>1. 2 \in 1..(readableBytes(inbuf) - 1) /\ 2 + 1 = 3
    BY <1>4, <1>13
  <2>2. Contents(inbuf)[2] = "CR" /\ Contents(inbuf)[3] = "LF"
    BY <1>4, <1>10, <1>11, <1>13
  <2> QED
    BY <2>1, <2>2 DEF CRLFs
<1>15. findCRLF = 2
  BY <1>4, <1>5, <1>6, <1>12, <1>14
<1>16. Text = <<k>>
  <2> DEFINE C == Contents(inbuf)
  <2>1. C \in Seq(Bytes) /\ Len(C) >= 1 /\ C[1] = k
    BY <1>4, <1>10, <1>11, <1>13
  <2>2. Text = SubSeq(C, 1, 1)
    BY <1>15 DEF Text
  <2> HIDE DEF C
  <2>3. SubSeq(C, 1, 1) = <<C[1]>>
    <3>1. SubSeq(C, 1, 1) \in Seq(Bytes) /\ Len(SubSeq(C, 1, 1)) = 1 /\ SubSeq(C, 1, 1)[1] = C[1]
      <4>1. 1 \in Nat /\ 1 <= Len(C)
        BY <2>1
      <4> QED
        BY <2>1, <4>1
    <3> QED
      BY <3>1, OneByte
  <2> QED
    BY <2>1, <2>2, <2>3
<1> QED
  BY <1>1, <1>3, <1>8, <1>9, <1>13, <1>15, <1>16 DEF k

\* The three bytes of a message leave the stream.
LEMMA MessageLeaves ==
  ASSUME Typed, OnTheWay, CRLFs # {}, findCRLF = 2, RetrieveText, UNCHANGED <<wire, outputBuffer>>,
         3 <= readableBytes(inbuf)
  PROVE  Carries(Stream', Taken + 3, sent, file, copied)
<1>1. /\ sent \in Seq(MessageKinds) /\ file \in Seq(Bytes) /\ copied \in 0..Len(file)
      /\ Stream \in Seq(Bytes) /\ Taken \in Nat
  BY StreamTypes
<1>2. Stream' = SubSeq(Stream, 3 + 1, Len(Stream))
  BY RetrieveTextStream DEF Typed
<1>3. 3 \in Nat /\ 3 <= Len(Stream)
  BY <1>1, StreamFront DEF Typed
<1>4. Carries(SubSeq(Stream, 3 + 1, Len(Stream)), Taken + 3, sent, file, copied)
  BY <1>1, <1>3, CarriesRest DEF OnTheWay
<1> QED
  BY <1>2, <1>4

LEMMA MessageStream ==
  ASSUME Typed, OneHeader, Steady, OnTheWay, InFile, Agree, Message
  PROVE  Steady' /\ OnTheWay' /\ InFile' /\ Agree'
<1>1. /\ left = None /\ CRLFs # {} /\ Text # <<"h">> /\ RetrieveText
      /\ decoded' = Append(decoded, Text)
      /\ UNCHANGED <<wire, outputBuffer, file, copied, sent, left, got>>
  BY DEF Message, sender, queues, history
<1>2. PICK m : m = Len(decoded)
  OBVIOUS
<1>3. /\ m \in Nat /\ m < Len(sent) /\ sent[m + 1] \in MessageKinds
      /\ findCRLF = 2 /\ Text = <<sent[m + 1]>>
      /\ 3 <= readableBytes(inbuf)
      /\ Taken = After(sent, file, m)
  BY <1>1, <1>2, NextMessage
<1>4. Carries(Stream', Taken + 3, sent, file, copied)
  BY <1>1, <1>3, MessageLeaves
<1>5. sent[m + 1] # "h"
  BY <1>1, <1>3
<1>6. /\ sent \in Seq(MessageKinds) /\ file \in Seq(Bytes) /\ decoded \in Seq(Seq(Bytes))
      /\ Text \in Seq(Bytes) /\ Len(sent) \in Nat
  BY <1>1, StreamTypes, TextFacts DEF Typed
<1>7. /\ Len(decoded') = m + 1 /\ decoded'[m + 1] = Text
      /\ \A i \in 1..m : decoded'[i] = decoded[i]
  BY <1>1, <1>2, <1>6
<1>8. After(sent, file, m + 1) = Taken + 3
  BY <1>3, <1>5, <1>6, AfterNext
<1>9. Taken' = Taken + 3
  <2>1. Taken' = After(sent, file, m + 1) + 0
    BY <1>1, <1>7 DEF Taken
  <2>2. Taken \in Nat
    BY StreamTypes
  <2> QED
    BY <1>8, <2>1, <2>2
<1>10. Steady' /\ OnTheWay' /\ InFile'
  BY <1>1, <1>4, <1>9 DEF Steady, OnTheWay, InFile, HeaderSent
<1>11. Agree'
  <2>1. Len(decoded') <= Len(sent')
    BY <1>1, <1>3, <1>6, <1>7
  <2>2. ASSUME NEW i \in 1..(m + 1)
        PROVE  decoded'[i] = Meant(sent[i])
    <3>1. CASE i = m + 1
      BY <1>3, <1>5, <1>7, <3>1 DEF Meant
    <3>2. CASE i # m + 1
      <4>1. i \in 1..m
        BY <1>3, <3>2
      <4> QED
        BY <1>2, <1>7, <4>1 DEF Agree
    <3> QED
      BY <3>1, <3>2
  <2> QED
    BY <1>1, <1>7, <2>1, <2>2 DEF Agree, Meant
<1> QED
  BY <1>10, <1>11

LEMMA HeaderStream ==
  ASSUME Typed, OneHeader, Steady, OnTheWay, InFile, Agree, Header
  PROVE  Steady' /\ OnTheWay' /\ InFile' /\ Agree'
<1>1. /\ left = None /\ CRLFs # {} /\ Text = <<"h">> /\ RetrieveText
      /\ left' = Len(file) /\ got' = <<>>
      /\ UNCHANGED <<wire, outputBuffer, file, copied, sent, decoded>>
  BY DEF Header, sender, queues, history
<1>2. PICK m : m = Len(decoded)
  OBVIOUS
<1>3. /\ m \in Nat /\ m < Len(sent) /\ sent[m + 1] \in MessageKinds
      /\ findCRLF = 2 /\ Text = <<sent[m + 1]>>
      /\ 3 <= readableBytes(inbuf)
      /\ Taken = After(sent, file, m)
  BY <1>1, <1>2, NextMessage
<1>4. Carries(Stream', Taken + 3, sent, file, copied)
  BY <1>1, <1>3, MessageLeaves
<1>5. sent[m + 1] = "h"
  BY <1>1, <1>3
<1>6. Len(file) \in Nat /\ Taken \in Nat /\ Len(<<>>) = 0
  BY StreamTypes
<1>7. left' # None
  BY <1>1, <1>6 DEF None
<1>8. Taken' = Taken + 3
  <2>1. Taken' = After(sent, file, m) + (3 + Len(<<>>))
    BY <1>1, <1>2, <1>7 DEF Taken
  <2> QED
    BY <1>3, <1>6, <2>1
<1>9. Steady' /\ OnTheWay' /\ Agree'
  BY <1>1, <1>4, <1>8 DEF Steady, OnTheWay, Agree, HeaderSent, Meant
<1>10. InFile'
  BY <1>1, <1>2, <1>3, <1>5, <1>6 DEF InFile
<1> QED
  BY <1>9, <1>10

LEMMA FileBytesStream ==
  ASSUME Typed, OneHeader, Steady, OnTheWay, InFile, Agree, FileBytes
  PROVE  Steady' /\ OnTheWay' /\ InFile' /\ Agree'
<1>1. PICK n : n = Least(readableBytes(inbuf), left)
  OBVIOUS
<1> DEFINE C == Contents(inbuf)
           part == SubSeq(C, 1, n)
<1>2. /\ n \in Nat /\ n <= readableBytes(inbuf) /\ n <= left /\ left \in Nat
      /\ inbuf' = retrieve(inbuf, n) /\ UNCHANGED <<wire, outputBuffer>>
      /\ got' = got \o part
      /\ part \in Seq(Bytes) /\ Len(part) = n
      /\ \A x \in 1..n : part[x] = C[x]
      /\ left' = IF left = n THEN None ELSE left - n
      /\ decoded' = IF left = n THEN Append(decoded, got') ELSE decoded
  BY <1>1, FileBytesFacts
<1>3. UNCHANGED <<file, copied, sent>>
  BY DEF FileBytes, sender, history
<1>4. /\ sent \in Seq(MessageKinds) /\ file \in Seq(Bytes) /\ copied \in 0..Len(file)
      /\ Stream \in Seq(Bytes) /\ decoded \in Seq(Seq(Bytes)) /\ got \in Seq(Bytes)
      /\ Len(sent) \in Nat /\ Len(file) \in Nat /\ Len(got) \in Nat /\ Taken \in Nat
  BY StreamTypes
<1>5. PICK m : m = Len(decoded)
  OBVIOUS
<1>6. PICK g : g = Len(got)
  OBVIOUS
<1>7. left # None
  BY <1>2 DEF None
<1>8. /\ m \in Nat /\ m < Len(sent) /\ sent[m + 1] = "h" /\ g \in Nat /\ g + left = Len(file)
      /\ \A x \in 1..g : got[x] = file[x]
  BY <1>4, <1>5, <1>6, <1>7 DEF InFile
<1>9. ~HeaderBy(sent, m)
  BY <1>4, <1>8, HeaderByFacts DEF OneHeader
<1>10. Taken = After(sent, file, m) + 3 + g /\ After(sent, file, m) \in Nat
  <2>1. After(sent, file, m) \in Nat
    BY <1>4, <1>8, AfterFacts
  <2> QED
    BY <1>5, <1>6, <1>7, <1>8, <2>1 DEF Taken
<1>11. /\ readableBytes(inbuf) \in Nat /\ readableBytes(inbuf) <= Len(Stream) /\ Len(Stream) \in Nat
       /\ \A x \in 1..readableBytes(inbuf) : C[x] = Stream[x]
  BY <1>4, StreamFront DEF Typed
<1> HIDE DEF C, part
<1>12. n <= Len(Stream) /\ g + n <= Len(file) /\ g \in 0..Len(file)
  BY <1>2, <1>4, <1>8, <1>11
<1>13. \A x \in 1..n : Stream[x] = file[g + x]
  <2>1. Carries(Stream, After(sent, file, m) + 3 + g, sent, file, copied)
    BY <1>10 DEF OnTheWay
  <2>2. HeaderBy(sent, Len(sent) - 1) => copied = Len(file)
    BY DEF Steady
  <2> QED
    <3>1. /\ Stream \in Seq(Bytes) /\ sent \in Seq(MessageKinds) /\ file \in Seq(Bytes)
          /\ copied \in 0..Len(file) /\ m \in Nat /\ m < Len(sent) /\ sent[m + 1] = "h"
          /\ g \in 0..Len(file) /\ n \in Nat /\ n <= Len(Stream) /\ g + n <= Len(file)
      BY <1>2, <1>4, <1>8, <1>12
    <3> QED
      BY ONLY <1>9, <2>1, <2>2, <3>1, InsideFile
<1>14. \A x \in 1..n : part[x] = file[g + x]
  <2> SUFFICES ASSUME NEW x \in 1..n PROVE part[x] = file[g + x]
    OBVIOUS
  <2>1. x \in 1..readableBytes(inbuf)
    BY <1>2, <1>11
  <2> QED
    BY <1>2, <1>11, <1>13, <2>1
<1>15. /\ got' \in Seq(Bytes) /\ Len(got') = g + n
       /\ \A x \in 1..(g + n) : got'[x] = file[x]
  <2>1. /\ got' \in Seq(Bytes) /\ Len(got') = Len(got) + n
        /\ \A x \in 1..(Len(got) + n) : got'[x] = IF x <= Len(got) THEN got[x] ELSE part[x - Len(got)]
    BY <1>2, <1>4, ConcatFacts
  <2>2. ASSUME NEW x \in 1..(g + n)
        PROVE  got'[x] = file[x]
    <3>1. got'[x] = IF x <= g THEN got[x] ELSE part[x - g]
      BY <1>6, <2>1
    <3>2. CASE x <= g
      <4>1. x \in 1..g
        BY <1>2, <1>8, <3>2
      <4> QED
        BY <1>8, <3>1, <3>2, <4>1
    <3>3. CASE ~(x <= g)
      <4>1. x - g \in 1..n /\ g + (x - g) = x
        BY <1>2, <1>8, <3>3
      <4> QED
        BY <1>14, <3>1, <3>3, <4>1
    <3> QED
      BY <3>2, <3>3
  <2> QED
    BY <1>6, <2>1, <2>2
<1>16. Carries(Stream', Taken + n, sent, file, copied)
  <2>1. Stream' = SubSeq(Stream, n + 1, Len(Stream))
    BY <1>2, RetrieveStream DEF Typed
  <2>2. Carries(SubSeq(Stream, n + 1, Len(Stream)), Taken + n, sent, file, copied)
    BY <1>2, <1>4, <1>12, CarriesRest DEF OnTheWay
  <2> QED
    BY <2>1, <2>2
<1>17. Steady'
  BY <1>3 DEF Steady, HeaderSent
<1>18. CASE left = n
  <2>1. left' = None /\ decoded' = Append(decoded, got') /\ g + n = Len(file)
    BY <1>2, <1>8, <1>18
  <2>2. got' = file
    BY <1>4, <1>15, <2>1, SeqEqual
  <2>3. /\ Len(decoded') = m + 1 /\ decoded'[m + 1] = file
        /\ \A i \in 1..m : decoded'[i] = decoded[i]
    BY <1>4, <1>5, <1>15, <2>1, <2>2, AppendProperties
  <2>4. After(sent, file, m + 1) = After(sent, file, m) + 3 + Len(file)
    BY <1>4, <1>8, <1>9, AfterNext
  <2>5. Taken' = After(sent, file, m + 1) + 0
    BY <1>3, <2>1, <2>3 DEF Taken
  <2>6. Taken' = Taken + n
    <3>1. n \in Nat /\ g \in Nat /\ After(sent, file, m) \in Nat
      BY <1>2, <1>8, <1>10
    <3>2. After(sent, file, m + 1) = After(sent, file, m) + 3 + (g + n)
      BY <2>1, <2>4
    <3>3. Taken' = After(sent, file, m) + 3 + (g + n)
      BY <2>5, <3>1, <3>2
    <3> QED
      BY <1>10, <3>1, <3>3
  <2>7. OnTheWay' /\ InFile'
    BY <1>3, <1>16, <2>1, <2>6 DEF OnTheWay, InFile
  <2>8. Agree'
    <3>1. m + 1 <= Len(sent)
      BY <1>4, <1>8
    <3>2. ASSUME NEW i \in 1..(m + 1)
          PROVE  decoded'[i] = Meant(sent[i])
      <4>1. CASE i = m + 1
        BY <1>8, <2>3, <4>1 DEF Meant
      <4>2. CASE i # m + 1
        <5>1. i \in 1..m
          BY <1>8, <4>2
        <5> QED
          BY <1>5, <2>3, <5>1 DEF Agree
      <4> QED
        BY <4>1, <4>2
    <3> QED
      BY <1>3, <2>3, <3>1, <3>2 DEF Agree, Meant
  <2> QED
    BY <1>17, <2>7, <2>8
<1>19. CASE left # n
  <2>1. left' = left - n /\ decoded' = decoded /\ left' # None
    BY <1>2, <1>19 DEF None
  <2>2. Taken' = After(sent, file, m) + (3 + (g + n))
    BY <1>3, <1>5, <1>15, <2>1 DEF Taken
  <2>3. Taken' = Taken + n
    BY <1>2, <1>8, <1>10, <2>2
  <2>4. OnTheWay' /\ Agree'
    BY <1>3, <1>16, <2>1, <2>3 DEF OnTheWay, Agree, Meant
  <2>5. Len(got') + left' = Len(file)
    BY <1>2, <1>8, <1>15, <2>1
  <2>6. InFile'
    BY <1>3, <1>5, <1>8, <1>15, <2>1, <2>5 DEF InFile
  <2> QED
    BY <1>17, <2>4, <2>6
<1> QED
  BY <1>18, <1>19

HIDE DEF Thrice

LEMMA InitStream == TransferInit => StreamInv
<1> SUFFICES ASSUME TransferInit PROVE StreamInv
  OBVIOUS
<1>1. /\ sent = <<>> /\ decoded = <<>> /\ copied = 0 /\ left = None /\ wire = <<>> /\ outputBuffer = <<>>
      /\ inbuf = EmptyBuffer
  BY DEF TransferInit
<1>2. Typed /\ OneHeader
  BY InitTyped, InitHeader
<1>3. Len(<<>>) = 0 /\ ~HeaderBy(sent, 0) /\ ~HeaderBy(sent, 0 - 1)
  BY DEF HeaderBy
<1>4. Steady
  BY <1>1, <1>3 DEF Steady
<1>5. Taken = 0
  <2>1. After(sent, file, 0) = 0
    BY <1>2, <1>3, StreamTypes, AfterFacts DEF Thrice
  <2> QED
    BY <1>1, <1>3, <2>1 DEF Taken
<1>6. Stream \in Seq(Bytes) /\ Len(Stream) = 0
  <2>1. Contents(inbuf) \in Seq(Bytes) /\ Len(Contents(inbuf)) = 0
    <3>1. readableBytes(EmptyBuffer) = 0
      BY BufferAssumption DEF readableBytes, EmptyBuffer
    <3> QED
      BY <1>1, <1>2, <3>1, StreamFront DEF Typed
  <2> QED
    BY <1>1, <2>1 DEF Stream
<1>7. OnTheWay
  BY <1>1, <1>3, <1>5, <1>6 DEF OnTheWay, Carries, Thrice
<1>8. InFile /\ Agree
  BY <1>1, <1>3 DEF InFile, Agree
<1> QED
  BY <1>4, <1>7, <1>8 DEF StreamInv

LEMMA StepStream ==
  ASSUME Typed, OneHeader, StreamInv, [TransferNext]_transferVars
  PROVE  StreamInv'
<1> USE DEF sender, others, queues, receiver, history
<1>1. CASE UNCHANGED transferVars
  <2>1. Bits /\ UNCHANGED <<wire, outputBuffer, inbuf>>
    BY <1>1 DEF transferVars, Typed
  <2>2. Stream' = Stream
    BY <2>1, BitsSame
  <2> QED
    BY <1>1, <2>2, StreamKept DEF transferVars, Undisturbed
<1>2. CASE Unmap \/ SendHeader \/ Remap \/ Look \/ Deliver \/ Leave
  <2>1. /\ UNCHANGED <<wire, outputBuffer, inbuf>>
        /\ UNCHANGED <<file, copied, sent, left, got, decoded, faults, intruders>>
    BY <1>2 DEF Unmap, SendHeader, Remap, Look, Deliver, Leave, Post
  <2>2. Stream' = Stream
    BY <2>1, BitsSame DEF Typed
  <2> QED
    BY <2>1, <2>2, StreamKept DEF Undisturbed
<1>3. CASE HandleWrite \/ HandleRead
  <2>1. Stream' = Stream
    BY <1>3, HandleWriteStream, HandleReadStream DEF Typed
  <2>2. UNCHANGED <<file, copied, sent, left, got, decoded, faults, intruders>>
    BY <1>3 DEF HandleWrite, HandleRead
  <2> QED
    BY <2>1, <2>2, StreamKept DEF Undisturbed
<1>4. CASE Truncate \/ HeaderFails
  <2>1. faults' # {}
    BY <1>4 DEF Truncate, HeaderFails
  <2> QED
    BY <2>1 DEF StreamInv, Undisturbed
<1>5. CASE SendQueued \/ SendFromLoop
  <2> SUFFICES ASSUME Undisturbed' PROVE StreamInv'
    BY DEF StreamInv
  <2>1. PICK kind \in MessageKinds :
          /\ Transmit(kind) /\ sent' = Append(sent, kind)
          /\ kind = "h" => HeaderQueued /\ ~HeaderSent
          /\ UNCHANGED <<file, copied, left, got, decoded, faults, inbuf, pc>>
    <3>1. CASE SendQueued
      <4>1. UNCHANGED <<file, copied, left, got, decoded, faults, inbuf, pc>>
        BY <3>1 DEF SendQueued
      <4> QED
        BY <3>1, <4>1, QueuedSent
    <3>2. CASE SendFromLoop
      BY <3>2, KindFacts DEF SendFromLoop, Transmit
    <3> QED
      BY <1>5, <3>1, <3>2
  <2>2. Stream' = Stream \o Frame(kind)
    BY <2>1, TransmitStream DEF Typed
  <2>3. intruders \in Nat /\ intruders' = 0 /\ faults = {}
    BY <2>1 DEF Undisturbed, Typed, HistoryOK
  <2>4. Undisturbed /\ ~(HeaderOut /\ copied < Len(file))
    BY <2>1, <2>3 DEF Transmit, Undisturbed
  <2>5. HeaderSent => copied = Len(file)
    <3> SUFFICES ASSUME HeaderSent PROVE copied = Len(file)
      OBVIOUS
    <3>1. pc \notin {"idle", "unmapped"} /\ ~HeaderQueued
      BY DEF OneHeader
    <3>2. CASE pc = "copying"
      <4>1. ~(copied < Len(file))
        BY <2>4, <3>1, <3>2, HeaderOutFacts
      <4> QED
        BY <4>1, StreamTypes
    <3>3. CASE pc # "copying"
      BY <3>1, <3>3 DEF OneHeader
    <3> QED
      BY <3>2, <3>3
  <2>6. Steady /\ OnTheWay /\ InFile /\ Agree
    BY <2>4 DEF StreamInv
  <2>7. Steady' /\ OnTheWay' /\ InFile' /\ Agree'
    BY <2>1, <2>2, <2>5, <2>6, MessageSent
  <2> QED
    BY <2>7 DEF StreamInv
<1>6. CASE CopyFile
  <2> SUFFICES ASSUME Undisturbed' PROVE StreamInv'
    BY DEF StreamInv
  <2>1. /\ faults = {} /\ HeaderOut /\ outputBuffer = <<>> /\ intruders' = intruders
        /\ UNCHANGED <<file, sent, left, got, decoded>>
    BY <1>6 DEF CopyFile, Undisturbed
  <2>2. Steady /\ OnTheWay /\ InFile /\ Agree
    BY <2>1 DEF StreamInv, Undisturbed
  <2>3. PICK n : n = Least(Len(file) - copied, Space)
    OBVIOUS
  <2>4. n \in Nat /\ n > 0 /\ copied + n <= Len(file) /\ copied' = copied + n
    BY <1>6, <2>3, CopyFacts
  <2>5. Stream' = Stream \o SubSeq(file, copied + 1, copied + n)
    BY <1>6, <2>1, <2>3, CopyStream
  <2>6. HeaderSent
    BY <2>1, HeaderOutFacts DEF OneHeader
  <2>7. Steady' /\ OnTheWay' /\ InFile' /\ Agree'
    BY <2>1, <2>2, <2>4, <2>5, <2>6, FileCopied
  <2> QED
    BY <2>7 DEF StreamInv
<1>7. CASE SendEnd \/ SendLast
  <2>1. PICK kind \in MessageKinds :
          /\ kind # "h" /\ pc \in {"mapped", "ended"}
          /\ \/ Post(kind)
             \/ DirectSend(kind)
          /\ UNCHANGED <<file, copied, inbuf, left, got, decoded>>
    BY <1>7, KindFacts DEF SendEnd, SendLast, SendAfter
  <2>2. CASE Post(kind)
    <3>1. UNCHANGED <<wire, outputBuffer, inbuf, file, copied, sent, left, got, decoded, faults, intruders>>
      BY <2>1, <2>2 DEF Post
    <3>2. Stream' = Stream
      BY <3>1, BitsSame DEF Typed
    <3> QED
      BY <3>1, <3>2, StreamKept DEF Undisturbed
  <2>3. CASE DirectSend(kind)
    <3> SUFFICES ASSUME Undisturbed' PROVE StreamInv'
      BY DEF StreamInv
    <3>1. faults = {} /\ Stream' = Stream \o Frame(kind)
      BY <2>1, <2>3, DirectSendStream DEF Undisturbed
    <3>2. sent' = Append(sent, kind) /\ intruders' = intruders
      BY <2>3 DEF DirectSend
    <3>3. copied = Len(file)
      BY <2>1 DEF OneHeader
    <3>4. Steady /\ OnTheWay /\ InFile /\ Agree
      BY <3>1, <3>2 DEF StreamInv, Undisturbed
    <3>5. Steady' /\ OnTheWay' /\ InFile' /\ Agree'
      BY <2>1, <3>1, <3>2, <3>3, <3>4, MessageSent
    <3> QED
      BY <3>5 DEF StreamInv
  <2> QED
    BY <2>1, <2>2, <2>3
<1>8. CASE Message \/ Header \/ FileBytes
  <2>1. UNCHANGED <<faults, intruders>>
    BY <1>8 DEF Message, Header, FileBytes
  <2> SUFFICES ASSUME Undisturbed' PROVE StreamInv'
    BY DEF StreamInv
  <2>2. Steady /\ OnTheWay /\ InFile /\ Agree
    BY <2>1 DEF StreamInv, Undisturbed
  <2>3. Steady' /\ OnTheWay' /\ InFile' /\ Agree'
    BY <1>8, <2>2, MessageStream, HeaderStream, FileBytesStream
  <2> QED
    BY <2>3 DEF StreamInv
<1> QED
  BY <1>1, <1>2, <1>3, <1>4, <1>5, <1>6, <1>7, <1>8
     DEF TransferNext, Loop, Thread, Others, Receive

LEMMA StreamAgrees == StreamInv => Faithful
BY DEF StreamInv, Agree, Faithful

\* Faithful: JsonCodec::onMessage hands on the messages and the file that were
\* transmitted, in order, wherever readFd cuts the stream and whatever bytes
\* the file has, as long as nothing gets between the header and the file.
THEOREM StreamFaithful == TransferSpec => []Faithful
<1>1. TransferInit => StreamInv
  BY InitStream
<1>2. Typed /\ OneHeader /\ StreamInv /\ [TransferNext]_transferVars => StreamInv'
  BY StepStream
<1>3. StreamInv => Faithful
  BY StreamAgrees
<1> QED
  BY <1>1, <1>2, <1>3, HeaderAlways, PTL DEF TransferSpec

=============================================================================
