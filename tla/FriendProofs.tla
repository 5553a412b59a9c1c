---------------------------- MODULE FriendProofs ----------------------------
(***************************************************************************)
(* Theorems about Friend, for any users, workers and stray ids, with       *)
(* crashes: the types, and that nobody is linked without both having asked.*)
(***************************************************************************)
EXTENDS Friend, TLAPS

\* A row of the table was asked for by its owner.
RowAsked == \A u, v \in Ids : state[u][v] # "none" => <<u, v>> \in asked

Own(w)   == <<task[w].actor, task[w].other>>
Their(w) == <<task[w].other, task[w].actor>>

\* What a handler can count on until its last statement, whatever happens to
\* the rows after it has read them: the requests behind them were made.
TaskAsked ==
  \A w \in Workers :
    /\ task[w].op = "add" \/ task[w].pc = "ask" => Own(w) \in asked
    /\ task[w].pc \in {"acceptOwn", "acceptOther", "block", "unblock"}
         => Own(w) \in asked /\ Their(w) \in asked

IInv == TypeOK /\ RowAsked /\ ConsentOfBoth /\ TaskAsked

USE DEF Linked, IdleTask

\* The ids that requests may name are among all ids.
LEMMA IdFacts == Unknown \in Ids /\ Actors \subseteq Ids /\ Others \subseteq Ids
  BY DEF Ids, Actors, Others

\* An idle worker's record, and the fields of any.
LEMMA TaskFacts ==
  /\ IdleTask \in Tasks
  /\ \A t \in Tasks :
       /\ t.op \in TaskOp /\ t.actor \in Ids /\ t.other \in Ids /\ t.state1 \in States
       /\ \A p \in TaskPC : [t EXCEPT !.pc = p] \in Tasks
       /\ \A p \in TaskPC, s \in States : [t EXCEPT !.pc = p, !.state1 = s] \in Tasks
<1>1. IdleTask \in Tasks
  BY IdFacts DEF Tasks, TaskPC, TaskOp, States
<1>2. ASSUME NEW t \in Tasks
      PROVE  /\ t.op \in TaskOp /\ t.actor \in Ids /\ t.other \in Ids /\ t.state1 \in States
             /\ \A p \in TaskPC : [t EXCEPT !.pc = p] \in Tasks
             /\ \A p \in TaskPC, s \in States : [t EXCEPT !.pc = p, !.state1 = s] \in Tasks
  BY DEF Tasks
<1> QED
  BY <1>1, <1>2

\* A worker whose record does not change keeps what it can count on, as the
\* requests that were made stay; an idle one counts on nothing.
LEMMA TaskKept ==
  ASSUME TaskAsked, asked \subseteq asked', NEW w \in Workers,
         task'[w] = task[w] \/ task'[w] = IdleTask
  PROVE  /\ (task[w].op = "add" \/ task[w].pc = "ask" => Own(w) \in asked)'
         /\ (task[w].pc \in {"acceptOwn", "acceptOther", "block", "unblock"}
               => Own(w) \in asked /\ Their(w) \in asked)'
  BY DEF TaskAsked, Own, Their

\* The table starts empty.
LEMMA InitInv ==
  ASSUME Init
  PROVE  IInv
<1> USE DEF Init
<1>1. TypeOK
  BY TaskFacts DEF TypeOK, States
<1>2. RowAsked /\ ConsentOfBoth
  BY DEF RowAsked, ConsentOfBoth
<1>3. TaskAsked
  BY DEF TaskAsked
<1> QED
  BY <1>1, <1>2, <1>3 DEF IInv

\* A change of one row keeps the invariants of the table if the requests
\* behind its new state were made.
LEMMA RowChange ==
  ASSUME NEW u \in Ids, NEW v \in Ids,
         NEW s \in {"request", "friend", "block"},
         TypeOK, RowAsked, ConsentOfBoth, asked' = asked,
         <<u, v>> \in asked,
         s # "request" => <<v, u>> \in asked,
         state' = [state EXCEPT ![u][v] = s] \/ state' = state
  PROVE  /\ state' \in [Ids -> [Ids -> States]]
         /\ RowAsked' /\ ConsentOfBoth'
<1>1. CASE state' = state
  BY <1>1 DEF TypeOK, RowAsked, ConsentOfBoth
<1>2. CASE state' = [state EXCEPT ![u][v] = s]
  <2>1. state' \in [Ids -> [Ids -> States]]
    BY <1>2 DEF TypeOK, States
  <2>2. \A x, y \in Ids : state'[x][y] = IF x = u /\ y = v THEN s ELSE state[x][y]
    BY <1>2 DEF TypeOK
  <2>3. RowAsked'
    BY <2>2 DEF RowAsked
  <2>4. ConsentOfBoth'
    BY <2>2 DEF ConsentOfBoth
  <2> QED
    BY <2>1, <2>3, <2>4
<1> QED
  BY <1>1, <1>2

\* A handler that starts records its request.
LEMMA ReceiveInv ==
  ASSUME IInv, NEW w \in Workers, NEW u \in Actors, NEW v \in Others,
         NEW op \in {"add", "delete", "block", "unblock"}, Receive(w, op, u, v)
  PROVE  IInv'
<1> USE IdFacts DEF IInv, Receive, At
<1>1. asked \subseteq asked' /\ (op = "add" => <<u, v>> \in asked')
  OBVIOUS
<1>2. TypeOK'
  <2>1. disturbed' \subseteq SUBSET Ids
    BY DEF TypeOK
  <2>2. asked' \subseteq Ids \X Ids
    BY DEF TypeOK
  <2>3. [pc |-> "read1", op |-> op, actor |-> u, other |-> v, state1 |-> "none"] \in Tasks
    BY DEF Tasks, TaskPC, TaskOp, States
  <2> QED
    BY <2>1, <2>2, <2>3 DEF TypeOK
<1>3. RowAsked' /\ ConsentOfBoth'
  BY <1>1 DEF RowAsked, ConsentOfBoth
<1>4. TaskAsked'
  BY <1>1 DEF TypeOK, TaskAsked, Own, Their
<1> QED
  BY <1>2, <1>3, <1>4

\* Reading decides nothing that was not asked for.
LEMMA ReadInv ==
  ASSUME IInv, NEW w \in Workers, Read1(w) \/ Read2(w)
  PROVE  IInv'
<1> USE DEF IInv, Finish, Goto, At
<1>1. state' = state /\ asked' = asked /\ disturbed' = disturbed
  BY DEF Read1, Read2
<1>2. RowAsked' /\ ConsentOfBoth'
  BY <1>1 DEF RowAsked, ConsentOfBoth
<1>3. task[w].actor \in Ids /\ task[w].other \in Ids
  BY TaskFacts DEF TypeOK
<1>4. CASE Read1(w)
  <2> DEFINE s1 == state[task[w].actor][task[w].other]
             next == DecideFirst(task[w].op, s1)
  <2>1. s1 \in States
    BY <1>3 DEF TypeOK
  <2>2. s1 \in Linked => Own(w) \in asked /\ Their(w) \in asked
    BY <1>3 DEF ConsentOfBoth, Own, Their
  <2>3. /\ next \in {"read2", "block", "unblock", "idle"}
        /\ next \in {"block", "unblock"} => s1 \in Linked
    BY DEF DecideFirst
  <2>4. \/ task' = [task EXCEPT ![w] = IdleTask]
        \/ task' = [task EXCEPT ![w].pc = next, ![w].state1 = s1]
    BY <1>4 DEF Read1
  <2> HIDE DEF s1, next
  <2>5. TypeOK'
    <3>1. CASE task' = [task EXCEPT ![w] = IdleTask]
      BY <1>1, <3>1, TaskFacts DEF TypeOK
    <3>2. CASE task' = [task EXCEPT ![w].pc = next, ![w].state1 = s1]
      <4>1. [task[w] EXCEPT !.pc = next, !.state1 = s1] \in Tasks
        BY <2>1, <2>3, TaskFacts DEF TypeOK, TaskPC
      <4> QED
        BY <1>1, <3>2, <4>1 DEF TypeOK
    <3> QED
      BY <2>4, <3>1, <3>2
  <2>6. TaskAsked'
    <3>1. \A x \in Workers \ {w} : task'[x] = task[x]
      BY <2>4 DEF TypeOK
    <3>2. \/ task'[w] = IdleTask
          \/ task'[w] = [task[w] EXCEPT !.pc = next, !.state1 = s1]
      BY <2>4 DEF TypeOK
    <3>3. CASE task'[w] = IdleTask
      BY <1>1, <3>1, <3>3, TaskKept DEF TaskAsked
    <3>4. CASE task'[w] = [task[w] EXCEPT !.pc = next, !.state1 = s1]
      <4>1. /\ task'[w].op = task[w].op /\ task'[w].pc = next
            /\ Own(w)' = Own(w) /\ Their(w)' = Their(w)
        BY <3>4 DEF TypeOK, Own, Their
      <4>2. task[w].op = "add" => Own(w) \in asked
        BY DEF TaskAsked
      <4> QED
        BY <1>1, <2>2, <2>3, <3>1, <4>1, <4>2, TaskKept DEF TaskAsked
    <3> QED
      BY <3>2, <3>3, <3>4
  <2> QED
    BY <1>2, <2>5, <2>6
<1>5. CASE Read2(w)
  <2> DEFINE s2 == state[task[w].other][task[w].actor]
             next == Decide(task[w].op, task[w].state1, s2)
  <2>1. s2 = "request" => Their(w) \in asked
    BY <1>3 DEF RowAsked, Their
  <2>2. /\ next \in {"ask", "acceptOwn", "delete", "idle"}
        /\ next \in {"ask", "acceptOwn"} => task[w].op = "add"
        /\ next = "acceptOwn" => s2 = "request"
    BY DEF Decide
  <2>3. \/ task' = [task EXCEPT ![w] = IdleTask]
        \/ task' = [task EXCEPT ![w].pc = next]
    BY <1>5 DEF Read2
  <2> HIDE DEF s2, next
  <2>4. TypeOK'
    <3>1. CASE task' = [task EXCEPT ![w] = IdleTask]
      BY <1>1, <3>1, TaskFacts DEF TypeOK
    <3>2. CASE task' = [task EXCEPT ![w].pc = next]
      <4>1. [task[w] EXCEPT !.pc = next] \in Tasks
        BY <2>2, TaskFacts DEF TypeOK, TaskPC
      <4> QED
        BY <1>1, <3>2, <4>1 DEF TypeOK
    <3> QED
      BY <2>3, <3>1, <3>2
  <2>5. TaskAsked'
    <3>1. \A x \in Workers \ {w} : task'[x] = task[x]
      BY <2>3 DEF TypeOK
    <3>2. task'[w] = IdleTask \/ task'[w] = [task[w] EXCEPT !.pc = next]
      BY <2>3 DEF TypeOK
    <3>3. CASE task'[w] = IdleTask
      BY <1>1, <3>1, <3>3, TaskKept DEF TaskAsked
    <3>4. CASE task'[w] = [task[w] EXCEPT !.pc = next]
      <4>1. /\ task'[w].op = task[w].op /\ task'[w].pc = next
            /\ Own(w)' = Own(w) /\ Their(w)' = Their(w)
        BY <3>4 DEF TypeOK, Own, Their
      <4>2. task[w].op = "add" => Own(w) \in asked
        BY DEF TaskAsked
      <4> QED
        BY <1>1, <2>1, <2>2, <3>1, <4>1, <4>2, TaskKept DEF TaskAsked
    <3> QED
      BY <3>2, <3>3, <3>4
  <2> QED
    BY <1>2, <2>4, <2>5
<1> QED
  BY <1>4, <1>5

\* A statement that sets one row to what was asked for.
LEMMA WriteInv ==
  ASSUME IInv, NEW w \in Workers,
         Ask(w) \/ AcceptOwn(w) \/ AcceptOther(w) \/ Block(w) \/ Unblock(w)
  PROVE  IInv'
<1> USE DEF IInv, Finish, Goto, At, insert, modify
<1>1. asked' = asked /\ disturbed' = disturbed
  BY DEF Ask, AcceptOwn, AcceptOther, Block, Unblock
<1>2. task[w].actor \in Ids /\ task[w].other \in Ids
  BY TaskFacts DEF TypeOK
<1>3. /\ state' \in [Ids -> [Ids -> States]]
      /\ RowAsked' /\ ConsentOfBoth'
  <2>1. CASE Ask(w)
    BY <1>1, <1>2, <2>1, RowChange DEF Ask, TaskAsked, Own
  <2>2. CASE AcceptOwn(w)
    BY <1>1, <1>2, <2>2, RowChange DEF AcceptOwn, TaskAsked, Own, Their
  <2>3. CASE AcceptOther(w)
    BY <1>1, <1>2, <2>3, RowChange DEF AcceptOther, TaskAsked, Own, Their
  <2>4. CASE Block(w)
    BY <1>1, <1>2, <2>4, RowChange DEF Block, TaskAsked, Own, Their
  <2>5. CASE Unblock(w)
    BY <1>1, <1>2, <2>5, RowChange DEF Unblock, TaskAsked, Own, Their
  <2> QED
    BY <2>1, <2>2, <2>3, <2>4, <2>5
<1>4. TypeOK'
  <2>1. task' = [task EXCEPT ![w] = IdleTask] \/ task' = [task EXCEPT ![w].pc = "acceptOther"]
    BY DEF Ask, AcceptOwn, AcceptOther, Block, Unblock
  <2> QED
    <3>1. CASE task' = [task EXCEPT ![w] = IdleTask]
      BY <1>1, <1>3, <3>1, TaskFacts DEF TypeOK
    <3>2. CASE task' = [task EXCEPT ![w].pc = "acceptOther"]
      <4>1. [task[w] EXCEPT !.pc = "acceptOther"] \in Tasks
        BY TaskFacts DEF TypeOK, TaskPC
      <4> QED
        BY <1>1, <1>3, <3>2, <4>1 DEF TypeOK
    <3> QED
      BY <2>1, <3>1, <3>2
<1>5. TaskAsked'
  <2>1. CASE AcceptOwn(w)
    <3>1. \A x \in Workers \ {w} : task'[x] = task[x]
      BY <2>1 DEF AcceptOwn, TypeOK
    <3>2. task'[w] = [task[w] EXCEPT !.pc = "acceptOther"]
      BY <2>1 DEF AcceptOwn, TypeOK
    <3>3. Own(w)' = Own(w) /\ Their(w)' = Their(w) /\ Own(w) \in asked /\ Their(w) \in asked
      BY <2>1, <3>2 DEF AcceptOwn, TypeOK, TaskAsked, Own, Their
    <3> QED
      BY <1>1, <3>1, <3>3, TaskKept DEF TaskAsked
  <2>2. CASE ~AcceptOwn(w)
    <3>1. \A x \in Workers : task'[x] = task[x] \/ task'[x] = IdleTask
      BY <2>2 DEF Ask, AcceptOther, Block, Unblock, TypeOK
    <3> QED
      BY <1>1, <3>1, TaskKept DEF TaskAsked
  <2> QED
    BY <2>1, <2>2
<1> QED
  BY <1>3, <1>4, <1>5

\* Deleting rows needs no consent.
LEMMA DeleteInv ==
  ASSUME IInv, NEW w \in Workers, Delete(w)
  PROVE  IInv'
<1> USE DEF IInv, Delete, Finish, At, deleteEach
<1>1. task[w].actor \in Ids /\ task[w].other \in Ids
  BY TaskFacts DEF TypeOK
<1>2. TypeOK'
  BY <1>1, TaskFacts DEF TypeOK, States
<1>3. \A x, y \in Ids : state'[x][y] \in {"none", state[x][y]}
  BY <1>1 DEF TypeOK
<1>4. RowAsked' /\ ConsentOfBoth'
  BY <1>3 DEF RowAsked, ConsentOfBoth
<1>5. TaskAsked'
  BY DEF TypeOK, TaskAsked, Own, Their
<1> QED
  BY <1>2, <1>4, <1>5

\* A restart forgets the handlers; rows and requests stay.
LEMMA RestartInv ==
  ASSUME IInv, Restart
  PROVE  IInv'
<1> USE DEF IInv, Restart
<1>1. TypeOK'
  <2>1. ASSUME NEW w \in Workers
        PROVE  Pair(w) \subseteq Ids
    <3>1. task[w].actor \in Ids /\ task[w].other \in Ids
      BY TaskFacts DEF TypeOK
    <3> QED
      BY <3>1 DEF Pair
  <2>2. disturbed' \subseteq SUBSET Ids
    BY <2>1 DEF TypeOK
  <2>3. task' \in [Workers -> Tasks]
    BY TaskFacts
  <2> QED
    BY <2>2, <2>3 DEF TypeOK
<1>2. RowAsked' /\ ConsentOfBoth'
  BY DEF RowAsked, ConsentOfBoth
<1>3. TaskAsked'
  BY DEF TaskAsked, Own, Their
<1> QED
  BY <1>1, <1>2, <1>3

\* The invariant is inductive.
LEMMA NextInv == IInv /\ [Next]_vars => IInv'
<1> SUFFICES ASSUME IInv, [Next]_vars
             PROVE  IInv'
  OBVIOUS
<1>1. CASE UNCHANGED vars
  BY <1>1 DEF vars, IInv, TypeOK, RowAsked, ConsentOfBoth, TaskAsked, Own, Their
<1>2. ASSUME NEW w \in Workers, Request(w)
      PROVE  IInv'
  BY <1>2, ReceiveInv DEF Request, Others
<1>3. ASSUME NEW w \in Workers, Handler(w)
      PROVE  IInv'
  BY <1>3, ReadInv, WriteInv, DeleteInv DEF Handler
<1>4. CASE Restart
  BY <1>4, RestartInv
<1> QED
  BY <1>1, <1>2, <1>3, <1>4 DEF Next

\* The inductive invariant holds in every reachable state.
THEOREM InductiveInvariant == Spec => []IInv
  BY InitInv, NextInv, PTL DEF Spec

\* The table holds states of its enum and each handler a place in its code.
THEOREM TypeCorrect == Spec => []TypeOK
<1>1. IInv => TypeOK
  BY DEF IInv
<1> QED
  BY <1>1, InductiveInvariant, PTL

\* handleAddFriend makes nobody a friend without a request from each side,
\* though it reads and writes in separate statements.
THEOREM Consent == Spec => []ConsentOfBoth
<1>1. IInv => ConsentOfBoth
  BY DEF IInv
<1> QED
  BY <1>1, InductiveInvariant, PTL
-----------------------------------------------------------------------------
(* Pairs whose handlers have not overlapped.                               *)

Consistent(u, v) ==
  \/ "none" \in {state[u][v], state[v][u]}
       /\ {state[u][v], state[v][u]} \subseteq {"none", "request"}
  \/ {state[u][v], state[v][u]} \subseteq Linked

\* A handler of an undisturbed pair is the only one of the pair.
Alone ==
  \A w, x \in Workers :
    ~At(w, "idle") /\ ~At(x, "idle") /\ Pair(w) = Pair(x) /\ Pair(w) \notin disturbed => w = x

\* Only between the two statements of an acceptance is a pair inconsistent.
Settled ==
  \A u, v \in Ids :
    u # v /\ {u, v} \notin disturbed /\ (\A w \in Workers : At(w, "acceptOther") => Pair(w) # {u, v})
      => Consistent(u, v)

\* What the handler of an undisturbed pair has read is still so.
Current(w) ==
  LET own == state[task[w].actor][task[w].other]
      its == state[task[w].other][task[w].actor]
  IN  /\ At(w, "read2") => own = task[w].state1
      /\ At(w, "ask") => own \in {"none", "request"} /\ its = "none"
      /\ At(w, "acceptOwn") => own = "none" /\ its = "request"
      /\ At(w, "acceptOther") => own = "friend" /\ its = "request"
      /\ At(w, "block") \/ At(w, "unblock") => own \in Linked

Apart == \A w \in Workers : ~At(w, "idle") => task[w].actor # task[w].other

PairInv ==
  /\ TypeOK /\ Alone /\ Settled /\ Apart
  /\ \A w \in Workers : ~At(w, "idle") /\ Pair(w) \notin disturbed => Current(w)

\* Two users make a pair in either order.
LEMMA PairFacts ==
  /\ \A w \in Workers : TypeOK => task[w] \in Tasks /\ task[w].actor \in Ids /\ task[w].other \in Ids
  /\ \A u, v \in Ids : {u, v} = {v, u} /\ (Consistent(u, v) <=> Consistent(v, u))
  /\ \A u, v, x, y \in Ids : {u, v} = {x, y} => (u = x /\ v = y) \/ (u = y /\ v = x)
<1>1. \A w \in Workers : TypeOK => task[w] \in Tasks /\ task[w].actor \in Ids /\ task[w].other \in Ids
  BY TaskFacts DEF TypeOK
<1>2. \A u, v \in Ids : {u, v} = {v, u} /\ (Consistent(u, v) <=> Consistent(v, u))
  BY DEF Consistent
<1>3. \A u, v, x, y \in Ids : {u, v} = {x, y} => (u = x /\ v = y) \/ (u = y /\ v = x)
  BY Zenon
<1> QED
  BY <1>1, <1>2, <1>3

\* A step of one handler concerns its own pair only.
LEMMA OnePair ==
  ASSUME PairInv, TypeOK', disturbed' = disturbed, NEW w \in Workers, ~At(w, "idle"),
         NEW a \in Ids, NEW o \in Ids, task[w].actor = a, task[w].other = o,
         \A x \in Workers \ {w} : task'[x] = task[x],
         \A u, v \in Ids : {u, v} # Pair(w) => state'[u][v] = state[u][v],
         \/ task'[w] = IdleTask
         \/ task'[w].actor = a /\ task'[w].other = o,
         Pair(w) \notin disturbed =>
           /\ ~At(w, "idle")' => Current(w)'
           /\ ~At(w, "acceptOther")' => Consistent(a, o)'
  PROVE  PairInv'
<1>1. a # o
  BY DEF PairInv, Apart
<1>2. At(w, "idle")' \/ Pair(w)' = Pair(w)
  BY DEF At, Pair
<1>3. \A x \in Workers \ {w} : Pair(x)' = Pair(x) /\ \A p \in TaskPC : At(x, p)' = At(x, p)
  BY DEF Pair, At
<1>4. Alone'
  BY <1>2, <1>3 DEF PairInv, Alone, TaskPC
<1>5. Apart'
  BY <1>1, <1>2, <1>3 DEF PairInv, Apart, At
<1>6. ASSUME NEW u \in Ids, NEW v \in Ids, u # v, {u, v} \notin disturbed,
             \A x \in Workers : At(x, "acceptOther")' => Pair(x)' # {u, v}
      PROVE  Consistent(u, v)'
  <2>1. CASE {u, v} = Pair(w)
    <3>1. ~At(w, "acceptOther")'
      BY <1>2, <1>6, <2>1 DEF At
    <3>2. Consistent(a, o)'
      BY <1>6, <2>1, <3>1
    <3>3. (u = a /\ v = o) \/ (u = o /\ v = a)
      BY <2>1, PairFacts DEF Pair
    <3> QED
      BY <3>2, <3>3 DEF Consistent
  <2>2. CASE {u, v} # Pair(w)
    <3>1. state'[u][v] = state[u][v] /\ state'[v][u] = state[v][u]
      BY <2>2, PairFacts
    <3>2. \A x \in Workers : At(x, "acceptOther") => Pair(x) # {u, v}
      BY <1>3, <1>6, <2>2 DEF TaskPC
    <3>3. Consistent(u, v)
      BY <1>6, <3>2 DEF PairInv, Settled
    <3> QED
      BY <3>1, <3>3 DEF Consistent
  <2> QED
    BY <2>1, <2>2
<1>7. ASSUME NEW x \in Workers, ~At(x, "idle")', Pair(x)' \notin disturbed
      PROVE  Current(x)'
  <2>1. CASE x = w
    BY <1>2, <1>7, <2>1
  <2>2. CASE x # w
    <3>1. task'[x] = task[x] /\ Pair(x)' = Pair(x) /\ ~At(x, "idle")
      BY <1>7, <2>2 DEF At, Pair
    <3>2. Pair(x) # Pair(w)
      BY <1>7, <2>2, <3>1 DEF PairInv, Alone
    <3>3. Current(x)
      BY <1>7, <3>1 DEF PairInv
    <3>4. task[x].actor \in Ids /\ task[x].other \in Ids
      BY PairFacts DEF PairInv
    <3>5. /\ state'[task[x].actor][task[x].other] = state[task[x].actor][task[x].other]
          /\ state'[task[x].other][task[x].actor] = state[task[x].other][task[x].actor]
      <4>1. {task[x].actor, task[x].other} # Pair(w) /\ {task[x].other, task[x].actor} # Pair(w)
        BY <3>2, <3>4, PairFacts DEF Pair
      <4> QED
        BY <3>4, <4>1
    <3> QED
      BY <3>1, <3>3, <3>5 DEF Current, At
  <2> QED
    BY <2>1, <2>2
<1> QED
  BY <1>4, <1>5, <1>6, <1>7 DEF PairInv, Settled

\* A handler that starts reads nothing yet; it disturbs its pair if there is
\* another.
LEMMA ReceivePair ==
  ASSUME PairInv, TypeOK', NEW w \in Workers, NEW u \in Actors, NEW v \in Others,
         NEW op \in {"add", "delete", "block", "unblock"}, Receive(w, op, u, v)
  PROVE  PairInv'
<1> USE DEF Receive
<1>1. /\ \A x \in Workers \ {w} : task'[x] = task[x]
      /\ task'[w].pc = "read1" /\ task'[w].actor = u /\ task'[w].other = v
      /\ state' = state /\ u # v /\ At(w, "idle")
  BY DEF PairInv, TypeOK
<1>2. /\ disturbed \subseteq disturbed'
      /\ \A x \in Workers \ {w} : ~At(x, "idle") /\ Pair(x) = {u, v} => {u, v} \in disturbed'
  BY DEF Busy
<1>3. \A x \in Workers \ {w} : Pair(x)' = Pair(x) /\ \A p \in TaskPC : At(x, p)' = At(x, p)
  BY <1>1 DEF Pair, At
<1>4. Pair(w)' = {u, v} /\ ~At(w, "idle")' /\ ~At(w, "acceptOther") /\ ~At(w, "acceptOther")'
  BY <1>1 DEF Pair, At
<1>5. Alone'
  BY <1>2, <1>3, <1>4 DEF PairInv, Alone, TaskPC
<1>6. Settled'
  BY <1>1, <1>2, <1>3, <1>4 DEF PairInv, Settled, Consistent, TaskPC
<1>7. Apart'
  BY <1>1 DEF PairInv, Apart, At
<1>8. ASSUME NEW x \in Workers, ~At(x, "idle")', Pair(x)' \notin disturbed'
      PROVE  Current(x)'
  <2>1. CASE x = w
    BY <1>1, <2>1 DEF Current, At
  <2>2. CASE x # w
    BY <1>1, <1>2, <1>3, <1>8, <2>2 DEF PairInv, Current, At, TaskPC
  <2> QED
    BY <2>1, <2>2
<1> QED
  BY <1>5, <1>6, <1>7, <1>8 DEF PairInv

\* What a handler of an undisturbed pair reads stays so, and its statements
\* lead from one consistent pair of rows to another.
LEMMA HandlerPair ==
  ASSUME PairInv, TypeOK', NEW w \in Workers, Handler(w)
  PROVE  PairInv'
<1>0. task[w].actor \in Ids /\ task[w].other \in Ids /\ task[w] \in Tasks
  BY PairFacts DEF PairInv
<1> PICK a \in Ids, o \in Ids : task[w].actor = a /\ task[w].other = o
  BY <1>0
<1>1. a \in Ids /\ o \in Ids /\ task[w] \in Tasks
  BY <1>0
<1>2. ~At(w, "idle") /\ disturbed' = disturbed
  BY DEF Handler, Read1, Read2, Ask, AcceptOwn, AcceptOther, Delete, Block, Unblock, At
<1>3. a # o
  BY <1>2 DEF PairInv, Apart
<1>4. \A x \in Workers \ {w} : task'[x] = task[x]
  BY DEF PairInv, TypeOK, Handler, Read1, Read2, Ask, AcceptOwn, AcceptOther, Delete, Block, Unblock,
         Finish, Goto
<1>5. \/ task'[w] = IdleTask
      \/ task'[w].actor = a /\ task'[w].other = o
  BY DEF PairInv, TypeOK, Tasks, Handler, Read1, Read2, Ask, AcceptOwn, AcceptOther, Delete, Block,
         Unblock, Finish, Goto
<1>6. \A u, v \in Ids : {u, v} # Pair(w) => state'[u][v] = state[u][v]
  <2>1. \/ state' = state
        \/ \E s \in States : state' = [state EXCEPT ![a][o] = s]
        \/ \E s \in States : state' = [state EXCEPT ![o][a] = s]
        \/ state' = [state EXCEPT ![a][o] = "none", ![o][a] = "none"]
    BY DEF Handler, Read1, Read2, Ask, AcceptOwn, AcceptOther, Delete, Block, Unblock,
           insert, modify, deleteEach, States
  <2> QED
    BY <1>1, <2>1, PairFacts DEF PairInv, TypeOK, Pair
<1>7. ASSUME Pair(w) \notin disturbed
      PROVE  /\ ~At(w, "idle")' => Current(w)'
             /\ ~At(w, "acceptOther")' => Consistent(a, o)'
  <2>1. Current(w)
    BY <1>2, <1>7 DEF PairInv
  <2>2. \A x \in Workers : At(x, "acceptOther") /\ Pair(x) = {a, o} => x = w
    BY <1>2, <1>7 DEF PairInv, Alone, At, Pair
  <2>3. ~At(w, "acceptOther") => Consistent(a, o)
    BY <1>1, <1>3, <1>7, <2>2 DEF PairInv, Settled, Pair
  <2>4. state[a][o] \in States /\ state[o][a] \in States
    BY <1>1 DEF PairInv, TypeOK
  <2>5. CASE Read1(w)
    <3>1. state' = state /\ (task'[w] = IdleTask \/ task'[w].pc \in {"read2", "block", "unblock"})
      BY <1>1, <2>5 DEF Read1, Finish, PairInv, TypeOK, Tasks, DecideFirst
    <3>2. /\ task'[w].pc = "read2" => task'[w].state1 = state[a][o]
          /\ task'[w].pc \in {"block", "unblock"} => state[a][o] \in Linked
      BY <1>1, <2>5 DEF Read1, Finish, PairInv, TypeOK, Tasks, DecideFirst
    <3> QED
      BY <1>5, <2>3, <2>5, <3>1, <3>2 DEF Current, At, Consistent, Read1
  <2>6. CASE Read2(w)
    <3>1. state' = state
          /\ (task'[w] = IdleTask \/ task'[w].pc \in {"ask", "acceptOwn", "delete"})
      BY <1>1, <2>6 DEF Read2, Finish, Goto, PairInv, TypeOK, Tasks, Decide
    <3>2. task[w].state1 = state[a][o]
      BY <2>1, <2>6 DEF Read2, Current
    <3>3. /\ task'[w].pc = "ask" => state[a][o] \in {"none", "request"} /\ state[o][a] = "none"
          /\ task'[w].pc = "acceptOwn" => state[a][o] = "none" /\ state[o][a] = "request"
      BY <1>1, <2>6, <3>2 DEF Read2, Finish, Goto, PairInv, TypeOK, Tasks, Decide
    <3> QED
      BY <1>5, <2>3, <2>6, <3>1, <3>3 DEF Current, At, Consistent, Read2
  <2>7. CASE AcceptOwn(w)
    <3>1. task'[w].pc = "acceptOther" /\ task'[w].actor = a /\ task'[w].other = o
      BY <1>1, <2>7 DEF AcceptOwn, Goto, PairInv, TypeOK, Tasks
    <3>2. state[a][o] = "none" /\ state[o][a] = "request"
      BY <2>1, <2>7 DEF AcceptOwn, Current
    <3>3. state'[a][o] = "friend" /\ state'[o][a] = "request"
      BY <1>1, <1>3, <2>7, <3>2 DEF AcceptOwn, insert, PairInv, TypeOK
    <3> QED
      BY <3>1, <3>3 DEF Current, At
  <2>8. CASE Ask(w) \/ AcceptOther(w) \/ Delete(w) \/ Block(w) \/ Unblock(w)
    <3>1. task'[w] = IdleTask
      BY <2>8 DEF Ask, AcceptOther, Delete, Block, Unblock, Finish, PairInv, TypeOK
    <3>2. Consistent(a, o)'
      <4>1. CASE Ask(w)
        <5>1. state[a][o] \in {"none", "request"} /\ state[o][a] = "none"
          BY <2>1, <4>1 DEF Ask, Current
        <5>2. state'[a][o] = "request" /\ state'[o][a] = "none"
          BY <1>1, <1>3, <4>1, <5>1 DEF Ask, insert, PairInv, TypeOK
        <5> QED
          BY <5>2 DEF Consistent
      <4>2. CASE AcceptOther(w)
        <5>1. state[a][o] = "friend" /\ state[o][a] = "request"
          BY <2>1, <4>2 DEF AcceptOther, Current
        <5>2. state'[a][o] = "friend" /\ state'[o][a] = "friend"
          BY <1>1, <1>3, <4>2, <5>1 DEF AcceptOther, modify, PairInv, TypeOK
        <5> QED
          BY <5>2 DEF Consistent
      <4>3. CASE Delete(w)
        <5>1. state'[a][o] = "none" /\ state'[o][a] = "none"
          BY <1>1, <1>3, <4>3 DEF Delete, deleteEach, PairInv, TypeOK
        <5> QED
          BY <5>1 DEF Consistent
      <4>4. CASE Block(w) \/ Unblock(w)
        <5>1. state[a][o] \in Linked /\ Consistent(a, o)
          BY <2>1, <2>3, <4>4 DEF Block, Unblock, Current, At
        <5>2. state[o][a] \in Linked
          BY <5>1 DEF Consistent
        <5>3. state'[a][o] \in Linked /\ state'[o][a] = state[o][a]
          BY <1>1, <1>3, <4>4, <5>1 DEF Block, Unblock, modify, PairInv, TypeOK
        <5> QED
          BY <5>2, <5>3 DEF Consistent
      <4> QED
        BY <2>8, <4>1, <4>2, <4>3, <4>4
    <3> QED
      BY <3>1, <3>2 DEF At
  <2> QED
    BY <2>5, <2>6, <2>7, <2>8 DEF Handler
<1> QED
  BY <1>2, <1>4, <1>5, <1>6, <1>7, OnePair

\* An acceptance that is cut off disturbs its pair.
LEMMA RestartPair ==
  ASSUME PairInv, TypeOK', Restart
  PROVE  PairInv'
<1> USE DEF Restart
<1>1. \A w \in Workers : At(w, "idle")' /\ ~At(w, "acceptOther")'
  BY DEF At
<1>2. /\ disturbed \subseteq disturbed'
      /\ \A w \in Workers : At(w, "acceptOther") => Pair(w) \in disturbed'
  OBVIOUS
<1>3. Settled'
  BY <1>2 DEF PairInv, Settled, Consistent
<1> QED
  BY <1>1, <1>3 DEF PairInv, Alone, Apart

\* Undisturbed pairs stay consistent, or an acceptance is between its two
\* statements.
LEMMA PairNext ==
  ASSUME PairInv, TypeOK', [Next]_vars
  PROVE  PairInv'
<1>1. CASE UNCHANGED vars
  <2>1. state' = state /\ task' = task /\ disturbed' = disturbed
    BY <1>1 DEF vars
  <2>2. Alone' /\ Apart'
    BY <2>1 DEF PairInv, Alone, Apart, At, Pair
  <2>3. Settled'
    BY <2>1 DEF PairInv, Settled, Consistent, At, Pair
  <2>4. \A w \in Workers : Current(w)' <=> Current(w)
    BY <2>1 DEF Current, At
  <2> QED
    BY <2>1, <2>2, <2>3, <2>4 DEF PairInv, At, Pair
<1>2. ASSUME NEW w \in Workers, Request(w)
      PROVE  PairInv'
  BY <1>2, ReceivePair DEF Request, Others
<1>3. ASSUME NEW w \in Workers, Handler(w)
      PROVE  PairInv'
  BY <1>3, HandlerPair
<1>4. CASE Restart
  BY <1>4, RestartPair
<1> QED
  BY <1>1, <1>2, <1>3, <1>4 DEF Next

\* The branches of handleAddFriend, handleDeleteFriend and the blocks keep the
\* two rows of a pair in step, as long as one handler at a time concerns the
\* pair and no acceptance is cut off: a crash anywhere else does no harm.
THEOREM PairsInStep == Spec => []PairConsistent
<1>1. Init => PairInv
  <2> SUFFICES ASSUME Init PROVE PairInv
    OBVIOUS
  <2>1. TypeOK
    BY InitInv DEF IInv
  <2> QED
    BY <2>1 DEF Init, PairInv, Alone, Settled, Apart, Consistent, At
<1>2. PairInv => PairConsistent
  <2> SUFFICES ASSUME PairInv, NEW u \in Ids, NEW v \in Ids,
                      u # v, {u, v} \notin disturbed, ~Busy({u, v})
               PROVE  Consistent(u, v)
    BY DEF PairConsistent, Consistent
  <2> QED
    BY DEF PairInv, Settled, Busy, At
<1> QED
  BY <1>1, <1>2, PairNext, TypeCorrect, PTL DEF Spec
=============================================================================
