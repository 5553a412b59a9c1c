---------------------------- MODULE PoolsProofs ----------------------------
(***************************************************************************)
(* Theorems about Pools, for any numbers of threads, tasks and connections:*)
(* the types, that connections are neither lost nor doubled, and that no   *)
(* notification is missing on either kind of pool.                         *)
(***************************************************************************)
EXTENDS Pools, FiniteSetTheorems, TLAPS

Busy   == {"acquire", "waitConn", "hold"}
Places == Busy \cup {"look", "waitTask", "idle", "exited"}
Stages == {"startup", "loop", "handler", "drain", "destroy", "stop", "notify",
           "join", "done", "aborted"}

\* The types, as far as they do not depend on how many connections there are;
\* a thread that wants or has a connection knows which, and the main thread does
\* neither while it runs its loop.
Shape ==
  /\ tasks \in [{"handler", "flush"} -> Seq(Tasks)]
  /\ notices \in [{"handler", "flush"} -> Nat]
  /\ stop \in BOOLEAN
  /\ at \in [Actors -> Places]
  /\ running \in [Actors -> Tasks \cup {Nothing}]
  /\ uses \in [Actors -> Seq(Kinds)]
  /\ created \in [Kinds -> 0..PoolSize] /\ free \in [Kinds -> Nat] /\ leaked \in Nat
  /\ main \in Stages /\ finished \subseteq Tasks
  /\ \A a \in Actors : at[a] \in Busy => uses[a] # <<>>
  /\ main = "loop" => at[Main] = "idle"

Lost(k) == IF k = "mysql" THEN leaked ELSE 0

\* ConnectionsConserved, and what remains of it when MysqlPool is destroyed.
Balance ==
  \A k \in Kinds :
    /\ free[k] + Cardinality(Holding(k)) + Lost(k) <= created[k]
    /\ Alive(k) => free[k] + Cardinality(Holding(k)) + Lost(k) = created[k]

IInv == Shape /\ Balance /\ NoIdleConnection /\ NoIdleTask

USE PoolsAssumption

\* Sets of threads are finite, and are counted element by element.
LEMMA Counting ==
  ASSUME NEW S \in SUBSET Actors
  PROVE  /\ Cardinality(S) \in Nat
         /\ \A T \in SUBSET S : Cardinality(T) <= Cardinality(S)
         /\ \A x \in Actors \ S : Cardinality(S \cup {x}) = Cardinality(S) + 1
         /\ \A x \in S : Cardinality(S \ {x}) = Cardinality(S) - 1
<1>1. IsFiniteSet(Actors)
  BY FS_Union, FS_Singleton DEF Actors, Workers
<1>2. IsFiniteSet(S) /\ Cardinality(S) \in Nat
  BY <1>1, FS_Subset, FS_CardinalityType
<1> QED
  BY <1>2, FS_Subset, FS_AddElement, FS_RemoveElement

\* The thread pools' names, and the places of a thread's sets.
LEMMA Sets ==
  /\ \A k \in Kinds : Wanting(k) \subseteq Actors /\ Asleep(k) \subseteq Actors
                      /\ Holding(k) \subseteq Actors
  /\ \A p \in {"handler", "flush"} : Looking(p) \subseteq Actors /\ Resting(p) \subseteq Actors
  /\ \A w \in Workers : w \in Actors /\ PoolOf(w) \in {"handler", "flush"} /\ w \in Threads(PoolOf(w))
                        /\ w # Main
  /\ \A w \in Workers, p \in {"handler", "flush"} : w \in Threads(p) => p = PoolOf(w)
  /\ \A t \in Tasks : Queue(t) \in {"handler", "flush"}
  /\ Main \notin Threads("handler") /\ Main \notin Threads("flush")
  BY DEF Wanting, Asleep, Holding, Looking, Resting, Threads, Actors, Workers, PoolOf, Queue

\* The uses of each activity are kinds of connection, and not none.
LEMMA Uses ==
  /\ HandlerUses \in Seq(Kinds) /\ HandlerUses # <<>>
  /\ FlushUses \in Seq(Kinds) /\ FlushUses # <<>>
  /\ ResetUses \in Seq(Kinds) /\ ResetUses # <<>>
  /\ StartUses \in Seq(Kinds) /\ StartUses # <<>>
<1>1. /\ HandlerUses \in Seq(Kinds) /\ HandlerUses # <<>>
      /\ FlushUses \in Seq(Kinds) /\ FlushUses # <<>>
      /\ StartUses \in Seq(Kinds) /\ StartUses # <<>>
  BY DEF HandlerUses, FlushUses, StartUses, Kinds
<1>2. <<"mysql">> \in Seq(Kinds) /\ Len(<<"mysql">>) = 1 /\ Len(FlushUses) \in Nat
  BY <1>1 DEF Kinds
<1>3. ResetUses \in Seq(Kinds) /\ Len(ResetUses) = 1 + Len(FlushUses)
  BY <1>1, <1>2 DEF ResetUses
<1> QED
  BY <1>1, <1>2, <1>3

\* What a thread that wants or has a connection still takes.
LEMMA HeadTail ==
  ASSUME Shape, NEW a \in Actors, at[a] \in Busy
  PROVE  Head(uses[a]) \in Kinds /\ Tail(uses[a]) \in Seq(Kinds)
<1>1. uses[a] \in Seq(Kinds) /\ uses[a] # <<>>
  BY DEF Shape
<1> QED
  BY <1>1

\* The threads of where are those of at, but for one that is notified.
Woken(where, k, B) ==
  \/ B = {} /\ where = at
  \/ \E b \in Asleep(k) : B = {b} /\ where = [at EXCEPT ![b] = "acquire"]

\* A thread is through with a connection: it has it no more, and one that slept
\* may be awake.
LEMMA GoOnStep ==
  ASSUME Shape, NEW a \in Actors, at[a] = "hold", NEW B, NEW where,
         Woken(where, Head(uses[a]), B), GoOn(a, where)
  PROVE  /\ at' \in [Actors -> Places] /\ running' \in [Actors -> Tasks \cup {Nothing}]
         /\ uses' \in [Actors -> Seq(Kinds)] /\ main' \in Stages /\ finished' \subseteq Tasks
         /\ \A x \in Actors : at'[x] \in Busy => uses'[x] # <<>>
         /\ main' = "loop" => at'[Main] = "idle"
         /\ \A j \in Kinds :
              /\ Holding(j)' = Holding(j) \ {a} /\ (a \in Holding(j) <=> j = Head(uses[a]))
              /\ Asleep(j)' = Asleep(j) \ B
              /\ Wanting(j) \cup (IF j = Head(uses[a]) THEN B ELSE {}) \subseteq Wanting(j)'
              /\ Alive(j)' => Alive(j)
         /\ \A p \in {"handler", "flush"} :
              Resting(p)' = Resting(p) /\ Looking(p) \subseteq Looking(p)'
<1> DEFINE k == Head(uses[a])
           rest == Tail(uses[a])
<1>1. k \in Kinds /\ rest \in Seq(Kinds)
  BY HeadTail DEF Busy
<1>2. B \subseteq Asleep(k) /\ where \in [Actors -> Places] /\ a \notin B
      /\ \A x \in Actors : where[x] = IF x \in B THEN "acquire" ELSE at[x]
  BY DEF Woken, Shape, Asleep, Places, Busy
<1>3. PICK q \in {"acquire", "idle", "look"} :
        /\ at' = [where EXCEPT ![a] = q]
        /\ (q = "acquire") <=> (rest # <<>>)
        /\ q = "idle" => a = Main
        /\ q = "look" => a # Main
  BY DEF GoOn
<1>4. \A x \in Actors : at'[x] = IF x = a THEN q ELSE IF x \in B THEN "acquire" ELSE at[x]
  BY <1>2, <1>3
<1>5. uses' \in [Actors -> Seq(Kinds)] /\ \A x \in Actors : uses'[x] = IF x = a THEN rest ELSE uses[x]
  BY <1>1 DEF GoOn, Shape
<1>6. at' \in [Actors -> Places]
  BY <1>2, <1>3 DEF Places, Busy
<1>7. running' \in [Actors -> Tasks \cup {Nothing}] /\ finished' \subseteq Tasks
  <2>1. CASE UNCHANGED <<running, finished>>
    BY <2>1 DEF Shape
  <2>2. CASE /\ running' = [running EXCEPT ![a] = Nothing]
             /\ finished' = finished \cup ({running[a]} \ {Nothing})
    BY <2>2 DEF Shape
  <2> QED
    BY <2>1, <2>2 DEF GoOn
<1>8. main' \in Stages /\ \A j \in Kinds : Alive(j)' => Alive(j)
  BY DEF GoOn, Shape, Stages, Alive
<1>9. \A x \in Actors : at'[x] \in Busy => uses'[x] # <<>>
  BY <1>2, <1>3, <1>4, <1>5 DEF Shape, Busy, Asleep
<1>10. ASSUME NEW j \in Kinds
       PROVE  /\ Holding(j)' = Holding(j) \ {a} /\ (a \in Holding(j) <=> j = k)
              /\ Asleep(j)' = Asleep(j) \ B
              /\ Wanting(j) \cup (IF j = k THEN B ELSE {}) \subseteq Wanting(j)'
  <2>1. \A x \in Actors : x \in Holding(j)' <=> x \in Holding(j) /\ x # a
    BY <1>2, <1>4, <1>5 DEF Holding, Asleep
  <2>2. \A x \in Actors : x \in Asleep(j)' <=> x \in Asleep(j) /\ x \notin B
    BY <1>2, <1>4, <1>5 DEF Asleep
  <2>3. \A x \in Actors : x \in Wanting(j) => x \in Wanting(j)'
    BY <1>2, <1>4, <1>5 DEF Wanting, Asleep
  <2>4. j = k => \A x \in B : x \in Wanting(j)'
    BY <1>2, <1>4, <1>5 DEF Wanting, Asleep
  <2>5. a \in Holding(j) <=> j = k
    BY DEF Holding
  <2>6. /\ Holding(j) \subseteq Actors /\ Holding(j)' \subseteq Actors
        /\ Asleep(j) \subseteq Actors /\ Asleep(j)' \subseteq Actors
        /\ Wanting(j) \subseteq Actors
    BY DEF Holding, Asleep, Wanting
  <2>7. Holding(j)' = Holding(j) \ {a} /\ Asleep(j)' = Asleep(j) \ B
    BY <2>1, <2>2, <2>6
  <2> HIDE DEF k
  <2> QED
    BY <2>3, <2>4, <2>5, <2>6, <2>7
<1>11. ASSUME NEW p \in {"handler", "flush"}
       PROVE  Resting(p)' = Resting(p) /\ Looking(p) \subseteq Looking(p)'
  <2>1. \A x \in Threads(p) : x \in Actors
    BY DEF Threads, Actors, Workers
  <2> QED
    BY <1>2, <1>3, <1>4, <2>1 DEF Resting, Looking, Asleep
<1>12. main' = "loop" => at'[Main] = "idle"
  <2>1. Main \in Actors
    BY DEF Actors
  <2>2. CASE a = Main
    BY <1>3, <1>4, <2>1, <2>2 DEF GoOn, Shape, Busy
  <2>3. CASE a # Main
    <3>1. main' = main
      BY <2>3 DEF GoOn
    <3>2. main = "loop" => Main \notin B /\ at[Main] = "idle"
      BY <1>2 DEF Shape, Asleep
    <3> QED
      BY <1>4, <2>1, <2>3, <3>1, <3>2
  <2> QED
    BY <2>2, <2>3
<1> HIDE DEF k, rest
<1> QED
  BY <1>5, <1>6, <1>7, <1>8, <1>9, <1>10, <1>11, <1>12 DEF k

\* Steps that take or give back no connection, and put nobody to sleep for one.
LEMMA ConnectionsFrame ==
  ASSUME IInv, UNCHANGED connVars,
         \A k \in Kinds : /\ Alive(k)' => Alive(k)
                          /\ Holding(k)' = Holding(k)
                          /\ Asleep(k)' \subseteq Asleep(k) /\ Wanting(k) \subseteq Wanting(k)'
  PROVE  Balance' /\ NoIdleConnection'
<1>1. Balance'
  BY DEF IInv, Balance, Lost, connVars
<1>2. ASSUME NEW k \in Kinds, Asleep(k)' # {}
      PROVE  free'[k] <= Cardinality(Wanting(k))'
  <2>1. free[k] \in Nat /\ free'[k] = free[k] /\ free[k] <= Cardinality(Wanting(k))
    BY <1>2 DEF IInv, Shape, NoIdleConnection, connVars
  <2>2. Wanting(k)' \in SUBSET Actors /\ Wanting(k) \in SUBSET Wanting(k)'
    BY DEF Wanting
  <2>3. /\ Cardinality(Wanting(k)) \in Nat /\ Cardinality(Wanting(k)') \in Nat
        /\ Cardinality(Wanting(k)) <= Cardinality(Wanting(k)')
    BY <2>2, Counting
  <2> QED
    BY <2>1, <2>3
<1> QED
  BY <1>1, <1>2 DEF NoIdleConnection

\* Steps that leave a thread pool no more tasks than notices, and no worker to
\* sleep that was awake.
LEMMA TasksFrame ==
  ASSUME IInv, Shape',
         \A p \in {"handler", "flush"} :
           /\ Resting(p)' \subseteq Resting(p) /\ Looking(p) \subseteq Looking(p)'
           /\ Resting(p)' # {} => Len(tasks'[p]) + notices[p] <= Len(tasks[p]) + notices'[p]
  PROVE  NoIdleTask'
<1> SUFFICES ASSUME NEW p \in {"handler", "flush"}, Resting(p)' # {}
             PROVE  Len(tasks'[p]) <= Cardinality(Looking(p)') + notices'[p]
  BY DEF NoIdleTask
<1>1. Looking(p)' \in SUBSET Actors /\ Looking(p) \in SUBSET Looking(p)'
  BY Sets DEF Looking, Threads, Actors, Workers
<1>2. /\ Cardinality(Looking(p)) \in Nat /\ Cardinality(Looking(p)') \in Nat
      /\ Cardinality(Looking(p)) <= Cardinality(Looking(p)')
  BY <1>1, Counting
<1>3. Len(tasks[p]) <= Cardinality(Looking(p)) + notices[p]
  BY DEF IInv, NoIdleTask
<1>4. /\ Len(tasks[p]) \in Nat /\ Len(tasks'[p]) \in Nat
      /\ notices[p] \in Nat /\ notices'[p] \in Nat
  BY DEF IInv, Shape
<1> QED
  BY <1>2, <1>3, <1>4

\* The threads stay where they are: enqueue, and steps of the process's end.
LEMMA StayInv ==
  ASSUME IInv,
         (\E t \in Tasks : Enqueue(t)) \/ Destroy \/ Stop \/ Join
  PROVE  IInv'
<1> USE DEF IInv
<1>1. UNCHANGED <<at, uses, running, finished, connVars>>
  BY DEF Enqueue, Destroy, Stop, Join, poolVars
<1>2. main' \in Stages /\ (main' = "loop" => main = "loop") /\ \A k \in Kinds : Alive(k)' => Alive(k)
  BY DEF Enqueue, Destroy, Stop, Join, Alive, Stages, Shape
<1>3. /\ \A k \in Kinds : /\ Holding(k)' = Holding(k) /\ Asleep(k)' = Asleep(k)
                          /\ Wanting(k)' = Wanting(k)
      /\ \A p \in {"handler", "flush"} : Resting(p)' = Resting(p) /\ Looking(p)' = Looking(p)
  BY <1>1 DEF Holding, Asleep, Wanting, Resting, Looking
<1>4. CASE UNCHANGED <<tasks, notices>>
  <2>1. stop' \in BOOLEAN
    BY DEF Enqueue, Destroy, Stop, Join, poolVars, Shape
  <2>2. Shape'
    BY <1>1, <1>2, <1>4, <2>1 DEF Shape, connVars
  <2>3. \A p \in {"handler", "flush"} : Len(tasks'[p]) + notices[p] <= Len(tasks[p]) + notices'[p]
    BY <1>4 DEF Shape
  <2> QED
    BY <1>1, <1>2, <1>3, <2>2, <2>3, ConnectionsFrame, TasksFrame
<1>5. CASE ~UNCHANGED <<tasks, notices>>
  <2>1. PICK t \in Tasks : /\ tasks' = [tasks EXCEPT ![Queue(t)] = Append(@, t)]
                          /\ notices' = [notices EXCEPT ![Queue(t)] = @ + 1]
                          /\ stop' = stop
    BY <1>5 DEF Enqueue, Destroy, Stop, Join, poolVars
  <2>2. Queue(t) \in {"handler", "flush"}
    BY Sets
  <2>3. \A p \in {"handler", "flush"} :
          /\ tasks'[p] = IF p = Queue(t) THEN Append(tasks[p], t) ELSE tasks[p]
          /\ notices'[p] = IF p = Queue(t) THEN notices[p] + 1 ELSE notices[p]
          /\ tasks[p] \in Seq(Tasks) /\ notices[p] \in Nat
    BY <2>1, <2>2 DEF Shape
  <2>4. tasks' \in [{"handler", "flush"} -> Seq(Tasks)] /\ notices' \in [{"handler", "flush"} -> Nat]
    BY <2>1, <2>2 DEF Shape
  <2>5. Shape'
    BY <1>1, <1>2, <2>1, <2>4 DEF Shape, connVars
  <2>6. \A p \in {"handler", "flush"} : Len(tasks'[p]) + notices[p] <= Len(tasks[p]) + notices'[p]
    <3>1. \A q \in Seq(Tasks) : Len(q) \in Nat /\ Len(Append(q, t)) = Len(q) + 1
      OBVIOUS
    <3> SUFFICES ASSUME NEW p \in {"handler", "flush"}
                 PROVE  Len(tasks'[p]) + notices[p] <= Len(tasks[p]) + notices'[p]
      OBVIOUS
    <3>2. CASE p = Queue(t)
      <4>1. tasks[p] \in Seq(Tasks) /\ tasks'[p] = Append(tasks[p], t)
        BY <2>3, <3>2
      <4>2. Len(tasks'[p]) = Len(tasks[p]) + 1 /\ Len(tasks[p]) \in Nat
        BY <3>1, <4>1
      <4>3. notices'[p] = notices[p] + 1 /\ notices[p] \in Nat
        BY <2>3, <3>2
      <4> QED
        BY <4>2, <4>3
    <3>3. CASE p # Queue(t)
      BY <2>3, <3>1, <3>3
    <3> QED
      BY <3>2, <3>3
  <2> QED
    BY <1>1, <1>2, <1>3, <2>5, <2>6, ConnectionsFrame, TasksFrame
<1> QED
  BY <1>4, <1>5

\* One thread moves between places where it neither wants nor has a connection.
LEMMA WorkerMoves ==
  ASSUME Shape, NEW w \in Workers, NEW q \in Places, at[w] \notin Busy, q \notin Busy,
         at' = [at EXCEPT ![w] = q], uses' = uses
  PROVE  /\ at' \in [Actors -> Places] /\ \A x \in Actors : at'[x] \in Busy => uses'[x] # <<>>
         /\ at'[Main] = at[Main]
         /\ \A k \in Kinds : /\ Holding(k)' = Holding(k) /\ Asleep(k)' = Asleep(k)
                             /\ Wanting(k)' = Wanting(k)
<1>1. \A x \in Actors : at'[x] = IF x = w THEN q ELSE at[x]
  BY DEF Shape
<1>2. at' \in [Actors -> Places]
  BY DEF Shape
<1>3. w \in Actors /\ Main \in Actors /\ w # Main
  BY DEF Workers, Actors
<1> QED
  BY <1>1, <1>2, <1>3 DEF Shape, Holding, Asleep, Wanting, Busy

\* A notification comes: a worker that rests looks again.
LEMMA NotifyOneInv ==
  ASSUME IInv, NEW p \in {"handler", "flush"}, NotifyOne(p)
  PROVE  IInv'
<1> USE DEF IInv
<1>1. /\ UNCHANGED <<tasks, stop, connVars, running, uses, main, finished>>
      /\ notices[p] \in Nat /\ notices[p] > 0 /\ notices' = [notices EXCEPT ![p] = @ - 1]
  BY DEF NotifyOne, Shape
<1>2. /\ notices' \in [{"handler", "flush"} -> Nat]
      /\ \A r \in {"handler", "flush"} :
           notices'[r] = IF r = p THEN notices[p] - 1 ELSE notices[r]
  BY <1>1 DEF Shape
<1>3. \A k \in Kinds : Alive(k)' => Alive(k)
  BY <1>1 DEF Alive
<1>4. CASE Resting(p) = {}
  <2>1. at' = at
    BY <1>4 DEF NotifyOne
  <2>2. Shape'
    BY <1>1, <1>2, <2>1 DEF Shape, connVars
  <2>3. /\ \A k \in Kinds : /\ Holding(k)' = Holding(k) /\ Asleep(k)' = Asleep(k)
                            /\ Wanting(k)' = Wanting(k)
        /\ \A r \in {"handler", "flush"} : Resting(r)' = Resting(r) /\ Looking(r)' = Looking(r)
    BY <1>1, <2>1 DEF Holding, Asleep, Wanting, Resting, Looking
  <2>4. \A r \in {"handler", "flush"} :
          Resting(r)' # {} => Len(tasks'[r]) + notices[r] <= Len(tasks[r]) + notices'[r]
    <3>1. \A r \in {"handler", "flush"} : Len(tasks[r]) \in Nat /\ notices[r] \in Nat
      BY DEF Shape
    <3> QED
      BY <1>1, <1>2, <1>4, <2>3, <3>1
  <2> QED
    BY <1>1, <1>3, <2>2, <2>3, <2>4, ConnectionsFrame, TasksFrame
<1>5. CASE Resting(p) # {}
  <2>1. PICK w \in Resting(p) : at' = [at EXCEPT ![w] = "look"]
    BY <1>5 DEF NotifyOne
  <2>2. w \in Threads(p) /\ w \in Workers /\ w \in Actors /\ at[w] = "waitTask"
    BY <2>1 DEF Resting, Threads, Workers, Actors
  <2>3. /\ at' \in [Actors -> Places] /\ \A x \in Actors : at'[x] \in Busy => uses'[x] # <<>>
        /\ at'[Main] = at[Main]
        /\ \A k \in Kinds : /\ Holding(k)' = Holding(k) /\ Asleep(k)' = Asleep(k)
                            /\ Wanting(k)' = Wanting(k)
    BY <1>1, <2>1, <2>2, WorkerMoves DEF Busy, Places
  <2>4. Shape'
    BY <1>1, <1>2, <2>3 DEF Shape, connVars
  <2>5. Balance' /\ NoIdleConnection'
    BY <1>1, <1>3, <2>3, ConnectionsFrame
  <2>6. \A x \in Actors : at'[x] = IF x = w THEN "look" ELSE at[x]
    BY <2>1 DEF Shape
  <2>7. \A r \in {"handler", "flush"} :
          Resting(r)' \subseteq Resting(r) /\ Looking(r)' = Looking(r) \cup (IF r = p THEN {w} ELSE {})
    <3>1. \A r \in {"handler", "flush"} : Threads(r) \subseteq Actors /\ (w \in Threads(r) => r = p)
      BY <2>2, Sets DEF Threads, Actors, Workers
    <3> QED
      BY <2>2, <2>6, <3>1 DEF Resting, Looking
  <2>8. w \notin Looking(p)
    BY <2>2 DEF Looking
  <2>9. ASSUME NEW r \in {"handler", "flush"}, Resting(r)' # {}
        PROVE  Len(tasks'[r]) <= Cardinality(Looking(r)') + notices'[r]
    <3>1. Len(tasks[r]) <= Cardinality(Looking(r)) + notices[r] /\ tasks'[r] = tasks[r]
      BY <1>1, <2>7, <2>9 DEF NoIdleTask
    <3>2. Looking(r) \in SUBSET Actors /\ Cardinality(Looking(r)) \in Nat
      BY Sets, Counting
    <3>3. CASE r = p
      <4>1. Cardinality(Looking(r)') = Cardinality(Looking(r)) + 1
        BY <2>2, <2>7, <2>8, <3>2, <3>3, Counting
      <4>2. Len(tasks[r]) \in Nat /\ notices'[r] = notices[r] - 1
        BY <1>2, <3>3 DEF Shape
      <4> QED
        BY <1>1, <3>1, <3>2, <3>3, <4>1, <4>2
    <3>4. CASE r # p
      BY <1>2, <2>7, <3>1, <3>4
    <3> QED
      BY <3>3, <3>4
  <2>10. NoIdleTask'
    BY <2>9 DEF NoIdleTask
  <2> QED
    BY <2>4, <2>5, <2>10
<1> QED
  BY <1>4, <1>5

\* A worker finds nothing to do and sleeps, or leaves a pool that has stopped.
LEMMA RestInv ==
  ASSUME IInv, NEW w \in Workers, Rest(w)
  PROVE  IInv'
<1> USE DEF IInv
<1> DEFINE p == PoolOf(w)
<1>1. /\ UNCHANGED <<tasks, notices, stop, connVars, running, uses, main, finished>>
      /\ at[w] = "look" /\ tasks[p] = <<>>
  BY DEF Rest, poolVars
<1>2. PICK q \in {"exited", "waitTask"} : at' = [at EXCEPT ![w] = q]
  BY DEF Rest
<1>3. w \in Actors /\ p \in {"handler", "flush"}
  BY Sets
<1>4. /\ at' \in [Actors -> Places] /\ \A x \in Actors : at'[x] \in Busy => uses'[x] # <<>>
      /\ at'[Main] = at[Main]
      /\ \A k \in Kinds : /\ Holding(k)' = Holding(k) /\ Asleep(k)' = Asleep(k)
                          /\ Wanting(k)' = Wanting(k)
  BY <1>1, <1>2, <1>3, WorkerMoves DEF Busy, Places
<1>5. Shape'
  BY <1>1, <1>4 DEF Shape, connVars
<1>6. Balance' /\ NoIdleConnection'
  BY <1>1, <1>4, ConnectionsFrame DEF Alive
<1>7. ASSUME NEW r \in {"handler", "flush"}, Resting(r)' # {}
      PROVE  Len(tasks'[r]) <= Cardinality(Looking(r)') + notices'[r]
  <2>1. \A x \in Actors : at'[x] = IF x = w THEN q ELSE at[x]
    BY <1>2 DEF Shape
  <2>2. CASE r = p
    <3>1. tasks'[r] = <<>> /\ notices'[r] \in Nat
      BY <1>1, <1>3, <2>2 DEF Shape
    <3>2. Looking(r)' \in SUBSET Actors
      BY Sets DEF Looking, Threads, Actors, Workers
    <3>3. Cardinality(Looking(r)') \in Nat
      BY <3>2, Counting
    <3> QED
      BY <3>1, <3>3
  <2>3. CASE r # p
    <3>1. w \notin Threads(r) /\ Threads(r) \subseteq Actors
      BY <2>3, Sets DEF Threads, Actors, Workers
    <3>2. Resting(r)' = Resting(r) /\ Looking(r)' = Looking(r)
      BY <2>1, <3>1 DEF Resting, Looking
    <3> QED
      BY <1>1, <1>7, <3>2 DEF NoIdleTask
  <2> QED
    BY <2>2, <2>3
<1> QED
  BY <1>5, <1>6, <1>7 DEF NoIdleTask

\* A worker that looks takes a task, and will want connections.
LEMMA TakeInv ==
  ASSUME IInv, NEW w \in Workers, Take(w)
  PROVE  IInv'
<1> USE DEF IInv
<1> DEFINE p == PoolOf(w)
<1>1. /\ UNCHANGED <<notices, stop, connVars, main, finished>>
      /\ at[w] = "look" /\ tasks[p] # <<>> /\ at' = [at EXCEPT ![w] = "acquire"]
      /\ tasks' = [tasks EXCEPT ![p] = Tail(@)]
      /\ running' = [running EXCEPT ![w] = Head(tasks[p])]
  BY DEF Take
<1>2. PICK s \in Seq(Kinds) : s # <<>> /\ uses' = [uses EXCEPT ![w] = s]
  BY Uses DEF Take
<1>3. w \in Actors /\ p \in {"handler", "flush"}
  BY Sets
<1>4. tasks[p] \in Seq(Tasks) /\ Head(tasks[p]) \in Tasks /\ Tail(tasks[p]) \in Seq(Tasks)
      /\ Len(Tail(tasks[p])) = Len(tasks[p]) - 1
  <2>1. tasks[p] \in Seq(Tasks)
    BY <1>3 DEF Shape
  <2> QED
    BY <1>1, <2>1
<1>5. \A x \in Actors : /\ at'[x] = IF x = w THEN "acquire" ELSE at[x]
                        /\ uses'[x] = IF x = w THEN s ELSE uses[x]
  BY <1>1, <1>2 DEF Shape
<1>6. Shape'
  <2>1. /\ tasks' \in [{"handler", "flush"} -> Seq(Tasks)]
        /\ running' \in [Actors -> Tasks \cup {Nothing}]
    BY <1>1, <1>3, <1>4 DEF Shape
  <2>2. at' \in [Actors -> Places] /\ uses' \in [Actors -> Seq(Kinds)]
    BY <1>1, <1>2 DEF Shape, Places, Busy
  <2>3. \A x \in Actors : at'[x] \in Busy => uses'[x] # <<>>
    BY <1>2, <1>5 DEF Shape
  <2> QED
    BY <1>1, <2>1, <2>2, <2>3 DEF Shape, connVars
<1>7. \A k \in Kinds : /\ Holding(k)' = Holding(k) /\ Asleep(k)' = Asleep(k)
                       /\ Wanting(k) \subseteq Wanting(k)'
  BY <1>1, <1>5 DEF Holding, Asleep, Wanting
<1>8. Balance' /\ NoIdleConnection'
  BY <1>1, <1>7, ConnectionsFrame DEF Alive
<1>9. ASSUME NEW r \in {"handler", "flush"}, Resting(r)' # {}
      PROVE  Len(tasks'[r]) <= Cardinality(Looking(r)') + notices'[r]
  <2>1. Threads(r) \subseteq Actors /\ (w \in Threads(r) <=> r = p)
    BY Sets DEF Threads, Actors, Workers
  <2>2. Resting(r)' = Resting(r) /\ Looking(r)' = Looking(r) \ {w} /\ (r = p => w \in Looking(r))
    BY <1>1, <1>5, <2>1 DEF Resting, Looking
  <2>3. Len(tasks[r]) <= Cardinality(Looking(r)) + notices[r] /\ notices' = notices
    BY <1>1, <1>9, <2>2 DEF NoIdleTask
  <2>4. Looking(r) \in SUBSET Actors /\ Cardinality(Looking(r)) \in Nat
    BY Sets, Counting
  <2>5. CASE r = p
    <3>1. Cardinality(Looking(r)') = Cardinality(Looking(r)) - 1
      BY <2>2, <2>4, <2>5, Counting
    <3>2. tasks'[r] = Tail(tasks[r]) /\ Len(tasks[r]) \in Nat /\ notices[r] \in Nat
      BY <1>1, <1>3, <2>5 DEF Shape
    <3>3. Len(tasks'[r]) = Len(tasks[r]) - 1
      BY <1>4, <2>5, <3>2
    <3> QED
      BY <2>3, <2>4, <3>1, <3>2, <3>3
  <2>6. CASE r # p
    <3>1. tasks'[r] = tasks[r] /\ Looking(r)' = Looking(r)
      BY <1>1, <2>1, <2>2, <2>6 DEF Shape, Looking
    <3> QED
      BY <2>3, <3>1
  <2> QED
    BY <2>5, <2>6
<1> QED
  BY <1>6, <1>8, <1>9 DEF NoIdleTask

\* A thread moves between the places of one that wants or has a connection.
LEMMA BusyMoves ==
  ASSUME Shape, NEW a \in Actors, NEW q \in Busy, at[a] \in Busy,
         at' = [at EXCEPT ![a] = q], uses' = uses
  PROVE  /\ at' \in [Actors -> Places] /\ \A x \in Actors : at'[x] \in Busy => uses'[x] # <<>>
         /\ \A x \in Actors : at'[x] = IF x = a THEN q ELSE at[x]
         /\ main = "loop" => at'[Main] = "idle"
         /\ \A p \in {"handler", "flush"} : Resting(p)' = Resting(p) /\ Looking(p)' = Looking(p)
<1>1. \A x \in Actors : at'[x] = IF x = a THEN q ELSE at[x]
  BY DEF Shape
<1>2. at' \in [Actors -> Places]
  BY DEF Shape, Places
<1>3. \A p \in {"handler", "flush"} : Threads(p) \subseteq Actors
  BY DEF Threads, Actors, Workers
<1>4. Main \in Actors
  BY DEF Actors
<1> QED
  BY <1>1, <1>2, <1>3, <1>4 DEF Shape, Resting, Looking, Busy

\* A wake-up that nobody has caused.
LEMMA SpuriousInv ==
  ASSUME IInv, NEW a \in Actors, Spurious(a)
  PROVE  IInv'
<1> USE DEF IInv
<1>1. /\ UNCHANGED <<tasks, notices, stop, connVars, running, uses, main, finished>>
      /\ at[a] = "waitConn" /\ at' = [at EXCEPT ![a] = "acquire"]
  BY DEF Spurious, poolVars
<1>2. /\ at' \in [Actors -> Places] /\ \A x \in Actors : at'[x] \in Busy => uses'[x] # <<>>
      /\ \A x \in Actors : at'[x] = IF x = a THEN "acquire" ELSE at[x]
      /\ main = "loop" => at'[Main] = "idle"
      /\ \A p \in {"handler", "flush"} : Resting(p)' = Resting(p) /\ Looking(p)' = Looking(p)
  <2>1. at[a] \in Busy /\ "acquire" \in Busy
    BY <1>1 DEF Busy
  <2> QED
    BY <1>1, <2>1, BusyMoves
<1>3. Shape'
  BY <1>1, <1>2 DEF Shape, connVars
<1>4. \A k \in Kinds : /\ Holding(k)' = Holding(k) /\ Asleep(k)' \subseteq Asleep(k)
                       /\ Wanting(k) \subseteq Wanting(k)'
  BY <1>1, <1>2 DEF Holding, Asleep, Wanting
<1>5. \A p \in {"handler", "flush"} : Len(tasks'[p]) + notices[p] <= Len(tasks[p]) + notices'[p]
  BY <1>1 DEF Shape
<1> QED
  BY <1>1, <1>2, <1>3, <1>4, <1>5, ConnectionsFrame, TasksFrame DEF Alive

\* getConnection takes a free connection or sleeps.
LEMMA GetConnectionInv ==
  ASSUME IInv, NEW a \in Actors, GetConnection(a)
  PROVE  IInv'
<1> USE DEF IInv
<1>1. at[a] = "acquire" /\ Head(uses[a]) \in Kinds
  BY HeadTail DEF GetConnection, Busy
<1>2. PICK k \in Kinds : k = Head(uses[a])
  BY <1>1
<1>3. /\ UNCHANGED <<tasks, notices, stop, created, leaked, running, uses, main, finished>>
      /\ \/ free[k] = 0 /\ at' = [at EXCEPT ![a] = "waitConn"] /\ free' = free
         \/ /\ free[k] # 0 /\ at' = [at EXCEPT ![a] = "hold"]
            /\ free' = [free EXCEPT ![k] = @ - 1]
  BY <1>2 DEF GetConnection, poolVars
<1>4. PICK q \in {"waitConn", "hold"} :
        /\ at' = [at EXCEPT ![a] = q]
        /\ q = "waitConn" => free[k] = 0 /\ free' = free
        /\ q = "hold" => free[k] # 0 /\ free' = [free EXCEPT ![k] = @ - 1]
  BY <1>3
<1>5. /\ at' \in [Actors -> Places] /\ \A x \in Actors : at'[x] \in Busy => uses'[x] # <<>>
      /\ \A x \in Actors : at'[x] = IF x = a THEN q ELSE at[x]
      /\ main = "loop" => at'[Main] = "idle"
      /\ \A p \in {"handler", "flush"} : Resting(p)' = Resting(p) /\ Looking(p)' = Looking(p)
  <2>1. at[a] \in Busy /\ q \in Busy
    BY <1>1 DEF Busy
  <2> QED
    BY <1>3, <1>4, <2>1, BusyMoves
<1>6. /\ free \in [Kinds -> Nat] /\ free' \in [Kinds -> Nat]
      /\ \A j \in Kinds : free'[j] = IF j = k /\ q = "hold" THEN free[k] - 1 ELSE free[j]
  <2>1. free \in [Kinds -> Nat]
    BY DEF Shape
  <2>2. CASE q = "waitConn"
    BY <1>4, <2>1, <2>2
  <2>3. CASE q = "hold"
    <3>1. free[k] \in Nat /\ free[k] - 1 \in Nat /\ free' = [free EXCEPT ![k] = free[k] - 1]
      BY <1>4, <2>1, <2>3
    <3> QED
      BY <2>1, <2>3, <3>1
  <2> QED
    BY <2>2, <2>3
<1>7. Shape'
  BY <1>3, <1>5, <1>6 DEF Shape
<1>8. ASSUME NEW j \in Kinds
      PROVE  /\ Holding(j)' = Holding(j) \cup (IF j = k /\ q = "hold" THEN {a} ELSE {})
             /\ Asleep(j)' = Asleep(j) \cup (IF j = k /\ q = "waitConn" THEN {a} ELSE {})
             /\ Wanting(j)' = Wanting(j) \ (IF j = k THEN {a} ELSE {})
             /\ a \notin Holding(j) /\ (a \in Wanting(j) <=> j = k)
             /\ Holding(j) \in SUBSET Actors /\ Wanting(j) \in SUBSET Actors
             /\ Cardinality(Holding(j)) \in Nat /\ Cardinality(Wanting(j)) \in Nat
  <2>1. /\ Holding(j)' = Holding(j) \cup (IF j = k /\ q = "hold" THEN {a} ELSE {})
        /\ Asleep(j)' = Asleep(j) \cup (IF j = k /\ q = "waitConn" THEN {a} ELSE {})
        /\ Wanting(j)' = Wanting(j) \ (IF j = k THEN {a} ELSE {})
    BY <1>1, <1>2, <1>3, <1>5 DEF Holding, Asleep, Wanting
  <2>2. a \notin Holding(j) /\ (a \in Wanting(j) <=> j = k)
    BY <1>1, <1>2 DEF Holding, Wanting
  <2> QED
    BY <2>1, <2>2, Sets, Counting
<1>9. Balance'
  <2> SUFFICES ASSUME NEW j \in Kinds
               PROVE  /\ free'[j] + Cardinality(Holding(j)') + Lost(j)' <= created'[j]
                      /\ Alive(j)' => free'[j] + Cardinality(Holding(j)') + Lost(j)' = created'[j]
    BY DEF Balance
  <2>1. free'[j] + Cardinality(Holding(j)') = free[j] + Cardinality(Holding(j))
    <3>1. CASE j = k /\ q = "hold"
      <4>1. Cardinality(Holding(j)') = Cardinality(Holding(j)) + 1
        BY <1>8, <3>1, Counting
      <4> QED
        BY <1>6, <1>8, <3>1, <4>1
    <3>2. CASE ~(j = k /\ q = "hold")
      BY <1>6, <1>8, <3>2
    <3> QED
      BY <3>1, <3>2
  <2>2. Lost(j)' = Lost(j) /\ created' = created /\ (Alive(j)' <=> Alive(j))
    BY <1>3 DEF Lost, Alive
  <2> QED
    BY <2>1, <2>2 DEF Balance
<1>10. NoIdleConnection'
  <2> SUFFICES ASSUME NEW j \in Kinds, Asleep(j)' # {}
               PROVE  free'[j] <= Cardinality(Wanting(j)')
    BY DEF NoIdleConnection
  <2>1. CASE j = k /\ q = "hold"
    <3>1. free[j] <= Cardinality(Wanting(j))
      BY <1>8, <2>1 DEF NoIdleConnection
    <3>2. Cardinality(Wanting(j)') = Cardinality(Wanting(j)) - 1
      BY <1>8, <2>1, Counting
    <3> QED
      BY <1>6, <1>8, <2>1, <3>1, <3>2
  <2>2. CASE j = k /\ q = "waitConn"
    <3>1. Wanting(j)' \in SUBSET Actors
      BY <1>8
    <3>2. Cardinality(Wanting(j)') \in Nat /\ free'[j] = 0
      BY <1>4, <1>6, <2>2, <3>1, Counting
    <3> QED
      BY <3>2
  <2>3. CASE j # k
    <3>1. Asleep(j)' = Asleep(j) /\ Wanting(j)' = Wanting(j) /\ free'[j] = free[j]
      BY <1>6, <1>8, <2>3
    <3> QED
      BY <3>1 DEF NoIdleConnection
  <2> QED
    BY <2>1, <2>2, <2>3
<1>11. \A p \in {"handler", "flush"} : Len(tasks'[p]) + notices[p] <= Len(tasks[p]) + notices'[p]
  BY <1>3 DEF Shape
<1> QED
  BY <1>5, <1>7, <1>9, <1>10, <1>11, TasksFrame

\* A thread gives its connection back, or loses it, and goes on.
LEMMA HandOver ==
  ASSUME IInv, NEW a \in Actors, at[a] = "hold",
         NEW k \in Kinds, k = Head(uses[a]),
         \/ leaked' = leaked /\ (free' = free \/ free' = [free EXCEPT ![k] = @ + 1])
         \/ leaked' = leaked + 1 /\ free' = free /\ k = "mysql",
         Alive(k) => ~UNCHANGED <<free, leaked>>,
         NEW B, NEW where, Woken(where, k, B), GoOn(a, where),
         B = {} => Asleep(k) = {} \/ free' = free,
         UNCHANGED <<poolVars, created>>
  PROVE  IInv'
<1> USE DEF IInv
<1>1. /\ at' \in [Actors -> Places] /\ running' \in [Actors -> Tasks \cup {Nothing}]
      /\ uses' \in [Actors -> Seq(Kinds)] /\ main' \in Stages /\ finished' \subseteq Tasks
      /\ \A x \in Actors : at'[x] \in Busy => uses'[x] # <<>>
      /\ main' = "loop" => at'[Main] = "idle"
      /\ \A j \in Kinds :
           /\ Holding(j)' = Holding(j) \ {a} /\ (a \in Holding(j) <=> j = k)
           /\ Asleep(j)' = Asleep(j) \ B
           /\ Wanting(j) \cup (IF j = k THEN B ELSE {}) \subseteq Wanting(j)'
           /\ Alive(j)' => Alive(j)
      /\ \A p \in {"handler", "flush"} :
           Resting(p)' = Resting(p) /\ Looking(p) \subseteq Looking(p)'
  BY GoOnStep
<1>2. /\ free \in [Kinds -> Nat] /\ leaked \in Nat /\ leaked' \in Nat
      /\ free' \in [Kinds -> Nat]
  <2>1. free \in [Kinds -> Nat] /\ leaked \in Nat
    BY DEF Shape
  <2>2. CASE leaked' = leaked /\ (free' = free \/ free' = [free EXCEPT ![k] = @ + 1])
    BY <2>1, <2>2
  <2>3. CASE leaked' = leaked + 1 /\ free' = free
    BY <2>1, <2>3
  <2> QED
    BY <2>1, <2>2, <2>3
<1>3. PICK n \in {0, 1}, l \in {0, 1} :
        /\ \A j \in Kinds : free'[j] = IF j = k THEN free[k] + n ELSE free[j]
        /\ leaked' = leaked + l /\ (n = 0 \/ l = 0) /\ (l = 1 => k = "mysql")
        /\ (Alive(k) => n + l = 1) /\ (B = {} => Asleep(k) = {} \/ n = 0)
  <2>1. CASE UNCHANGED <<free, leaked>>
    BY <1>2, <2>1
  <2>2. CASE leaked' = leaked + 1 /\ free' = free /\ k = "mysql"
    BY <1>2, <2>2
  <2>3. CASE leaked' = leaked /\ free' = [free EXCEPT ![k] = @ + 1]
    <3>1. free' # free /\ \A j \in Kinds : free'[j] = IF j = k THEN free[k] + 1 ELSE free[j]
      BY <1>2, <2>3
    <3>2. B = {} => Asleep(k) = {}
      BY <3>1
    <3> QED
      BY <1>2, <2>3, <3>1, <3>2
  <2> QED
    BY <2>1, <2>2, <2>3
<1>4. Shape'
  BY <1>1, <1>2, <1>3 DEF Shape, poolVars
<1>5. Balance'
  <2> SUFFICES ASSUME NEW j \in Kinds
               PROVE  /\ free'[j] + Cardinality(Holding(j)') + Lost(j)' <= created'[j]
                      /\ Alive(j)' => free'[j] + Cardinality(Holding(j)') + Lost(j)' = created'[j]
    BY DEF Balance
  <2>1. Holding(j) \in SUBSET Actors /\ Cardinality(Holding(j)) \in Nat
    BY Sets, Counting
  <2>2. created'[j] = created[j] /\ created[j] \in Nat /\ (Alive(j)' => Alive(j))
    BY <1>1 DEF Shape
  <2>3. Lost(j) \in Nat /\ Lost(j)' = IF j = k THEN Lost(j) + l ELSE Lost(j)
    BY <1>2, <1>3 DEF Lost, Kinds
  <2>4. CASE j = k
    <3>1. Cardinality(Holding(j)') = Cardinality(Holding(j)) - 1
      BY <1>1, <2>1, <2>4, Counting
    <3>2. free'[j] = free[j] + n /\ free[j] \in Nat /\ Lost(j)' = Lost(j) + l
      BY <1>2, <1>3, <2>3, <2>4
    <3>3. free'[j] + Cardinality(Holding(j)') + Lost(j)'
            = free[j] + Cardinality(Holding(j)) + Lost(j) + (n + l) - 1
      BY <2>1, <2>3, <3>1, <3>2
    <3>4. n + l <= 1 /\ n + l \in Nat /\ (Alive(j) => n + l = 1)
      BY <1>3, <2>4
    <3>5. /\ free[j] + Cardinality(Holding(j)) + Lost(j) <= created[j]
          /\ Alive(j) => free[j] + Cardinality(Holding(j)) + Lost(j) = created[j]
      BY DEF Balance
    <3> QED
      BY <2>1, <2>2, <2>3, <3>2, <3>3, <3>4, <3>5
  <2>5. CASE j # k
    <3>1. Holding(j)' = Holding(j)
      <4>1. a \notin Holding(j) /\ Holding(j)' = Holding(j) \ {a}
        BY <1>1, <2>5
      <4> QED
        BY <4>1
    <3>2. free'[j] = free[j] /\ Lost(j)' = Lost(j)
      BY <1>2, <1>3, <2>3, <2>5
    <3> QED
      BY <2>2, <3>1, <3>2 DEF Balance
  <2> QED
    BY <2>4, <2>5
<1>6. NoIdleConnection'
  <2> SUFFICES ASSUME NEW j \in Kinds, Asleep(j)' # {}
               PROVE  free'[j] <= Cardinality(Wanting(j)')
    BY DEF NoIdleConnection
  <2>1. free[j] <= Cardinality(Wanting(j)) /\ free[j] \in Nat
    BY <1>1, <1>2, <1>3 DEF NoIdleConnection
  <2>2. /\ Wanting(j) \in SUBSET Actors /\ Wanting(j)' \in SUBSET Actors
        /\ Wanting(j) \in SUBSET Wanting(j)'
    BY <1>1 DEF Wanting
  <2>3. /\ Cardinality(Wanting(j)) \in Nat /\ Cardinality(Wanting(j)') \in Nat
        /\ Cardinality(Wanting(j)) <= Cardinality(Wanting(j)')
    BY <2>2, Counting
  <2>4. CASE j # k \/ n = 0
    <3>1. free'[j] = free[j]
      BY <1>2, <1>3, <2>4
    <3> QED
      BY <2>1, <2>3, <3>1
  <2>5. CASE j = k /\ n = 1
    <3>1. B # {}
      BY <1>1, <1>3, <2>5
    <3>2. PICK b \in Asleep(k) : B = {b}
      BY <3>1 DEF Woken
    <3>3. b \in Actors \ Wanting(j) /\ Wanting(j) \cup {b} \in SUBSET Wanting(j)'
      BY <1>1, <2>5, <3>2 DEF Asleep, Wanting
    <3>4. /\ Cardinality(Wanting(j) \cup {b}) = Cardinality(Wanting(j)) + 1
          /\ Cardinality(Wanting(j) \cup {b}) <= Cardinality(Wanting(j)')
      BY <2>2, <3>3, Counting
    <3>5. free'[j] = free[j] + 1
      BY <1>2, <1>3, <2>5
    <3> QED
      BY <2>1, <2>3, <3>4, <3>5
  <2> QED
    BY <2>4, <2>5
<1>7. \A p \in {"handler", "flush"} : Len(tasks'[p]) + notices[p] <= Len(tasks[p]) + notices'[p]
  BY DEF Shape, poolVars
<1> QED
  BY <1>1, <1>4, <1>5, <1>6, <1>7, TasksFrame

\* releaseConnection, with or without its pool, and createGroup's early return.
LEMMA ReleaseInv ==
  ASSUME IInv, NEW a \in Actors, Release(a) \/ ReleaseLate(a) \/ (a \in Workers /\ Leak(a))
  PROVE  IInv'
<1>1. at[a] = "hold" /\ Head(uses[a]) \in Kinds /\ free \in [Kinds -> Nat] /\ leaked \in Nat
  BY HeadTail DEF IInv, Shape, Busy, Release, ReleaseLate, Leak
<1>2. PICK k \in Kinds : k = Head(uses[a])
  BY <1>1
<1>3. ASSUME NEW n \in {0, 1}, Give(a, k, n), Alive(k) => n = 1, UNCHANGED <<poolVars, created, leaked>>
      PROVE  IInv'
  <2>1. /\ leaked' = leaked /\ UNCHANGED <<poolVars, created>>
        /\ free' = free \/ free' = [free EXCEPT ![k] = @ + 1]
        /\ Alive(k) => ~UNCHANGED <<free, leaked>>
    <3>1. leaked' = leaked /\ UNCHANGED <<poolVars, created>> /\ free' = [free EXCEPT ![k] = free[k] + n]
      BY <1>3 DEF Give
    <3>2. free[k] \in Nat /\ free[k] + 1 # free[k] /\ free[k] + 0 = free[k]
      BY <1>1
    <3>3. CASE n = 0
      BY <1>1, <1>3, <3>1, <3>2, <3>3
    <3>4. CASE n = 1
      BY <1>1, <3>1, <3>2, <3>4
    <3> QED
      BY <3>3, <3>4
  <2>2. PICK B, where : /\ Woken(where, k, B) /\ GoOn(a, where)
                        /\ B = {} => Asleep(k) = {}
    <3>1. CASE Asleep(k) = {}
      <4>1. Woken(at, k, {}) /\ GoOn(a, at)
        BY <1>3, <3>1 DEF Woken, Give
      <4> QED
        BY <3>1, <4>1
    <3>2. CASE Asleep(k) # {}
      <4>1. PICK b \in Asleep(k) : GoOn(a, [at EXCEPT ![b] = "acquire"])
        BY <1>3, <3>2 DEF Give
      <4>2. Woken([at EXCEPT ![b] = "acquire"], k, {b}) /\ {b} # {}
        BY DEF Woken
      <4> QED
        BY <4>1, <4>2
    <3> QED
      BY <3>1, <3>2
  <2> QED
    BY <1>1, <1>2, <2>1, <2>2, HandOver
<1>4. CASE Release(a)
  BY <1>2, <1>3, <1>4 DEF Release
<1>5. CASE ReleaseLate(a)
  <2>1. CASE \E n \in {0, 1} : Give(a, Head(uses[a]), n)
    BY <1>2, <1>3, <1>5, <2>1 DEF ReleaseLate
  <2>2. CASE main' = "aborted" /\ UNCHANGED <<free, at, running, uses, finished>>
    <3>1. UNCHANGED <<tasks, notices, stop, connVars, at, running, uses, finished>>
      BY <1>5, <2>2 DEF ReleaseLate, poolVars, connVars
    <3>2. Shape'
      BY <2>2, <3>1 DEF IInv, Shape, Stages, connVars
    <3>3. /\ \A k2 \in Kinds : /\ Holding(k2)' = Holding(k2) /\ Asleep(k2)' = Asleep(k2)
                               /\ Wanting(k2)' = Wanting(k2) /\ (Alive(k2)' => Alive(k2))
          /\ \A p \in {"handler", "flush"} : Resting(p)' = Resting(p) /\ Looking(p)' = Looking(p)
      BY <2>2, <3>1 DEF Holding, Asleep, Wanting, Resting, Looking, Alive
    <3>4. \A p \in {"handler", "flush"} : Len(tasks'[p]) + notices[p] <= Len(tasks[p]) + notices'[p]
      BY <3>1 DEF IInv, Shape
    <3> QED
      BY <3>1, <3>2, <3>3, <3>4, ConnectionsFrame, TasksFrame DEF IInv
  <2> QED
    BY <1>5, <2>1, <2>2 DEF ReleaseLate
<1>6. CASE a \in Workers /\ Leak(a)
  <2>1. k = "mysql" /\ leaked' = leaked + 1 /\ GoOn(a, at) /\ UNCHANGED <<poolVars, created, free>>
    BY <1>2, <1>6 DEF Leak
  <2>2. leaked' # leaked /\ free' = free /\ UNCHANGED <<poolVars, created>>
    BY <1>1, <2>1
  <2>3. Woken(at, k, {})
    BY DEF Woken
  <2> QED
    BY <1>1, <1>2, <2>1, <2>2, <2>3, HandOver
<1> QED
  BY <1>4, <1>5, <1>6

\* SIGINT on the main thread, and the emptying of MysqlPool.
LEMMA MainInv ==
  ASSUME IInv, Interrupt \/ Drain
  PROVE  IInv'
<1> USE DEF IInv
<1>1. UNCHANGED <<tasks, notices, stop, created, leaked, running, finished>> /\ Main \in Actors
  BY DEF Interrupt, Drain, poolVars, connVars, Actors
<1>2. \A p \in {"handler", "flush"} : /\ Len(tasks'[p]) + notices[p] <= Len(tasks[p]) + notices'[p]
                                     /\ Main \notin Threads(p) /\ Threads(p) \subseteq Actors
  BY <1>1, Sets DEF Shape, Threads, Actors, Workers
<1>3. CASE Drain
  <2>1. UNCHANGED <<at, uses>> /\ main' = "destroy" /\ main = "drain" /\ free' = [free EXCEPT !["mysql"] = 0]
    BY <1>3 DEF Drain
  <2>2. /\ free \in [Kinds -> Nat] /\ free' \in [Kinds -> Nat]
        /\ \A k \in Kinds : free'[k] = IF k = "mysql" THEN 0 ELSE free[k]
    BY <2>1 DEF Shape, Kinds
  <2>3. Shape'
    BY <1>1, <2>1, <2>2 DEF Shape, Stages
  <2>4. /\ \A k \in Kinds : /\ Holding(k)' = Holding(k) /\ Asleep(k)' = Asleep(k)
                            /\ Wanting(k)' = Wanting(k)
        /\ \A p \in {"handler", "flush"} : Resting(p)' = Resting(p) /\ Looking(p)' = Looking(p)
    BY <2>1 DEF Holding, Asleep, Wanting, Resting, Looking
  <2>5. ASSUME NEW k \in Kinds
        PROVE  /\ free'[k] <= free[k] /\ (Alive(k)' => k = "redis" /\ free'[k] = free[k] /\ Alive(k))
               /\ Lost(k)' = Lost(k) /\ Lost(k) \in Nat /\ created'[k] = created[k] /\ created[k] \in Nat
               /\ free'[k] \in Nat /\ free[k] \in Nat
               /\ Cardinality(Holding(k)) \in Nat /\ Cardinality(Wanting(k)) \in Nat
    <3>1. Cardinality(Holding(k)) \in Nat /\ Cardinality(Wanting(k)) \in Nat
      BY Sets, Counting
    <3>2. Lost(k)' = Lost(k) /\ Lost(k) \in Nat /\ created'[k] = created[k] /\ created[k] \in Nat
      BY <1>1 DEF Lost, Shape
    <3>3. Alive(k)' => k = "redis" /\ Alive(k)
      BY <2>1 DEF Alive
    <3> QED
      BY <2>2, <3>1, <3>2, <3>3
  <2>6. Balance'
    <3> SUFFICES ASSUME NEW k \in Kinds
                 PROVE  /\ free'[k] + Cardinality(Holding(k)') + Lost(k)' <= created'[k]
                        /\ Alive(k)' => free'[k] + Cardinality(Holding(k)') + Lost(k)' = created'[k]
      BY DEF Balance
    <3>1. /\ free[k] + Cardinality(Holding(k)) + Lost(k) <= created[k]
          /\ Alive(k) => free[k] + Cardinality(Holding(k)) + Lost(k) = created[k]
      BY DEF Balance
    <3> QED
      BY <2>4, <2>5, <3>1
  <2>7. NoIdleConnection'
    <3> SUFFICES ASSUME NEW k \in Kinds, Asleep(k)' # {}
                 PROVE  free'[k] <= Cardinality(Wanting(k)')
      BY DEF NoIdleConnection
    <3>1. free[k] <= Cardinality(Wanting(k))
      BY <2>4 DEF NoIdleConnection
    <3> QED
      BY <2>4, <2>5, <3>1
  <2> QED
    BY <1>2, <2>3, <2>4, <2>6, <2>7, TasksFrame
<1>4. CASE Interrupt
  <2>1. /\ main = "loop" /\ main' = "handler" /\ free' = free
        /\ uses' = [uses EXCEPT ![Main] = ResetUses] /\ at' = [at EXCEPT ![Main] = "acquire"]
    BY <1>4 DEF Interrupt, connVars
  <2>2. \A x \in Actors : /\ at'[x] = IF x = Main THEN "acquire" ELSE at[x]
                          /\ uses'[x] = IF x = Main THEN ResetUses ELSE uses[x]
    BY <2>1 DEF Shape
  <2>3. Shape'
    <3>1. at' \in [Actors -> Places] /\ uses' \in [Actors -> Seq(Kinds)]
      BY <2>1, Uses DEF Shape, Places, Busy
    <3>2. \A x \in Actors : at'[x] \in Busy => uses'[x] # <<>>
      BY <2>2, Uses DEF Shape
    <3> QED
      BY <1>1, <2>1, <3>1, <3>2 DEF Shape, Stages
  <2>4. at[Main] \notin Busy
    BY <2>1 DEF Shape, Busy
  <2>5. /\ \A k \in Kinds : /\ Holding(k)' = Holding(k) /\ Asleep(k)' = Asleep(k)
                            /\ Wanting(k) \subseteq Wanting(k)'
        /\ \A p \in {"handler", "flush"} : Resting(p)' = Resting(p) /\ Looking(p)' = Looking(p)
    BY <1>2, <2>2, <2>4 DEF Holding, Asleep, Wanting, Resting, Looking, Busy
  <2>6. \A k \in Kinds : Alive(k)' => Alive(k)
    BY <2>1 DEF Alive
  <2> QED
    BY <1>1, <1>2, <2>1, <2>3, <2>5, <2>6, ConnectionsFrame, TasksFrame DEF connVars
<1> QED
  BY <1>3, <1>4

\* The flush pool's stop wakes all its workers.
LEMMA NotifyAllInv ==
  ASSUME IInv, NotifyAll
  PROVE  IInv'
<1> USE DEF IInv
<1>1. /\ UNCHANGED <<tasks, notices, stop, connVars, running, uses, finished>>
      /\ main' = "join" /\ main = "notify"
  BY DEF NotifyAll, poolVars
<1>2. \A x \in Actors : at'[x] = IF x \in Resting("flush") THEN "look" ELSE at[x]
  BY DEF NotifyAll
<1>3. /\ Resting("flush") \subseteq Threads("flush")
      /\ \A x \in Resting("flush") : at[x] = "waitTask"
      /\ \A p \in {"handler", "flush"} : Threads(p) \subseteq Actors
  BY DEF Resting, Threads, Actors, Workers
<1>4. at' \in [Actors -> Places]
  BY <1>2 DEF NotifyAll, Shape, Places
<1>5. Shape'
  BY <1>1, <1>2, <1>3, <1>4 DEF Shape, Stages, connVars, Busy
<1>6. \A k \in Kinds : /\ Holding(k)' = Holding(k) /\ Asleep(k)' = Asleep(k)
                       /\ Wanting(k)' = Wanting(k) /\ (Alive(k)' => Alive(k))
  BY <1>1, <1>2, <1>3 DEF Holding, Asleep, Wanting, Alive
<1>7. \A p \in {"handler", "flush"} : Resting(p)' \subseteq Resting(p) /\ Looking(p) \subseteq Looking(p)'
  BY <1>2, <1>3 DEF Resting, Looking
<1>8. \A p \in {"handler", "flush"} : Len(tasks'[p]) + notices[p] <= Len(tasks[p]) + notices'[p]
  BY <1>1 DEF Shape
<1> QED
  BY <1>1, <1>5, <1>6, <1>7, <1>8, ConnectionsFrame, TasksFrame

\* Every step keeps the inductive invariant.
LEMMA StepInv ==
  ASSUME IInv, [Next]_vars
  PROVE  IInv'
<1>1. CASE UNCHANGED vars
  <2>1. UNCHANGED <<tasks, notices, stop, created, free, leaked, at, running, uses, main, finished>>
    BY <1>1 DEF vars, poolVars, connVars
  <2> QED
    BY <2>1 DEF IInv, Shape, Balance, Lost, NoIdleConnection, NoIdleTask, Alive, Holding, Wanting,
                Asleep, Looking, Resting
<1>2. ASSUME NEW w \in Workers, Work(w) \/ Leak(w)
      PROVE  IInv'
  BY <1>2, RestInv, TakeInv, ReleaseInv, Sets DEF Work
<1>3. ASSUME NEW a \in Actors, Use(a) \/ Spurious(a)
      PROVE  IInv'
  BY <1>3, GetConnectionInv, ReleaseInv, SpuriousInv DEF Use
<1> QED
  BY <1>1, <1>2, <1>3, StayInv, NotifyOneInv, MainInv, NotifyAllInv DEF Next, Exit

\* At the start the main thread loads the groups, and everybody else looks.
LEMMA InitInv ==
  ASSUME Init
  PROVE  IInv
<1>1. \A p \in {"handler", "flush"} : Resting(p) = {} /\ tasks[p] = <<>>
  BY Sets DEF Init, Resting, Threads, Actors, Workers
<1>2. \A k \in Kinds : Holding(k) = {} /\ Asleep(k) = {}
  BY DEF Init, Holding, Asleep
<1>3. Shape
  <2>1. at \in [Actors -> Places] /\ uses \in [Actors -> Seq(Kinds)]
    BY Uses DEF Init, Places, Busy
  <2>2. \A a \in Actors : at[a] \in Busy => uses[a] # <<>>
    BY Uses DEF Init, Busy
  <2>3. /\ tasks \in [{"handler", "flush"} -> Seq(Tasks)]
        /\ notices \in [{"handler", "flush"} -> Nat]
        /\ running \in [Actors -> Tasks \cup {Nothing}]
        /\ free \in [Kinds -> Nat] /\ leaked \in Nat
    BY DEF Init
  <2> QED
    BY <2>1, <2>2, <2>3 DEF Init, Shape, Stages
<1>4. Balance
  <2> SUFFICES ASSUME NEW k \in Kinds
               PROVE  free[k] + Cardinality(Holding(k)) + Lost(k) = created[k]
                      /\ created[k] \in Nat
    BY DEF Balance
  <2>1. free[k] = created[k] /\ created[k] \in Nat /\ Lost(k) = 0
    BY DEF Init, Lost
  <2> QED
    BY <1>2, <2>1, FS_EmptySet
<1> QED
  BY <1>1, <1>2, <1>3, <1>4 DEF IInv, NoIdleConnection, NoIdleTask

LEMMA Inductive == Spec => []IInv
<1>1. Init => IInv
  BY InitInv
<1>2. IInv /\ [Next]_vars => IInv'
  BY StepInv
<1> QED
  BY <1>1, <1>2, PTL DEF Spec

\* The pools, the threads and the main thread keep their types; a pool never
\* holds more connections than were made, nor does createGroup lose more.
THEOREM TypeCorrect == Spec => []TypeOK
<1>1. ASSUME IInv PROVE TypeOK
  <2>1. ASSUME NEW k \in Kinds
        PROVE  free[k] \in 0..PoolSize /\ Lost(k) \in 0..PoolSize
    <3>1. /\ free[k] \in Nat /\ Lost(k) \in Nat /\ created[k] \in 0..PoolSize
          /\ Cardinality(Holding(k)) \in Nat
          /\ free[k] + Cardinality(Holding(k)) + Lost(k) <= created[k]
      BY <1>1, Sets, Counting DEF IInv, Shape, Balance, Lost
    <3> QED
      BY <3>1
  <2>2. free \in [Kinds -> 0..PoolSize] /\ leaked \in 0..PoolSize
    BY <1>1, <2>1 DEF IInv, Shape, Lost, Kinds
  <2> QED
    BY <1>1, <2>2 DEF IInv, Shape, TypeOK, Places, Busy, Stages
<1> QED
  BY <1>1, Inductive, PTL

\* As long as its pool exists, every connection is free, with exactly one
\* thread, or lost in createGroup's early return.
THEOREM Conservation == Spec => []ConnectionsConserved
<1>1. IInv => ConnectionsConserved
  BY DEF IInv, Balance, Lost, ConnectionsConserved
<1> QED
  BY <1>1, Inductive, PTL

\* releaseConnection's notify_one loses no wake-up: nobody sleeps while there
\* is a free connection that no awake thread is about to take.
THEOREM ConnectionsUsed == Spec => []NoIdleConnection
<1>1. IInv => NoIdleConnection
  BY DEF IInv
<1> QED
  BY <1>1, Inductive, PTL

\* enqueue's notify_one, though outside the lock, loses no wake-up: no worker
\* sleeps while there is a task that no awake worker or notification is for.
THEOREM TasksTaken == Spec => []NoIdleTask
<1>1. IInv => NoIdleTask
  BY DEF IInv
<1> QED
  BY <1>1, Inductive, PTL
=============================================================================
