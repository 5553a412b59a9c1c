------------------------------- MODULE Pools -------------------------------
(***************************************************************************)
(* The server's two thread pools, the pools of MySQL and redis             *)
(* connections that their tasks share with the main thread, and the        *)
(* process's end: SIGINT, the destruction of MysqlPool, the joining of the *)
(* flush pool.                                                             *)
(***************************************************************************)
EXTENDS Sequences, Naturals, FiniteSets

CONSTANTS
  Handlers,      \* threads of Server::m_threadpool
  Flushers,      \* threads of mysqlInsertThreadPool
  HandlerTasks,  \* messages to handle
  FlushTasks,    \* flushes to do
  Main,          \* the main thread
  Nothing,       \* "no task"
  PoolSize       \* connections that the two pools try to make

ASSUME PoolsAssumption ==
  /\ PoolSize \in Nat /\ IsFiniteSet(Handlers) /\ IsFiniteSet(Flushers)
  /\ Handlers \cap Flushers = {} /\ HandlerTasks \cap FlushTasks = {}
  /\ Main \notin Handlers \cup Flushers
  /\ Nothing \notin HandlerTasks \cup FlushTasks

Workers == Handlers \cup Flushers
Actors  == Workers \cup {Main}
Tasks   == HandlerTasks \cup FlushTasks

Kinds == {"mysql", "redis"}

Threads(p) == IF p = "handler" THEN Handlers ELSE Flushers
PoolOf(w)  == IF w \in Handlers THEN "handler" ELSE "flush"
Queue(t)   == IF t \in HandlerTasks THEN "handler" ELSE "flush"

\* The connections that an activity takes, one after the other: a message that is
\* stored and a group created, and both lists read, trimmed and inserted.
HandlerUses == <<"redis", "mysql">>
FlushUses   == <<"redis", "mysql", "redis", "mysql">>
ResetUses   == <<"mysql">> \o FlushUses
StartUses   == <<"mysql">>

VARIABLES
  tasks,    \* per thread pool: its queue
  notices,  \* per thread pool: notify_one calls still to come
  stop,     \* threadpool::stop of the flush pool
  at,       \* per thread: where it is
  running,  \* per thread: its task
  uses,     \* per thread: the connections it still takes, the one it has first
  created,  \* per connection pool: the connections made
  free,     \* per connection pool: the size of m_pool
  leaked,   \* MySQL connections never given back
  main,     \* what the main thread is doing
  finished  \* tasks that have ended

poolVars == <<tasks, notices, stop>>
connVars == <<created, free, leaked>>
vars == <<poolVars, connVars, at, running, uses, main, finished>>

Gone == main \in {"done", "aborted"}

\* Is the MysqlPool still there?
Alive(k) == k = "redis" \/ main \in {"startup", "loop", "handler"}

Wanting(k) == {a \in Actors : at[a] = "acquire" /\ Head(uses[a]) = k}
Asleep(k)  == {a \in Actors : at[a] = "waitConn" /\ Head(uses[a]) = k}
Holding(k) == {a \in Actors : at[a] = "hold" /\ Head(uses[a]) = k}

Looking(p) == {w \in Threads(p) : at[w] = "look"}
Resting(p) == {w \in Threads(p) : at[w] = "waitTask"}

TypeOK ==
  /\ tasks \in [{"handler", "flush"} -> Seq(Tasks)]
  /\ notices \in [{"handler", "flush"} -> Nat]
  /\ stop \in BOOLEAN
  /\ at \in [Actors -> {"look", "waitTask", "acquire", "waitConn", "hold", "idle", "exited"}]
  /\ running \in [Actors -> Tasks \cup {Nothing}]
  /\ uses \in [Actors -> Seq(Kinds)]
  /\ created \in [Kinds -> 0..PoolSize] /\ free \in [Kinds -> 0..PoolSize]
  /\ leaked \in 0..PoolSize
  /\ main \in {"startup", "loop", "handler", "drain", "destroy", "stop", "notify",
               "join", "done", "aborted"}
  /\ finished \subseteq Tasks

Init ==
  /\ tasks = [p \in {"handler", "flush"} |-> <<>>]
  /\ notices = [p \in {"handler", "flush"} |-> 0]
  /\ stop = FALSE
  /\ at = [a \in Actors |-> IF a = Main THEN "acquire" ELSE "look"]
  /\ running = [a \in Actors |-> Nothing]
  /\ uses = [a \in Actors |-> IF a = Main THEN StartUses ELSE <<>>]
  /\ created \in [Kinds -> 0..PoolSize] /\ free = created /\ leaked = 0
  /\ main = "startup" /\ finished = {}

-----------------------------------------------------------------------------
(* threadpool.                                                             *)

\* Mutation: a worker is notified only if the queue was empty.
MutEnqueue(t) ==
  /\ main \notin {"startup", "done", "aborted"} /\ ~(Queue(t) = "flush" /\ stop)
  /\ t \notin finished /\ \A w \in Workers : running[w] # t
  /\ \A i \in 1..Len(tasks[Queue(t)]) : tasks[Queue(t)][i] # t
  /\ tasks' = [tasks EXCEPT ![Queue(t)] = Append(@, t)]
  /\ notices' = [notices EXCEPT ![Queue(t)] = @ + (IF tasks[Queue(t)] = <<>> THEN 1 ELSE 0)]
  /\ UNCHANGED <<stop, connVars, at, running, uses, main, finished>>

\* onJsonMessage on an IO loop, or the flush timer.  enqueue on a stopped pool
\* throws in an event loop, where nobody catches.
Enqueue(t) ==
  /\ main \notin {"startup", "done", "aborted"}
  /\ t \notin finished /\ \A w \in Workers : running[w] # t
  /\ \A i \in 1..Len(tasks[Queue(t)]) : tasks[Queue(t)][i] # t
  /\ IF Queue(t) = "flush" /\ stop
     THEN main' = "aborted" /\ UNCHANGED <<tasks, notices>>
     ELSE /\ tasks' = [tasks EXCEPT ![Queue(t)] = Append(@, t)]
          /\ notices' = [notices EXCEPT ![Queue(t)] = @ + 1]
          /\ UNCHANGED main
  /\ UNCHANGED <<stop, connVars, at, running, uses, finished>>

\* if_tasks_pop.notify_one(), after the lock has been given up.
NotifyOne(p) ==
  /\ ~Gone /\ notices[p] > 0
  /\ notices' = [notices EXCEPT ![p] = @ - 1]
  /\ IF Resting(p) = {} THEN UNCHANGED at
     ELSE \E w \in Resting(p) : at' = [at EXCEPT ![w] = "look"]
  /\ UNCHANGED <<tasks, stop, connVars, running, uses, main, finished>>

Stopped(w) == w \in Flushers /\ stop

\* The worker's wait, with the lock: nothing to do.
Rest(w) ==
  /\ ~Gone /\ at[w] = "look" /\ tasks[PoolOf(w)] = <<>>
  /\ at' = [at EXCEPT ![w] = IF Stopped(w) THEN "exited" ELSE "waitTask"]
  /\ UNCHANGED <<poolVars, connVars, running, uses, main, finished>>

\* ... a task: it runs without the lock.
Take(w) ==
  /\ ~Gone /\ at[w] = "look" /\ tasks[PoolOf(w)] # <<>>
  /\ running' = [running EXCEPT ![w] = Head(tasks[PoolOf(w)])]
  /\ tasks' = [tasks EXCEPT ![PoolOf(w)] = Tail(@)]
  /\ uses' = [uses EXCEPT ![w] = IF w \in Handlers THEN HandlerUses ELSE FlushUses]
  /\ at' = [at EXCEPT ![w] = "acquire"]
  /\ UNCHANGED <<notices, stop, connVars, main, finished>>

-----------------------------------------------------------------------------
(* MysqlPool and RedisPool.                                                *)

\* getConnection: wait while m_pool is empty, then take its front.
GetConnection(a) ==
  LET k == Head(uses[a]) IN
  /\ ~Gone /\ at[a] = "acquire"
  /\ IF free[k] = 0
     THEN at' = [at EXCEPT ![a] = "waitConn"] /\ UNCHANGED free
     ELSE at' = [at EXCEPT ![a] = "hold"] /\ free' = [free EXCEPT ![k] = @ - 1]
  /\ UNCHANGED <<poolVars, created, leaked, running, uses, main, finished>>

\* The wait may end without a notification: the pool is looked at again.
Spurious(a) ==
  /\ ~Gone /\ at[a] = "waitConn"
  /\ at' = [at EXCEPT ![a] = "acquire"]
  /\ UNCHANGED <<poolVars, connVars, running, uses, main, finished>>

\* What comes after a connection has been given back or dropped.
GoOn(a, where) ==
  LET rest == Tail(uses[a]) IN
  /\ uses' = [uses EXCEPT ![a] = rest]
  /\ IF rest # <<>>
     THEN /\ at' = [where EXCEPT ![a] = "acquire"]
          /\ UNCHANGED <<running, finished, main>>
     ELSE /\ at' = [where EXCEPT ![a] = IF a = Main THEN "idle" ELSE "look"]
          /\ running' = [running EXCEPT ![a] = Nothing]
          /\ finished' = finished \cup ({running[a]} \ {Nothing})
          /\ main' = IF a # Main THEN main
                     ELSE IF main = "startup" THEN "loop" ELSE "drain"

\* releaseConnection: push, and notify one that waits.
Give(a, k, n) ==
  /\ free' = [free EXCEPT ![k] = @ + n]
  /\ IF Asleep(k) = {} THEN GoOn(a, at)
     ELSE \E b \in Asleep(k) : GoOn(a, [at EXCEPT ![b] = "acquire"])

\* Mutation: no return after the release in a branch, so that the connection is
\* given back again at the end.
MutReleaseTwice(a) ==
  LET k == Head(uses[a]) IN
  /\ ~Gone /\ at[a] = "hold" /\ Alive(k)
  /\ Give(a, k, 2)
  /\ UNCHANGED <<poolVars, created, leaked>>

\* Mutation: nobody is notified.
MutRelease(a) ==
  LET k == Head(uses[a]) IN
  /\ ~Gone /\ at[a] = "hold"
  /\ free' = [free EXCEPT ![k] = @ + 1]
  /\ GoOn(a, at)
  /\ UNCHANGED <<poolVars, created, leaked>>

Release(a) ==
  LET k == Head(uses[a]) IN
  /\ ~Gone /\ at[a] = "hold" /\ Alive(k)
  /\ Give(a, k, 1)
  /\ UNCHANGED <<poolVars, created, leaked>>

\* A connection comes back to a pool that has been destroyed: it may be found
\* there again, or not, or the process crashes.
ReleaseLate(a) ==
  LET k == Head(uses[a]) IN
  /\ ~Gone /\ at[a] = "hold" /\ ~Alive(k)
  /\ \/ \E n \in {0, 1} : Give(a, k, n)
     \/ main' = "aborted" /\ UNCHANGED <<free, at, running, uses, finished>>
  /\ UNCHANGED <<poolVars, created, leaked>>

\* createGroup, when the INSERT fails: it returns with its connection.
Leak(w) ==
  /\ ~Gone /\ w \in Handlers /\ at[w] = "hold" /\ Head(uses[w]) = "mysql"
  /\ leaked' = leaked + 1
  /\ GoOn(w, at)
  /\ UNCHANGED <<poolVars, created, free>>

-----------------------------------------------------------------------------
(* The end of the process.                                                 *)

\* SIGINT: the handler runs Service::reset on the main thread.
Interrupt ==
  /\ main = "loop"
  /\ main' = "handler"
  /\ uses' = [uses EXCEPT ![Main] = ResetUses] /\ at' = [at EXCEPT ![Main] = "acquire"]
  /\ UNCHANGED <<poolVars, connVars, running, finished>>

\* exit destroys statics, the last one made first: MysqlPool was made by the
\* first query, after mysqlInsertThreadPool.  ~MysqlPool empties m_pool ...
Drain ==
  /\ main = "drain"
  /\ free' = [free EXCEPT !["mysql"] = 0]
  /\ main' = "destroy"
  /\ UNCHANGED <<poolVars, created, leaked, at, running, uses, finished>>

\* ... and m_condVar is destroyed, for which it waits until nobody waits on it.
Destroy ==
  /\ main = "destroy" /\ Asleep("mysql") = {}
  /\ main' = "stop"
  /\ UNCHANGED <<poolVars, connVars, at, running, uses, finished>>

\* ~threadpool of mysqlInsertThreadPool.
Stop ==
  /\ main = "stop"
  /\ stop' = TRUE /\ main' = "notify"
  /\ UNCHANGED <<tasks, notices, connVars, at, running, uses, finished>>

\* Mutation: one thread is notified, the others sleep on.
MutNotifyAll ==
  /\ main = "notify"
  /\ IF Resting("flush") = {} THEN UNCHANGED at
     ELSE \E w \in Resting("flush") : at' = [at EXCEPT ![w] = "look"]
  /\ main' = "join"
  /\ UNCHANGED <<poolVars, connVars, running, uses, finished>>

NotifyAll ==
  /\ main = "notify"
  /\ at' = [a \in Actors |-> IF a \in Resting("flush") THEN "look" ELSE at[a]]
  /\ main' = "join"
  /\ UNCHANGED <<poolVars, connVars, running, uses, finished>>

Join ==
  /\ main = "join" /\ \A w \in Flushers : at[w] = "exited"
  /\ main' = "done"
  /\ UNCHANGED <<poolVars, connVars, at, running, uses, finished>>

Exit == Drain \/ Destroy \/ Stop \/ NotifyAll \/ Join

-----------------------------------------------------------------------------
Work(w) == Rest(w) \/ Take(w)
Use(a)  == GetConnection(a) \/ Release(a) \/ ReleaseLate(a)

Next ==
  \/ \E t \in Tasks : Enqueue(t)
  \/ \E p \in {"handler", "flush"} : NotifyOne(p)
  \/ \E w \in Workers : Work(w) \/ Leak(w)
  \/ \E a \in Actors : Use(a) \/ Spurious(a)
  \/ Interrupt \/ Exit

Spec == Init /\ [][Next]_vars

\* Threads run.  Nothing is assumed of spurious wake-ups, of new tasks or of
\* SIGINT.
Fairness ==
  /\ \A p \in {"handler", "flush"} : WF_vars(NotifyOne(p))
  /\ \A w \in Workers : WF_vars(Work(w))
  /\ \A a \in Actors : WF_vars(Use(a))
  /\ WF_vars(Exit)

FairSpec == Spec /\ Fairness

-----------------------------------------------------------------------------
(* Properties.                                                             *)

\* getConnection, releaseConnection: a connection is free, with one thread, or
\* lost in createGroup, as long as its pool exists.
ConnectionsConserved ==
  \A k \in Kinds : Alive(k) =>
    free[k] + Cardinality(Holding(k)) + (IF k = "mysql" THEN leaked ELSE 0) = created[k]

\* releaseConnection's notify_one: nobody sleeps while there is a connection
\* that no awake thread is about to take.
NoIdleConnection ==
  \A k \in Kinds : Asleep(k) # {} => free[k] <= Cardinality(Wanting(k))

\* enqueue's notify_one, outside the lock: no worker sleeps while there is a
\* task that no awake worker or pending notification is for.
NoIdleTask ==
  \A p \in {"handler", "flush"} :
    Resting(p) # {} => Len(tasks[p]) <= Cardinality(Looking(p)) + notices[p]

\* No connection of this kind will ever be free again.
Starved(k) == created[k] = (IF k = "mysql" THEN leaked ELSE 0)

\* enqueue, getConnection: every message is handled and every flush done, unless
\* no connection was made, createGroup has lost them all, or the process ends.
TasksFinish ==
  \A t \in Tasks :
    (\E i \in 1..Len(tasks[Queue(t)]) : tasks[Queue(t)][i] = t) ~>
      (t \in finished \/ main \notin {"startup", "loop"} \/ \E k \in Kinds : Starved(k))

\* Service::reset and exit: SIGINT ends the process, unless connections have run
\* out or a thread waits for one of the destroyed MysqlPool.
InterruptEnds ==
  (main = "handler") ~>
    \/ Gone \/ \E k \in Kinds : Starved(k)
    \/ ~Alive("mysql") /\ Asleep("mysql") # {}
=============================================================================
