----------------------------- MODULE EventLoop -----------------------------
(***************************************************************************)
(* An EventLoop in a thread of its own (EventLoop, EventLoopThread): the   *)
(* thread polls, calls the handlers of the ready channels, then runs the   *)
(* functors that had been queued by then.  Other threads queue functors    *)
(* and wake it up through an eventfd.  The owner starts the thread and     *)
(* waits for the loop's address.                                           *)
(***************************************************************************)
EXTENDS Sequences, Naturals

CONSTANTS
  Threads,    \* threads other than the loop's that use the loop
  Channels,   \* the channels registered with the poller besides m_wakeupChannel
  Functors,   \* what may be queued
  Nothing,    \* "no handler and no functor is running"
  MaxPending  \* bound: nothing is queued on top of this many functors

ASSUME EventLoopAssumption ==
  /\ Nothing \notin Channels \cup Functors
  /\ "wakeup" \notin Channels
  /\ MaxPending \in Nat

VARIABLES
  pending,    \* m_pendingFunctors
  batch,      \* doPendingFunctors: what is left of the local vector
  calling,    \* m_callingPendingFunctors
  wakeupFd,   \* TRUE: the eventfd's counter is positive
  phase,      \* where the loop's thread is
  active,     \* m_activeChannels not handled yet
  cur,        \* the channel or functor whose callback is running
  tpc,        \* what each other thread is doing
  eventLoop,  \* m_eventLoop of EventLoopThread
  owner       \* where the thread that creates the EventLoopThread is

loopVars  == <<pending, batch, calling, wakeupFd, phase, active, cur, tpc>>
startVars == <<eventLoop, owner>>
vars == <<loopVars, startVars>>

TypeOK ==
  /\ pending \in Seq(Functors) /\ batch \in Seq(Functors)
  /\ calling \in BOOLEAN /\ wakeupFd \in BOOLEAN
  /\ phase \in {"create", "enter", "poll", "events", "handler",
                "swap", "functors", "body", "crashed"}
  /\ active \subseteq Channels \cup {"wakeup"}
  /\ cur \in Channels \cup Functors \cup {Nothing}
  /\ tpc \in [Threads -> {"idle", "wake"}]
  /\ eventLoop \in {"raw", "null", "loop"}
  /\ owner \in {"construct", "start", "wait", "started"}

Init ==
  /\ pending = <<>> /\ batch = <<>>
  /\ calling = FALSE /\ wakeupFd = FALSE
  /\ phase = "create" /\ active = {} /\ cur = Nothing
  /\ tpc = [t \in Threads |-> "idle"]
  /\ eventLoop = "raw" /\ owner = "construct"

-----------------------------------------------------------------------------
(* EventLoopThread.  Its first member is the thread: threadFunc may run    *)
(* before the constructor has come to m_eventLoop(nullptr).                *)

\* The rest of the constructor, after m_thread has been started.
Construct ==
  /\ owner = "construct"
  /\ eventLoop' = "null" /\ owner' = "start"
  /\ UNCHANGED loopVars

\* startLoop: wait(lock) while m_eventLoop is null.  A notification wakes it
\* up and it looks again.
StartLoop ==
  /\ owner = "start"
  /\ owner' = IF eventLoop = "null" THEN "wait" ELSE "started"
  /\ UNCHANGED <<eventLoop, loopVars>>

\* Mutation: nobody is notified.
MutPublish ==
  /\ phase = "create"
  /\ eventLoop' = "loop" /\ phase' = "enter"
  /\ UNCHANGED <<owner, pending, batch, calling, wakeupFd, active, cur, tpc>>

\* threadFunc: m_eventLoop = &loop, notify_one.
Publish ==
  /\ phase = "create"
  /\ eventLoop' = "loop"
  /\ owner' = IF owner = "wait" THEN "start" ELSE owner
  /\ phase' = "enter"
  /\ UNCHANGED <<pending, batch, calling, wakeupFd, active, cur, tpc>>

\* m_eventLoop->loop(): the pointer is read once more.
EnterLoop ==
  /\ phase = "enter"
  /\ phase' = IF eventLoop = "loop" THEN "poll" ELSE "crashed"
  /\ UNCHANGED <<pending, batch, calling, wakeupFd, active, cur, tpc, startVars>>

-----------------------------------------------------------------------------
(* Other threads.                                                          *)

\* queueInLoop, and runInLoop outside the loop's thread: push_back ...
PostFrom(t, f) ==
  /\ owner = "started" /\ tpc[t] = "idle" /\ Len(pending) < MaxPending
  /\ pending' = Append(pending, f)
  /\ tpc' = [tpc EXCEPT ![t] = "wake"]
  /\ UNCHANGED <<batch, calling, wakeupFd, phase, active, cur, startVars>>

\* ... and wakeup().
WakeFrom(t) ==
  /\ tpc[t] = "wake"
  /\ wakeupFd' = TRUE
  /\ tpc' = [tpc EXCEPT ![t] = "idle"]
  /\ UNCHANGED <<pending, batch, calling, phase, active, cur, startVars>>

-----------------------------------------------------------------------------
(* The loop's thread.                                                      *)

\* poll returns with the channels that are ready, m_wakeupChannel among them
\* if the eventfd has been written.  Who has the loop registers other channels.
PollReturn(ready) ==
  /\ phase = "poll" /\ (ready # {} => owner = "started")
  /\ active' = ready \cup (IF wakeupFd THEN {"wakeup"} ELSE {})
  /\ active' # {}
  /\ phase' = "events"
  /\ UNCHANGED <<pending, batch, calling, wakeupFd, cur, tpc, startVars>>

\* kPollTimeMs have passed.
PollTimeout ==
  /\ phase = "poll" /\ ~wakeupFd
  /\ phase' = "events"
  /\ UNCHANGED <<pending, batch, calling, wakeupFd, active, cur, tpc, startVars>>

\* handleRead of m_wakeupChannel.
HandleWakeup ==
  /\ phase = "events" /\ "wakeup" \in active
  /\ active' = active \ {"wakeup"}
  /\ wakeupFd' = FALSE
  /\ UNCHANGED <<pending, batch, calling, phase, cur, tpc, startVars>>

\* handleEvent of another channel calls its handler, which may queue functors.
HandleEvent(ch) ==
  /\ phase = "events" /\ ch \in active \cap Channels
  /\ active' = active \ {ch}
  /\ cur' = ch /\ phase' = "handler"
  /\ UNCHANGED <<pending, batch, calling, wakeupFd, tpc, startVars>>

HandlerDone ==
  /\ phase = "handler"
  /\ cur' = Nothing /\ phase' = "events"
  /\ UNCHANGED <<pending, batch, calling, wakeupFd, active, tpc, startVars>>

\* Mutation: m_callingPendingFunctors is forgotten.
MutLoopPost(f) ==
  /\ phase \in {"handler", "body"} /\ Len(pending) < MaxPending
  /\ pending' = Append(pending, f)
  /\ UNCHANGED <<batch, calling, wakeupFd, phase, active, cur, tpc, startVars>>

\* queueInLoop in the loop's own thread: from a handler or from a functor.
LoopPost(f) ==
  /\ phase \in {"handler", "body"} /\ Len(pending) < MaxPending
  /\ pending' = Append(pending, f)
  /\ wakeupFd' = (wakeupFd \/ calling)
  /\ UNCHANGED <<batch, calling, phase, active, cur, tpc, startVars>>

\* doPendingFunctors: m_callingPendingFunctors is set, then the lock is taken.
EventsDone ==
  /\ phase = "events" /\ active = {}
  /\ calling' = TRUE /\ phase' = "swap"
  /\ UNCHANGED <<pending, batch, wakeupFd, active, cur, tpc, startVars>>

Swap ==
  /\ phase = "swap"
  /\ batch' = pending /\ pending' = <<>>
  /\ phase' = "functors"
  /\ UNCHANGED <<calling, wakeupFd, active, cur, tpc, startVars>>

\* Mutation: the vector is run from its end.
MutRunFunctor ==
  /\ phase = "functors" /\ batch # <<>>
  /\ cur' = batch[Len(batch)] /\ batch' = SubSeq(batch, 1, Len(batch) - 1)
  /\ phase' = "body"
  /\ UNCHANGED <<pending, calling, wakeupFd, active, tpc, startVars>>

RunFunctor ==
  /\ phase = "functors" /\ batch # <<>>
  /\ cur' = Head(batch) /\ batch' = Tail(batch)
  /\ phase' = "body"
  /\ UNCHANGED <<pending, calling, wakeupFd, active, tpc, startVars>>

BodyDone ==
  /\ phase = "body"
  /\ cur' = Nothing /\ phase' = "functors"
  /\ UNCHANGED <<pending, batch, calling, wakeupFd, active, tpc, startVars>>

FunctorsDone ==
  /\ phase = "functors" /\ batch = <<>>
  /\ calling' = FALSE /\ phase' = "poll"
  /\ UNCHANGED <<pending, batch, wakeupFd, active, cur, tpc, startVars>>

-----------------------------------------------------------------------------
Start == Construct \/ StartLoop \/ Publish \/ EnterLoop

\* What the loop's thread does between two polls without the help of a handler.
Between == HandleWakeup \/ EventsDone \/ Swap \/ RunFunctor \/ FunctorsDone

Next ==
  \/ Start \/ Between \/ HandlerDone \/ BodyDone \/ PollTimeout
  \/ \E ready \in SUBSET Channels : PollReturn(ready)
  \/ \E ch \in Channels : HandleEvent(ch)
  \/ \E f \in Functors : LoopPost(f) \/ \E t \in Threads : PostFrom(t, f)
  \/ \E t \in Threads : WakeFrom(t)

Spec == Init /\ [][Next]_vars

-----------------------------------------------------------------------------
(* Properties.                                                             *)

\* queueInLoop, wakeup, doPendingFunctors: a loop that is asleep, or will go
\* to sleep without another look at m_pendingFunctors, has been woken up or
\* is about to be if a functor is queued.
NoLostWakeup ==
  pending # <<>> /\ phase \in {"enter", "poll", "functors", "body"} =>
    wakeupFd \/ \E t \in Threads : tpc[t] = "wake"

\* startLoop returns if the thread publishes its loop after the constructor
\* has initialised m_eventLoop.  (Otherwise nullptr overwrites the loop.)
StartReturns ==
  (phase = "create" /\ owner # "construct") ~> (owner = "started")

\* A loop implements the queue of its functors: the batch being run, then
\* m_pendingFunctors.
Queue == INSTANCE LoopQueue WITH queue <- batch \o pending

\* The functors are run in the order in which they were queued and each once.
RunInOrder == Queue!SafeSpec

\* Every queued functor is run, although poll need never time out.
QueueServed == Queue!Spec
=============================================================================
