---------------------------- MODULE ReactorProofs ----------------------------
(***************************************************************************)
(* Proofs about an event loop and its timer queue, for any threads,        *)
(* channels, functors, timers, delays and intervals: no wake-up is lost,   *)
(* functors run in order, and the timerfd is never armed too late.  The    *)
(* first part is about EventLoop by itself, the last carries its results   *)
(* over to the composition.                                                *)
(***************************************************************************)
EXTENDS Reactor, SequenceTheorems, WellFoundedInduction, TLAPS

-----------------------------------------------------------------------------
(* The loop's invariant.                                                   *)

\* doPendingFunctors: m_callingPendingFunctors says that it is running, and
\* only then is there a batch.  Nobody uses a loop before startLoop has returned.
PhaseOK ==
  /\ calling <=> phase \in {"swap", "functors", "body"}
  /\ batch # <<>> => phase \in {"functors", "body"}
  /\ owner # "started" =>
       /\ pending = <<>> /\ batch = <<>> /\ active \cap Channels = {}
       /\ phase \notin {"handler", "body"}
  /\ phase = "create" =>
       owner # "started" /\ (owner # "construct" => eventLoop = "null")

IInv == TypeOK /\ PhaseOK /\ NoLostWakeup

LEMMA InitInv == Init => IInv
<1> SUFFICES ASSUME Init PROVE IInv
  OBVIOUS
<1> USE DEF Init
<1>1. TypeOK
  <2>1. pending \in Seq(Functors) /\ batch \in Seq(Functors)
    OBVIOUS
  <2>2. tpc \in [Threads -> {"idle", "wake"}]
    OBVIOUS
  <2> QED
    BY <2>1, <2>2 DEF TypeOK
<1>2. PhaseOK
  BY DEF PhaseOK
<1>3. NoLostWakeup
  BY DEF NoLostWakeup
<1> QED
  BY <1>1, <1>2, <1>3 DEF IInv

LEMMA StartInv == IInv /\ Start => IInv'
<1> SUFFICES ASSUME IInv, Start PROVE IInv'
  OBVIOUS
<1> USE DEF IInv, TypeOK, PhaseOK, NoLostWakeup, loopVars, startVars
<1>1. CASE Construct
  BY <1>1 DEF Construct
<1>2. CASE StartLoop
  BY <1>2 DEF StartLoop
<1>3. CASE Publish
  BY <1>3 DEF Publish
<1>4. CASE EnterLoop
  BY <1>4 DEF EnterLoop
<1> QED
  BY <1>1, <1>2, <1>3, <1>4 DEF Start

LEMMA BetweenInv == IInv /\ Between => IInv'
<1> SUFFICES ASSUME IInv, Between PROVE IInv'
  OBVIOUS
<1> USE DEF IInv, TypeOK, PhaseOK, NoLostWakeup, loopVars, startVars
<1>1. CASE HandleWakeup
  BY <1>1 DEF HandleWakeup
<1>2. CASE EventsDone
  BY <1>2 DEF EventsDone
<1>3. CASE Swap
  BY <1>3 DEF Swap
<1>4. CASE RunFunctor
  BY <1>4 DEF RunFunctor
<1>5. CASE FunctorsDone
  BY <1>5 DEF FunctorsDone
<1> QED
  BY <1>1, <1>2, <1>3, <1>4, <1>5 DEF Between

\* The steps that queue a functor: they wake the loop up or are about to.
LEMMA PostInv ==
  ASSUME IInv, NEW f \in Functors,
         LoopPost(f) \/ \E t \in Threads : PostFrom(t, f)
  PROVE  IInv'
<1> USE DEF IInv, TypeOK, PhaseOK, NoLostWakeup, loopVars, startVars
<1>1. CASE LoopPost(f)
  <2>1. wakeupFd' \in BOOLEAN /\ (calling => wakeupFd')
    BY <1>1, Zenon DEF LoopPost
  <2>2. pending' \in Seq(Functors)
    BY <1>1 DEF LoopPost
  <2>3. UNCHANGED <<batch, calling, phase, active, cur, tpc, eventLoop, owner>>
    BY <1>1 DEF LoopPost
  <2>4. phase \in {"handler", "body"}
    BY <1>1 DEF LoopPost
  <2>5. wakeupFd => wakeupFd'
    BY <1>1, Zenon DEF LoopPost
  <2>6. TypeOK'
    BY <2>1, <2>2, <2>3
  <2> QED
    BY <2>1, <2>3, <2>4, <2>6
<1>2. ASSUME NEW t \in Threads, PostFrom(t, f) PROVE IInv'
  <2>1. TypeOK'
    BY <1>2 DEF PostFrom
  <2>2. PhaseOK'
    BY <1>2 DEF PostFrom
  <2>3. tpc'[t] = "wake"
    BY <1>2 DEF PostFrom
  <2> QED
    BY <2>1, <2>2, <2>3
<1> QED
  BY <1>1, <1>2

LEMMA OtherInv ==
  ASSUME IInv,
         \/ HandlerDone \/ BodyDone \/ PollTimeout
         \/ \E ready \in SUBSET Channels : PollReturn(ready)
         \/ \E ch \in Channels : HandleEvent(ch)
         \/ \E t \in Threads : WakeFrom(t)
  PROVE  IInv'
<1> USE DEF IInv, TypeOK, PhaseOK, NoLostWakeup, loopVars, startVars
<1>1. CASE HandlerDone
  BY <1>1 DEF HandlerDone
<1>2. CASE BodyDone
  BY <1>2 DEF BodyDone
<1>3. CASE PollTimeout
  BY <1>3 DEF PollTimeout
<1>4. ASSUME NEW ready \in SUBSET Channels, PollReturn(ready) PROVE IInv'
  <2>1. TypeOK'
    BY <1>4 DEF PollReturn
  <2>2. PhaseOK'
    BY <1>4, EventLoopAssumption DEF PollReturn
  <2> QED
    BY <1>4, <2>1, <2>2 DEF PollReturn
<1>5. ASSUME NEW ch \in Channels, HandleEvent(ch) PROVE IInv'
  BY <1>5 DEF HandleEvent
<1>6. ASSUME NEW t \in Threads, WakeFrom(t) PROVE IInv'
  BY <1>6 DEF WakeFrom
<1> QED
  BY <1>1, <1>2, <1>3, <1>4, <1>5, <1>6

LEMMA NextInv == IInv /\ [Next]_vars => IInv'
<1> SUFFICES ASSUME IInv, [Next]_vars PROVE IInv'
  OBVIOUS
<1>1. CASE UNCHANGED vars
  BY <1>1 DEF IInv, TypeOK, PhaseOK, NoLostWakeup, vars, loopVars, startVars
<1>2. CASE Next
  BY <1>2, StartInv, BetweenInv, PostInv, OtherInv DEF Next
<1> QED
  BY <1>1, <1>2

\* The inductive invariant of the loop holds in every reachable state.
THEOREM InductiveInvariant == Spec => []IInv
  BY InitInv, NextInv, PTL DEF Spec

\* The loop's state keeps its types.
THEOREM TypeCorrect == Spec => []TypeOK
<1>1. IInv => TypeOK
  BY DEF IInv
<1> QED
  BY <1>1, InductiveInvariant, PTL

\* queueInLoop and doPendingFunctors: no functor waits for a loop that has not
\* been woken up.
THEOREM WakeupsKept == Spec => []NoLostWakeup
<1>1. IInv => NoLostWakeup
  BY DEF IInv
<1> QED
  BY <1>1, InductiveInvariant, PTL

-----------------------------------------------------------------------------
(* The loop implements a FIFO queue.                                       *)

LEMMA AppendToConcat ==
  ASSUME NEW S, NEW s \in Seq(S), NEW t \in Seq(S), NEW x \in S
  PROVE  s \o Append(t, x) = Append(s \o t, x)
  OBVIOUS

LEMMA HeadOfConcat ==
  ASSUME NEW S, NEW s \in Seq(S), NEW t \in Seq(S), s # <<>>
  PROVE  s \o t # <<>> /\ Tail(s \o t) = Tail(s) \o t
  OBVIOUS

\* A step of the loop queues a functor, runs the first one, or leaves the
\* abstract queue as it is.
LEMMA StepRefines == IInv /\ [Next]_vars => [Queue!Next]_(batch \o pending)
<1> SUFFICES ASSUME IInv, [Next]_vars
             PROVE  Queue!Next \/ UNCHANGED (batch \o pending)
  OBVIOUS
<1> USE DEF IInv, TypeOK, loopVars, startVars
<1>1. CASE UNCHANGED <<batch, pending>>
  BY <1>1
<1>2. ASSUME NEW f \in Functors,
             LoopPost(f) \/ \E t \in Threads : PostFrom(t, f)
      PROVE  Queue!Next
  <2>1. pending' = Append(pending, f) /\ batch' = batch
    BY <1>2 DEF LoopPost, PostFrom
  <2>2. Queue!Post(f)
    BY <2>1, AppendToConcat DEF Queue!Post
  <2> QED
    BY <2>2 DEF Queue!Next
<1>3. CASE Swap
  <2>1. batch = <<>>
    BY <1>3 DEF Swap, PhaseOK
  <2> QED
    BY <1>3, <2>1 DEF Swap
<1>4. CASE RunFunctor
  <2>1. Queue!Run
    BY <1>4, HeadOfConcat DEF RunFunctor, Queue!Run
  <2> QED
    BY <2>1 DEF Queue!Next
<1>5. CASE Start
  BY <1>1, <1>5 DEF Start, Construct, StartLoop, Publish, EnterLoop
<1>6. CASE HandleWakeup \/ EventsDone \/ FunctorsDone \/ HandlerDone \/ BodyDone \/ PollTimeout
  BY <1>1, <1>6 DEF HandleWakeup, EventsDone, FunctorsDone, HandlerDone, BodyDone, PollTimeout
<1>7. ASSUME NEW ready \in SUBSET Channels, PollReturn(ready) PROVE UNCHANGED <<batch, pending>>
  BY <1>7 DEF PollReturn
<1>8. ASSUME NEW ch \in Channels, HandleEvent(ch) PROVE UNCHANGED <<batch, pending>>
  BY <1>8 DEF HandleEvent
<1>9. ASSUME NEW t \in Threads, WakeFrom(t) PROVE UNCHANGED <<batch, pending>>
  BY <1>9 DEF WakeFrom
<1>10. CASE UNCHANGED vars
  BY <1>1, <1>10 DEF vars
<1> QED
  BY <1>1, <1>2, <1>3, <1>4, <1>5, <1>6, <1>7, <1>8, <1>9, <1>10 DEF Next, Between

\* The functors of a loop are run in the order in which they were queued, each
\* once: the loop implements LoopQueue.
THEOREM Refinement == Spec => RunInOrder
<1>1. Init => Queue!Init
  BY DEF Init, Queue!Init
<1> QED
  BY <1>1, StepRefines, InductiveInvariant, PTL DEF Spec, RunInOrder, Queue!SafeSpec

-----------------------------------------------------------------------------
(* The timer queue in its loop.                                            *)

\* Types, and that a timer in the queue was created by addTimer and is not one
\* that handleRead has taken out.
Timely ==
  /\ timers \subseteq known /\ expired \subseteq known /\ known \subseteq Timers
  /\ timers \cap expired = {}
  /\ left \in [Timers -> Nat] /\ armed \in Nat \cup {Off} /\ lag \in Nat
  /\ TimerfdArmed

USE TimerAssumption

\* The steps of the timer queue in the composition.
TimerStep ==
  \/ \E t \in Timers : AddTimer(t) \/ AddTimerInLoop(t) \/ AddTimerHere(t) \/ RunTimer(t)
  \/ Expire \/ Reset \/ Tick \/ ClockBack

\* The library's order on the naturals, as a set of pairs.
LEMMA NatOrder == OpToRel(<, Nat) = {ss \in Nat \X Nat : ss[1] < ss[2]}
  BY DEF OpToRel

\* resetTimerfd's argument, the first expiration, exists.
LEMMA Earliest ==
  ASSUME NEW S \in SUBSET Nat, S # {}
  PROVE  Min(S) \in S /\ \A x \in S : Min(S) <= x
<1>1. PICK x \in S : \A y \in S : <<y, x>> \notin OpToRel(<, Nat)
  BY NatLessThanWellFounded, WFMin
<1>2. ASSUME NEW y \in S
      PROVE  x <= y
  <2>1. <<y, x>> \notin {ss \in Nat \X Nat : ss[1] < ss[2]}
    BY <1>1, NatOrder
  <2> QED
    BY <2>1
<1> QED
  BY <1>2 DEF Min

\* A timer that is added arms the timerfd if it is the first, and otherwise
\* comes after one for which the timerfd is armed.
LEMMA AddKeepsTimely ==
  ASSUME Timely, NEW t \in Timers, AddTimer(t) \/ AddTimerInLoop(t) \/ AddTimerHere(t)
  PROVE  Timely'
<1> USE DEF Timely, TimerfdArmed
<1>1. CASE AddTimer(t)
  <2>1. \A u \in timers : left'[u] = left[u]
    BY <1>1 DEF AddTimer
  <2> QED
    BY <1>1, <2>1 DEF AddTimer
<1>2. CASE AddTimerInLoop(t)
  <2>1. CASE \A u \in timers : left[t] < left[u]
    BY <1>2, <2>1 DEF AddTimerInLoop
  <2>2. CASE ~\A u \in timers : left[t] < left[u]
    <3>1. PICK u \in timers : left[u] <= left[t]
      BY <2>2
    <3> QED
      BY <1>2, <2>2, <3>1 DEF AddTimerInLoop
  <2> QED
    BY <2>1, <2>2
<1>3. CASE AddTimerHere(t)
  <2>1. left'[t] = Delay[t] /\ \A u \in timers : u # t /\ left'[u] = left[u]
    BY <1>3 DEF AddTimerHere
  <2>2. CASE \A u \in timers : Delay[t] < left[u]
    BY <1>3, <2>1, <2>2 DEF AddTimerHere
  <2>3. CASE ~\A u \in timers : Delay[t] < left[u]
    <3>1. PICK u \in timers : left[u] <= Delay[t]
      BY <2>3
    <3> QED
      BY <1>3, <2>1, <2>3, <3>1 DEF AddTimerHere
  <2> QED
    BY <2>2, <2>3
<1> QED
  BY <1>1, <1>2, <1>3

\* reset arms the timerfd for the first timer, and leaves it alone only when
\* there is none.
LEMMA ResetKeepsTimely ==
  ASSUME Timely, Reset
  PROVE  Timely'
<1> USE DEF Timely
<1> DEFINE again == {t \in expired : Interval[t] > 0}
<1>1. Restarted \in [Timers -> Nat]
  BY DEF Restarted
<1>2. /\ left' = [t \in Timers |-> IF t \in again THEN Restarted[t] ELSE left[t]]
      /\ timers' = timers \cup again /\ known' = known \ (expired \ again)
      /\ armed' = IF timers' = {} THEN armed ELSE Min({left'[t] : t \in timers'})
      /\ expired' = {} /\ lag' = 0 /\ firing' = FALSE
      /\ \A t \in timers : t \in known
  BY DEF Reset, ResetWith
<1>3. left' \in [Timers -> Nat]
  BY <1>1, <1>2
<1>4. timers' \subseteq Timers
  BY <1>2
<1>5. CASE timers' = {}
  BY <1>2, <1>3, <1>5 DEF TimerfdArmed
<1>6. CASE timers' # {}
  <2>1. {left'[t] : t \in timers'} \in SUBSET Nat /\ {left'[t] : t \in timers'} # {}
    BY <1>3, <1>4, <1>6
  <2> DEFINE S == {left'[t] : t \in timers'}
  <2>2. Min(S) \in S /\ \A x \in S : Min(S) <= x
    BY <2>1, Earliest
  <2>3. armed' = Min(S)
    BY <1>2, <1>6
  <2>4. armed' \in Nat /\ \A t \in timers' : armed' <= left'[t]
    <3>1. \A t \in timers' : left'[t] \in S
      OBVIOUS
    <3> HIDE DEF S
    <3> QED
      BY <2>1, <2>2, <2>3, <3>1 DEF S
  <2>5. TimerfdArmed'
    BY <2>4 DEF TimerfdArmed
  <2> QED
    BY <1>2, <1>3, <2>4, <2>5
<1> QED
  BY <1>5, <1>6

\* The queue's steps keep it timely.
LEMMA StepKeepsTimely ==
  ASSUME Timely, TimerStep
  PROVE  Timely'
<1> USE DEF Timely, TimerfdArmed
<1>1. CASE \E t \in Timers : AddTimer(t) \/ AddTimerInLoop(t) \/ AddTimerHere(t)
  BY <1>1, AddKeepsTimely
<1>2. CASE Reset
  BY <1>2, ResetKeepsTimely
<1>3. CASE \E t \in Timers : RunTimer(t)
  BY <1>3 DEF RunTimer
<1>4. CASE Expire
  BY <1>4 DEF Expire, Due
<1>5. CASE Tick
  <2>1. \A n \in Nat : Nearer(n) \in Nat
    BY DEF Nearer
  <2>2. \A m, n \in Nat : m <= n => Nearer(m) <= Nearer(n)
    BY DEF Nearer
  <2>3. \A t \in Timers : left'[t] = Nearer(left[t])
    BY <1>5 DEF Tick
  <2>4. left' \in [Timers -> Nat] /\ armed' \in Nat \cup {Off} /\ lag' \in Nat
    <3>1. lag' = lag \/ lag' = lag + 1
      BY <1>5 DEF Tick
    <3> QED
      BY <1>5, <2>1, <3>1 DEF Tick
  <2>5. TimerfdArmed'
    <3>1. firing' = firing /\ timers' = timers
      BY <1>5 DEF Tick
    <3>2. armed # Off => armed' = Nearer(armed) /\ armed' # Off
      BY <1>5, <2>1 DEF Tick
    <3> QED
      BY <2>2, <2>3, <3>1, <3>2
  <2> QED
    BY <1>5, <2>4, <2>5 DEF Tick
<1>6. CASE ClockBack
  <2>1. left' \in [Timers -> Nat] /\ \A t \in timers : left'[t] = left[t] + 1
    BY <1>6 DEF ClockBack
  <2> QED
    BY <1>6, <2>1 DEF ClockBack
<1> QED
  BY <1>1, <1>2, <1>3, <1>4, <1>5, <1>6 DEF TimerStep

\* What the loop does is a step of the timer queue or leaves it alone.
LEMMA LoopSteps ==
  ASSUME Timely, [ReactorNext]_reactorVars
  PROVE  TimerStep \/ UNCHANGED timerVars
<1>1. CASE UNCHANGED reactorVars
  BY <1>1 DEF reactorVars
<1>2. CASE LoopStep
  <2>1. CASE HandleTimerfd \/ RunTimers \/ TimerfdHandled
    BY <2>1 DEF HandleTimerfd, RunTimers, TimerfdHandled, TimerStep
  <2>2. CASE FunctorReturns
    BY <2>2 DEF FunctorReturns, TimerStep
  <2> QED
    BY <1>2, <2>1, <2>2 DEF LoopStep, HandleOther, OtherHandled
<1>3. CASE PollReady \/ \E th \in Threads : Wakes(th)
  BY <1>3 DEF PollReady, Wakes
<1>4. CASE TimePasses \/ ClockSet
  BY <1>4 DEF TimePasses, ClockSet, TimerStep
<1>5. CASE PollTimeout /\ armed # 0 /\ UNCHANGED timerVars
  BY <1>5
<1>6. CASE \E t \in Timers : AddTimerOnLoop(t) \/ \E th \in Threads : AddTimerFrom(th, t)
  BY <1>6 DEF AddTimerOnLoop, AddTimerFrom, TimerStep
<1>7. CASE \E f \in Functors : PlainPost(f)
  BY <1>7 DEF PlainPost
<1> QED
  BY <1>1, <1>2, <1>3, <1>4, <1>5, <1>6, <1>7 DEF ReactorNext

\* addTimerInLoop, handleRead, reset: outside of handleRead the timerfd is
\* armed no later than the first timer expires, whatever is added from where,
\* however long the callbacks take, and though the clock is set back.
THEOREM NeverLate == ReactorSpec => []TimerfdArmed
<1>1. ReactorInit => Timely
  BY DEF ReactorInit, TimerInit, Timely, TimerfdArmed
<1>2. Timely /\ [ReactorNext]_reactorVars => Timely'
  <2> SUFFICES ASSUME Timely, [ReactorNext]_reactorVars
               PROVE  Timely'
    OBVIOUS
  <2>1. CASE UNCHANGED timerVars
    BY <2>1 DEF timerVars, Timely, TimerfdArmed
  <2> QED
    BY <2>1, LoopSteps, StepKeepsTimely
<1>3. Timely => TimerfdArmed
  BY DEF Timely
<1> QED
  BY <1>1, <1>2, <1>3, PTL DEF ReactorSpec

-----------------------------------------------------------------------------
(* The composition keeps what the loop promises.                           *)

\* With a timer queue that queues functors and handles a channel, the loop
\* still takes its own steps only.
LEMMA ReactorStepsLoop == [ReactorNext]_reactorVars => [Next]_vars
<1> SUFFICES ASSUME [ReactorNext]_reactorVars
             PROVE  Next \/ UNCHANGED vars
  OBVIOUS
<1>1. CASE UNCHANGED reactorVars
  BY <1>1 DEF reactorVars
<1>2. CASE LoopStep
  <2>1. CASE HandleTimerfd
    BY <2>1, ReactorAssumption DEF HandleTimerfd, Next
  <2>2. CASE HandleOther
    BY <2>2 DEF HandleOther, Next
  <2>3. CASE TimerfdHandled \/ OtherHandled \/ FunctorReturns \/ RunTimers
    BY <2>3 DEF TimerfdHandled, OtherHandled, FunctorReturns, RunTimers, Next
  <2> QED
    BY <1>2, <2>1, <2>2, <2>3 DEF LoopStep, Next
<1>3. CASE PollReady
  BY <1>3 DEF PollReady, Next
<1>4. CASE TimePasses \/ ClockSet
  BY <1>4 DEF TimePasses, ClockSet
<1>5. CASE PollTimeout
  BY <1>5 DEF Next
<1>6. ASSUME NEW th \in Threads, Wakes(th)
      PROVE  Next
  BY <1>6 DEF Wakes, Next
<1>7. ASSUME NEW t \in Timers, AddTimerOnLoop(t) \/ \E th \in Threads : AddTimerFrom(th, t)
      PROVE  Next \/ UNCHANGED vars
  BY <1>7, ReactorAssumption DEF AddTimerOnLoop, AddTimerFrom, Next
<1>8. ASSUME NEW f \in Functors, PlainPost(f)
      PROVE  Next
  BY <1>8 DEF PlainPost, Next
<1> QED
  BY <1>1, <1>2, <1>3, <1>4, <1>5, <1>6, <1>7, <1>8 DEF ReactorNext

\* A loop with timers is an event loop: the composition implements EventLoop.
THEOREM LoopKept == ReactorSpec => Spec
<1>1. ReactorInit => Init
  BY DEF ReactorInit
<1> QED
  BY <1>1, ReactorStepsLoop, PTL DEF ReactorSpec, Spec

\* The run's NoLostWakeup, with the timer queue in the loop: addTimerInLoop
\* from any thread is not left waiting either.
THEOREM WakeupsKeptWithTimers == ReactorSpec => []NoLostWakeup
  BY LoopKept, WakeupsKept, PTL

\* The composition runs its functors, addTimerInLoop among them, in the order
\* in which they were queued, each once.
THEOREM OrderKeptWithTimers == ReactorSpec => RunInOrder
  BY LoopKept, Refinement, PTL
=============================================================================
