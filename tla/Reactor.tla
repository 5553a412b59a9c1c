------------------------------ MODULE Reactor ------------------------------
(***************************************************************************)
(* An EventLoop with its TimerQueue: the timerfd is one of its channels,   *)
(* and addTimer in another thread queues addTimerInLoop as a functor.      *)
(***************************************************************************)
EXTENDS EventLoop, TimerQueue

CONSTANTS Timerfd  \* the channel of the timerfd

ASSUME ReactorAssumption == Timerfd \in Channels /\ Timers \subseteq Functors

reactorVars == <<vars, timerVars>>

ReactorTypeOK == TypeOK /\ TimerTypeOK

ReactorInit == Init /\ TimerInit

\* addTimer in another thread.
AddTimerFrom(th, t) == PostFrom(th, t) /\ AddTimer(t)

\* addTimer in a callback of the loop's own thread, for instance
\* Connector::retry in a timer's own callback.
AddTimerOnLoop(t) ==
  /\ phase \in {"handler", "body"}
  /\ AddTimerHere(t) /\ UNCHANGED vars

\* A functor that is not addTimerInLoop, queued by another thread or a callback.
PlainPost(f) ==
  /\ f \notin Timers
  /\ LoopPost(f) \/ \E th \in Threads : PostFrom(th, f)
  /\ UNCHANGED timerVars

PollReady ==
  /\ \E ready \in SUBSET Channels :
       (Timerfd \in ready <=> armed = 0) /\ PollReturn(ready)
  /\ UNCHANGED timerVars

\* TimerQueue::handleRead is the timerfd's handler.
HandleTimerfd == HandleEvent(Timerfd) /\ Expire

RunTimers == (\E t \in Timers : RunTimer(t)) /\ UNCHANGED vars

TimerfdHandled == cur = Timerfd /\ HandlerDone /\ Reset

HandleOther ==
  /\ \E ch \in Channels \ {Timerfd} : HandleEvent(ch)
  /\ UNCHANGED timerVars

OtherHandled == cur # Timerfd /\ HandlerDone /\ UNCHANGED timerVars

\* A functor ends; addTimerInLoop has inserted its timer.
FunctorReturns ==
  /\ BodyDone
  /\ IF cur \in Timers THEN AddTimerInLoop(cur) ELSE UNCHANGED timerVars

TimePasses == Tick /\ UNCHANGED vars

ClockSet == ClockBack /\ UNCHANGED vars

LoopStep ==
  \/ (Start \/ Between) /\ UNCHANGED timerVars
  \/ HandleTimerfd \/ RunTimers \/ TimerfdHandled
  \/ HandleOther \/ OtherHandled \/ FunctorReturns

Wakes(th) == WakeFrom(th) /\ UNCHANGED timerVars

ReactorNext ==
  \/ LoopStep \/ PollReady \/ TimePasses \/ ClockSet
  \/ PollTimeout /\ armed # 0 /\ UNCHANGED timerVars
  \/ \E th \in Threads : Wakes(th)
  \/ \E t \in Timers : AddTimerOnLoop(t) \/ \E th \in Threads : AddTimerFrom(th, t)
  \/ \E f \in Functors : PlainPost(f)

ReactorSpec == ReactorInit /\ [][ReactorNext]_reactorVars

\* The system runs the threads and time passes.  poll returns when a descriptor
\* of the loop itself is ready; that it times out is not relied on, nor that
\* another channel is ever ready.
Fairness ==
  /\ WF_reactorVars((Construct \/ StartLoop) /\ UNCHANGED timerVars)
  /\ WF_reactorVars((Publish \/ EnterLoop \/ Between) /\ UNCHANGED timerVars)
  /\ WF_reactorVars(HandleTimerfd \/ RunTimers \/ TimerfdHandled)
  /\ WF_reactorVars(HandleOther \/ OtherHandled \/ FunctorReturns)
  /\ WF_reactorVars((wakeupFd \/ armed = 0) /\ PollReady)
  /\ WF_reactorVars(TimePasses)
  /\ \A th \in Threads : WF_reactorVars(Wakes(th))

FairSpec == ReactorSpec /\ Fairness

-----------------------------------------------------------------------------
(* Properties.                                                             *)

\* addTimerInLoop, reset: while no callback is running, the timerfd becomes
\* readable no later than the first of m_timers expires.
TimerfdArmed ==
  ~firing => \A t \in timers : armed # Off /\ armed <= left[t]

\* addTimer, handleRead, reset: a timer that has been added fires, and again
\* after each interval, although the loop may be asleep when it is added and
\* the clock may be set back.
TimersFire ==
  \A t \in Timers : (t \in known \ expired) ~> (t \in torun)
=============================================================================
