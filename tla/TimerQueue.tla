----------------------------- MODULE TimerQueue -----------------------------
(***************************************************************************)
(* The timers of one EventLoop: m_timers, and the timerfd armed for the    *)
(* first of them.  Times are relative, in ticks: every Tick brings all     *)
(* of them nearer.  cancel() is not an action: addTimer returns an id      *)
(* whose sequence number is 0, so cancelInLoop finds no timer to cancel.   *)
(***************************************************************************)
EXTENDS Integers, FiniteSets, FiniteSetsExt

CONSTANTS
  Timers,    \* the Timer objects
  Delay,     \* Delay[t]: from addTimer to the first expiration
  Interval,  \* Interval[t]: m_interval, 0 for runAt and runAfter
  Off        \* the timerfd is not armed

ASSUME TimerAssumption ==
  /\ Delay \in [Timers -> Nat] /\ Interval \in [Timers -> Nat]
  /\ Off \notin Int

VARIABLES
  known,    \* timers that addTimer has created and reset not yet deleted
  timers,   \* m_timers (and m_activeTimers)
  left,     \* ticks until a timer's m_expiration, 0 if it has passed
  armed,    \* ticks until the timerfd becomes readable, 0 if it is, or Off
  expired,  \* handleRead: the local vector
  torun,    \* those of them whose callback has not been called yet
  firing,   \* m_callingExpiredTimers, until the end of handleRead
  lag,      \* ticks since handleRead took the time
  skewed    \* the system's clock has been set back

timerVars == <<known, timers, left, armed, expired, torun, firing, lag, skewed>>

\* The longest delay and interval, and one tick by which the clock is set back.
Horizon == Max({Delay[t] : t \in Timers} \cup {Interval[t] : t \in Timers}) + 1

TimerTypeOK ==
  /\ timers \subseteq known /\ expired \subseteq known /\ known \subseteq Timers
  /\ torun \subseteq expired /\ expired \cap timers = {}
  /\ left \in [Timers -> 0..Horizon]
  /\ armed \in 0..Horizon \cup {Off}
  /\ firing \in BOOLEAN /\ lag \in 0..Horizon /\ skewed \in BOOLEAN

TimerInit ==
  /\ known = {} /\ timers = {} /\ expired = {} /\ torun = {}
  /\ left = [t \in Timers |-> 0] /\ armed = Off
  /\ firing = FALSE /\ lag = 0 /\ skewed = FALSE

Nearer(n) == IF n = 0 THEN 0 ELSE n - 1

\* addTimer: the expiration counts from here; runInLoop comes next.
AddTimer(t) ==
  /\ t \notin known
  /\ known' = known \cup {t} /\ left' = [left EXCEPT ![t] = Delay[t]]
  /\ UNCHANGED <<timers, armed, expired, torun, firing, lag, skewed>>

\* Mutation: the timerfd is armed only if there was no timer.
MutAddTimerInLoop(t) ==
  /\ t \in known \ (timers \cup expired)
  /\ timers' = timers \cup {t}
  /\ armed' = IF timers = {} THEN left[t] ELSE armed
  /\ UNCHANGED <<known, left, expired, torun, firing, lag, skewed>>

\* addTimerInLoop: insert, and resetTimerfd if the timer is now the earliest.
AddTimerInLoop(t) ==
  /\ t \in known \ (timers \cup expired)
  /\ timers' = timers \cup {t}
  /\ armed' = IF \A u \in timers : left[t] < left[u] THEN left[t] ELSE armed
  /\ UNCHANGED <<known, left, expired, torun, firing, lag, skewed>>

\* addTimer in the loop's own thread: runInLoop calls addTimerInLoop.
AddTimerHere(t) ==
  /\ t \notin known
  /\ known' = known \cup {t} /\ timers' = timers \cup {t}
  /\ left' = [left EXCEPT ![t] = Delay[t]]
  /\ armed' = IF \A u \in timers : Delay[t] < left[u] THEN Delay[t] ELSE armed
  /\ UNCHANGED <<expired, torun, firing, lag, skewed>>

Due == {t \in timers : left[t] = 0}

\* handleRead: the time is taken, the timerfd read, the expired timers taken out.
\* The timerfd may have been armed again since poll returned.
Expire ==
  /\ armed' = IF armed = 0 THEN Off ELSE armed
  /\ lag' = 0 /\ firing' = TRUE
  /\ expired' = Due /\ torun' = Due /\ timers' = timers \ Due
  /\ UNCHANGED <<known, left, skewed>>

\* Timer::run.  Which of several expired timers is first is left open.
RunTimer(t) ==
  /\ t \in torun
  /\ torun' = torun \ {t}
  /\ UNCHANGED <<known, timers, left, armed, expired, firing, lag, skewed>>

\* reset: repeating timers count again from handleRead's time, the others are
\* deleted, and the timerfd is armed for the first, also if none had expired.
ResetWith(restarted) ==
  LET again == {t \in expired : Interval[t] > 0}
  IN  /\ firing /\ torun = {}
      /\ left' = [t \in Timers |-> IF t \in again THEN restarted[t] ELSE left[t]]
      /\ timers' = timers \cup again
      /\ known' = known \ (expired \ again)
      /\ armed' = IF timers' = {} THEN armed ELSE Min({left'[t] : t \in timers'})
      /\ expired' = {} /\ firing' = FALSE /\ lag' = 0
      /\ UNCHANGED <<torun, skewed>>

\* Restart at handleRead's time plus the interval, seen from now.
Restarted == [t \in Timers |-> IF lag < Interval[t] THEN Interval[t] - lag ELSE 0]

\* Mutation: nothing is armed when no timer had expired.
MutResetIfAny ==
  IF expired # {} THEN ResetWith(Restarted)
  ELSE /\ firing' = FALSE /\ lag' = 0
       /\ UNCHANGED <<known, timers, left, armed, expired, torun, skewed>>

\* howMuchTimeFromNow gives 100 microseconds if the time has passed.
Reset == ResetWith(Restarted)

Tick ==
  /\ left' = [t \in Timers |-> Nearer(left[t])]
  /\ armed' = IF armed = Off THEN Off ELSE Nearer(armed)
  /\ lag' = IF firing /\ lag < Horizon THEN lag + 1 ELSE lag
  /\ UNCHANGED <<known, timers, expired, torun, firing, skewed>>

\* Expirations are times of the system's clock, the timerfd's clock is monotonic:
\* when the former is set back by a tick, the timerfd is early.
ClockBack ==
  /\ ~skewed /\ ~firing
  /\ skewed' = TRUE
  /\ left' = [t \in Timers |-> IF t \in timers THEN left[t] + 1 ELSE left[t]]
  /\ UNCHANGED <<known, timers, armed, expired, torun, firing, lag>>
=============================================================================
