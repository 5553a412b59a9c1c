CONSTANTS
  flush = flush
  retry = retry
  Timers = {flush, retry}
  Delay <- MCDelay
  Interval <- MCInterval
  Functors <- MCFunctors
  Off = Off
  Nothing = Nothing
  Timerfd = timerfd
  Channels = {timerfd, socket}
  Threads = {t1, t2}
  MaxPending = 2
SPECIFICATION FairSpec
INVARIANT NoLostWakeup TimerfdArmed
PROPERTY StartReturns QueueServed TimersFire
