------------------------------ MODULE Connector ------------------------------
(***************************************************************************)
(* mars::net::Connector as TcpClient::connect starts it: one connection,   *)
(* tried again after a growing delay until it is made or an error that     *)
(* cannot pass.  Everything runs in the client's loop.  stop and restart   *)
(* are not called: m_retry is never set, and the client does not destroy   *)
(* its TcpClient before it exits.                                          *)
(***************************************************************************)
EXTENDS Naturals

CONSTANTS
  InitDelay,  \* kInitRetryDelayMs
  MaxDelay    \* kMaxRetryDelayMs

ASSUME DelayAssumption == InitDelay \in Nat /\ MaxDelay \in Nat /\ InitDelay <= MaxDelay

VARIABLES
  cstate,   \* m_state, or "gave up" after an error that is only logged
  channel,  \* m_Channel: none, registered for writing, or removed from the poller
  pending,  \* resetChannel is queued in the loop
  start,    \* startInLoop is queued in the loop, or its timer is set
  delay,    \* m_retryDelayMs
  asserts   \* no assert has failed

connector == <<cstate, channel, pending, start, delay, asserts>>

ConnectorInit ==
  /\ cstate = "disconnected" /\ channel = "none" /\ pending = FALSE
  /\ start = TRUE /\ delay = InitDelay /\ asserts = TRUE

\* Mutation: the delay grows without a limit.
MutRetry == cstate' = "disconnected" /\ start' = TRUE /\ delay' = 2 * delay

\* retry: the timer is set and the next delay doubled.
Retry ==
  /\ cstate' = "disconnected"
  /\ start' = TRUE
  /\ delay' = IF 2 * delay <= MaxDelay THEN 2 * delay ELSE MaxDelay

\* startInLoop and connect.  The functor of one round of the loop, resetChannel,
\* has run before the timer of a later one.
StartInLoop ==
  /\ start /\ ~pending
  /\ \/ /\ cstate' = "connecting" /\ channel' = "writing"   \* connecting
        /\ start' = FALSE
        /\ asserts' = (asserts /\ cstate = "disconnected" /\ channel = "none")
        /\ UNCHANGED delay
     \/ /\ Retry                                            \* refused at once
        /\ asserts' = (asserts /\ cstate = "disconnected")
        /\ UNCHANGED channel
     \/ /\ cstate' = "gave up" /\ start' = FALSE            \* EACCES and others
        /\ asserts' = (asserts /\ cstate = "disconnected")
        /\ UNCHANGED <<channel, delay>>
  /\ UNCHANGED pending

\* Mutation: the channel is left to the next attempt.
MutRemoveAndResetChannel == channel' = "removed" /\ UNCHANGED pending

\* removeAndResetChannel: the channel is destroyed after its event.
RemoveAndResetChannel == channel' = "removed" /\ pending' = TRUE

\* The channel's event.  handleError, when the attempt failed, is followed by
\* handleWrite, which finds the connector disconnected; handleWrite alone
\* retries after an error or a connection to itself.
AttemptFails ==
  /\ channel = "writing"
  /\ RemoveAndResetChannel
  /\ Retry
  /\ asserts' = (asserts /\ cstate = "connecting")

Connected ==
  /\ channel = "writing" /\ cstate = "connecting"
  /\ RemoveAndResetChannel
  /\ cstate' = "connected"
  /\ UNCHANGED <<start, delay, asserts>>

ResetChannel ==
  /\ pending /\ pending' = FALSE
  /\ channel' = "none"
  /\ UNCHANGED <<cstate, start, delay, asserts>>

-----------------------------------------------------------------------------
ConnectorTypeOK ==
  /\ cstate \in {"disconnected", "connecting", "connected", "gave up"}
  /\ channel \in {"none", "writing", "removed"}
  /\ pending \in BOOLEAN /\ start \in BOOLEAN /\ asserts \in BOOLEAN
  /\ delay \in InitDelay..MaxDelay

\* Until it is connected, and unless the error was one that is only logged,
\* the connector has an attempt under way or to come, exactly one, and the
\* asserts on its state and its channel hold (Connector::retry, resetChannel).
AlwaysTrying ==
  /\ asserts
  /\ cstate = "disconnected" => start
  /\ cstate = "connecting" => channel = "writing" /\ ~start
  /\ channel = "removed" => pending
=============================================================================
