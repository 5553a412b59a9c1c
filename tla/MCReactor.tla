----------------------------- MODULE MCReactor -----------------------------
(* A repeating timer, a timer that is added again and again by callbacks,  *)
(* and one other functor and channel.                                      *)
EXTENDS Reactor, TLC

CONSTANTS flush, retry

MCDelay    == (flush :> 2) @@ (retry :> 1)
MCInterval == (flush :> 2) @@ (retry :> 0)
MCFunctors == {flush, retry, "send"}
=============================================================================
