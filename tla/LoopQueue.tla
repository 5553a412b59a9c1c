----------------------------- MODULE LoopQueue -----------------------------
(***************************************************************************)
(* What an EventLoop promises to those who call queueInLoop: the functors  *)
(* are run in the order in which they were queued, each once, and every    *)
(* functor is run.                                                         *)
(***************************************************************************)
EXTENDS Sequences

CONSTANT Functors

VARIABLE queue   \* the functors queued and not yet run

Init == queue = <<>>

Post(f) == queue' = Append(queue, f)

Run == queue # <<>> /\ queue' = Tail(queue)

Next == Run \/ \E f \in Functors : Post(f)

SafeSpec == Init /\ [][Next]_queue
Spec     == SafeSpec /\ WF_queue(Run)
=============================================================================
