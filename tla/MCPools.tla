------------------------------ MODULE MCPools ------------------------------
(* Pools with one thread that handles messages and two that flush, so that *)
(* three threads and main share one connection of each kind.               *)
EXTENDS Pools

CONSTANTS h1, f1, f2, m1, m2, s1

MCHandlers == {h1}
MCFlushers == {f1, f2}
MCMessages == {m1, m2}
MCFlushes  == {s1}
=============================================================================
