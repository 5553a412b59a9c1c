-------------------------- MODULE MCHistoryCache ---------------------------
(* HistoryCache with two pool threads and the thread of the SIGINT handler. *)
EXTENDS HistoryCache

CONSTANTS f1, f2, mainThread

TwoFlushers == {f1, f2}
=============================================================================
