----------------------------- MODULE MCTcpConn -----------------------------
(* TcpConn with two connections on one IO loop.                            *)
EXTENDS TcpConn

CONSTANTS c1, c2, t1, t2

MCConns    == {c1, c2}
OneConn    == {c1}
MCThreads  == {t1, t2}
OneThread  == {t1}
BothClose  == [c \in {c1, c2} |-> {"peer", "heartbeat"}]
BothCloseOne == [c \in {c1} |-> {"peer", "heartbeat"}]
OnlyC2     == {c2}
NoSends    == {}
=============================================================================
