----------------------------- MODULE MCSession -----------------------------
(* Session on small sets of accounts, connections and workers.            *)
EXTENDS Session, TLC

CONSTANTS c1, c2, w1, w2

MCConns   == {c1, c2}
MCWorkers == {w1, w2}
OneConn   == {c1}
OneWorker == {w1}

MCSymmetry == Permutations(MCConns) \cup Permutations(MCWorkers)

Second == 2

\* Bound: while somebody logs in to the second account or is in it, one handler
\* runs at a time.
SecondQuiet ==
  Second \in {auth[c] : c \in Conns} \cup {task[w].user : w \in Workers} =>
    \A w, x \in Workers : w = x \/ At(w, "idle") \/ At(x, "idle")
=============================================================================
