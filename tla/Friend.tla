------------------------------- MODULE Friend -------------------------------
(***************************************************************************)
(* The table friend and the handlers that change it.  A row (userid,       *)
(* friendid) is a request, a friendship or a block of userid towards       *)
(* friendid; two users are friends when each has a row.  A handler reads   *)
(* one or both rows, decides, and changes them with one or two statements; *)
(* handlers of other workers come in between.                              *)
(***************************************************************************)
EXTENDS Integers

CONSTANTS
  Users,      \* ids of registered users
  Workers,    \* threads of the handlers' pool
  Strays,     \* which of the two ids that are no user's may come up
  MayCrash    \* the server may end while handlers are under way

Closed  == 0   \* m_connUserMap[conn] once the connection has closed
Unknown == -1  \* User's id for a name or id that is not in the table user
Ids == Users \cup {Closed, Unknown}

\* Ids that a handler may find for its own connection and for the other user.
Actors == Users \cup (Strays \cap {Closed})
Others == Users \cup (Strays \cap {Unknown})

ASSUME FriendAssumption ==
  /\ Users \subseteq Nat \ {0}
  /\ Strays \subseteq {Closed, Unknown}
  /\ MayCrash \in BOOLEAN

VARIABLES
  state,     \* column state of friend; "none" is no row
  task,      \* what each worker is doing
  asked,     \* history: <<u, v>> when ADD_FRIEND from u for v was handled
  disturbed  \* history: pairs whose handlers overlapped or were cut off

vars == <<state, task, asked, disturbed>>

Linked   == {"friend", "block"}
IdleTask == [pc |-> "idle", op |-> "none", actor |-> Unknown, other |-> Unknown, state1 |-> "none"]

States   == {"none", "request"} \cup Linked
TaskPC   == {"idle", "read1", "read2", "ask", "acceptOwn", "acceptOther",
             "delete", "block", "unblock"}
TaskOp   == {"none", "add", "delete", "block", "unblock"}
Tasks    == [pc : TaskPC, op : TaskOp, actor : Ids, other : Ids, state1 : States]

TypeOK ==
  /\ state \in [Ids -> [Ids -> States]]
  /\ task \in [Workers -> Tasks]
  /\ asked \subseteq Ids \X Ids
  /\ disturbed \subseteq SUBSET Ids

Init ==
  /\ state = [u \in Ids |-> [v \in Ids |-> "none"]]
  /\ task = [w \in Workers |-> IdleTask]
  /\ asked = {} /\ disturbed = {}

-----------------------------------------------------------------------------
(* FriendModel.                                                            *)

\* INSERT: a duplicate key changes nothing.
insert(u, v, s) ==
  IF state[u][v] = "none" THEN state' = [state EXCEPT ![u][v] = s] ELSE UNCHANGED state

\* UPDATE: no row, no effect.
modify(u, v, s) ==
  IF state[u][v] = "none" THEN UNCHANGED state ELSE state' = [state EXCEPT ![u][v] = s]

\* Mutation: one of the two rows is deleted.
MutDeleteEach(u, v) == state' = [state EXCEPT ![u][v] = "none"]

deleteEach(u, v) == state' = [state EXCEPT ![u][v] = "none", ![v][u] = "none"]

-----------------------------------------------------------------------------
(* Requests.  The client keeps users from naming themselves.               *)

At(w, pc)   == task[w].pc = pc
Goto(w, pc) == task' = [task EXCEPT ![w].pc = pc]
Finish(w)   == task' = [task EXCEPT ![w] = IdleTask]

Pair(w) == {task[w].actor, task[w].other}
Busy(p) == \E w \in Workers : ~At(w, "idle") /\ Pair(w) = p

\* A handler starts: m_connUserMap gives its user, or 0 when the connection has
\* closed before; ADD_FRIEND and DELETE_FRIEND look the other one up.
Receive(w, op, u, v) ==
  /\ At(w, "idle") /\ u # v
  /\ task' = [task EXCEPT ![w] = [pc |-> "read1", op |-> op, actor |-> u, other |-> v,
                                  state1 |-> "none"]]
  /\ asked' = IF op = "add" THEN asked \cup {<<u, v>>} ELSE asked
  /\ disturbed' = IF Busy({u, v}) THEN disturbed \cup {{u, v}} ELSE disturbed
  /\ UNCHANGED state

-----------------------------------------------------------------------------
(* Handlers.                                                               *)

\* What the first state read leads to; block and unblock decide by it alone.
DecideFirst(op, s1) ==
  CASE op \in {"add", "delete"}            -> "read2"
    [] op = "block" /\ s1 = "friend"       -> "block"
    [] op = "unblock" /\ s1 = "block"      -> "unblock"
    [] OTHER                               -> "idle"

\* getState(from, to).
Read1(w) ==
  LET s1   == state[task[w].actor][task[w].other]
      next == DecideFirst(task[w].op, s1)
  IN  /\ At(w, "read1")
      /\ IF next = "idle" THEN Finish(w)
                          ELSE task' = [task EXCEPT ![w].pc = next, ![w].state1 = s1]
      /\ UNCHANGED <<state, asked, disturbed>>

\* Mutation: whoever has no row of its own accepts.
MutDecide(op, s1, s2) ==
  CASE op = "add" /\ s1 = "none"                         -> "acceptOwn"
    [] op = "delete" /\ s1 \in Linked /\ s2 \in Linked   -> "delete"
    [] OTHER                                             -> "idle"

\* handleAddFriend and handleDeleteFriend on the two states they have read.
Decide(op, s1, s2) ==
  CASE op = "add" /\ s1 \in {"none", "request"} /\ s2 = "none" -> "ask"
    [] op = "add" /\ s1 = "none" /\ s2 = "request"             -> "acceptOwn"
    [] op = "delete" /\ s1 \in Linked /\ s2 \in Linked         -> "delete"
    [] OTHER                                                   -> "idle"

\* getState(to, from).
Read2(w) ==
  LET next == Decide(task[w].op, task[w].state1, state[task[w].other][task[w].actor])
  IN  /\ At(w, "read2")
      /\ IF next = "idle" THEN Finish(w) ELSE Goto(w, next)
      /\ UNCHANGED <<state, asked, disturbed>>

Ask(w) ==
  /\ At(w, "ask")
  /\ insert(task[w].actor, task[w].other, "request")
  /\ Finish(w)
  /\ UNCHANGED <<asked, disturbed>>

\* Accepting a request is two statements.
AcceptOwn(w) ==
  /\ At(w, "acceptOwn")
  /\ insert(task[w].actor, task[w].other, "friend")
  /\ Goto(w, "acceptOther")
  /\ UNCHANGED <<asked, disturbed>>

AcceptOther(w) ==
  /\ At(w, "acceptOther")
  /\ modify(task[w].other, task[w].actor, "friend")
  /\ Finish(w)
  /\ UNCHANGED <<asked, disturbed>>

Delete(w) ==
  /\ At(w, "delete")
  /\ deleteEach(task[w].actor, task[w].other)
  /\ Finish(w)
  /\ UNCHANGED <<asked, disturbed>>

Block(w) ==
  /\ At(w, "block")
  /\ modify(task[w].actor, task[w].other, "block")
  /\ Finish(w)
  /\ UNCHANGED <<asked, disturbed>>

Unblock(w) ==
  /\ At(w, "unblock")
  /\ modify(task[w].actor, task[w].other, "friend")
  /\ Finish(w)
  /\ UNCHANGED <<asked, disturbed>>

\* The server ends and starts again; the table stays.
Restart ==
  /\ MayCrash
  /\ task' = [w \in Workers |-> IdleTask]
  /\ disturbed' = disturbed \cup {Pair(w) : w \in {x \in Workers : At(x, "acceptOther")}}
  /\ UNCHANGED <<state, asked>>

Handler(w) ==
  \/ Read1(w) \/ Read2(w) \/ Ask(w) \/ AcceptOwn(w) \/ AcceptOther(w)
  \/ Delete(w) \/ Block(w) \/ Unblock(w)

Request(w) ==
  \E u \in Actors :
    \/ \E v \in Others : Receive(w, "add", u, v) \/ Receive(w, "delete", u, v)
    \/ \E v \in Users : Receive(w, "block", u, v) \/ Receive(w, "unblock", u, v)

Next == (\E w \in Workers : Request(w) \/ Handler(w)) \/ Restart

Spec == Init /\ [][Next]_vars

-----------------------------------------------------------------------------
(* Properties.                                                             *)

\* Nobody is anybody's friend, or blocked as one, unless both have sent
\* ADD_FRIEND for each other, whatever handlers overlap with the acceptance and
\* wherever the server is cut off.
ConsentOfBoth ==
  \A u, v \in Ids : state[u][v] \in Linked => {<<u, v>>, <<v, u>>} \subseteq asked

\* As long as the handlers of a pair have not overlapped and no acceptance was
\* cut off, the pair is strangers, has one open request, or is linked on both
\* sides.  Any other pair of rows is one that neither side's requests undo
\* (two requests, or a friend on one side only, let no branch of
\* handleAddFriend and handleDeleteFriend apply).
PairConsistent ==
  \A u, v \in Ids :
    u # v /\ {u, v} \notin disturbed /\ ~Busy({u, v}) =>
      \/ "none" \in {state[u][v], state[v][u]}
           /\ {state[u][v], state[v][u]} \subseteq {"none", "request"}
      \/ {state[u][v], state[v][u]} \subseteq Linked
=============================================================================
