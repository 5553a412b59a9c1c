---------------------------- MODULE GroupProofs ----------------------------
(***************************************************************************)
(* Theorems about Group, for any users, workers and number of groups, with *)
(* crashes in mid-handler: the types, that members have asked, and, while  *)
(* ADD_GROUP names requesters, that a group keeps its one master and,      *)
(* until handlers overlap, that the lists in memory agree with the table.  *)
(***************************************************************************)
EXTENDS Group, FiniteSetTheorems, TLAPS

\* The fields that a handler has filled in by the place it is at.
Fit(t) ==
  /\ t.pc # "idle" => t.actor \in Users
  /\ t.pc \notin {"idle", "createRow"} => t.group \in 1 .. created
  /\ t.pc \in Targeted => t.target \in Users
  /\ t.pc \in {"kickCheck", "kickTarget"} => t.actor # t.target

TInv == TypeOK /\ \A w \in Workers : Fit(task[w])

USE GroupAssumption DEF Members, Roles, None

\* An idle worker's record, and the fields of any.
LEMMA TaskFacts ==
  /\ IdleTask \in Tasks /\ IdleTask.pc = "idle" /\ Fit(IdleTask)
  /\ \A t \in Tasks :
       /\ t.pc \in Places /\ t.seen \in Roles /\ t.group \in Groups \cup {None}
       /\ \A p \in Places : [t EXCEPT !.pc = p] \in Tasks
       /\ \A p \in Places, r \in Roles : [t EXCEPT !.pc = p, !.seen = r] \in Tasks
       /\ \A p \in Places, g \in Groups : [t EXCEPT !.pc = p, !.group = g] \in Tasks
<1>1. IdleTask \in Tasks /\ IdleTask.pc = "idle" /\ Fit(IdleTask)
  BY DEF IdleTask, Tasks, Places, Targeted, Fit
<1>2. ASSUME NEW t \in Tasks
      PROVE  /\ t.pc \in Places /\ t.seen \in Roles /\ t.group \in Groups \cup {None}
             /\ \A p \in Places : [t EXCEPT !.pc = p] \in Tasks
             /\ \A p \in Places, r \in Roles : [t EXCEPT !.pc = p, !.seen = r] \in Tasks
             /\ \A p \in Places, g \in Groups : [t EXCEPT !.pc = p, !.group = g] \in Tasks
  BY DEF Tasks
<1> QED
  BY <1>1, <1>2

\* One worker's record changes to one that fits.
LEMMA TaskStep ==
  ASSUME TInv, NEW w \in Workers, NEW t \in Tasks, Fit(t)',
         task' = [task EXCEPT ![w] = t], created' \in created .. MaxGroup
  PROVE  /\ task' \in [Workers -> Tasks] /\ created' \in 0 .. MaxGroup
         /\ \A v \in Workers : Fit(task[v])'
<1>1. task' \in [Workers -> Tasks] /\ created' \in 0 .. MaxGroup
  BY DEF TInv, TypeOK
<1>2. ASSUME NEW v \in Workers
      PROVE  Fit(task[v])'
  <2>1. CASE v = w
    BY <2>1 DEF TInv, TypeOK
  <2>2. CASE v # w
    <3>1. task'[v] = task[v]
      BY <2>2 DEF TInv, TypeOK
    <3>2. 1 .. created \subseteq 1 .. created'
      BY DEF TInv, TypeOK
    <3> QED
      BY <3>1, <3>2 DEF TInv, Fit
  <2> QED
    BY <2>1, <2>2
<1> QED
  BY <1>1, <1>2

\* A handler ends, or goes to a place that needs no more fields filled in.
LEMMA Moves ==
  ASSUME TInv, NEW w \in Workers, created' = created,
         \/ Finish(w)
         \/ \E p \in Places : /\ Goto(w, p)
                              /\ p \notin {"idle", "createRow"} => task[w].group \in 1 .. created
                              /\ ~At(w, "idle")
                              /\ p \in Targeted => task[w].pc \in Targeted
                              /\ p \in {"kickCheck", "kickTarget"} => At(w, "kickCheck")
  PROVE  /\ task' \in [Workers -> Tasks] /\ created' \in 0 .. MaxGroup
         /\ \A v \in Workers : Fit(task[v])'
<1>1. created' \in created .. MaxGroup /\ task[w] \in Tasks
  BY DEF TInv, TypeOK
<1>2. CASE Finish(w)
  <2>1. Fit(IdleTask)'
    BY DEF Fit, IdleTask, Targeted
  <2> QED
    BY <1>1, <1>2, <2>1, TaskFacts, TaskStep DEF Finish
<1>3. ASSUME NEW p \in Places, Goto(w, p), ~At(w, "idle"),
             p \notin {"idle", "createRow"} => task[w].group \in 1 .. created,
             p \in Targeted => task[w].pc \in Targeted,
             p \in {"kickCheck", "kickTarget"} => At(w, "kickCheck")
      PROVE  /\ task' \in [Workers -> Tasks] /\ created' \in 0 .. MaxGroup
             /\ \A v \in Workers : Fit(task[v])'
  <2>1. PICK t \in Tasks : t = [task[w] EXCEPT !.pc = p]
    BY <1>1, TaskFacts
  <2>2. t.pc = p /\ t.actor = task[w].actor /\ t.group = task[w].group /\ t.target = task[w].target
    BY <1>1, <2>1 DEF Tasks
  <2>3. Fit(task[w]) /\ task[w].pc # "idle"
    BY <1>3 DEF TInv, At
  <2>4. Fit(t)'
    BY <1>3, <2>2, <2>3 DEF Fit, At
  <2>5. task' = [task EXCEPT ![w] = t]
    BY <1>3, <1>1, <2>1 DEF Goto, TInv, TypeOK
  <2> QED
    BY <1>1, <2>4, <2>5, TaskStep
<1> QED
  BY <1>2, <1>3

\* The tables and lists after a statement on a group, of one or all its rows.
LEMMA StatementTypes ==
  ASSUME TInv, NEW g \in 1 .. created
  PROVE  /\ g \in Groups
         /\ \A u \in Users, r \in Roles :
              SetRole(g, u, r) \/ modifyGroupRole(g, u, r) => role' \in [Groups -> [Users -> Roles]]
         /\ [role EXCEPT ![g] = [u \in Users |-> "none"]] \in [Groups -> [Users -> Roles]]
         /\ \A u \in Users :
              PushBack(g, u) \/ Remove(g, u) =>
                listed' \subseteq 1 .. created /\ copies' \in [Groups -> [Users -> Nat]]
         /\ [copies EXCEPT ![g] = [u \in Users |-> 0]] \in [Groups -> [Users -> Nat]]
<1>1. g \in Groups /\ role \in [Groups -> [Users -> Roles]] /\ copies \in [Groups -> [Users -> Nat]]
  BY DEF TInv, TypeOK, Groups
<1>2. ASSUME NEW u \in Users, NEW r \in Roles, SetRole(g, u, r) \/ modifyGroupRole(g, u, r)
      PROVE  role' \in [Groups -> [Users -> Roles]]
  <2>1. CASE role' = role
    BY <1>1, <2>1
  <2>2. CASE role' = [role EXCEPT ![g][u] = r]
    BY <1>1, <2>2
  <2> QED
    BY <1>2, <2>1, <2>2 DEF SetRole, modifyGroupRole
<1>3. ASSUME NEW u \in Users, PushBack(g, u) \/ Remove(g, u)
      PROVE  listed' \subseteq 1 .. created /\ copies' \in [Groups -> [Users -> Nat]]
  <2>1. listed' \subseteq 1 .. created
    BY <1>3 DEF PushBack, Remove, TInv, TypeOK
  <2>2. \/ copies' = [copies EXCEPT ![g][u] = @ + 1]
        \/ copies' = [copies EXCEPT ![g][u] = 0]
    BY <1>3 DEF PushBack, Remove
  <2> QED
    BY <1>1, <2>1, <2>2
<1>4. [role EXCEPT ![g] = [u \in Users |-> "none"]] \in [Groups -> [Users -> Roles]]
  BY <1>1
<1>5. [copies EXCEPT ![g] = [u \in Users |-> 0]] \in [Groups -> [Users -> Nat]]
  BY <1>1
<1> QED
  BY <1>1, <1>2, <1>3, <1>4, <1>5

\* A handler that has started knows its actor, its group and its target.
LEMMA Known ==
  ASSUME TInv, NEW w \in Workers
  PROVE  /\ ~At(w, "idle") => task[w].actor \in Users
         /\ task[w].pc \notin {"idle", "createRow"} => task[w].group \in 1 .. created
         /\ task[w].pc \in Targeted => task[w].target \in Users
         /\ task[w] \in Tasks
  BY DEF TInv, TypeOK, Fit, At

LEMMA ReceiveTypes ==
  ASSUME TInv, NEW w \in Workers, NEW u \in Users, Request(w, u)
  PROVE  TInv'
<1> DEFINE Named(p, g, t) ==
             /\ p \in Places /\ g \in Groups \cup {None} /\ t \in Users \cup {None}
             /\ Receive(w, p, u, g, t)
             /\ p # "createRow" => g \in 1 .. created
             /\ p \in Targeted => t \in Users
             /\ p \in {"kickCheck", "kickTarget"} => t # u
<1>1. PICK p, g, t : Named(p, g, t)
  <2>1. 1 .. created \subseteq Groups
    BY DEF TInv, TypeOK, Groups
  <2>2. CASE Receive(w, "createRow", u, None, None)
    <3>1. Named("createRow", None, None)
      BY <2>2 DEF Places, Targeted
    <3> QED
      BY <3>1
  <2>3. ASSUME NEW q \in {"quitCheck", "delCheck", "request", "chat"}, NEW h \in 1 .. created,
               Receive(w, q, u, h, None)
        PROVE  \E p, g, t : Named(p, g, t)
    <3>1. Named(q, h, None)
      BY <2>1, <2>3 DEF Places, Targeted
    <3> QED
      BY <3>1
  <2>4. ASSUME NEW q \in {"addCheck", "setCheck", "cancelCheck", "kickCheck"}, NEW h \in 1 .. created,
               NEW v \in Users, Receive(w, q, u, h, v), q = "kickCheck" => v # u
        PROVE  \E p, g, t : Named(p, g, t)
    <3>1. Named(q, h, v)
      BY <2>1, <2>4 DEF Places, Targeted
    <3> QED
      BY <3>1
  <2> HIDE DEF Named
  <2> QED
    BY <2>2, <2>3, <2>4 DEF Request
<1>2. PICK r \in Tasks : r = [IdleTask EXCEPT !.pc = p, !.actor = u, !.group = g, !.target = t]
  BY <1>1 DEF IdleTask, Tasks
<1>3. r.pc = p /\ r.actor = u /\ r.group = g /\ r.target = t
  BY <1>2 DEF IdleTask
<1>4. created' = created /\ created' \in created .. MaxGroup
  BY <1>1 DEF Receive, tables, TInv, TypeOK
<1>5. Fit(r)'
  BY <1>1, <1>3, <1>4 DEF Fit
<1>6. task' = [task EXCEPT ![w] = r]
  BY <1>1, <1>2 DEF Receive
<1>7. /\ task' \in [Workers -> Tasks] /\ created' \in 0 .. MaxGroup
      /\ \A v \in Workers : Fit(task[v])'
  BY <1>4, <1>5, <1>6, TaskStep
<1> QED
  BY <1>1, <1>7 DEF TInv, TypeOK, Receive, tables, cache

LEMMA RestartTypes ==
  ASSUME TInv, Restart
  PROVE  TInv'
<1>1. task' \in [Workers -> Tasks] /\ \A v \in Workers : Fit(task[v])'
  <2>1. Fit(IdleTask)'
    BY DEF Fit, IdleTask, Targeted
  <2> QED
    BY <2>1, TaskFacts DEF Restart
<1>2. copies' \in [Groups -> [Users -> Nat]]
  BY DEF Restart
<1> QED
  BY <1>1, <1>2 DEF Restart, TInv, TypeOK, tables

\* Each statement of a handler.
LEMMA HandlerTypes ==
  ASSUME TInv, NEW w \in Workers, Handler(w)
  PROVE  TInv'
<1> DEFINE TasksFit == /\ task' \in [Workers -> Tasks] /\ created' \in 0 .. MaxGroup
                       /\ \A v \in Workers : Fit(task[v])'
           g == task[w].group
<1>1. CASE CreateRow(w)
  <2>1. CASE Finish(w) /\ UNCHANGED tables
    <3>1. TasksFit
      BY <2>1, Moves DEF tables
    <3> QED
      BY <1>1, <2>1, <3>1 DEF CreateRow, tables, cache, marks, TInv, TypeOK
  <2>2. CASE ~(Finish(w) /\ UNCHANGED tables)
    <3>1. /\ created' = created + 1 /\ created < MaxGroup /\ allGroup' = allGroup \cup {created + 1}
          /\ task' = [task EXCEPT ![w].pc = "createMaster", ![w].group = created + 1]
      BY <1>1, <2>2 DEF CreateRow
    <3>2. created' \in created .. MaxGroup /\ created + 1 \in Groups
      BY <3>1 DEF TInv, TypeOK, Groups
    <3>3. task[w] \in Tasks /\ task[w].actor \in Users
      BY <1>1, Known DEF CreateRow, At
    <3>4. PICK t \in Tasks : t = [task[w] EXCEPT !.pc = "createMaster", !.group = created + 1]
      BY <3>2, <3>3, TaskFacts DEF Places
    <3>5. t.pc = "createMaster" /\ t.group = created' /\ t.actor \in Users
      BY <3>1, <3>3, <3>4 DEF Tasks
    <3>6. Fit(t)' /\ task' = [task EXCEPT ![w] = t]
      <4>1. created' \in 1 .. created'
        BY <3>1 DEF TInv, TypeOK
      <4>2. Fit(t)'
        BY <3>5, <4>1 DEF Fit, Targeted
      <4> QED
        BY <3>1, <3>4, <4>2 DEF TInv, TypeOK
    <3>7. TasksFit
      BY <3>2, <3>6, TaskStep
    <3>8. allGroup' \subseteq 1 .. created' /\ listed \subseteq 1 .. created'
      BY <3>1 DEF TInv, TypeOK
    <3> QED
      BY <1>1, <2>2, <3>7, <3>8 DEF CreateRow, cache, marks, TInv, TypeOK
  <2> QED
    BY <2>1, <2>2
<1>2. CASE CreateMaster(w)
  <2>1. TasksFit /\ g \in 1 .. created /\ task[w].actor \in Users
    BY <1>2, Moves, Known DEF CreateMaster, At, Places, Targeted
  <2>2. role' \in [Groups -> [Users -> Roles]]
    BY <1>2, <2>1, StatementTypes DEF CreateMaster, TInv, TypeOK
  <2> QED
    BY <1>2, <2>1, <2>2 DEF CreateMaster, cache, marks, TInv, TypeOK
<1>3. CASE AddRow(w)
  <2>1. TasksFit /\ g \in 1 .. created /\ task[w].target \in Users
    BY <1>3, Moves, Known DEF AddRow, At, Places, Targeted
  <2>2. role' \in [Groups -> [Users -> Roles]]
    BY <1>3, <2>1, StatementTypes DEF AddRow, TInv, TypeOK
  <2> QED
    BY <1>3, <2>1, <2>2 DEF AddRow, cache, marks, TInv, TypeOK
<1>4. CASE QuitRow(w)
  <2>1. TasksFit /\ g \in 1 .. created /\ task[w].actor \in Users
    BY <1>4, Moves, Known DEF QuitRow, At, Places, Targeted
  <2>2. role' \in [Groups -> [Users -> Roles]]
    BY <1>4, <2>1, StatementTypes DEF QuitRow, TInv, TypeOK
  <2> QED
    BY <1>4, <2>1, <2>2 DEF QuitRow, cache, marks, TInv, TypeOK
<1>5. CASE KickRow(w)
  <2>1. TasksFit /\ g \in 1 .. created /\ task[w].target \in Users
    BY <1>5, Moves, Known DEF KickRow, At, Places, Targeted
  <2>2. role' \in [Groups -> [Users -> Roles]]
    BY <1>5, <2>1, StatementTypes DEF KickRow, TInv, TypeOK
  <2> QED
    BY <1>5, <2>1, <2>2 DEF KickRow, cache, marks, TInv, TypeOK
<1>6. CASE SetRow(w)
  <2>1. TasksFit /\ g \in 1 .. created /\ task[w].target \in Users
    BY <1>6, Moves, Known DEF SetRow, At, Places, Targeted
  <2>2. role' \in [Groups -> [Users -> Roles]]
    BY <1>6, <2>1, StatementTypes DEF SetRow, TInv, TypeOK
  <2> QED
    BY <1>6, <2>1, <2>2 DEF SetRow, cache, marks, TInv, TypeOK
<1>7. CASE CancelRow(w)
  <2>1. TasksFit /\ g \in 1 .. created /\ task[w].target \in Users
    BY <1>7, Moves, Known DEF CancelRow, At, Places, Targeted
  <2>2. role' \in [Groups -> [Users -> Roles]]
    BY <1>7, <2>1, StatementTypes DEF CancelRow, TInv, TypeOK
  <2> QED
    BY <1>7, <2>1, <2>2 DEF CancelRow, cache, marks, TInv, TypeOK
<1>8. CASE RequestAddGroup(w)
  <2>1. TasksFit /\ g \in 1 .. created /\ task[w].actor \in Users
    BY <1>8, Moves, Known DEF RequestAddGroup, At, Places, Targeted
  <2>2. role' \in [Groups -> [Users -> Roles]]
    BY <1>8, <2>1, StatementTypes DEF RequestAddGroup, TInv, TypeOK
  <2> QED
    BY <1>8, <2>1, <2>2 DEF RequestAddGroup, cache, marks, TInv, TypeOK
<1>9. CASE CreateList(w)
  <2>1. TasksFit /\ g \in 1 .. created /\ task[w].actor \in Users
    BY <1>9, Moves, Known DEF CreateList, At, Places, Targeted, tables
  <2>2. listed' \subseteq 1 .. created /\ copies' \in [Groups -> [Users -> Nat]]
    BY <1>9, <2>1, StatementTypes DEF CreateList, cache, TInv, TypeOK
  <2> QED
    BY <1>9, <2>1, <2>2 DEF CreateList, tables, marks, TInv, TypeOK
<1>10. CASE AddList(w)
  <2>1. TasksFit /\ g \in 1 .. created /\ task[w].target \in Users
    BY <1>10, Moves, Known DEF AddList, At, Places, Targeted, tables
  <2>2. listed' \subseteq 1 .. created /\ copies' \in [Groups -> [Users -> Nat]]
    BY <1>10, <2>1, StatementTypes DEF AddList, cache, TInv, TypeOK
  <2> QED
    BY <1>10, <2>1, <2>2 DEF AddList, tables, marks, TInv, TypeOK
<1>11. CASE KickList(w)
  <2>1. TasksFit /\ g \in 1 .. created /\ task[w].target \in Users
    BY <1>11, Moves, Known DEF KickList, At, Places, Targeted, tables
  <2>2. listed' \subseteq 1 .. created /\ copies' \in [Groups -> [Users -> Nat]]
    BY <1>11, <2>1, StatementTypes DEF KickList, cache, TInv, TypeOK
  <2> QED
    BY <1>11, <2>1, <2>2 DEF KickList, tables, marks, TInv, TypeOK
<1>12. CASE QuitList(w)
  <2>1. TasksFit /\ g \in 1 .. created /\ task[w].actor \in Users
    BY <1>12, Moves, Known DEF QuitList, At, Places, Targeted, tables
  <2>2. listed' \subseteq 1 .. created /\ copies' \in [Groups -> [Users -> Nat]]
    BY <1>12, <2>1, StatementTypes DEF QuitList, cache, TInv, TypeOK
  <2> QED
    BY <1>12, <2>1, <2>2 DEF QuitList, tables, marks, TInv, TypeOK
<1>13. CASE \/ AddCheck(w) \/ QuitCheck(w) \/ SetCheck(w)
            \/ CancelCheck(w) \/ KickTarget(w) \/ DeleteCheck(w)
  <2>1. TasksFit
    BY <1>13, Moves, Known DEF AddCheck, QuitCheck, SetCheck, CancelCheck, KickTarget, DeleteCheck,
       Proceed, At, Places, Targeted, tables
  <2> QED
    BY <1>13, <2>1 DEF AddCheck, QuitCheck, SetCheck, CancelCheck, KickTarget, DeleteCheck,
       tables, cache, marks, TInv, TypeOK
<1>14. CASE KickCheck(w)
  <2>1. task[w] \in Tasks /\ At(w, "kickCheck") /\ g \in Groups /\ Fit(task[w])
        /\ ActorRole(w) \in Roles
    BY <1>14, Known, StatementTypes DEF KickCheck, TInv, TypeOK, At, ActorRole
  <2>2. PICK t \in Tasks : t = [task[w] EXCEPT !.pc = "kickTarget", !.seen = ActorRole(w)]
    BY <2>1, TaskFacts DEF Places, Targeted
  <2>3. t.pc = "kickTarget" /\ t.actor = task[w].actor /\ t.group = g /\ t.target = task[w].target
    BY <2>1, <2>2 DEF Tasks
  <2>4. created' = created /\ Fit(t)'
    BY <1>14, <2>1, <2>3 DEF Fit, At, KickCheck, tables, Targeted
  <2>5. task' = [task EXCEPT ![w] = t]
    BY <1>14, <2>2 DEF KickCheck, TInv, TypeOK
  <2>6. created' \in created .. MaxGroup
    BY <2>4 DEF TInv, TypeOK
  <2>7. TasksFit
    BY <2>4, <2>5, <2>6, TaskStep
  <2> QED
    BY <1>14, <2>7 DEF KickCheck, tables, cache, marks, TInv, TypeOK
<1>15. CASE GroupChat(w) \/ DeleteGroup(w)
  <2>1. TasksFit /\ g \in 1 .. created
    BY <1>15, Moves, Known DEF GroupChat, DeleteGroup, At, Places, Targeted, tables
  <2> QED
    BY <1>15, <2>1 DEF GroupChat, DeleteGroup, tables, cache, marks, TInv, TypeOK
<1>16. CASE DeleteRows(w)
  <2>1. TasksFit /\ g \in 1 .. created
    BY <1>16, Moves, Known DEF DeleteRows, At, Places, Targeted, tables
  <2>2. role' \in [Groups -> [Users -> Roles]] /\ copies' \in [Groups -> [Users -> Nat]]
    BY <1>16, <2>1, StatementTypes DEF DeleteRows, tables, cache, TInv, TypeOK
  <2> QED
    BY <1>16, <2>1, <2>2 DEF DeleteRows, tables, cache, marks, TInv, TypeOK
<1>17. CASE DeleteList(w)
  <2>1. TasksFit /\ g \in 1 .. created
    BY <1>17, Moves, Known DEF DeleteList, At, Places, Targeted, tables
  <2>2. role' \in [Groups -> [Users -> Roles]] /\ copies' \in [Groups -> [Users -> Nat]]
    BY <1>17, <2>1, StatementTypes DEF DeleteList, tables, cache, TInv, TypeOK
  <2> QED
    BY <1>17, <2>1, <2>2 DEF DeleteList, tables, cache, marks, TInv, TypeOK
<1> QED
  BY <1>1, <1>2, <1>3, <1>4, <1>5, <1>6, <1>7, <1>8, <1>9, <1>10, <1>11, <1>12, <1>13, <1>14, <1>15, <1>16, <1>17
     DEF Handler

\* Every step keeps the types.
LEMMA TypeStep ==
  ASSUME TInv, [Next]_vars
  PROVE  TInv'
<1>1. CASE UNCHANGED vars
  BY <1>1 DEF vars, tables, cache, marks, TInv, TypeOK, Fit
<1>2. CASE Next
  BY <1>2, ReceiveTypes, HandlerTypes, RestartTypes DEF Next
<1> QED
  BY <1>1, <1>2

LEMMA InitTypes == Init => TInv
<1> SUFFICES ASSUME Init PROVE TInv
  OBVIOUS
<1>1. /\ role \in [Groups -> [Users -> Roles]] /\ copies \in [Groups -> [Users -> Nat]]
      /\ created \in 0 .. MaxGroup
  BY DEF Init
<1>2. task \in [Workers -> Tasks] /\ \A w \in Workers : Fit(task[w])
  BY TaskFacts DEF Init
<1> QED
  BY <1>1, <1>2 DEF Init, TInv, TypeOK

\* The tables, the lists and what each worker is doing keep their types, and a
\* handler has a group, and a target, wherever it uses one.
THEOREM TypeCorrect == Spec => []TypeOK
<1>1. TInv => TypeOK
  BY DEF TInv
<1> QED
  BY <1>1, InitTypes, TypeStep, PTL DEF Spec

-----------------------------------------------------------------------------
(* Members have asked.                                                     *)

\* A request changes no table and no list.
LEMMA RequestKeeps ==
  ASSUME NEW w \in Workers, NEW u \in Users, Request(w, u)
  PROVE  UNCHANGED <<tables, cache, wild>>
  BY DEF Request, Receive

\* A row becomes a member's only from a request, or as the creator's.
LEMMA RowStep ==
  ASSUME TInv, [Next]_vars, NEW g \in Groups, NEW u \in Users,
         role[g][u] \notin Members, role'[g][u] \in Members
  PROVE  role[g][u] = "request" \/ (Creating(g) /\ role'[g][u] = "master")
<1>1. role' # role
  OBVIOUS
<1>2. PICK w \in Workers : Handler(w)
  <2>1. \A w \in Workers, v \in Users : Request(w, v) => role' = role
    BY RequestKeeps DEF tables
  <2> QED
    BY <1>1, <2>1 DEF Next, Restart, vars, tables
<1>3. /\ role[g][u] \in Roles /\ role \in [Groups -> [Users -> Roles]]
      /\ ~At(w, "idle") => task[w].actor \in Users
      /\ task[w].pc \notin {"idle", "createRow"} => task[w].group \in Groups
      /\ task[w].pc \in Targeted => task[w].target \in Users
  BY Known, StatementTypes DEF TInv, TypeOK
<1>4. CASE CreateMaster(w)
  <2>1. task[w].group \in Groups /\ task[w].actor \in Users
    BY <1>3, <1>4 DEF CreateMaster, At
  <2>2. role' = [role EXCEPT ![task[w].group][task[w].actor] = "master"]
    BY <1>1, <1>4 DEF CreateMaster, SetRole
  <2>3. task[w].group = g /\ task[w].actor = u /\ role'[g][u] = "master"
    BY <1>3, <2>1, <2>2
  <2> QED
    BY <1>4, <2>3 DEF Creating, CreateMaster
<1>5. CASE AddRow(w) \/ SetRow(w) \/ CancelRow(w)
  <2>1. task[w].group \in Groups /\ task[w].target \in Users
    BY <1>3, <1>5 DEF AddRow, SetRow, CancelRow, At, Targeted
  <2>2. PICK r \in Roles : /\ role[task[w].group][task[w].target] # "none"
                           /\ role' = [role EXCEPT ![task[w].group][task[w].target] = r]
    BY <1>1, <1>5 DEF AddRow, SetRow, CancelRow, modifyGroupRole, SetRole
  <2>3. task[w].group = g /\ task[w].target = u
    BY <1>3, <2>1, <2>2
  <2> QED
    BY <1>3, <2>2, <2>3
<1>6. CASE RequestAddGroup(w)
  <2>1. task[w].group \in Groups /\ task[w].actor \in Users
    BY <1>3, <1>6 DEF RequestAddGroup, At
  <2> QED
    BY <1>1, <1>3, <1>6, <2>1 DEF RequestAddGroup, SetRole
<1>7. CASE QuitRow(w) \/ KickRow(w)
  <2>1. task[w].group \in Groups /\ (QuitRow(w) => task[w].actor \in Users)
        /\ (KickRow(w) => task[w].target \in Users)
    BY <1>3, <1>7 DEF QuitRow, KickRow, At, Targeted
  <2> QED
    BY <1>3, <1>7, <2>1 DEF QuitRow, KickRow, SetRole
<1>8. CASE DeleteRows(w)
  BY <1>3, <1>8 DEF DeleteRows
<1> QED
  BY <1>1, <1>2, <1>4, <1>5, <1>6, <1>7, <1>8
     DEF Handler, CreateRow, CreateList, AddCheck, AddList, QuitCheck, QuitList, SetCheck,
         CancelCheck, KickCheck, KickTarget, KickList, GroupChat, DeleteCheck, DeleteGroup,
         DeleteList, tables

\* Nobody becomes a member without a row that asked for it, except the creator
\* of the group, whatever kicks, quits and deletions the acceptance meets.
THEOREM Joining == Spec => JoinsByRequest
<1>1. ASSUME TInv, [Next]_vars
      PROVE  [\A g \in Groups, u \in Users :
                role[g][u] \notin Members /\ role'[g][u] \in Members
                  => role[g][u] = "request" \/ (Creating(g) /\ role'[g][u] = "master")]_vars
  BY <1>1, RowStep
<1> QED
  BY <1>1, InitTypes, TypeStep, PTL DEF Spec, JoinsByRequest

-----------------------------------------------------------------------------
(* One master.                                                             *)

\* The ids that AUTO_INCREMENT has not reached have no rows.
Fresh == \A g \in Groups, u \in Users : g > created => role[g][u] = "none"

AtMostOne ==
  \A g \in allGroup, u, v \in Users : role[g][u] = "master" /\ role[g][v] = "master" => u = v

Ruled ==
  \A g \in allGroup, u \in Users : role[g][u] \in Members => Masters(g) # {}

\* Nobody belongs to a group until its creator does, and one worker sees to that.
Founding ==
  \A w \in Workers : At(w, "createMaster") =>
    /\ task[w].group \in allGroup => \A u \in Users : role[task[w].group][u] \notin Members
    /\ \A v \in Workers : At(v, "createMaster") /\ task[v].group = task[w].group => v = w

\* What a handler can still count on after its checks: the group has a master,
\* and the row about to change is not the master's.
Standing(w) ==
  LET t == task[w]
      g == task[w].group
  IN  g \in allGroup =>
        /\ t.pc \in {"addCheck", "addRow", "setRow", "cancelRow", "quitRow", "kickRow"}
             => Masters(g) # {}
        /\ t.pc \in {"addCheck", "addRow", "setRow", "cancelRow", "kickRow"}
             => role[g][t.target] # "master"
        /\ t.pc = "quitRow" => role[g][t.actor] # "master"
        /\ t.pc = "kickTarget" /\ t.seen = "master" => role[g][t.actor] = "master"
        /\ t.pc # "delRows"

MInv == TInv /\ Fresh /\ AtMostOne /\ Ruled /\ Founding /\ \A w \in Workers : Standing(w)

\* A step of one worker that leaves the masters of the groups that remain in
\* AllGroup, and makes members only where there is a master.
LEMMA MastersKept ==
  ASSUME MInv, TInv', NEW w \in Workers,
         created' = created, allGroup' \subseteq allGroup,
         \A g \in Groups, u \in Users : g > created => role'[g][u] = role[g][u],
         \A g \in allGroup', u \in Users : role'[g][u] = "master" <=> role[g][u] = "master",
         \A g \in allGroup', u \in Users :
           role'[g][u] \in Members => role[g][u] \in Members \/ Masters(g) # {},
         \A v \in Workers \ {w} : task'[v] = task[v],
         task'[w].pc # "createMaster",
         Standing(w)'
  PROVE  MInv'
<1> USE DEF MInv
<1>1. \A g \in allGroup' : Masters(g)' = Masters(g)
  BY DEF Masters
<1>2. Fresh'
  BY DEF Fresh
<1>3. AtMostOne'
  BY DEF AtMostOne
<1>4. Ruled'
  BY <1>1 DEF Ruled
<1>5. Founding'
  <2>1. ASSUME NEW v \in Workers, At(v, "createMaster")'
        PROVE  v # w /\ At(v, "createMaster") /\ task'[v] = task[v]
    BY <2>1 DEF At
  <2>2. ASSUME NEW v \in Workers, At(v, "createMaster")', task'[v].group \in allGroup',
               NEW u \in Users
        PROVE  role'[task'[v].group][u] \notin Members
    <3>1. \A x \in Users : role[task[v].group][x] \notin Members
      BY <2>1, <2>2 DEF Founding
    <3>2. Masters(task[v].group) = {}
      BY <3>1 DEF Masters
    <3> QED
      BY <2>1, <2>2, <3>1, <3>2
  <2> QED
    BY <2>1, <2>2 DEF Founding
<1>6. ASSUME NEW v \in Workers
      PROVE  Standing(v)'
  <2>1. CASE v = w
    BY <2>1
  <2>2. CASE v # w
    <3>1. task'[v] = task[v] /\ Standing(v)
      BY <2>2
    <3>2. /\ task[v].pc \in Targeted => task[v].target \in Users
          /\ task[v].pc # "idle" => task[v].actor \in Users
      BY Known DEF At
    <3> QED
      BY <1>1, <3>1, <3>2 DEF Standing, Targeted
  <2> QED
    BY <2>1, <2>2
<1> QED
  BY <1>2, <1>3, <1>4, <1>5, <1>6

\* Only a requester is named to ADD_GROUP, by one who finds a master there.
LEMMA ReceiveMasters ==
  ASSUME MInv, ~FreeChoice, NEW w \in Workers, NEW u \in Users, Request(w, u)
  PROVE  MInv'
<1>1. TInv' /\ UNCHANGED <<tables, cache, wild>>
  BY ReceiveTypes, RequestKeeps DEF MInv
<1>2. /\ task'[w].pc \in {"createRow", "quitCheck", "delCheck", "request", "chat", "addCheck",
                          "kickCheck", "setCheck", "cancelCheck"}
      /\ \A v \in Workers \ {w} : task'[v] = task[v]
      /\ task'[w].pc = "addCheck" => MayAdd(u, task'[w].group, task'[w].target)
                                     /\ task'[w].group \in 1 .. created /\ task'[w].target \in Users
  <2>1. ASSUME NEW p, NEW g, NEW t, Receive(w, p, u, g, t)
        PROVE  /\ task'[w].pc = p /\ task'[w].group = g /\ task'[w].target = t
               /\ \A v \in Workers \ {w} : task'[v] = task[v]
    BY <2>1 DEF Receive, MInv, TInv, TypeOK, IdleTask
  <2>2. CASE \E g \in 1 .. created, t \in Users : MayAdd(u, g, t) /\ Receive(w, "addCheck", u, g, t)
    BY <2>1, <2>2
  <2>3. CASE \E p \in {"createRow", "quitCheck", "delCheck", "request", "chat", "kickCheck",
                       "setCheck", "cancelCheck"} :
                \E g, t : Receive(w, p, u, g, t)
    BY <2>1, <2>3
  <2> QED
    BY <2>2, <2>3 DEF Request
<1>3. ASSUME task'[w].pc = "addCheck", task'[w].group \in allGroup
      PROVE  Masters(task'[w].group) # {} /\ role[task'[w].group][task'[w].target] # "master"
  BY <1>2, <1>3 DEF MayAdd, MInv, Ruled
<1>4. Standing(w)'
  BY <1>1, <1>2, <1>3 DEF Standing, tables, Masters
<1> QED
  BY <1>1, <1>2, <1>4, MastersKept DEF tables, MInv

\* A statement on one row that is not and does not become the master's, and
\* that makes a member only where there is a master.
LEMMA OneRow ==
  ASSUME MInv, NEW h \in 1 .. created, NEW x \in Users, NEW r \in Roles, r # "master",
         SetRole(h, x, r) \/ modifyGroupRole(h, x, r),
         h \in allGroup => role[h][x] # "master" /\ (r \in Members => Masters(h) # {})
  PROVE  /\ \A g \in Groups, u \in Users : g > created => role'[g][u] = role[g][u]
         /\ \A g \in allGroup, u \in Users :
              /\ role'[g][u] = "master" <=> role[g][u] = "master"
              /\ role'[g][u] \in Members => role[g][u] \in Members \/ Masters(g) # {}
<1>1. role \in [Groups -> [Users -> Roles]] /\ h \in Groups /\ allGroup \subseteq Groups
      /\ 1 .. created \subseteq Nat
  BY DEF MInv, TInv, TypeOK, Groups
<1>2. CASE role' = role
  BY <1>2
<1>3. CASE role' = [role EXCEPT ![h][x] = r]
  <2>1. \A g \in Groups, u \in Users : role'[g][u] = IF g = h /\ u = x THEN r ELSE role[g][u]
    BY <1>1, <1>3
  <2>2. \A g \in Groups : g > created => g # h
    BY DEF MInv, TInv, TypeOK, Groups
  <2> QED
    BY <1>1, <2>1, <2>2
<1> QED
  BY <1>2, <1>3 DEF SetRole, modifyGroupRole

\* The statements that change a row after a check.
LEMMA RowMasters ==
  ASSUME MInv, NEW w \in Workers,
         AddRow(w) \/ SetRow(w) \/ CancelRow(w) \/ QuitRow(w) \/ KickRow(w) \/ RequestAddGroup(w)
  PROVE  MInv'
<1> USE DEF MInv
<1>1. TInv' /\ Standing(w) /\ task[w] \in Tasks /\ task[w].group \in 1 .. created
  BY HandlerTypes, Known
     DEF Handler, AddRow, SetRow, CancelRow, QuitRow, KickRow, RequestAddGroup, At
<1>2. /\ created' = created /\ allGroup' = allGroup
      /\ \A v \in Workers \ {w} : task'[v] = task[v]
      /\ task'[w].pc \in {"idle", "addList", "quitList", "kickList"}
  BY <1>1 DEF AddRow, SetRow, CancelRow, QuitRow, KickRow, RequestAddGroup, Goto, Finish, IdleTask,
              TInv, TypeOK, Tasks
<1>3. Standing(w)'
  BY <1>2 DEF Standing
<1>4. CASE role' = role
  BY <1>1, <1>2, <1>3, <1>4, MastersKept
<1>5. CASE role' # role
  <2>1. PICK x \in Users, r \in Roles :
          /\ r # "master" /\ (SetRole(task[w].group, x, r) \/ modifyGroupRole(task[w].group, x, r))
          /\ task[w].group \in allGroup =>
               /\ role[task[w].group][x] # "master"
               /\ r \in Members => Masters(task[w].group) # {}
    <3>1. /\ task[w].pc \in Targeted => task[w].target \in Users
          /\ task[w].pc # "idle" => task[w].actor \in Users
      BY Known DEF At
    <3>2. CASE AddRow(w) \/ CancelRow(w)
      <4>1. task[w].target \in Users /\ modifyGroupRole(task[w].group, task[w].target, "normal")
        BY <3>1, <3>2 DEF AddRow, CancelRow, At, Targeted
      <4> QED
        BY <1>1, <3>2, <4>1 DEF AddRow, CancelRow, At, Standing
    <3>3. CASE SetRow(w)
      <4>1. task[w].target \in Users /\ modifyGroupRole(task[w].group, task[w].target, "manager")
        BY <3>1, <3>3 DEF SetRow, At, Targeted
      <4> QED
        BY <1>1, <3>3, <4>1 DEF SetRow, At, Standing
    <3>4. CASE QuitRow(w)
      <4>1. task[w].actor \in Users /\ SetRole(task[w].group, task[w].actor, "none")
        BY <3>1, <3>4 DEF QuitRow, At
      <4> QED
        BY <1>1, <3>4, <4>1 DEF QuitRow, At, Standing
    <3>5. CASE KickRow(w)
      <4>1. task[w].target \in Users /\ SetRole(task[w].group, task[w].target, "none")
        BY <3>1, <3>5 DEF KickRow, At, Targeted
      <4> QED
        BY <1>1, <3>5, <4>1 DEF KickRow, At, Standing
    <3>6. CASE RequestAddGroup(w)
      <4>1. /\ task[w].actor \in Users /\ SetRole(task[w].group, task[w].actor, "request")
            /\ role[task[w].group][task[w].actor] = "none"
        BY <1>5, <3>1, <3>6 DEF RequestAddGroup, At
      <4> QED
        BY <4>1
    <3> QED
      BY <3>2, <3>3, <3>4, <3>5, <3>6
  <2> QED
    BY <1>1, <1>2, <1>3, <2>1, OneRow, MastersKept
<1> QED
  BY <1>4, <1>5

\* A group begins with a row in AllGroup, a new id and no rows of members.
LEMMA CreateRowMasters ==
  ASSUME MInv, NEW w \in Workers, CreateRow(w)
  PROVE  MInv'
<1> USE DEF MInv
<1>1. TInv' /\ Standing(w) /\ UNCHANGED role /\ \A v \in Workers \ {w} : task'[v] = task[v]
  BY HandlerTypes DEF Handler, CreateRow, Finish, tables, TInv, TypeOK
<1>2. CASE Finish(w) /\ UNCHANGED tables
  <2>1. task'[w].pc = "idle"
    BY <1>2 DEF Finish, IdleTask, TInv, TypeOK
  <2>2. Standing(w)'
    BY <2>1 DEF Standing
  <2> QED
    BY <1>1, <1>2, <2>1, <2>2, MastersKept DEF tables
<1>3. CASE ~(Finish(w) /\ UNCHANGED tables)
  <2>1. /\ created' = created + 1 /\ created < MaxGroup /\ allGroup' = allGroup \cup {created + 1}
        /\ task'[w].pc = "createMaster" /\ task'[w].group = created + 1
    BY <1>3, Known DEF CreateRow, TInv, TypeOK, Tasks
  <2>2. /\ \A u \in Users : role[created + 1][u] = "none"
        /\ created + 1 \in Groups /\ created \in Nat /\ allGroup \subseteq 1 .. created
    BY <2>1 DEF Fresh, TInv, TypeOK, Groups
  <2>3. \A v \in Workers \ {w} : task[v].pc \notin {"idle", "createRow"} => task[v].group \in 1 .. created
    BY Known
  <2>4. Fresh'
    BY <1>1, <2>1, <2>2 DEF Fresh, Groups
  <2>5. AtMostOne' /\ Ruled'
    BY <1>1, <2>1, <2>2 DEF AtMostOne, Ruled, Masters
  <2>6. Founding'
    <3>1. ASSUME NEW v \in Workers, At(v, "createMaster")', v # w
          PROVE  /\ At(v, "createMaster") /\ task'[v] = task[v] /\ task[v].group # created + 1
                 /\ task[v].group \in allGroup' => task[v].group \in allGroup
      BY <1>1, <2>1, <2>2, <2>3, <3>1 DEF At
    <3>2. ASSUME NEW v \in Workers, At(v, "createMaster")', task'[v].group \in allGroup',
                 NEW u \in Users
          PROVE  role'[task'[v].group][u] \notin Members
      BY <1>1, <2>1, <2>2, <3>1, <3>2 DEF Founding
    <3>3. ASSUME NEW v \in Workers, NEW x \in Workers, At(v, "createMaster")', At(x, "createMaster")',
                 task'[v].group = task'[x].group
          PROVE  v = x
      BY <2>1, <3>1, <3>3 DEF Founding
    <3> QED
      BY <3>2, <3>3 DEF Founding
  <2>7. ASSUME NEW v \in Workers
        PROVE  Standing(v)'
    <3>1. CASE v = w
      BY <2>1, <3>1 DEF Standing
    <3>2. CASE v # w
      <4>1. task'[v] = task[v] /\ Standing(v)
        BY <1>1, <3>2
      <4>2. CASE task[v].pc \in {"idle", "createRow"}
        BY <4>1, <4>2 DEF Standing
      <4>3. CASE task[v].pc \notin {"idle", "createRow"}
        <5>1. task[v].group \in allGroup' => task[v].group \in allGroup
          BY <2>1, <2>2, <2>3, <3>2, <4>3
        <5> QED
          BY <1>1, <4>1, <5>1 DEF Standing, Masters
      <4> QED
        BY <4>2, <4>3
    <3> QED
      BY <3>1, <3>2
  <2> QED
    BY <1>1, <2>4, <2>5, <2>6, <2>7
<1> QED
  BY <1>2, <1>3

\* The creator becomes the master of a group nobody else belongs to.
LEMMA CreateMasterMasters ==
  ASSUME MInv, NEW w \in Workers, CreateMaster(w)
  PROVE  MInv'
<1> USE DEF MInv
<1> DEFINE h == task[w].group
           x == task[w].actor
<1>1. TInv' /\ h \in 1 .. created /\ h \in Groups /\ x \in Users /\ created' = created /\ allGroup' = allGroup
  BY HandlerTypes, Known, StatementTypes DEF Handler, CreateMaster, At
<1>2. /\ task'[w].pc = "createList" /\ task'[w].group = h
      /\ \A v \in Workers \ {w} : task'[v] = task[v]
  BY Known DEF CreateMaster, Goto, TInv, TypeOK, Tasks
<1>3. \A v \in Workers \ {w} : At(v, "createMaster") => task[v].group # h
  BY DEF Founding, CreateMaster
<1>4. h \in allGroup => \A u \in Users : role[h][u] \notin Members
  BY DEF Founding, CreateMaster
<1>5. Standing(w)'
  BY <1>2 DEF Standing
<1>6. CASE role' = role
  BY <1>1, <1>2, <1>5, <1>6, MastersKept
<1>7. CASE role' # role
  <2>1. \A g \in Groups, u \in Users : role'[g][u] = IF g = h /\ u = x THEN "master" ELSE role[g][u]
    BY <1>1, <1>7 DEF CreateMaster, SetRole, TInv, TypeOK
  <2>2. allGroup \subseteq Groups /\ created \in Nat
    BY DEF TInv, TypeOK, Groups
  <2>3. Fresh'
    BY <1>1, <2>1, <2>2 DEF Fresh, Groups
  <2>4. AtMostOne'
    BY <1>1, <1>4, <2>1, <2>2 DEF AtMostOne
  <2>5. Ruled'
    <3>1. ASSUME NEW g \in allGroup, NEW u \in Users, role'[g][u] \in Members
          PROVE  Masters(g)' # {}
      <4>1. CASE g = h
        BY <1>1, <2>1, <2>2, <4>1 DEF Masters
      <4>2. CASE g # h
        BY <2>1, <2>2, <3>1, <4>2 DEF Masters, Ruled
      <4> QED
        BY <4>1, <4>2
    <3> QED
      BY <1>1, <3>1 DEF Ruled
  <2>6. Founding'
    BY <1>1, <1>2, <1>3, <2>1, <2>2 DEF Founding, At
  <2>7. ASSUME NEW v \in Workers
        PROVE  Standing(v)'
    <3>1. CASE v = w
      BY <1>5, <3>1
    <3>2. CASE v # w
      <4>1. /\ task'[v] = task[v] /\ Standing(v)
            /\ task[v].pc \in Targeted => task[v].target \in Users
            /\ task[v].pc # "idle" => task[v].actor \in Users
        BY <1>2, <3>2, Known DEF At
      <4>2. CASE task[v].group # h
        BY <1>1, <2>1, <2>2, <4>1, <4>2 DEF Standing, Masters, Targeted
      <4>3. CASE task[v].group = h
        <5>1. h \in allGroup => Masters(h) = {} /\ \A u \in Users : role[h][u] # "master"
          BY <1>4 DEF Masters
        <5> QED
          BY <1>1, <4>1, <4>3, <5>1 DEF Standing
      <4> QED
        BY <4>2, <4>3
    <3> QED
      BY <3>1, <3>2
  <2> QED
    BY <1>1, <2>3, <2>4, <2>5, <2>6, <2>7
<1> QED
  BY <1>6, <1>7

\* The checks: what a handler has seen holds until its next statement.
LEMMA CheckMasters ==
  ASSUME MInv, NEW w \in Workers,
         \/ AddCheck(w) \/ SetCheck(w) \/ CancelCheck(w) \/ QuitCheck(w)
         \/ KickCheck(w) \/ KickTarget(w) \/ DeleteCheck(w)
  PROVE  MInv'
<1> USE DEF MInv
<1> DEFINE t == task[w]
           g == task[w].group
<1>1. /\ TInv' /\ UNCHANGED tables /\ Standing(w)
      /\ t \in Tasks /\ g \in 1 .. created /\ t.actor \in Users
      /\ t.pc \in Targeted => t.target \in Users
  BY HandlerTypes, Known
     DEF Handler, AddCheck, SetCheck, CancelCheck, QuitCheck, KickCheck, KickTarget, DeleteCheck, At
<1>2. \A v \in Workers \ {w} : task'[v] = task[v]
  BY DEF AddCheck, SetCheck, CancelCheck, QuitCheck, KickCheck, KickTarget, DeleteCheck,
         Proceed, Goto, Finish, TInv, TypeOK
<1>3. \A p \in Places : Goto(w, p) => /\ task'[w].pc = p /\ task'[w].actor = t.actor
                                     /\ task'[w].group = g /\ task'[w].target = t.target
  BY <1>1 DEF Goto, TInv, TypeOK, Tasks
<1>4. Finish(w) => task'[w].pc = "idle"
  BY DEF Finish, IdleTask, TInv, TypeOK
<1>5. \A u \in Users : g \in allGroup /\ role[g][u] \in Members => Masters(g) # {}
  BY DEF Ruled
<1>6. CASE Finish(w)
  <2>1. Standing(w)'
    BY <1>4, <1>6 DEF Standing
  <2> QED
    BY <1>1, <1>2, <1>4, <1>6, <2>1, MastersKept DEF tables
<1>7. CASE AddCheck(w) /\ ~Finish(w)
  <2>1. Goto(w, "addRow") /\ t.pc = "addCheck"
    BY <1>7 DEF AddCheck, Proceed, At
  <2>2. Standing(w)' /\ task'[w].pc = "addRow"
    BY <1>1, <1>3, <2>1 DEF Standing, tables, Places, Targeted, Masters
  <2> QED
    BY <1>1, <1>2, <2>2, MastersKept DEF tables
<1>8. CASE SetCheck(w) /\ ~Finish(w)
  <2>1. Goto(w, "setRow") /\ role[g][t.target] = "normal" /\ t.target \in Users
    BY <1>1, <1>8 DEF SetCheck, Proceed, At, TargetRole, Targeted
  <2>2. Standing(w)' /\ task'[w].pc = "setRow"
    BY <1>1, <1>3, <1>5, <2>1 DEF Standing, tables, Places, Targeted, Masters
  <2> QED
    BY <1>1, <1>2, <2>2, MastersKept DEF tables
<1>9. CASE CancelCheck(w) /\ ~Finish(w)
  <2>1. Goto(w, "cancelRow") /\ role[g][t.target] = "manager" /\ t.target \in Users
    BY <1>1, <1>9 DEF CancelCheck, Proceed, At, TargetRole, Targeted
  <2>2. Standing(w)' /\ task'[w].pc = "cancelRow"
    BY <1>1, <1>3, <1>5, <2>1 DEF Standing, tables, Places, Targeted, Masters
  <2> QED
    BY <1>1, <1>2, <2>2, MastersKept DEF tables
<1>10. CASE QuitCheck(w) /\ ~Finish(w)
  <2>1. Goto(w, "quitRow") /\ role[g][t.actor] \in {"manager", "normal"}
    BY <1>10 DEF QuitCheck, Proceed, ActorRole
  <2>2. Standing(w)' /\ task'[w].pc = "quitRow"
    BY <1>1, <1>3, <1>5, <2>1 DEF Standing, tables, Places, Masters
  <2> QED
    BY <1>1, <1>2, <2>2, MastersKept DEF tables
<1>11. CASE KickCheck(w)
  <2>1. /\ task'[w].pc = "kickTarget" /\ task'[w].seen = role[g][t.actor]
        /\ task'[w].group = g /\ task'[w].actor = t.actor
    BY <1>1, <1>11 DEF KickCheck, ActorRole, TInv, TypeOK, Tasks
  <2>2. Standing(w)'
    BY <1>1, <2>1 DEF Standing, tables
  <2> QED
    BY <1>1, <1>2, <2>1, <2>2, MastersKept DEF tables
<1>12. CASE KickTarget(w) /\ ~Finish(w)
  <2>1. /\ Goto(w, "kickRow") /\ t.pc = "kickTarget" /\ t.target \in Users /\ t.actor # t.target
        /\ \/ t.seen = "master" /\ role[g][t.target] \in Members
           \/ role[g][t.target] = "normal"
    BY <1>1, <1>12 DEF KickTarget, Proceed, At, TargetRole, Targeted, TInv, Fit
  <2>2. g \in allGroup /\ t.seen = "master" => role[g][t.actor] = "master"
    BY <1>1, <2>1 DEF Standing
  <2>3. g \in allGroup => role[g][t.target] # "master" /\ Masters(g) # {}
    BY <1>1, <1>5, <2>1, <2>2 DEF AtMostOne
  <2>4. Standing(w)' /\ task'[w].pc = "kickRow"
    BY <1>1, <1>3, <2>1, <2>3 DEF Standing, tables, Places, Targeted, Masters
  <2> QED
    BY <1>1, <1>2, <2>4, MastersKept DEF tables
<1>13. CASE DeleteCheck(w) /\ ~Finish(w)
  <2>1. Goto(w, "delGroup")
    BY <1>13 DEF DeleteCheck, Proceed
  <2>2. Standing(w)' /\ task'[w].pc = "delGroup"
    BY <1>3, <2>1 DEF Standing, Places
  <2> QED
    BY <1>1, <1>2, <2>2, MastersKept DEF tables
<1> QED
  BY <1>6, <1>7, <1>8, <1>9, <1>10, <1>11, <1>12, <1>13

\* The lists and the deletion: the group has left AllGroup before its rows go.
LEMMA OtherMasters ==
  ASSUME MInv, NEW w \in Workers,
         \/ CreateList(w) \/ AddList(w) \/ QuitList(w) \/ KickList(w) \/ GroupChat(w)
         \/ DeleteGroup(w) \/ DeleteRows(w) \/ DeleteList(w)
  PROVE  MInv'
<1> USE DEF MInv
<1> DEFINE g == task[w].group
<1>1. TInv' /\ Standing(w) /\ task[w] \in Tasks
  BY HandlerTypes, Known DEF Handler
<1>2. /\ created' = created /\ \A v \in Workers \ {w} : task'[v] = task[v]
  BY DEF CreateList, AddList, QuitList, KickList, GroupChat, DeleteGroup, DeleteRows, DeleteList,
         tables, Goto, Finish, TInv, TypeOK
<1>3. CASE CreateList(w) \/ AddList(w) \/ QuitList(w) \/ KickList(w) \/ GroupChat(w) \/ DeleteList(w)
  <2>1. task'[w].pc = "idle" /\ UNCHANGED tables
    BY <1>3 DEF CreateList, AddList, QuitList, KickList, GroupChat, DeleteList, Finish, IdleTask,
                TInv, TypeOK
  <2>2. Standing(w)'
    BY <2>1 DEF Standing
  <2> QED
    BY <1>1, <1>2, <2>1, <2>2, MastersKept DEF tables
<1>4. CASE DeleteGroup(w)
  <2>1. task'[w].pc = "delRows" /\ task'[w].group = g
    BY <1>1, <1>4 DEF DeleteGroup, Goto, TInv, TypeOK, Tasks
  <2>2. allGroup' = allGroup \ {g} /\ role' = role
    BY <1>4 DEF DeleteGroup
  <2>3. Standing(w)'
    BY <2>1, <2>2 DEF Standing
  <2> QED
    BY <1>1, <1>2, <2>1, <2>2, <2>3, MastersKept
<1>5. CASE DeleteRows(w)
  <2>1. g \notin allGroup /\ g \in 1 .. created
    BY <1>1, <1>5, Known DEF DeleteRows, At, Standing
  <2>2. task'[w].pc = "delList" /\ allGroup' = allGroup
    BY <1>1, <1>5 DEF DeleteRows, Goto, TInv, TypeOK, Tasks
  <2>3. Standing(w)'
    BY <2>2 DEF Standing
  <2>4. \A h \in Groups : h # g => role'[h] = role[h]
    BY <1>5 DEF DeleteRows, TInv, TypeOK
  <2>5. \A h \in Groups : h > created => h # g
    BY <2>1 DEF TInv, TypeOK, Groups
  <2>6. allGroup \subseteq Groups
    BY DEF TInv, TypeOK, Groups
  <2> QED
    BY <1>1, <1>2, <2>1, <2>2, <2>3, <2>4, <2>5, <2>6, MastersKept
<1> QED
  BY <1>3, <1>4, <1>5

\* A restart keeps the tables and forgets the handlers.
LEMMA RestartMasters ==
  ASSUME MInv, Restart
  PROVE  MInv'
<1>1. TInv' /\ UNCHANGED tables /\ \A v \in Workers : task'[v].pc = "idle"
  BY RestartTypes, TaskFacts DEF MInv, Restart
<1> QED
  BY <1>1 DEF MInv, tables, Fresh, AtMostOne, Ruled, Founding, Standing, Masters, At

LEMMA MasterStep ==
  ASSUME MInv, [Next]_vars, ~FreeChoice
  PROVE  MInv'
<1>1. CASE UNCHANGED vars
  <2>1. TInv'
    BY <1>1, TypeStep DEF MInv
  <2> QED
    BY <1>1, <2>1 DEF vars, tables, MInv, Fresh, AtMostOne, Ruled, Founding, Standing, Masters, At
<1>2. ASSUME NEW w \in Workers, Handler(w)
      PROVE  MInv'
  BY <1>2, CreateRowMasters, CreateMasterMasters, RowMasters, CheckMasters, OtherMasters DEF Handler
<1>3. ASSUME NEW w \in Workers, NEW u \in Users, Request(w, u)
      PROVE  MInv'
  BY <1>3, ReceiveMasters
<1> QED
  BY <1>1, <1>2, <1>3, RestartMasters DEF Next

LEMMA MasterInit == Init => MInv
<1> SUFFICES ASSUME Init PROVE MInv
  OBVIOUS
<1>1. allGroup = {} /\ \A w \in Workers : task[w].pc = "idle"
  BY TaskFacts DEF Init
<1>2. Fresh
  BY DEF Init, Fresh
<1> QED
  BY <1>1, <1>2, InitTypes DEF MInv, AtMostOne, Ruled, Founding, Standing, At

\* While ADD_GROUP names requesters, a group never has two masters, and has
\* one as long as anybody belongs to it, across crashes in mid-handler.
THEOREM MasterKept ==
  ASSUME ~FreeChoice
  PROVE  Spec => []OneMaster
<1>1. MInv => OneMaster
  <2> SUFFICES ASSUME MInv, NEW g \in allGroup
               PROVE  /\ Cardinality(Masters(g)) <= 1
                      /\ (\E u \in Users : role[g][u] \in Members) => Masters(g) # {}
    BY DEF OneMaster
  <2>1. Masters(g) = {} \/ \E u \in Users : Masters(g) = {u}
    BY DEF MInv, AtMostOne, Masters
  <2>2. Cardinality(Masters(g)) <= 1
    BY <2>1, FS_EmptySet, FS_Singleton
  <2> QED
    BY <2>2 DEF MInv, Ruled
<1>2. MInv /\ [Next]_vars => MInv'
  BY MasterStep
<1> QED
  BY <1>1, <1>2, MasterInit, PTL DEF Spec

-----------------------------------------------------------------------------
(* The lists.                                                              *)

Busy(w) == ~At(w, "idle")

Agrees(g, u) == copies[g][u] = IF role[g][u] \in Members THEN 1 ELSE 0

\* The handler has still to bring a list in line.
Owes(w, g, u) ==
  /\ task[w].group = g
  /\ \/ task[w].pc \in {"createList", "quitList"} /\ task[w].actor = u
     \/ task[w].pc \in {"addList", "kickList"} /\ task[w].target = u

\* What a handler that runs alone has seen or done still holds.
Sure(w) ==
  LET t == task[w]
      g == task[w].group
  IN  /\ t.pc = "createMaster" => \A u \in Users : role[g][u] = "none"
      /\ t.pc = "createList" /\ g \in allGroup => role[g][t.actor] \in Members /\ copies[g][t.actor] = 0
      /\ t.pc \in {"addCheck", "addRow"} => role[g][t.target] = "request"
      /\ t.pc = "addList" /\ g \in allGroup => role[g][t.target] \in Members /\ copies[g][t.target] = 0
      /\ t.pc \in {"setRow", "cancelRow"} => role[g][t.target] \in Members
      /\ t.pc = "quitList" => role[g][t.actor] \notin Members
      /\ t.pc = "kickList" => role[g][t.target] \notin Members
      /\ t.pc \in {"delRows", "delList"} => g \notin allGroup

Alone == \A v, w \in Workers : Busy(v) /\ Busy(w) => v = w
NewLists == \A g \in Groups : g > created => \A u \in Users : copies[g][u] = 0
Lists == \A g \in allGroup, u \in Users : Agrees(g, u) \/ \E w \in Workers : Owes(w, g, u)

InLine == Alone /\ NewLists /\ Lists /\ \A w \in Workers : Sure(w)

LInv == MInv /\ (~overlapped /\ ~wild => InLine)

\* What one statement does to a table or a list.
LEMMA CellAt ==
  ASSUME TInv, NEW h \in Groups, NEW x \in Users
  PROVE  /\ \A r \in Roles : SetRole(h, x, r) =>
              \A g \in Groups, u \in Users : role'[g][u] = IF g = h /\ u = x THEN r ELSE role[g][u]
         /\ PushBack(h, x) =>
              \A g \in Groups, u \in Users :
                copies'[g][u] = IF g = h /\ u = x THEN copies[g][u] + 1 ELSE copies[g][u]
         /\ Remove(h, x) =>
              \A g \in Groups, u \in Users : copies'[g][u] = IF g = h /\ u = x THEN 0 ELSE copies[g][u]
BY DEF TInv, TypeOK, SetRole, PushBack, Remove

\* The only handler that runs owes all that is owed, before its step and after.
LEMMA LoneStep ==
  ASSUME TInv, InLine, NEW w \in Workers, Busy(w), \A v \in Workers \ {w} : task'[v] = task[v],
         NewLists', Sure(w)', \A g \in allGroup', u \in Users : Agrees(g, u)' \/ Owes(w, g, u)'
  PROVE  InLine'
<1>1. ASSUME NEW v \in Workers, v # w
      PROVE  task'[v] = task[v] /\ task'[v].pc = "idle"
  BY <1>1 DEF InLine, Alone, Busy, At
<1>2. Alone'
  BY <1>1 DEF Alone, Busy, At
<1>3. Lists'
  BY DEF Lists
<1>4. ASSUME NEW v \in Workers
      PROVE  Sure(v)'
  <2>1. CASE v = w
    BY <2>1
  <2>2. CASE v # w
    BY <1>1, <2>2 DEF Sure
  <2> QED
    BY <2>1, <2>2
<1> QED
  BY <1>2, <1>3, <1>4 DEF InLine

LEMMA LoneOwner ==
  ASSUME TInv, InLine, NEW w \in Workers, Busy(w), NEW g \in allGroup, NEW u \in Users
  PROVE  Agrees(g, u) \/ Owes(w, g, u)
<1>1. \A v \in Workers : v # w => task[v].pc = "idle"
  BY DEF InLine, Alone, Busy, At
<1>2. \A v \in Workers : Owes(v, g, u) => v = w
  BY <1>1 DEF Owes
<1> QED
  BY <1>2 DEF InLine, Lists

\* The start of a handler while no other runs.
LEMMA ReceiveLists ==
  ASSUME LInv, NEW w \in Workers, NEW u \in Users, Request(w, u), ~FreeChoice, ~wild, ~overlapped'
  PROVE  InLine'
<1>1. /\ TInv /\ UNCHANGED <<created, allGroup, role, copies>>
      /\ \A v \in Workers \ {w} : task'[v] = task[v]
  BY RequestKeeps DEF LInv, MInv, Request, Receive, TInv, TypeOK, tables, cache
<1>2. ~overlapped /\ \A v \in Workers : task[v].pc = "idle"
  BY DEF Request, Receive, At, LInv, MInv, TInv, TypeOK
<1>3. InLine
  BY <1>2 DEF LInv
<1>4. /\ task'[w].pc \in {"createRow", "quitCheck", "delCheck", "request", "chat", "addCheck",
                          "kickCheck", "setCheck", "cancelCheck"}
      /\ task'[w].pc = "addCheck" => role[task'[w].group][task'[w].target] = "request"
  <2>1. ASSUME NEW p, NEW g, NEW t, Receive(w, p, u, g, t)
        PROVE  task'[w].pc = p /\ task'[w].group = g /\ task'[w].target = t
    BY <1>1, <2>1 DEF Receive, IdleTask, TInv, TypeOK
  <2>2. CASE Receive(w, "createRow", u, None, None)
    BY <2>1, <2>2
  <2>3. ASSUME NEW q \in {"quitCheck", "delCheck", "request", "chat"}, NEW h, Receive(w, q, u, h, None)
        PROVE  task'[w].pc = q
    BY <2>1, <2>3
  <2>4. ASSUME NEW q \in {"setCheck", "cancelCheck", "kickCheck"}, NEW h, NEW v, Receive(w, q, u, h, v)
        PROVE  task'[w].pc = q
    BY <2>1, <2>4
  <2>5. ASSUME NEW h, NEW v, MayAdd(u, h, v), Receive(w, "addCheck", u, h, v)
        PROVE  task'[w].pc = "addCheck" /\ role[task'[w].group][task'[w].target] = "request"
    BY <2>1, <2>5 DEF MayAdd
  <2> QED
    BY <2>2, <2>3, <2>4, <2>5 DEF Request
<1>5. \A v \in Workers : v # w => task'[v].pc = "idle"
  BY <1>1, <1>2
<1>6. Alone' /\ NewLists'
  BY <1>1, <1>3, <1>5 DEF Alone, Busy, At, InLine, NewLists
<1>7. Lists'
  <2>1. \A v \in Workers, g \in allGroup, x \in Users : ~Owes(v, g, x)
    BY <1>2 DEF Owes
  <2>2. \A g \in allGroup, x \in Users : Agrees(g, x)
    BY <1>3, <2>1 DEF InLine, Lists
  <2> QED
    BY <1>1, <2>2 DEF Lists, Agrees
<1>8. \A v \in Workers : Sure(v)'
  BY <1>1, <1>4, <1>5 DEF Sure
<1> QED
  BY <1>6, <1>7, <1>8 DEF InLine

\* Creation: the new group has neither rows nor a list.
LEMMA CreateLists ==
  ASSUME MInv, InLine, NEW w \in Workers, CreateRow(w) \/ CreateMaster(w) \/ CreateList(w)
  PROVE  InLine'
<1> DEFINE h == task[w].group
           x == task[w].actor
<1>1. /\ TInv /\ Busy(w) /\ Sure(w) /\ task[w] \in Tasks /\ x \in Users
      /\ \A v \in Workers \ {w} : task'[v] = task[v]
  BY Known DEF MInv, InLine, CreateRow, CreateMaster, CreateList, At, Busy, Goto, Finish, TInv, TypeOK
<1>2. /\ \A g \in allGroup, u \in Users : Agrees(g, u) \/ Owes(w, g, u)
      /\ allGroup \subseteq Groups /\ created \in Nat /\ allGroup \subseteq 1 .. created
  BY <1>1, LoneOwner DEF TInv, TypeOK, Groups
<1>3. CASE CreateRow(w)
  <2>1. \A g \in allGroup, u \in Users : Agrees(g, u)
    BY <1>2, <1>3 DEF CreateRow, At, Owes
  <2>2. CASE Finish(w) /\ UNCHANGED tables
    <3>1. UNCHANGED <<created, allGroup, role, copies>> /\ task'[w].pc = "idle"
      BY <1>3, <2>2 DEF CreateRow, Finish, IdleTask, TInv, TypeOK, MInv, tables, cache
    <3>2. Sure(w)' /\ NewLists'
      BY <3>1 DEF Sure, InLine, NewLists
    <3>3. \A g \in allGroup', u \in Users : Agrees(g, u)'
      BY <2>1, <3>1 DEF Agrees
    <3> QED
      BY <1>1, <3>2, <3>3, LoneStep
  <2>3. CASE ~(Finish(w) /\ UNCHANGED tables)
    <3>1. /\ created' = created + 1 /\ created < MaxGroup /\ allGroup' = allGroup \cup {created + 1}
          /\ task'[w].pc = "createMaster" /\ task'[w].group = created + 1
          /\ UNCHANGED <<role, copies>>
      BY <1>1, <1>3, <2>3 DEF CreateRow, TInv, TypeOK, Tasks, cache
    <3>2. created + 1 \in Groups
      BY <1>2, <3>1 DEF Groups
    <3>3. \A u \in Users : role[created + 1][u] = "none" /\ copies[created + 1][u] = 0
      BY <1>2, <3>2 DEF MInv, Fresh, InLine, NewLists
    <3>4. Sure(w)'
      BY <3>1, <3>3 DEF Sure
    <3>5. NewLists'
      BY <1>2, <3>1 DEF InLine, NewLists, Groups
    <3>6. \A g \in allGroup', u \in Users : Agrees(g, u)'
      BY <2>1, <3>1, <3>3 DEF Agrees
    <3> QED
      BY <1>1, <3>4, <3>5, <3>6, LoneStep
  <2> QED
    BY <2>2, <2>3
<1>4. CASE CreateMaster(w)
  <2>1. h \in Groups /\ \A u \in Users : role[h][u] = "none"
    BY <1>1, <1>4, Known, StatementTypes DEF CreateMaster, At, Sure
  <2>2. \A g \in Groups, u \in Users : role'[g][u] = IF g = h /\ u = x THEN "master" ELSE role[g][u]
    BY <1>1, <1>4, <2>1, CellAt DEF CreateMaster
  <2>3. /\ UNCHANGED <<created, allGroup, copies>>
        /\ task'[w].pc = "createList" /\ task'[w].group = h /\ task'[w].actor = x
    BY <1>1, <1>4 DEF CreateMaster, Goto, TInv, TypeOK, Tasks, cache
  <2>4. \A g \in allGroup, u \in Users : Agrees(g, u)
    BY <1>2, <1>4 DEF CreateMaster, At, Owes
  <2>5. Sure(w)'
    <3>1. role'[h][x] \in Members
      BY <1>1, <2>1, <2>2
    <3>2. h \in allGroup => copies[h][x] = 0
      BY <1>1, <2>1, <2>4 DEF Agrees
    <3> QED
      BY <2>3, <3>1, <3>2 DEF Sure
  <2>6. NewLists'
    BY <2>3 DEF InLine, NewLists
  <2>7. \A g \in allGroup', u \in Users : Agrees(g, u)' \/ Owes(w, g, u)'
    BY <1>2, <2>2, <2>3, <2>4 DEF Agrees, Owes
  <2> QED
    BY <1>1, <2>5, <2>6, <2>7, LoneStep
<1>5. CASE CreateList(w)
  <2>1. h \in Groups /\ h \in 1 .. created
    BY <1>1, <1>5, Known, StatementTypes DEF CreateList, At
  <2>2. \A g \in Groups, u \in Users : copies'[g][u] = IF g = h /\ u = x THEN copies[g][u] + 1 ELSE copies[g][u]
    BY <1>1, <1>5, <2>1, CellAt DEF CreateList
  <2>3. UNCHANGED <<created, allGroup, role>> /\ task'[w].pc = "idle"
    BY <1>5 DEF CreateList, Finish, IdleTask, TInv, TypeOK, MInv, tables
  <2>4. Sure(w)' /\ NewLists'
    BY <1>2, <2>1, <2>2, <2>3 DEF Sure, InLine, NewLists
  <2>5. ASSUME NEW g \in allGroup', NEW u \in Users
        PROVE  Agrees(g, u)'
    <3>1. CASE g = h /\ u = x
      BY <1>1, <1>5, <2>1, <2>2, <2>3, <3>1 DEF CreateList, At, Sure, Agrees
    <3>2. CASE ~(g = h /\ u = x)
      BY <1>2, <1>5, <2>2, <2>3, <3>2 DEF CreateList, At, Owes, Agrees
    <3> QED
      BY <3>1, <3>2
  <2> QED
    BY <1>1, <2>4, <2>5, LoneStep
<1> QED
  BY <1>3, <1>4, <1>5

\* The checks change nothing, and the statement after them finds what they saw.
LEMMA CheckLists ==
  ASSUME MInv, InLine, NEW w \in Workers,
         \/ AddCheck(w) \/ SetCheck(w) \/ CancelCheck(w) \/ QuitCheck(w)
         \/ KickCheck(w) \/ KickTarget(w) \/ DeleteCheck(w) \/ GroupChat(w)
  PROVE  InLine'
<1> DEFINE t == task[w]
<1>1. /\ TInv /\ Busy(w) /\ Sure(w) /\ t \in Tasks
      /\ \A v \in Workers \ {w} : task'[v] = task[v]
      /\ UNCHANGED <<created, allGroup, role, copies>>
  BY Known DEF MInv, InLine, AddCheck, SetCheck, CancelCheck, QuitCheck, KickCheck, KickTarget, DeleteCheck, GroupChat,
               Proceed, At, Busy, Goto, Finish, TInv, TypeOK, tables, cache
<1>2. NewLists'
  BY <1>1 DEF InLine, NewLists
<1>3. \A g \in allGroup', u \in Users : Agrees(g, u)'
  <2>1. \A g \in allGroup, u \in Users : Agrees(g, u) \/ Owes(w, g, u)
    BY <1>1, LoneOwner
  <2>2. t.pc \in {"addCheck", "setCheck", "cancelCheck", "quitCheck", "kickCheck", "kickTarget", "delCheck", "chat"}
    BY DEF AddCheck, SetCheck, CancelCheck, QuitCheck, KickCheck, KickTarget, DeleteCheck, GroupChat, At
  <2> QED
    BY <1>1, <2>1, <2>2 DEF Agrees, Owes
<1>4. Sure(w)'
  <2>1. \A p \in Places : Goto(w, p) => task'[w].pc = p /\ task'[w].group = t.group /\ task'[w].target = t.target
    BY <1>1 DEF Goto, TInv, TypeOK, Tasks
  <2>2. Finish(w) => task'[w].pc = "idle"
    BY <1>1 DEF Finish, IdleTask, TInv, TypeOK
  <2>3. CASE Finish(w) \/ KickCheck(w) \/ GroupChat(w)
    <3>1. task'[w].pc \in {"idle", "kickTarget"}
      BY <1>1, <2>2, <2>3 DEF KickCheck, GroupChat, TInv, TypeOK, Tasks
    <3> QED
      BY <3>1 DEF Sure
  <2>4. CASE Goto(w, "addRow") /\ At(w, "addCheck")
    BY <1>1, <2>1, <2>4 DEF Sure, At, Places, Targeted
  <2>5. CASE \/ Goto(w, "setRow") /\ TargetRole(w) = "normal"
             \/ Goto(w, "cancelRow") /\ TargetRole(w) = "manager"
    BY <1>1, <2>1, <2>5 DEF Sure, TargetRole, Places, Targeted
  <2>6. CASE Goto(w, "quitRow") \/ Goto(w, "kickRow") \/ Goto(w, "delGroup")
    BY <2>1, <2>6 DEF Sure, Places, Targeted
  <2> QED
    BY <2>3, <2>4, <2>5, <2>6 DEF AddCheck, SetCheck, CancelCheck, QuitCheck, KickTarget, DeleteCheck, Proceed
<1> QED
  BY <1>1, <1>2, <1>3, <1>4, LoneStep

\* A row changes: of a member that stays one, or the list is owed the change.
LEMMA RowLists ==
  ASSUME MInv, InLine, NEW w \in Workers,
         \/ RequestAddGroup(w) \/ AddRow(w) \/ SetRow(w) \/ CancelRow(w) \/ QuitRow(w) \/ KickRow(w)
  PROVE  InLine'
<1> DEFINE t == task[w]
           h == task[w].group
<1>1. /\ TInv /\ Busy(w) /\ Sure(w) /\ t \in Tasks /\ h \in Groups /\ t.actor \in Users
      /\ t.pc \in Targeted => t.target \in Users
      /\ \A v \in Workers \ {w} : task'[v] = task[v]
      /\ UNCHANGED <<created, allGroup, copies>>
  BY Known, StatementTypes DEF MInv, InLine, RequestAddGroup, AddRow, SetRow, CancelRow, QuitRow, KickRow, At, Busy, Goto, Finish, TInv, TypeOK, cache
<1>2. NewLists'
  BY <1>1 DEF InLine, NewLists
<1>3. allGroup \subseteq Groups /\ \A g \in allGroup, u \in Users : Agrees(g, u)
  <2>1. \A g \in allGroup, u \in Users : Agrees(g, u) \/ Owes(w, g, u)
    BY <1>1, LoneOwner
  <2>2. t.pc \in {"request", "addRow", "setRow", "cancelRow", "quitRow", "kickRow"}
    BY DEF RequestAddGroup, AddRow, SetRow, CancelRow, QuitRow, KickRow, At
  <2>3. allGroup \subseteq Groups
    BY <1>1 DEF TInv, TypeOK, Groups
  <2> QED
    BY <2>1, <2>2, <2>3 DEF Owes
<1>4. /\ \A p \in Places : Goto(w, p) => /\ task'[w].pc = p /\ task'[w].group = h
                                        /\ task'[w].actor = t.actor /\ task'[w].target = t.target
      /\ Finish(w) => task'[w].pc = "idle"
  BY <1>1 DEF Goto, Finish, IdleTask, TInv, TypeOK, Tasks
<1>5. CASE RequestAddGroup(w)
  <2>1. task'[w].pc = "idle"
    BY <1>4, <1>5 DEF RequestAddGroup
  <2>2. \A g \in Groups, u \in Users : role'[g][u] \in Members <=> role[g][u] \in Members
    <3>1. CASE role' = role
      BY <3>1
    <3>2. CASE role' # role
      <4>1. role[h][t.actor] = "none" /\ SetRole(h, t.actor, "request")
        BY <1>5, <3>2 DEF RequestAddGroup
      <4>2. \A g \in Groups, u \in Users : role'[g][u] = IF g = h /\ u = t.actor THEN "request" ELSE role[g][u]
        BY <1>1, <4>1, CellAt
      <4> QED
        BY <4>1, <4>2
    <3> QED
      BY <3>1, <3>2
  <2>3. Sure(w)' /\ \A g \in allGroup', u \in Users : Agrees(g, u)'
    BY <1>1, <1>3, <2>1, <2>2 DEF Sure, Agrees
  <2> QED
    BY <1>1, <1>2, <2>3, LoneStep
<1>6. CASE AddRow(w)
  <2>1. t.target \in Users /\ role[h][t.target] = "request" /\ SetRole(h, t.target, "normal")
    BY <1>1, <1>6 DEF AddRow, At, Targeted, Sure, modifyGroupRole
  <2>2. \A g \in Groups, u \in Users : role'[g][u] = IF g = h /\ u = t.target THEN "normal" ELSE role[g][u]
    BY <1>1, <2>1, CellAt
  <2>3. task'[w].pc = "addList" /\ task'[w].group = h /\ task'[w].target = t.target
    BY <1>4, <1>6 DEF AddRow, Places, Targeted
  <2>4. Sure(w)'
    <3>1. role'[h][t.target] \in Members
      BY <1>1, <2>1, <2>2
    <3>2. h \in allGroup => copies[h][t.target] = 0
      BY <1>3, <2>1 DEF Agrees
    <3> QED
      BY <1>1, <2>3, <3>1, <3>2 DEF Sure
  <2>5. \A g \in allGroup', u \in Users : Agrees(g, u)' \/ Owes(w, g, u)'
    BY <1>1, <1>3, <2>2, <2>3 DEF Agrees, Owes
  <2> QED
    BY <1>1, <1>2, <2>4, <2>5, LoneStep
<1>7. CASE SetRow(w) \/ CancelRow(w)
  <2>1. t.target \in Users /\ role[h][t.target] \in Members /\ task'[w].pc = "idle"
    BY <1>1, <1>4, <1>7 DEF SetRow, CancelRow, At, Targeted, Sure
  <2>2. SetRole(h, t.target, "manager") \/ SetRole(h, t.target, "normal")
    BY <1>7, <2>1 DEF SetRow, CancelRow, modifyGroupRole
  <2>3. \A g \in Groups, u \in Users : role'[g][u] \in Members <=> role[g][u] \in Members
    BY <1>1, <2>1, <2>2, CellAt
  <2>4. Sure(w)' /\ \A g \in allGroup', u \in Users : Agrees(g, u)'
    BY <1>1, <1>3, <2>1, <2>3 DEF Sure, Agrees
  <2> QED
    BY <1>1, <1>2, <2>4, LoneStep
<1>8. CASE QuitRow(w)
  <2>1. \A g \in Groups, u \in Users : role'[g][u] = IF g = h /\ u = t.actor THEN "none" ELSE role[g][u]
    BY <1>1, <1>8, CellAt DEF QuitRow
  <2>2. task'[w].pc = "quitList" /\ task'[w].group = h /\ task'[w].actor = t.actor
    BY <1>4, <1>8 DEF QuitRow, Places
  <2>3. Sure(w)' /\ \A g \in allGroup', u \in Users : Agrees(g, u)' \/ Owes(w, g, u)'
    BY <1>1, <1>3, <2>1, <2>2 DEF Sure, Agrees, Owes
  <2> QED
    BY <1>1, <1>2, <2>3, LoneStep
<1>9. CASE KickRow(w)
  <2>0. t.target \in Users
    BY <1>1, <1>9 DEF KickRow, At, Targeted
  <2>1. \A g \in Groups, u \in Users : role'[g][u] = IF g = h /\ u = t.target THEN "none" ELSE role[g][u]
    BY <1>1, <1>9, <2>0, CellAt DEF KickRow
  <2>2. task'[w].pc = "kickList" /\ task'[w].group = h /\ task'[w].target = t.target
    BY <1>4, <1>9 DEF KickRow, Places, Targeted
  <2>3. Sure(w)' /\ \A g \in allGroup', u \in Users : Agrees(g, u)' \/ Owes(w, g, u)'
    BY <1>1, <1>3, <2>0, <2>1, <2>2 DEF Sure, Agrees, Owes
  <2> QED
    BY <1>1, <1>2, <2>3, LoneStep
<1> QED
  BY <1>5, <1>6, <1>7, <1>8, <1>9

\* The list gets what it is owed.
LEMMA ListLists ==
  ASSUME MInv, InLine, NEW w \in Workers, ~wild', AddList(w) \/ QuitList(w) \/ KickList(w)
  PROVE  InLine'
<1> DEFINE t == task[w]
           h == task[w].group
<1>1. /\ TInv /\ Busy(w) /\ Sure(w) /\ t \in Tasks /\ h \in Groups /\ h \in 1 .. created /\ t.actor \in Users
      /\ t.pc \in Targeted => t.target \in Users
      /\ \A v \in Workers \ {w} : task'[v] = task[v]
      /\ UNCHANGED <<created, allGroup, role>> /\ task'[w].pc = "idle"
  BY Known, StatementTypes DEF MInv, InLine, AddList, QuitList, KickList, At, Busy, Finish, IdleTask, TInv, TypeOK, tables
<1>2. PICK x \in Users :
        /\ \A u \in Users : u # x => ~Owes(w, h, u)
        /\ \/ PushBack(h, x) /\ (h \in allGroup => role[h][x] \in Members /\ copies[h][x] = 0)
           \/ Remove(h, x) /\ role[h][x] \notin Members
  <2>1. CASE AddList(w)
    <3>1. t.target \in Users /\ PushBack(h, t.target) /\ (h \in allGroup => role[h][t.target] \in Members /\ copies[h][t.target] = 0)
      BY <1>1, <2>1 DEF AddList, At, Targeted, Sure
    <3> QED
      BY <2>1, <3>1 DEF AddList, At, Owes
  <2>2. CASE QuitList(w)
    <3>1. Remove(h, t.actor) /\ role[h][t.actor] \notin Members
      BY <1>1, <2>2 DEF QuitList, At, Sure
    <3> QED
      BY <1>1, <2>2, <3>1 DEF QuitList, At, Owes
  <2>3. CASE KickList(w)
    <3>1. t.target \in Users /\ Remove(h, t.target) /\ role[h][t.target] \notin Members
      BY <1>1, <2>3 DEF KickList, At, Targeted, Sure
    <3> QED
      BY <2>3, <3>1 DEF KickList, At, Owes
  <2> QED
    BY <2>1, <2>2, <2>3
<1>3. \A g \in Groups, u \in Users : ~(g = h /\ u = x) => copies'[g][u] = copies[g][u]
  BY <1>1, <1>2, CellAt
<1>4. h \in allGroup => copies'[h][x] = IF role[h][x] \in Members THEN 1 ELSE 0
  BY <1>1, <1>2, CellAt
<1>5. Sure(w)' /\ NewLists'
  <2>1. created \in Nat
    BY <1>1 DEF TInv, TypeOK
  <2> QED
    BY <1>1, <1>3, <2>1 DEF Sure, InLine, NewLists
<1>6. ASSUME NEW g \in allGroup', NEW u \in Users
      PROVE  Agrees(g, u)'
  <2>1. g \in allGroup /\ g \in Groups /\ (Agrees(g, u) \/ Owes(w, g, u))
    BY <1>1, LoneOwner DEF TInv, TypeOK, Groups
  <2>2. Owes(w, g, u) => g = h /\ u = x
    BY <1>2 DEF Owes
  <2> QED
    BY <1>1, <1>3, <1>4, <2>1, <2>2 DEF Agrees
<1> QED
  BY <1>1, <1>5, <1>6, LoneStep

\* The group leaves AllGroup first: what becomes of its rows and its list is
\* nobody's business.
LEMMA DeleteLists ==
  ASSUME MInv, InLine, NEW w \in Workers, DeleteGroup(w) \/ DeleteRows(w) \/ DeleteList(w)
  PROVE  InLine'
<1> DEFINE t == task[w]
           h == task[w].group
<1>1. /\ TInv /\ Busy(w) /\ Sure(w) /\ t \in Tasks /\ h \in Groups /\ h \in 1 .. created
      /\ \A v \in Workers \ {w} : task'[v] = task[v]
      /\ created' = created /\ allGroup' = allGroup \ {h}
  <2>1. /\ TInv /\ Busy(w) /\ Sure(w) /\ t \in Tasks /\ h \in Groups /\ h \in 1 .. created
        /\ \A v \in Workers \ {w} : task'[v] = task[v]
    BY Known, StatementTypes DEF MInv, InLine, DeleteGroup, DeleteRows, DeleteList, At, Busy, Goto, Finish, TInv, TypeOK
  <2>2. created' = created /\ allGroup' = allGroup \ {h}
    BY <2>1 DEF DeleteGroup, DeleteRows, DeleteList, At, Sure, tables
  <2> QED
    BY <2>1, <2>2
<1>2. /\ \A g \in Groups : g # h => role'[g] = role[g] /\ copies'[g] = copies[g]
      /\ copies'[h] = copies[h] \/ \A u \in Users : copies'[h][u] = 0
  BY <1>1 DEF DeleteGroup, DeleteRows, DeleteList, tables, cache, TInv, TypeOK
<1>3. task'[w].pc \in {"delRows", "delList", "idle"} /\ (task'[w].pc = "idle" \/ task'[w].group = h)
  BY <1>1 DEF DeleteGroup, DeleteRows, DeleteList, Goto, Finish, IdleTask, TInv, TypeOK, Tasks
<1>4. Sure(w)'
  BY <1>1, <1>3 DEF Sure
<1>5. NewLists'
  BY <1>1, <1>2 DEF InLine, NewLists
<1>6. ASSUME NEW g \in allGroup', NEW u \in Users
      PROVE  Agrees(g, u)'
  <2>1. g \in allGroup /\ g \in Groups /\ g # h /\ (Agrees(g, u) \/ Owes(w, g, u))
    BY <1>1, LoneOwner DEF TInv, TypeOK, Groups
  <2> QED
    BY <1>2, <2>1 DEF Agrees, Owes
<1> QED
  BY <1>1, <1>4, <1>5, <1>6, LoneStep

\* A restart reads the lists from the tables.
LEMMA RestartLists ==
  ASSUME MInv, Restart
  PROVE  InLine'
<1>1. \A v \in Workers : task'[v].pc = "idle"
  BY TaskFacts DEF Restart
<1>2. /\ UNCHANGED <<created, allGroup, role>> /\ allGroup \subseteq 1 .. created /\ allGroup \subseteq Groups
      /\ \A g \in Groups, u \in Users : copies'[g][u] = IF g \in allGroup /\ role[g][u] \in Members THEN 1 ELSE 0
  BY DEF MInv, TInv, TypeOK, Groups, Restart, tables
<1>3. Alone' /\ \A w \in Workers : Sure(w)'
  BY <1>1 DEF Alone, Busy, At, Sure
<1>4. NewLists'
  <2>1. created \in Nat
    BY DEF MInv, TInv, TypeOK
  <2> QED
    BY <1>2, <2>1 DEF NewLists
<1>5. Lists'
  BY <1>2 DEF Lists, Agrees
<1> QED
  BY <1>3, <1>4, <1>5 DEF InLine

LEMMA ListStep ==
  ASSUME LInv, [Next]_vars, ~FreeChoice
  PROVE  LInv'
<1>1. MInv'
  BY MasterStep DEF LInv
<1>2. ASSUME ~overlapped', ~wild'
      PROVE  InLine'
  <2>1. CASE UNCHANGED vars
    <3>1. InLine
      BY <1>2, <2>1 DEF LInv, vars, marks
    <3>2. UNCHANGED <<task, created, allGroup, role, copies>>
      BY <2>1 DEF vars, tables, cache
    <3> QED
      BY <3>1, <3>2 DEF InLine, Alone, NewLists, Lists, Agrees, Owes, Busy, At, Sure
  <2>2. ASSUME NEW w \in Workers, NEW u \in Users, Request(w, u)
        PROVE  InLine'
    BY <1>2, <2>2, ReceiveLists, RequestKeeps
  <2>3. ASSUME NEW w \in Workers, Handler(w), ~wild
        PROVE  InLine'
    <3>1. ~overlapped
      BY <1>2, <2>3 DEF Handler, CreateRow, CreateMaster, CreateList, RequestAddGroup, AddCheck, AddRow, AddList, QuitCheck, QuitRow, QuitList, SetCheck, SetRow, CancelCheck,
         CancelRow, KickCheck, KickTarget, KickRow, KickList, GroupChat, DeleteCheck, DeleteGroup, DeleteRows, DeleteList, marks
    <3>2. InLine /\ MInv
      BY <2>3, <3>1 DEF LInv
    <3> QED
      BY <1>2, <2>3, <3>2, CreateLists, CheckLists, RowLists, ListLists, DeleteLists DEF Handler
  <2>4. CASE Restart
    BY <2>4, RestartLists DEF LInv
  <2> QED
    BY <2>1, <2>2, <2>3, <2>4 DEF Next
<1> QED
  BY <1>1, <1>2 DEF LInv

LEMMA ListInit == Init => LInv
<1> SUFFICES ASSUME Init PROVE LInv
  OBVIOUS
<1>1. allGroup = {} /\ \A w \in Workers : task[w].pc = "idle"
  BY TaskFacts DEF Init
<1>2. NewLists
  BY DEF Init, NewLists
<1>3. InLine
  BY <1>1, <1>2 DEF InLine, Alone, Busy, At, Lists, Sure
<1> QED
  BY <1>3, MasterInit DEF LInv

\* While ADD_GROUP names requesters and no two handlers run at the same time,
\* m_groupUserListMap agrees with GroupUser whenever no handler runs, also
\* after crashes in mid-handler: what a handler has changed in a table and not
\* yet in the list is lost with the list.
THEOREM ListsMatch ==
  ASSUME ~FreeChoice
  PROVE  Spec => []ListMatchesTable
<1>1. LInv => ListMatchesTable
  BY DEF LInv, InLine, Lists, Owes, Agrees, ListMatchesTable, Quiet, At
<1>2. LInv /\ [Next]_vars => LInv'
  BY ListStep
<1> QED
  BY <1>1, <1>2, ListInit, PTL DEF Spec

=============================================================================
