------------------------------- MODULE Group -------------------------------
(***************************************************************************)
(* Group administration: the tables AllGroup and GroupUser and the server's *)
(* copy of the member lists, m_groupUserListMap, which group chat consults. *)
(* A handler checks a role with one statement, changes a row with another   *)
(* and then changes the copy; handlers of several workers interleave        *)
(* between these steps, since neither a transaction nor a lock spans them.  *)
(***************************************************************************)
EXTENDS Naturals, FiniteSets

CONSTANTS
  Users,       \* logged-in users that send the requests
  MaxGroup,    \* bound: groups ever created; AUTO_INCREMENT never reuses an id
  Workers,     \* handler activations that may be pending or running at a time
  MaxCopies,   \* bound: entries of a user in a list when an ADD_GROUP arrives
  FreeChoice,  \* TRUE: ADD_GROUP names whomever the manager typed in;
               \* FALSE: somebody the list of requests has shown
  MayCrash     \* TRUE: the process may end in the middle of a handler

ASSUME GroupAssumption ==
  /\ MaxGroup \in Nat /\ MaxCopies \in Nat
  /\ FreeChoice \in BOOLEAN /\ MayCrash \in BOOLEAN

Groups == 1 .. MaxGroup
None   == 0               \* no such group, no such user

VARIABLES
  created,   \* groups ever inserted into AllGroup: ids 1 .. created
  allGroup,  \* ids in AllGroup
  role,      \* grouprole of each row of GroupUser; "none" is no row
  listed,    \* groups with an entry in m_groupUserListMap
  copies,    \* how often each user is in a group's list
  task,      \* what each worker is doing
  wild,      \* an end() iterator was dereferenced: anything may follow
  overlapped \* history: handlers have run at the same time since the start

tables == <<created, allGroup, role>>
cache  == <<listed, copies>>
marks  == <<wild, overlapped>>
vars   == <<tables, cache, task, marks>>

Members  == {"master", "manager", "normal"}
Roles    == Members \cup {"request", "none"}
IdleTask == [pc |-> "idle", actor |-> None, group |-> None, target |-> None, seen |-> "none"]

Targeted == {"addCheck", "addRow", "addList", "setCheck", "setRow", "cancelCheck", "cancelRow",
             "kickCheck", "kickTarget", "kickRow", "kickList"}
Places   == Targeted \cup {"idle", "createRow", "createMaster", "createList", "request", "quitCheck",
                           "quitRow", "quitList", "chat", "delCheck", "delGroup", "delRows", "delList"}
Tasks    == [pc : Places, actor : Users \cup {None}, group : Groups \cup {None},
             target : Users \cup {None}, seen : Roles]

TypeOK ==
  /\ created \in 0 .. MaxGroup
  /\ allGroup \subseteq 1 .. created
  /\ role \in [Groups -> [Users -> Roles]]
  /\ listed \subseteq 1 .. created
  /\ copies \in [Groups -> [Users -> Nat]]
  /\ task \in [Workers -> Tasks]
  /\ wild \in BOOLEAN /\ overlapped \in BOOLEAN

Init ==
  /\ created = 0 /\ allGroup = {} /\ listed = {}
  /\ role = [g \in Groups |-> [u \in Users |-> "none"]]
  /\ copies = [g \in Groups |-> [u \in Users |-> 0]]
  /\ task = [w \in Workers |-> IdleTask]
  /\ wild = FALSE /\ overlapped = FALSE

-----------------------------------------------------------------------------
(* Helpers: SQL statements and map operations.                             *)

At(w, pc)   == task[w].pc = pc
Goto(w, pc) == task' = [task EXCEPT ![w].pc = pc]
Finish(w)   == task' = [task EXCEPT ![w] = IdleTask]
Proceed(w, allowed, pc) == IF allowed THEN Goto(w, pc) ELSE Finish(w)

ActorRole(w)  == role[task[w].group][task[w].actor]
TargetRole(w) == role[task[w].group][task[w].target]

SetRole(g, u, r) == role' = [role EXCEPT ![g][u] = r]

\* Mutation: the update inserts a row when there is none.
MutModifyGroupRole(g, u, r) == SetRole(g, u, r)

\* UPDATE: no row, no effect.
modifyGroupRole(g, u, r) ==
  IF role[g][u] = "none" THEN UNCHANGED role ELSE SetRole(g, u, r)

\* m_groupUserListMap[g].push_back(u); erase(remove(...)) of a user.
PushBack(g, u) == /\ listed' = listed \cup {g}
                  /\ copies' = [copies EXCEPT ![g][u] = @ + 1]
Remove(g, u)   == /\ listed' = listed \cup {g}
                  /\ copies' = [copies EXCEPT ![g][u] = 0]

-----------------------------------------------------------------------------
(* Requests as clientService sends them.  A user does not ask to join a    *)
(* group that it is creating itself.                                       *)

Receive(w, pc, u, g, t) ==
  /\ At(w, "idle")
  /\ task' = [task EXCEPT ![w] = [IdleTask EXCEPT !.pc = pc, !.actor = u,
                                                  !.group = g, !.target = t]]
  /\ overlapped' = (overlapped \/ \E v \in Workers : ~At(v, "idle"))
  /\ UNCHANGED <<tables, cache, wild>>

\* addSomeoneToGroup: the client goes on when its list of requests, which
\* only a master or manager gets, is not empty.
MayAdd(u, g, t) ==
  /\ role[g][u] \in {"master", "manager"}
  /\ \E v \in Users : role[g][v] = "request"
  /\ role[g][t] = "request" \/ FreeChoice
  /\ copies[g][t] < MaxCopies

Request(w, u) ==
  \/ created < MaxGroup /\ Receive(w, "createRow", u, None, None)
  \/ \E g \in 1 .. created :
       \/ \E pc \in {"quitCheck", "delCheck"} : Receive(w, pc, u, g, None)
       \/ /\ \A v \in Workers : ~(At(v, "createMaster") /\ task[v].actor = u)
          /\ Receive(w, "request", u, g, None)
       \/ role[g][u] \in Members /\ Receive(w, "chat", u, g, None)
       \/ \E t \in Users : MayAdd(u, g, t) /\ Receive(w, "addCheck", u, g, t)
       \/ \E t \in Users \ {u} : Receive(w, "kickCheck", u, g, t)
       \/ \E t \in Users \ {u} : role[g][u] = "master" /\ Receive(w, "setCheck", u, g, t)
       \/ \E t \in Users : role[g][u] = "master" /\ Receive(w, "cancelCheck", u, g, t)

-----------------------------------------------------------------------------
(* handleCreateGroup.                                                      *)

\* createGroup: the name is taken, or the row gets the next id.
CreateRow(w) ==
  /\ At(w, "createRow")
  /\ \/ /\ Finish(w)
        /\ UNCHANGED tables
     \/ /\ created < MaxGroup
        /\ created' = created + 1
        /\ allGroup' = allGroup \cup {created + 1}
        /\ task' = [task EXCEPT ![w].pc = "createMaster", ![w].group = created + 1]
        /\ UNCHANGED role
  /\ UNCHANGED <<cache, marks>>

\* addGroup(userid, id, "master"): its result is not looked at.
CreateMaster(w) ==
  LET g == task[w].group
      u == task[w].actor
  IN  /\ At(w, "createMaster")
      /\ IF role[g][u] = "none" THEN SetRole(g, u, "master") ELSE UNCHANGED role
      /\ Goto(w, "createList")
      /\ UNCHANGED <<created, allGroup, cache, marks>>

CreateList(w) ==
  /\ At(w, "createList")
  /\ PushBack(task[w].group, task[w].actor)
  /\ Finish(w)
  /\ UNCHANGED <<tables, marks>>

-----------------------------------------------------------------------------
(* requestAddGroup: the group itself is not looked up.                     *)

RequestAddGroup(w) ==
  LET g == task[w].group
      u == task[w].actor
  IN  /\ At(w, "request")
      /\ IF role[g][u] = "none" THEN SetRole(g, u, "request") ELSE UNCHANGED role
      /\ Finish(w)
      /\ UNCHANGED <<created, allGroup, cache, marks>>

-----------------------------------------------------------------------------
(* handleAddSomeoneToGroup.                                                *)

AddCheck(w) ==
  /\ At(w, "addCheck")
  /\ Proceed(w, ActorRole(w) \in {"master", "manager"}, "addRow")
  /\ UNCHANGED <<tables, cache, marks>>

AddRow(w) ==
  /\ At(w, "addRow")
  /\ modifyGroupRole(task[w].group, task[w].target, "normal")
  /\ Goto(w, "addList")
  /\ UNCHANGED <<created, allGroup, cache, marks>>

\* Mutation: the list is left to the next restart.
MutAddList(w) ==
  /\ At(w, "addList")
  /\ Finish(w)
  /\ UNCHANGED <<tables, cache, marks>>

AddList(w) ==
  /\ At(w, "addList")
  /\ PushBack(task[w].group, task[w].target)
  /\ Finish(w)
  /\ UNCHANGED <<tables, marks>>

-----------------------------------------------------------------------------
(* handleQuitGroup.                                                        *)

QuitCheck(w) ==
  /\ At(w, "quitCheck")
  /\ Proceed(w, ActorRole(w) \in {"manager", "normal"}, "quitRow")
  /\ UNCHANGED <<tables, cache, marks>>

QuitRow(w) ==
  /\ At(w, "quitRow")
  /\ SetRole(task[w].group, task[w].actor, "none")
  /\ Goto(w, "quitList")
  /\ UNCHANGED <<created, allGroup, cache, marks>>

\* find(groupid)->second, with no entry for the group if it was deleted.
QuitList(w) ==
  /\ At(w, "quitList")
  /\ IF task[w].group \in listed
       THEN Remove(task[w].group, task[w].actor) /\ UNCHANGED wild
       ELSE wild' = TRUE /\ UNCHANGED cache
  /\ Finish(w)
  /\ UNCHANGED <<tables, overlapped>>

-----------------------------------------------------------------------------
(* handleSetManager, handleCancelManager: who asks is not looked at.       *)

SetCheck(w) ==
  /\ At(w, "setCheck")
  /\ Proceed(w, TargetRole(w) = "normal", "setRow")
  /\ UNCHANGED <<tables, cache, marks>>

SetRow(w) ==
  /\ At(w, "setRow")
  /\ modifyGroupRole(task[w].group, task[w].target, "manager")
  /\ Finish(w)
  /\ UNCHANGED <<created, allGroup, cache, marks>>

CancelCheck(w) ==
  /\ At(w, "cancelCheck")
  /\ Proceed(w, TargetRole(w) = "manager", "cancelRow")
  /\ UNCHANGED <<tables, cache, marks>>

CancelRow(w) ==
  /\ At(w, "cancelRow")
  /\ modifyGroupRole(task[w].group, task[w].target, "normal")
  /\ Finish(w)
  /\ UNCHANGED <<created, allGroup, cache, marks>>

-----------------------------------------------------------------------------
(* handleKickSomeoneInGroup.                                               *)

KickCheck(w) ==
  /\ At(w, "kickCheck")
  /\ task' = [task EXCEPT ![w].pc = "kickTarget", ![w].seen = ActorRole(w)]
  /\ UNCHANGED <<tables, cache, marks>>

\* Mutation: a manager may kick anybody.
MutKickTarget(w) ==
  /\ At(w, "kickTarget")
  /\ Proceed(w, TargetRole(w) \in Members /\ task[w].seen \in {"master", "manager"}, "kickRow")
  /\ UNCHANGED <<tables, cache, marks>>

KickTarget(w) ==
  /\ At(w, "kickTarget")
  /\ Proceed(w, \/ task[w].seen = "master" /\ TargetRole(w) \in Members
                \/ task[w].seen = "manager" /\ TargetRole(w) = "normal", "kickRow")
  /\ UNCHANGED <<tables, cache, marks>>

KickRow(w) ==
  /\ At(w, "kickRow")
  /\ SetRole(task[w].group, task[w].target, "none")
  /\ Goto(w, "kickList")
  /\ UNCHANGED <<created, allGroup, cache, marks>>

KickList(w) ==
  /\ At(w, "kickList")
  /\ Remove(task[w].group, task[w].target)
  /\ Finish(w)
  /\ UNCHANGED <<tables, marks>>

-----------------------------------------------------------------------------
(* handleGroupChat: operator[] leaves an entry behind for any group.       *)

GroupChat(w) ==
  /\ At(w, "chat")
  /\ listed' = listed \cup {task[w].group}
  /\ Finish(w)
  /\ UNCHANGED <<tables, copies, marks>>

-----------------------------------------------------------------------------
(* handleMasterDeleteGroup.                                                *)

DeleteCheck(w) ==
  /\ At(w, "delCheck")
  /\ Proceed(w, ActorRole(w) = "master", "delGroup")
  /\ UNCHANGED <<tables, cache, marks>>

DeleteGroup(w) ==
  /\ At(w, "delGroup")
  /\ allGroup' = allGroup \ {task[w].group}
  /\ Goto(w, "delRows")
  /\ UNCHANGED <<created, role, cache, marks>>

DeleteRows(w) ==
  /\ At(w, "delRows")
  /\ role' = [role EXCEPT ![task[w].group] = [u \in Users |-> "none"]]
  /\ Goto(w, "delList")
  /\ UNCHANGED <<created, allGroup, cache, marks>>

DeleteList(w) ==
  /\ At(w, "delList")
  /\ listed' = listed \ {task[w].group}
  /\ copies' = [copies EXCEPT ![task[w].group] = [u \in Users |-> 0]]
  /\ Finish(w)
  /\ UNCHANGED <<tables, marks>>

-----------------------------------------------------------------------------
\* The server starts again: groupUserListMapInit reads the tables.
Restart ==
  /\ MayCrash \/ \A w \in Workers : At(w, "idle")
  /\ task' = [w \in Workers |-> IdleTask]
  /\ listed' = allGroup
  /\ copies' = [g \in Groups |-> [u \in Users |->
                  IF g \in allGroup /\ role[g][u] \in Members THEN 1 ELSE 0]]
  /\ overlapped' = FALSE
  /\ UNCHANGED <<tables, wild>>

Handler(w) ==
  \/ CreateRow(w) \/ CreateMaster(w) \/ CreateList(w)
  \/ RequestAddGroup(w)
  \/ AddCheck(w) \/ AddRow(w) \/ AddList(w)
  \/ QuitCheck(w) \/ QuitRow(w) \/ QuitList(w)
  \/ SetCheck(w) \/ SetRow(w) \/ CancelCheck(w) \/ CancelRow(w)
  \/ KickCheck(w) \/ KickTarget(w) \/ KickRow(w) \/ KickList(w)
  \/ GroupChat(w)
  \/ DeleteCheck(w) \/ DeleteGroup(w) \/ DeleteRows(w) \/ DeleteList(w)

Next ==
  /\ ~wild
  /\ \/ \E w \in Workers : Handler(w) \/ \E u \in Users : Request(w, u)
     \/ Restart

Spec == Init /\ [][Next]_vars

-----------------------------------------------------------------------------
(* Properties.                                                             *)

Masters(g)  == {u \in Users : role[g][u] = "master"}
Creating(g) == \E w \in Workers : At(w, "createMaster") /\ task[w].group = g
Quiet       == \A w \in Workers : At(w, "idle")

\* A group in AllGroup never has two masters, and while anybody belongs to it
\* one member is the master: kicks, promotions, cancellations and quits in
\* flight together, or cut off by a crash, cannot take the master away (while
\* ADD_GROUP names requesters).  A creation that is cut off leaves a group
\* nobody belongs to.
OneMaster ==
  \A g \in allGroup :
    /\ Cardinality(Masters(g)) <= 1
    /\ (\E u \in Users : role[g][u] \in Members) => Masters(g) # {}

\* Nobody becomes a member without a row that asked for it, however an
\* acceptance (modifyGroupRole) races kicks, quits and the group's deletion;
\* only createGroup makes its creator a member outright.
JoinsByRequest ==
  [][\A g \in Groups, u \in Users :
       role[g][u] \notin Members /\ role'[g][u] \in Members
         => role[g][u] = "request" \/ (Creating(g) /\ role'[g][u] = "master")]_vars

\* As long as no two handlers have run at the same time, group chat reaches
\* exactly the members, once each: m_groupUserListMap agrees with GroupUser
\* between handlers, across restarts and crashes in mid-handler.
ListMatchesTable ==
  Quiet /\ ~overlapped /\ ~wild =>
    \A g \in allGroup, u \in Users :
      copies[g][u] = IF role[g][u] \in Members THEN 1 ELSE 0
=============================================================================
