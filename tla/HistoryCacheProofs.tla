------------------------- MODULE HistoryCacheProofs -------------------------
(***************************************************************************)
(* Theorems about the history cache, for any number of records, threads    *)
(* and rows per INSERT and for all of its faults: which records can be     *)
(* lost, how often one can be saved, and their order.                      *)
(***************************************************************************)
EXTENDS HistoryCache, FiniteSetTheorems, TLAPS

-----------------------------------------------------------------------------
(* Sequences.                                                              *)

LEMMA ToSetFacts ==
  ASSUME NEW S, NEW s \in Seq(S)
  PROVE  /\ ToSet(s) \subseteq S
         /\ ToSet(<<>>) = {}
         /\ SubSeq(s, 1, Len(s)) = s
         /\ \A x \in S : ToSet(Append(s, x)) = ToSet(s) \cup {x}
         /\ \A q \in Seq(S) : ToSet(s \o q) = ToSet(s) \cup ToSet(q)
<1>1. ToSet(s) \subseteq S /\ ToSet(<<>>) = {}
  BY DEF ToSet
<1>2. SubSeq(s, 1, Len(s)) = s
  OBVIOUS
<1>3. ASSUME NEW x \in S
      PROVE  ToSet(Append(s, x)) = ToSet(s) \cup {x}
  <2> DEFINE a == Append(s, x)
  <2>1. DOMAIN a = DOMAIN s \cup {Len(s) + 1} /\ a[Len(s) + 1] = x /\ \A i \in DOMAIN s : a[i] = s[i]
    OBVIOUS
  <2> HIDE DEF a
  <2>2. ToSet(a) = ToSet(s) \cup {x}
    BY <2>1 DEF ToSet
  <2> QED
    BY <2>2 DEF a
<1>4. ASSUME NEW q \in Seq(S)
      PROVE  ToSet(s \o q) = ToSet(s) \cup ToSet(q)
  <2> DEFINE a == s \o q
  <2>1. /\ \A i \in DOMAIN s : i \in DOMAIN a /\ a[i] = s[i]
        /\ \A i \in DOMAIN q : Len(s) + i \in DOMAIN a /\ a[Len(s) + i] = q[i]
        /\ \A i \in DOMAIN a : i \in DOMAIN s \/ (i - Len(s) \in DOMAIN q /\ a[i] = q[i - Len(s)])
    OBVIOUS
  <2> HIDE DEF a
  <2>2. ToSet(a) = ToSet(s) \cup ToSet(q)
    BY <2>1 DEF ToSet
  <2> QED
    BY <2>2 DEF a
<1> QED
  BY <1>1, <1>2, <1>3, <1>4

-----------------------------------------------------------------------------
(* What a thread's entry can look like.                                    *)

Entries == [pc : {"idle", "read", "trim", "insert", "commit"}, list : Lists, batch : Seq(Msgs), done : Nat]

\* A copy is there from LRANGE until its list is ended, and commit comes after
\* the last batch.  Only the SIGINT handler uses Main, and a stopped process
\* has no threads.
FlushOK ==
  /\ \A t \in Threads :
       /\ flush[t].pc = "idle" => flush[t] = Idle
       /\ flush[t].pc = "read" => flush[t].batch = <<>>
       /\ flush[t].pc \in {"read", "trim"} => flush[t].done = 0
       /\ flush[t].pc = "commit" => flush[t].done = Len(flush[t].batch)
  /\ process # "exiting" => flush[Main].pc = "idle"
  /\ process = "stopped" => \A t \in Threads : flush[t].pc = "idle"

\* Records are stored before they are anywhere.
Stored ==
  /\ \A l \in Lists : ToSet(redis[l]) \subseteq 1 .. sent /\ ToSet(table[l]) \subseteq 1 .. sent
  /\ \A t \in Threads : ToSet(flush[t].batch) \subseteq 1 .. sent

LEMMA MainIsThread == Main \in Threads
BY DEF Threads

LEMMA IdleEntry ==
  /\ Idle \in Entries /\ Idle.pc = "idle" /\ Idle.batch = <<>> /\ Idle.done = 0 /\ Idle.list = 1
BY DEF Idle, Entries, Lists

\* Two fields of an entry set at once.
LEMMA SetBatch ==
  ASSUME NEW f \in Entries, NEW x \in {"idle", "read", "trim", "insert", "commit"}, NEW b \in Seq(Msgs)
  PROVE  [f EXCEPT !.pc = x, !.batch = b] = [pc |-> x, list |-> f.list, batch |-> b, done |-> f.done]
<1> DEFINE e == [pc |-> x, list |-> f.list, batch |-> b, done |-> f.done]
<1>1. e \in Entries /\ e.pc = x /\ e.list = f.list /\ e.batch = b /\ e.done = f.done
  BY DEF Entries
<1> HIDE DEF e
<1>2. [f EXCEPT !.pc = x, !.batch = b] = e
  BY <1>1 DEF Entries
<1> QED
  BY <1>2 DEF e

LEMMA SetDone ==
  ASSUME NEW f \in Entries, NEW x \in {"idle", "read", "trim", "insert", "commit"}, NEW d \in Nat
  PROVE  [f EXCEPT !.done = d, !.pc = x] = [pc |-> x, list |-> f.list, batch |-> f.batch, done |-> d]
<1> DEFINE e == [pc |-> x, list |-> f.list, batch |-> f.batch, done |-> d]
<1>1. e \in Entries /\ e.pc = x /\ e.list = f.list /\ e.batch = f.batch /\ e.done = d
  BY DEF Entries
<1> HIDE DEF e
<1>2. [f EXCEPT !.done = d, !.pc = x] = e
  BY <1>1 DEF Entries
<1> QED
  BY <1>2 DEF e

LEMMA NextListEntry ==
  ASSUME NEW t
  PROVE  /\ NextList(t) \in Entries /\ NextList(t).batch = <<>> /\ NextList(t).done = 0
         /\ NextList(t).pc \in {"idle", "read"}
         /\ NextList(t).pc = "idle" => NextList(t) = Idle
         /\ flush[t].list = 1 => NextList(t).pc = "read"
<1> DEFINE e == [pc |-> "read", list |-> 2, batch |-> <<>>, done |-> 0]
<1>1. e \in Entries /\ e.batch = <<>> /\ e.done = 0 /\ e.pc = "read"
  BY DEF Entries, Lists
<1>2. CASE flush[t].list = 1
  <2>1. NextList(t) = e
    BY <1>2 DEF NextList, Idle
  <2> HIDE DEF e
  <2> QED
    BY <1>1, <1>2, <2>1
<1>3. CASE flush[t].list # 1
  <2>1. NextList(t) = Idle
    BY <1>3 DEF NextList
  <2> QED
    BY <1>3, <2>1, IdleEntry
<1> QED
  BY <1>2, <1>3

\* Only thread t's entry changes.
OnlyThread(t, f) == flush'[t] = f /\ \A s \in Threads \ {t} : flush'[s] = flush[s]

LEMMA SetThread ==
  ASSUME TypeOK, NEW t \in Threads, NEW f \in Entries, flush' = [flush EXCEPT ![t] = f]
  PROVE  flush' \in [Threads -> Entries] /\ OnlyThread(t, f)
BY DEF TypeOK, OnlyThread, Entries

\* How a list ends: the thread goes on without a copy, or the process stops
\* and what was under way is excused.
Continues(t, cut) ==
  /\ OnlyThread(t, NextList(t)) /\ flush' \in [Threads -> Entries]
  /\ excused' = excused \cup cut
  /\ process' = process
  /\ t = Main => flush[t].list = 1

Stops(cut) ==
  /\ process' = "stopped"
  /\ flush' \in [Threads -> Entries] /\ \A s \in Threads : flush'[s] = Idle
  /\ excused' = excused \cup cut

LEMMA EndForms ==
  ASSUME TypeOK, NEW t \in Threads, NEW cut, EndList(t, cut)
  PROVE  Continues(t, cut) \/ Stops(cut \cup Uncommitted(Threads \ {t}))
<1>1. CASE t = Main /\ flush[t].list = 2
  BY <1>1, IdleEntry DEF EndList, Stop, Stops
<1>2. CASE ~(t = Main /\ flush[t].list = 2)
  <2>1. flush[t].list \in {1, 2}
    BY DEF TypeOK, Lists
  <2> QED
    BY <1>2, <2>1, NextListEntry, SetThread DEF EndList, Continues
<1> QED
  BY <1>1, <1>2
-----------------------------------------------------------------------------
(* What the steps do, with the code's branches resolved.                   *)

\* RPUSH appends the new record, which is excused when a flush is in its window.
Pushes(l) ==
  /\ sent' = sent + 1 /\ sent' \in Msgs
  /\ redis' \in [Lists -> Seq(Msgs)] /\ redis'[l] = Append(redis[l], sent')
  /\ \A k \in Lists \ {l} : redis'[k] = redis[k]
  /\ excused \subseteq excused' /\ excused' \subseteq excused \cup {sent'}
  /\ InWindow(l) # {} => sent' \in excused'
  /\ UNCHANGED <<table, flush, process, overlapped>>

Refuses ==
  /\ sent' = sent + 1 /\ sent' \in Msgs /\ excused' = excused \cup {sent'}
  /\ UNCHANGED <<redis, table, flush, process, overlapped>>

Begins(t) ==
  /\ flush[t].pc = "idle" /\ process # "stopped"
  /\ flush' \in [Threads -> Entries]
  /\ OnlyThread(t, [pc |-> "read", list |-> 1, batch |-> <<>>, done |-> 0])
  /\ overlapped' = (overlapped \/ \E s \in Threads \ {t} : flush[s].pc # "idle")
  /\ IF t = Main THEN process' = "exiting" ELSE process' = process
  /\ UNCHANGED <<redis, table, sent, excused>>

Takes(t) ==
  /\ flush[t].pc = "read" /\ process # "stopped"
  /\ flush' \in [Threads -> Entries]
  /\ OnlyThread(t, [pc |-> "trim", list |-> flush[t].list, batch |-> redis[flush[t].list], done |-> 0])
  /\ UNCHANGED <<redis, table, process, sent, excused, overlapped>>

Empties(t) ==
  /\ flush[t].pc = "trim" /\ process # "stopped"
  /\ flush' \in [Threads -> Entries]
  /\ OnlyThread(t, [pc |-> "insert", list |-> flush[t].list, batch |-> flush[t].batch, done |-> 0])
  /\ redis' \in [Lists -> Seq(Msgs)] /\ redis'[flush[t].list] = <<>>
  /\ \A k \in Lists \ {flush[t].list} : redis'[k] = redis[k]
  /\ UNCHANGED <<table, process, sent, excused, overlapped>>

\* INSERT succeeds: the thread stays in its transaction.
Inserts(t) ==
  /\ flush[t].pc = "insert" /\ process # "stopped"
  /\ flush' \in [Threads -> Entries]
  /\ \E d \in Nat, pc \in {"insert", "commit"} :
       /\ OnlyThread(t, [pc |-> pc, list |-> flush[t].list, batch |-> flush[t].batch, done |-> d])
       /\ d <= Len(flush[t].batch)
       /\ pc = "commit" => d = Len(flush[t].batch)
  /\ UNCHANGED <<redis, table, process, sent, excused, overlapped>>

\* The list is ended with nothing saved: it was empty, or INSERT failed.
Drops(t) ==
  /\ flush[t].pc \in {"read", "insert"} /\ process # "stopped"
  /\ Continues(t, ToSet(flush[t].batch))
  /\ UNCHANGED <<redis, table, sent, overlapped>>

Saves(t) ==
  /\ flush[t].pc = "commit" /\ process # "stopped"
  /\ table' \in [Lists -> Seq(Msgs)]
  /\ table'[flush[t].list] = table[flush[t].list] \o flush[t].batch
  /\ \A k \in Lists \ {flush[t].list} : table'[k] = table[k]
  /\ Continues(t, {}) \/ Stops(Uncommitted(Threads \ {t}))
  /\ UNCHANGED <<redis, sent, overlapped>>

Halts ==
  /\ Stops(Uncommitted(Threads))
  /\ UNCHANGED <<redis, table, sent, overlapped>>

Restarts == process = "stopped" /\ process' = "running" /\ UNCHANGED <<redis, table, flush, sent, excused, overlapped>>

LEMMA StoreForms ==
  ASSUME TypeOK, NEW l \in Lists, Store(l)
  PROVE  Pushes(l) \/ Refuses
<1>1. sent' = sent + 1 /\ sent' \in Msgs
  BY HistoryAssumption DEF Store, TypeOK, Msgs
<1>2. UNCHANGED <<table, flush, process, overlapped>>
  BY DEF Store
<1>3. CASE rpush(l, sent') /\ excused' = IF InWindow(l) = {} /\ process = "running" THEN excused ELSE excused \cup {sent'}
  <2>1. Append(redis[l], sent') \in Seq(Msgs)
    BY <1>1 DEF TypeOK
  <2>2. /\ redis' \in [Lists -> Seq(Msgs)] /\ redis'[l] = Append(redis[l], sent')
        /\ \A k \in Lists \ {l} : redis'[k] = redis[k]
    BY <1>3, <2>1 DEF rpush, TypeOK
  <2>3. /\ excused \subseteq excused' /\ excused' \subseteq excused \cup {sent'}
        /\ InWindow(l) # {} => sent' \in excused'
    BY <1>3
  <2> QED
    BY <1>1, <1>2, <2>2, <2>3 DEF Pushes
<1>4. CASE excused' = excused \cup {sent'} /\ UNCHANGED redis
  BY <1>1, <1>2, <1>4 DEF Refuses
<1> QED
  BY <1>3, <1>4 DEF Store

LEMMA BeginForm ==
  ASSUME TypeOK, FlushOK, NEW t \in Threads, flush[t].pc = "idle", process # "stopped", Begin(t),
         IF t = Main THEN process' = "exiting" ELSE process' = process
  PROVE  Begins(t)
<1> DEFINE e == [pc |-> "read", list |-> 1, batch |-> <<>>, done |-> 0]
<1>1. e \in Entries
  BY DEF Entries, Lists
<1>2. flush' = [flush EXCEPT ![t] = [flush[t] EXCEPT !.pc = "read"]]
  BY DEF Begin
<1>3. [flush[t] EXCEPT !.pc = "read"] = e
  <2>1. flush[t] = Idle
    BY DEF FlushOK
  <2> QED
    BY <2>1 DEF Idle
<1>4. flush' \in [Threads -> Entries] /\ OnlyThread(t, e)
  <2> HIDE DEF e
  <2> QED
    BY <1>1, <1>2, <1>3, SetThread
<1> QED
  BY <1>4 DEF Begins, Begin

LEMMA ReadForms ==
  ASSUME TypeOK, FlushOK, NEW t \in Threads, Read(t)
  PROVE  Takes(t) \/ Drops(t) \/ Halts
<1> DEFINE l == flush[t].list
           e == [pc |-> "trim", list |-> l, batch |-> redis[l], done |-> 0]
<1>1. flush[t] \in Entries /\ l \in Lists /\ redis[l] \in Seq(Msgs)
  BY DEF TypeOK, Entries
<1>2. flush[t].pc = "read" /\ process # "stopped" /\ flush[t].batch = <<>> /\ flush[t].done = 0
  BY DEF Read, At, FlushOK
<1>3. UNCHANGED <<redis, table, sent, overlapped>>
  BY DEF Read
<1>4. CASE redis[l] = <<>>
  <2>1. EndList(t, {})
    BY <1>4 DEF Read, lrange
  <2>2. {} = ToSet(flush[t].batch)
    BY <1>2 DEF ToSet
  <2>3. {} \cup Uncommitted(Threads \ {t}) = Uncommitted(Threads)
    BY <1>2 DEF Uncommitted
  <2>4. Continues(t, {}) \/ Stops(Uncommitted(Threads))
    BY <2>1, <2>3, EndForms
  <2> QED
    BY <1>2, <1>3, <2>2, <2>4 DEF Drops, Halts
<1>5. CASE redis[l] # <<>>
  <2>1. flush' = [flush EXCEPT ![t] = [flush[t] EXCEPT !.pc = "trim", !.batch = redis[l]]] /\ UNCHANGED <<process, excused>>
    BY <1>5 DEF Read, lrange
  <2>2. [flush[t] EXCEPT !.pc = "trim", !.batch = redis[l]] = [pc |-> "trim", list |-> l, batch |-> redis[l], done |-> flush[t].done]
    BY <1>1, SetBatch
  <2>3. e \in Entries
    BY <1>1 DEF Entries
  <2>4. flush' \in [Threads -> Entries] /\ OnlyThread(t, e)
    <3> HIDE DEF e
    <3>1. flush' = [flush EXCEPT ![t] = e]
      BY <1>2, <2>1, <2>2 DEF e
    <3> QED
      BY <2>3, <3>1, SetThread
  <2> QED
    BY <1>2, <1>3, <2>1, <2>4 DEF Takes
<1> QED
  BY <1>4, <1>5

LEMMA TrimForm ==
  ASSUME TypeOK, FlushOK, NEW t \in Threads, Trim(t)
  PROVE  Empties(t)
<1> DEFINE l == flush[t].list
           e == [pc |-> "insert", list |-> l, batch |-> flush[t].batch, done |-> 0]
<1>1. flush[t] \in Entries /\ l \in Lists
  BY DEF TypeOK, Entries
<1>2. flush[t].pc = "trim" /\ process # "stopped" /\ flush[t].done = 0
  BY DEF Trim, At, FlushOK
<1>3. flush' = [flush EXCEPT ![t] = [flush[t] EXCEPT !.pc = "insert"]]
  BY DEF Trim
<1>4. [flush[t] EXCEPT !.pc = "insert"] = e
  BY <1>1, <1>2 DEF Entries
<1>5. e \in Entries
  BY <1>1 DEF Entries
<1>6. flush' \in [Threads -> Entries] /\ OnlyThread(t, e)
  <2> HIDE DEF e
  <2> QED
    BY <1>3, <1>4, <1>5, SetThread
<1>7. /\ redis' \in [Lists -> Seq(Msgs)] /\ redis'[l] = <<>>
      /\ \A k \in Lists \ {l} : redis'[k] = redis[k]
  BY <1>1 DEF Trim, ltrim, TypeOK
<1> QED
  BY <1>2, <1>6, <1>7 DEF Empties, Trim

LEMMA InsertForms ==
  ASSUME TypeOK, FlushOK, NEW t \in Threads, Insert(t)
  PROVE  Inserts(t) \/ Drops(t) \/ Halts
<1> DEFINE f  == flush[t]
           d  == IF f.done + BatchSize < Len(f.batch) THEN f.done + BatchSize ELSE Len(f.batch)
           pc == IF d = Len(f.batch) THEN "commit" ELSE "insert"
           e  == [pc |-> pc, list |-> f.list, batch |-> f.batch, done |-> d]
<1>1. f \in Entries
  BY DEF TypeOK, Entries
<1>2. f.pc = "insert" /\ process # "stopped"
  BY DEF Insert, At
<1>3. UNCHANGED <<redis, table, sent, overlapped>>
  BY DEF Insert
<1>4. CASE /\ flush' = [flush EXCEPT ![t].done = d, ![t].pc = pc]
           /\ UNCHANGED <<process, excused>>
  <2>1. d \in Nat /\ d <= Len(f.batch) /\ (pc = "commit" => d = Len(f.batch)) /\ pc \in {"insert", "commit"}
    BY <1>1, HistoryAssumption DEF Entries
  <2>2. flush' = [flush EXCEPT ![t] = e]
    <3> HIDE DEF d, pc
    <3>1. flush' = [flush EXCEPT ![t] = [f EXCEPT !.done = d, !.pc = pc]]
      BY <1>4 DEF TypeOK
    <3>2. [f EXCEPT !.done = d, !.pc = pc] = e
      BY <1>1, <2>1, SetDone
    <3> QED
      BY <3>1, <3>2
  <2>3. e \in Entries
    <3> HIDE DEF d, pc
    <3> QED
      BY <1>1, <2>1 DEF Entries
  <2> HIDE DEF d, pc
  <2>4. flush' \in [Threads -> Entries] /\ OnlyThread(t, e)
    <3> HIDE DEF e
    <3> QED
      BY <2>2, <2>3, SetThread
  <2> QED
    BY <1>2, <1>3, <1>4, <2>1, <2>4 DEF Inserts
<1>5. CASE EndList(t, ToSet(f.batch))
  <2>1. ToSet(f.batch) \cup Uncommitted(Threads \ {t}) = Uncommitted(Threads)
    BY <1>2 DEF Uncommitted
  <2>2. Continues(t, ToSet(f.batch)) \/ Stops(Uncommitted(Threads))
    BY <1>5, <2>1, EndForms
  <2> QED
    BY <1>2, <1>3, <2>2 DEF Drops, Halts
<1> QED
  BY <1>4, <1>5 DEF Insert

LEMMA CommitForm ==
  ASSUME TypeOK, FlushOK, NEW t \in Threads, Commit(t)
  PROVE  Saves(t)
<1> DEFINE l == flush[t].list
           b == flush[t].batch
<1>1. flush[t] \in Entries /\ l \in Lists /\ b \in Seq(Msgs) /\ table[l] \in Seq(Msgs)
  BY DEF TypeOK, Entries
<1>2. flush[t].pc = "commit" /\ process # "stopped" /\ flush[t].done = Len(b)
  BY DEF Commit, At, FlushOK
<1>3. table' = [table EXCEPT ![l] = table[l] \o b]
  <2>1. SubSeq(b, 1, flush[t].done) = b
    BY <1>1, <1>2, ToSetFacts
  <2> QED
    BY <2>1 DEF Commit
<1>4. /\ table' \in [Lists -> Seq(Msgs)] /\ table'[l] = table[l] \o b
      /\ \A k \in Lists \ {l} : table'[k] = table[k]
  <2>1. table[l] \o b \in Seq(Msgs)
    BY <1>1
  <2> QED
    BY <1>1, <1>3, <2>1 DEF TypeOK
<1>5. Continues(t, {}) \/ Stops(Uncommitted(Threads \ {t}))
  <2>1. EndList(t, {}) /\ {} \cup Uncommitted(Threads \ {t}) = Uncommitted(Threads \ {t})
    BY DEF Commit
  <2> QED
    BY <2>1, EndForms
<1> QED
  BY <1>2, <1>4, <1>5 DEF Saves, Commit

LEMMA NextForms ==
  ASSUME TypeOK, FlushOK, Next
  PROVE  \/ \E l \in Lists : Pushes(l)
         \/ Refuses \/ Halts \/ Restarts
         \/ \E t \in Threads : Begins(t) \/ Takes(t) \/ Empties(t) \/ Inserts(t) \/ Drops(t) \/ Saves(t)
<1>1. CASE \E l \in Lists : Store(l)
  BY <1>1, StoreForms
<1>2. ASSUME NEW t \in Threads, Start(t)
      PROVE  Begins(t)
  <2>1. t # Main /\ flush[t].pc = "idle" /\ process # "stopped"
    BY <1>2, HistoryAssumption DEF Start, At
  <2> QED
    BY <1>2, <2>1, BeginForm DEF Start
<1>3. ASSUME NEW t \in Threads, Read(t) \/ Trim(t) \/ Insert(t) \/ Commit(t)
      PROVE  Takes(t) \/ Empties(t) \/ Inserts(t) \/ Drops(t) \/ Saves(t) \/ Halts
  BY <1>3, ReadForms, TrimForm, InsertForms, CommitForm
<1>4. CASE Interrupt
  <2>1. flush[Main].pc = "idle" /\ process # "stopped"
    BY <1>4 DEF Interrupt, FlushOK
  <2>2. Begins(Main)
    BY <1>4, <2>1, BeginForm, MainIsThread DEF Interrupt
  <2> QED
    BY <2>2, MainIsThread
<1>5. CASE Crash
  BY <1>5, IdleEntry DEF Crash, Halts, Stop, Stops
<1>6. CASE Restart
  BY <1>6 DEF Restart, Restarts
<1> QED
  BY <1>1, <1>2, <1>3, <1>4, <1>5, <1>6 DEF Next, FlushStep

-----------------------------------------------------------------------------
(* Types.                                                                  *)

Basis == TypeOK /\ FlushOK /\ Stored

\* An entry a thread can have when n records have been stored.
EntryOK(f, n) ==
  /\ f \in Entries /\ f.done <= Len(f.batch) /\ ToSet(f.batch) \subseteq 1 .. n
  /\ f.pc = "idle" => f = Idle
  /\ f.pc = "read" => f.batch = <<>>
  /\ f.pc \in {"read", "trim"} => f.done = 0
  /\ f.pc = "commit" => f.done = Len(f.batch)

LEMMA BasisEntries == ASSUME Basis PROVE \A t \in Threads : EntryOK(flush[t], sent)
BY DEF Basis, TypeOK, FlushOK, Stored, EntryOK, Entries

LEMMA EntriesBasis ==
  ASSUME redis \in [Lists -> Seq(Msgs)], table \in [Lists -> Seq(Msgs)], flush \in [Threads -> Entries],
         \A t \in Threads : EntryOK(flush[t], sent),
         \A l \in Lists : ToSet(redis[l]) \subseteq 1 .. sent /\ ToSet(table[l]) \subseteq 1 .. sent,
         process \in {"running", "exiting", "stopped"}, sent \in 0 .. MaxSent, excused \subseteq 1 .. sent,
         overlapped \in BOOLEAN,
         process # "exiting" => flush[Main].pc = "idle",
         process = "stopped" => \A t \in Threads : flush[t].pc = "idle"
  PROVE  Basis
<1>1. TypeOK
  BY DEF TypeOK, EntryOK, Entries
<1>2. FlushOK
  BY DEF FlushOK, EntryOK
<1>3. Stored
  BY DEF Stored, EntryOK
<1> QED
  BY <1>1, <1>2, <1>3 DEF Basis

LEMMA FreshEntries ==
  ASSUME NEW n \in Nat
  PROVE  /\ EntryOK(Idle, n)
         /\ \A t : EntryOK(NextList(t), n)
         /\ EntryOK([pc |-> "read", list |-> 1, batch |-> <<>>, done |-> 0], n)
<1>1. ToSet(<<>>) = {} /\ Len(<<>>) = 0
  BY DEF ToSet
<1>2. EntryOK(Idle, n)
  <2>1. Idle \in Entries /\ Idle.pc = "idle" /\ Idle.batch = <<>> /\ Idle.done = 0
    BY IdleEntry
  <2> QED
    BY <1>1, <2>1 DEF EntryOK
<1>3. ASSUME NEW t
      PROVE  EntryOK(NextList(t), n)
  BY <1>1, NextListEntry DEF EntryOK
<1>4. EntryOK([pc |-> "read", list |-> 1, batch |-> <<>>, done |-> 0], n)
  <2> DEFINE e == [pc |-> "read", list |-> 1, batch |-> <<>>, done |-> 0]
  <2>1. e \in Entries /\ e.pc = "read" /\ e.batch = <<>> /\ e.done = 0
    BY DEF Entries, Lists
  <2> HIDE DEF e
  <2>2. EntryOK(e, n)
    BY <1>1, <2>1 DEF EntryOK
  <2> QED
    BY <2>2 DEF e
<1> QED
  BY <1>2, <1>3, <1>4

\* Uncommitted records have been stored.
LEMMA UncommittedStored ==
  ASSUME Basis, NEW ts \in SUBSET Threads
  PROVE  Uncommitted(ts) \subseteq 1 .. sent
BY DEF Basis, Stored, Uncommitted

\* Every thread's entry after a step is its old one, or one of the new forms.
LEMMA StepEntries ==
  ASSUME Basis, Next
  PROVE  /\ flush' \in [Threads -> Entries]
         /\ \A t \in Threads : EntryOK(flush'[t], sent')
<1>0. TypeOK /\ FlushOK /\ Stored /\ sent \in Nat /\ flush \in [Threads -> Entries] /\ \A t \in Threads : EntryOK(flush[t], sent)
  BY BasisEntries DEF Basis, TypeOK, Entries
<1>1. ASSUME flush' = flush, sent' = sent \/ sent' = sent + 1
      PROVE  flush' \in [Threads -> Entries] /\ \A t \in Threads : EntryOK(flush'[t], sent')
  <2>1. 1 .. sent \subseteq 1 .. sent'
    BY <1>0, <1>1
  <2> QED
    BY <1>0, <1>1, <2>1 DEF EntryOK
<1>2. ASSUME NEW t \in Threads, NEW e, OnlyThread(t, e), EntryOK(e, sent), flush' \in [Threads -> Entries], sent' = sent
      PROVE  flush' \in [Threads -> Entries] /\ \A s \in Threads : EntryOK(flush'[s], sent')
  BY <1>0, <1>2 DEF OnlyThread
<1>3. ASSUME NEW cut, Stops(cut), sent' = sent
      PROVE  flush' \in [Threads -> Entries] /\ \A t \in Threads : EntryOK(flush'[t], sent')
  BY <1>0, <1>3, FreshEntries DEF Stops
<1>4. CASE (\E l \in Lists : Pushes(l)) \/ Refuses \/ Restarts
  BY <1>1, <1>4 DEF Pushes, Refuses, Restarts
<1>5. CASE Halts
  BY <1>3, <1>5 DEF Halts
<1>6. ASSUME NEW t \in Threads, Begins(t)
      PROVE  flush' \in [Threads -> Entries] /\ \A s \in Threads : EntryOK(flush'[s], sent')
  <2> DEFINE e == [pc |-> "read", list |-> 1, batch |-> <<>>, done |-> 0]
  <2>1. EntryOK(e, sent)
    BY <1>0, FreshEntries
  <2>2. OnlyThread(t, e) /\ flush' \in [Threads -> Entries] /\ sent' = sent
    BY <1>6 DEF Begins
  <2> HIDE DEF e
  <2> QED
    BY <1>2, <2>1, <2>2
<1>7. ASSUME NEW t \in Threads, Takes(t)
      PROVE  flush' \in [Threads -> Entries] /\ \A s \in Threads : EntryOK(flush'[s], sent')
  <2> DEFINE l == flush[t].list
             e == [pc |-> "trim", list |-> l, batch |-> redis[l], done |-> 0]
  <2>1. l \in Lists /\ redis[l] \in Seq(Msgs) /\ ToSet(redis[l]) \subseteq 1 .. sent
    BY <1>0 DEF TypeOK, Stored, Entries
  <2>2. OnlyThread(t, e) /\ flush' \in [Threads -> Entries] /\ sent' = sent
    BY <1>7 DEF Takes
  <2>3. e \in Entries /\ e.pc = "trim" /\ e.batch = redis[l] /\ e.done = 0
    BY <2>1 DEF Entries
  <2>4. EntryOK(e, sent)
    <3> HIDE DEF e
    <3> QED
      BY <2>1, <2>3 DEF EntryOK
  <2> HIDE DEF e
  <2> QED
    BY <1>2, <2>2, <2>4
<1>8. ASSUME NEW t \in Threads, NEW pc \in {"insert", "commit"}, NEW d \in Nat,
             OnlyThread(t, [pc |-> pc, list |-> flush[t].list, batch |-> flush[t].batch, done |-> d]),
             d <= Len(flush[t].batch), pc = "commit" => d = Len(flush[t].batch),
             flush' \in [Threads -> Entries], sent' = sent
      PROVE  \A s \in Threads : EntryOK(flush'[s], sent')
  <2> DEFINE e == [pc |-> pc, list |-> flush[t].list, batch |-> flush[t].batch, done |-> d]
  <2>1. flush[t] \in Entries /\ EntryOK(flush[t], sent)
    BY <1>0
  <2>2. e \in Entries /\ e.pc = pc /\ e.batch = flush[t].batch /\ e.done = d
    BY <2>1 DEF Entries
  <2>3. EntryOK(e, sent)
    <3> HIDE DEF e
    <3> QED
      BY <1>8, <2>1, <2>2 DEF EntryOK
  <2> QED
    BY <1>2, <1>8, <2>3
<1>9. ASSUME NEW t \in Threads, Empties(t) \/ Inserts(t)
      PROVE  flush' \in [Threads -> Entries] /\ \A s \in Threads : EntryOK(flush'[s], sent')
  <2>1. CASE Empties(t)
    <3>1. Len(flush[t].batch) \in Nat
      BY <1>0 DEF Entries
    <3> QED
      BY <1>8, <2>1, <3>1 DEF Empties
  <2>2. CASE Inserts(t)
    BY <1>8, <2>2 DEF Inserts
  <2> QED
    BY <1>9, <2>1, <2>2
<1>10. ASSUME NEW t \in Threads, Drops(t) \/ Saves(t)
       PROVE  flush' \in [Threads -> Entries] /\ \A s \in Threads : EntryOK(flush'[s], sent')
  <2>1. sent' = sent /\ \/ OnlyThread(t, NextList(t)) /\ flush' \in [Threads -> Entries]
                        \/ Stops(Uncommitted(Threads \ {t}))
    BY <1>10 DEF Drops, Saves, Continues
  <2> QED
    BY <1>0, <1>2, <1>3, <2>1, FreshEntries
<1> QED
  BY <1>0, <1>4, <1>5, <1>6, <1>7, <1>9, <1>10, NextForms

LEMMA StepLists ==
  ASSUME Basis, Next
  PROVE  /\ redis' \in [Lists -> Seq(Msgs)] /\ table' \in [Lists -> Seq(Msgs)]
         /\ sent' \in 0 .. MaxSent /\ excused' \subseteq 1 .. sent' /\ overlapped' \in BOOLEAN
         /\ \A l \in Lists : ToSet(redis'[l]) \subseteq 1 .. sent' /\ ToSet(table'[l]) \subseteq 1 .. sent'
<1>0. TypeOK /\ FlushOK /\ Stored /\ sent \in 0 .. MaxSent /\ MaxSent \in Nat
  BY HistoryAssumption DEF Basis, TypeOK
<1>1. /\ redis \in [Lists -> Seq(Msgs)] /\ table \in [Lists -> Seq(Msgs)] /\ excused \subseteq 1 .. sent /\ overlapped \in BOOLEAN
      /\ \A l \in Lists : ToSet(redis[l]) \subseteq 1 .. sent /\ ToSet(table[l]) \subseteq 1 .. sent
  BY <1>0 DEF TypeOK, Stored
<1>2. \A ts \in SUBSET Threads : Uncommitted(ts) \subseteq 1 .. sent
  BY UncommittedStored
<1>3. CASE \E l \in Lists : Pushes(l)
  <2>1. PICK l \in Lists : Pushes(l)
    BY <1>3
  <2>2. 1 .. sent \subseteq 1 .. sent' /\ sent' \in 1 .. sent' /\ sent' \in 0 .. MaxSent
    BY <1>0, <2>1 DEF Pushes, Msgs
  <2>3. ToSet(redis'[l]) = ToSet(redis[l]) \cup {sent'}
    BY <1>1, <2>1, ToSetFacts DEF Pushes
  <2> QED
    BY <1>1, <2>1, <2>2, <2>3 DEF Pushes
<1>4. CASE Refuses
  <2>1. 1 .. sent \subseteq 1 .. sent' /\ sent' \in 1 .. sent' /\ sent' \in 0 .. MaxSent
    BY <1>0, <1>4 DEF Refuses, Msgs
  <2> QED
    BY <1>1, <1>4, <2>1 DEF Refuses
<1>5. CASE Halts
  BY <1>0, <1>1, <1>2, <1>5 DEF Halts, Stops
<1>6. CASE Restarts
  BY <1>0, <1>1, <1>6 DEF Restarts
<1>7. ASSUME NEW t \in Threads, Begins(t) \/ Takes(t) \/ Inserts(t)
      PROVE  UNCHANGED <<redis, table, sent, excused>> /\ overlapped' \in BOOLEAN
  BY <1>1, <1>7 DEF Begins, Takes, Inserts
<1>8. ASSUME NEW t \in Threads, Empties(t)
      PROVE  /\ UNCHANGED <<table, sent, excused, overlapped>> /\ redis' \in [Lists -> Seq(Msgs)]
             /\ \A l \in Lists : ToSet(redis'[l]) \subseteq 1 .. sent
  <2>1. ToSet(<<>>) = {}
    BY DEF ToSet
  <2>2. \A l \in Lists : redis'[l] = <<>> \/ redis'[l] = redis[l]
    BY <1>8 DEF Empties
  <2> QED
    BY <1>1, <1>8, <2>1, <2>2 DEF Empties
<1>9. ASSUME NEW t \in Threads, Drops(t)
      PROVE  UNCHANGED <<redis, table, sent, overlapped>> /\ excused' \subseteq 1 .. sent
  BY <1>0, <1>1, <1>9 DEF Drops, Continues, Stored
<1>10. ASSUME NEW t \in Threads, Saves(t)
       PROVE  /\ UNCHANGED <<redis, sent, overlapped>> /\ excused' \subseteq 1 .. sent
              /\ table' \in [Lists -> Seq(Msgs)] /\ \A l \in Lists : ToSet(table'[l]) \subseteq 1 .. sent
  <2> DEFINE k == flush[t].list
             b == flush[t].batch
  <2>1. k \in Lists /\ b \in Seq(Msgs) /\ ToSet(b) \subseteq 1 .. sent
    BY <1>0 DEF TypeOK, Stored
  <2>2. ToSet(table'[k]) = ToSet(table[k]) \cup ToSet(b)
    BY <1>1, <1>10, <2>1, ToSetFacts DEF Saves
  <2>3. excused' \subseteq 1 .. sent
    BY <1>1, <1>2, <1>10 DEF Saves, Continues, Stops
  <2> QED
    BY <1>1, <1>10, <2>1, <2>2, <2>3 DEF Saves
<1> QED
  BY <1>0, <1>1, <1>3, <1>4, <1>5, <1>6, <1>7, <1>8, <1>9, <1>10, NextForms

\* Only the SIGINT handler runs on Main, and nothing runs in a stopped process.
LEMMA StepProcess ==
  ASSUME Basis, Next
  PROVE  /\ process' \in {"running", "exiting", "stopped"}
         /\ process' # "exiting" => flush'[Main].pc = "idle"
         /\ process' = "stopped" => \A t \in Threads : flush'[t].pc = "idle"
<1>0. /\ TypeOK /\ FlushOK /\ process \in {"running", "exiting", "stopped"} /\ Main \in Threads
      /\ process # "exiting" => flush[Main].pc = "idle"
      /\ process = "stopped" => \A t \in Threads : flush[t].pc = "idle"
  BY MainIsThread DEF Basis, TypeOK, FlushOK
<1>1. ASSUME NEW cut, Stops(cut)
      PROVE  process' = "stopped" /\ \A t \in Threads : flush'[t].pc = "idle"
  BY <1>1, IdleEntry DEF Stops
<1>2. ASSUME NEW t \in Threads, NEW e, flush[t].pc # "idle", process' = process, OnlyThread(t, e)
      PROVE  process # "stopped" /\ (process' # "exiting" => flush'[Main].pc = "idle")
  BY <1>0, <1>2 DEF OnlyThread
<1>3. CASE (\E l \in Lists : Pushes(l)) \/ Refuses \/ Restarts
  BY <1>0, <1>3 DEF Pushes, Refuses, Restarts
<1>4. CASE Halts
  BY <1>0, <1>1, <1>4 DEF Halts
<1>5. ASSUME NEW t \in Threads, Begins(t)
      PROVE  process' \in {"running", "exiting"} /\ (process' # "exiting" => flush'[Main].pc = "idle")
  BY <1>0, <1>5 DEF Begins, OnlyThread
<1>6. ASSUME NEW t \in Threads, Takes(t) \/ Empties(t) \/ Inserts(t) \/ Drops(t) \/ Saves(t)
      PROVE  flush[t].pc # "idle" /\ \/ process' = process /\ \E e : OnlyThread(t, e)
                                     \/ \E cut : Stops(cut)
  <2>1. CASE Takes(t) \/ Empties(t)
    BY <2>1 DEF Takes, Empties
  <2>2. CASE Inserts(t)
    BY <2>2 DEF Inserts
  <2>3. CASE Drops(t) \/ Saves(t)
    BY <2>3 DEF Drops, Saves, Continues
  <2> QED
    BY <1>6, <2>1, <2>2, <2>3
<1> QED
  BY <1>0, <1>1, <1>2, <1>3, <1>4, <1>5, <1>6, NextForms

LEMMA BasisInit == ASSUME Init PROVE Basis
<1>1. sent \in 0 .. MaxSent /\ \A l \in Lists : redis[l] = <<>> /\ table[l] = <<>>
  BY HistoryAssumption DEF Init
<1>2. ToSet(<<>>) = {} /\ \A t \in Threads : EntryOK(flush[t], sent)
  BY FreshEntries DEF Init, ToSet
<1>3. \A t \in Threads : flush[t].pc = "idle"
  BY IdleEntry DEF Init
<1>4. flush \in [Threads -> Entries] /\ redis \in [Lists -> Seq(Msgs)] /\ table \in [Lists -> Seq(Msgs)]
  BY IdleEntry DEF Init
<1> QED
  BY <1>1, <1>2, <1>3, <1>4, EntriesBasis, MainIsThread DEF Init

LEMMA BasisStep == ASSUME Basis, [Next]_vars PROVE Basis'
<1>1. CASE Next
  <2>1. flush' \in [Threads -> Entries] /\ \A t \in Threads : EntryOK(flush'[t], sent')
    BY <1>1, StepEntries
  <2>2. TypeOK'
    BY <1>1, <2>1, StepLists, StepProcess DEF TypeOK, EntryOK, Entries
  <2>3. FlushOK'
    BY <1>1, <2>1, StepProcess DEF FlushOK, EntryOK
  <2>4. Stored'
    BY <1>1, <2>1, StepLists DEF Stored, EntryOK
  <2> QED
    BY <2>2, <2>3, <2>4 DEF Basis
<1>2. CASE UNCHANGED vars
  BY <1>2 DEF vars, Basis, TypeOK, FlushOK, Stored
<1> QED
  BY <1>1, <1>2

\* Every copy stays one of records stored, and no thread inserts past the end
\* of its copy, through failed inserts, crashes and SIGINT.
THEOREM TypeCorrect == Spec => []TypeOK
<1>1. Init => Basis
  BY BasisInit
<1>2. Basis /\ [Next]_vars => Basis'
  BY BasisStep
<1>3. Basis => TypeOK
  BY DEF Basis
<1> QED
  BY <1>1, <1>2, <1>3, PTL DEF Spec

-----------------------------------------------------------------------------
(* What is lost.                                                           *)

\* A flush about to empty a list has copied what the list holds, up to the
\* records pushed since, which are excused.
TrimSafe ==
  \A t \in Threads :
    flush[t].pc = "trim" => ToSet(redis[flush[t].list]) \subseteq ToSet(flush[t].batch) \cup excused

\* Stronger than Held: a copy stands for its records only once redis is emptied.
Kept ==
  \A m \in 1 .. sent :
    \/ \E l \in Lists : m \in ToSet(redis[l])
    \/ m \in Uncommitted(Threads)
    \/ Saved(m)
    \/ m \in excused

\* Thread t holds m in a copy it has taken out of redis.
Owns(t, m) == flush[t].pc \in {"insert", "commit"} /\ m \in ToSet(flush[t].batch)

LEMMA OwnsUncommitted ==
  ASSUME NEW ts, NEW m
  PROVE  /\ m \in Uncommitted(ts) <=> \E t \in ts : Owns(t, m)
         /\ m \in Uncommitted(ts)' <=> \E t \in ts' : Owns(t, m)'
BY DEF Uncommitted, Owns

LEMMA TrimSafeStep == ASSUME Basis, TrimSafe, Next PROVE TrimSafe'
<1>0. /\ TypeOK /\ FlushOK /\ Stored /\ redis \in [Lists -> Seq(Msgs)]
      /\ \A t \in Threads : flush[t].list \in Lists /\ EntryOK(flush[t], sent)
  BY BasisEntries DEF Basis, TypeOK
<1>1. ASSUME NEW s \in Threads, flush'[s] = flush[s], \A l \in Lists : redis'[l] = redis[l] \/ redis'[l] = <<>>,
             excused \subseteq excused', flush'[s].pc = "trim"
      PROVE  ToSet(redis'[flush'[s].list]) \subseteq ToSet(flush'[s].batch) \cup excused'
  <2>1. ToSet(<<>>) = {}
    BY DEF ToSet
  <2>2. ToSet(redis[flush[s].list]) \subseteq ToSet(flush[s].batch) \cup excused
    BY <1>1 DEF TrimSafe
  <2> QED
    BY <1>0, <1>1, <2>1, <2>2
<1>2. ASSUME NEW t \in Threads, NEW e, e.pc # "trim", OnlyThread(t, e),
             \A l \in Lists : redis'[l] = redis[l] \/ redis'[l] = <<>>, excused \subseteq excused'
      PROVE  TrimSafe'
  BY <1>1, <1>2 DEF TrimSafe, OnlyThread
<1>3. ASSUME NEW cut, Stops(cut)
      PROVE  TrimSafe'
  BY <1>3, IdleEntry DEF TrimSafe, Stops
<1>4. ASSUME NEW l \in Lists, Pushes(l)
      PROVE  TrimSafe'
  <2> SUFFICES ASSUME NEW t \in Threads, flush[t].pc = "trim"
               PROVE  ToSet(redis'[flush[t].list]) \subseteq ToSet(flush[t].batch) \cup excused'
    BY <1>4 DEF TrimSafe, Pushes
  <2>1. ToSet(redis[flush[t].list]) \subseteq ToSet(flush[t].batch) \cup excused
    BY DEF TrimSafe
  <2>2. CASE flush[t].list = l
    <3>1. InWindow(l) # {}
      BY <2>2 DEF InWindow
    <3>2. ToSet(redis'[l]) = ToSet(redis[l]) \cup {sent'}
      BY <1>0, <1>4, ToSetFacts DEF Pushes
    <3> QED
      BY <1>4, <2>1, <2>2, <3>1, <3>2 DEF Pushes
  <2>3. CASE flush[t].list # l
    BY <1>0, <1>4, <2>1, <2>3 DEF Pushes
  <2> QED
    BY <2>2, <2>3
<1>5. CASE Refuses \/ Restarts
  BY <1>5 DEF Refuses, Restarts, TrimSafe
<1>6. CASE Halts
  BY <1>3, <1>6 DEF Halts
<1>7. ASSUME NEW t \in Threads, Begins(t)
      PROVE  TrimSafe'
  <2>1. OnlyThread(t, [pc |-> "read", list |-> 1, batch |-> <<>>, done |-> 0]) /\ redis' = redis /\ excused' = excused
    BY <1>7 DEF Begins
  <2> QED
    BY <1>2, <2>1
<1>8. ASSUME NEW t \in Threads, Takes(t)
      PROVE  TrimSafe'
  <2>1. /\ flush'[t].batch = redis[flush[t].list] /\ flush'[t].list = flush[t].list
        /\ redis' = redis /\ excused' = excused
    BY <1>8 DEF Takes, OnlyThread
  <2>2. \A s \in Threads \ {t} : flush'[s] = flush[s]
    BY <1>8 DEF Takes, OnlyThread
  <2> QED
    BY <1>1, <2>1, <2>2 DEF TrimSafe
<1>9. ASSUME NEW t \in Threads, Empties(t)
      PROVE  TrimSafe'
  <2>1. /\ OnlyThread(t, [pc |-> "insert", list |-> flush[t].list, batch |-> flush[t].batch, done |-> 0])
        /\ excused' = excused /\ \A l \in Lists : redis'[l] = redis[l] \/ redis'[l] = <<>>
    BY <1>9 DEF Empties
  <2> QED
    BY <1>2, <2>1
<1>10. ASSUME NEW t \in Threads, Inserts(t)
       PROVE  TrimSafe'
  <2>1. PICK d \in Nat, pc \in {"insert", "commit"} :
           OnlyThread(t, [pc |-> pc, list |-> flush[t].list, batch |-> flush[t].batch, done |-> d])
    BY <1>10 DEF Inserts
  <2> QED
    BY <1>2, <1>10, <2>1 DEF Inserts
<1>11. ASSUME NEW t \in Threads, Drops(t) \/ Saves(t)
       PROVE  TrimSafe'
  <2>1. \/ OnlyThread(t, NextList(t)) /\ redis' = redis /\ excused \subseteq excused'
        \/ \E cut : Stops(cut)
    BY <1>11 DEF Drops, Saves, Continues
  <2>2. NextList(t).pc # "trim"
    BY NextListEntry
  <2> QED
    BY <1>2, <1>3, <2>1, <2>2
<1> QED
  BY <1>0, <1>4, <1>5, <1>6, <1>7, <1>8, <1>9, <1>10, <1>11, NextForms

LEMMA KeptStep == ASSUME Basis, TrimSafe, Kept, Next PROVE Kept'
<1>0. /\ TypeOK /\ FlushOK /\ Stored /\ redis \in [Lists -> Seq(Msgs)] /\ table \in [Lists -> Seq(Msgs)] /\ sent \in Nat
      /\ \A t \in Threads : flush[t].list \in Lists /\ flush[t].batch \in Seq(Msgs) /\ EntryOK(flush[t], sent)
  BY BasisEntries DEF Basis, TypeOK
<1> DEFINE Cached(m) == \E l \in Lists : m \in ToSet(redis[l])
           Owned(m) == \E t \in Threads : Owns(t, m)
           Where(m) == Cached(m) \/ Owned(m) \/ Saved(m) \/ m \in excused
<1>1. Kept <=> \A m \in 1 .. sent : Where(m)
  BY OwnsUncommitted DEF Kept
<1>2. Kept' <=> \A m \in 1 .. sent' : Where(m)'
  BY OwnsUncommitted DEF Kept
<1> SUFFICES ASSUME NEW m \in 1 .. sent'
             PROVE  Where(m)'
  BY <1>2
<1>3. m \in 1 .. sent => Where(m)
  BY <1>1
<1>4. (UNCHANGED flush => (Owned(m)' <=> Owned(m))) /\ (UNCHANGED table => (Saved(m)' <=> Saved(m)))
  BY DEF Owns, Saved
<1>5. ASSUME NEW t \in Threads, NEW e, OnlyThread(t, e), Owned(m), ~Owned(m)'
      PROVE  Owns(t, m)
  BY <1>5 DEF OnlyThread, Owns
<1>6. CASE \E l \in Lists : Pushes(l)
  <2>1. PICK l \in Lists : Pushes(l)
    BY <1>6
  <2>2. m \in 1 .. sent \/ m = sent'
    BY <1>0, <2>1 DEF Pushes
  <2>3. ToSet(redis'[l]) = ToSet(redis[l]) \cup {sent'}
    BY <1>0, <2>1, ToSetFacts DEF Pushes
  <2>4. Cached(m) \/ m = sent' => Cached(m)'
    BY <2>1, <2>3 DEF Pushes
  <2> QED
    BY <1>3, <1>4, <2>1, <2>2, <2>4 DEF Pushes
<1>7. CASE Refuses
  <2>1. m \in 1 .. sent \/ m = sent'
    BY <1>0, <1>7 DEF Refuses
  <2> QED
    BY <1>3, <1>4, <1>7, <2>1 DEF Refuses
<1>8. CASE Halts
  <2>1. excused' = excused \cup Uncommitted(Threads) /\ UNCHANGED <<redis, table, sent>>
    BY <1>8 DEF Halts, Stops
  <2> QED
    BY <1>3, <1>4, <2>1, OwnsUncommitted
<1>9. CASE Restarts
  BY <1>3, <1>4, <1>9 DEF Restarts
<1>10. ASSUME NEW t \in Threads, Begins(t) \/ Takes(t)
       PROVE  Where(m)'
  <2>1. UNCHANGED <<redis, table, sent, excused>> /\ flush[t].pc \in {"idle", "read"} /\ \E e : OnlyThread(t, e)
    BY <1>10 DEF Begins, Takes
  <2>2. ~Owns(t, m)
    BY <2>1 DEF Owns
  <2> QED
    BY <1>3, <1>4, <1>5, <2>1, <2>2
<1>11. ASSUME NEW t \in Threads, Empties(t)
       PROVE  Where(m)'
  <2> DEFINE l == flush[t].list
  <2>1. UNCHANGED <<table, sent, excused>> /\ flush[t].pc = "trim"
    BY <1>11 DEF Empties
  <2>2. flush'[t].pc = "insert" /\ flush'[t].batch = flush[t].batch /\ \A s \in Threads \ {t} : flush'[s] = flush[s]
    BY <1>11 DEF Empties, OnlyThread
  <2>3. Owned(m) => Owned(m)'
    BY <1>5, <1>11, <2>1 DEF Empties, Owns
  <2>4. m \in ToSet(redis[l]) => m \in ToSet(flush[t].batch) \/ m \in excused
    BY <2>1 DEF TrimSafe
  <2>5. m \in ToSet(flush[t].batch) => Owned(m)'
    BY <2>2 DEF Owns
  <2>6. Cached(m) => m \in ToSet(redis[l]) \/ Cached(m)'
    BY <1>11 DEF Empties
  <2> QED
    BY <1>3, <1>4, <2>1, <2>3, <2>4, <2>5, <2>6
<1>12. ASSUME NEW t \in Threads, Inserts(t)
       PROVE  Where(m)'
  <2>1. PICK d \in Nat, pc \in {"insert", "commit"} :
           OnlyThread(t, [pc |-> pc, list |-> flush[t].list, batch |-> flush[t].batch, done |-> d])
    BY <1>12 DEF Inserts
  <2>2. flush'[t].pc \in {"insert", "commit"} /\ flush'[t].batch = flush[t].batch
    BY <2>1 DEF OnlyThread
  <2>3. Owned(m) => Owned(m)'
    BY <1>5, <2>1, <2>2 DEF Owns
  <2> QED
    BY <1>3, <1>4, <1>12, <2>3 DEF Inserts
<1>13. ASSUME NEW t \in Threads, Drops(t)
       PROVE  Where(m)'
  <2>1. OnlyThread(t, NextList(t)) /\ excused' = excused \cup ToSet(flush[t].batch) /\ UNCHANGED <<redis, table, sent>>
    BY <1>13 DEF Drops, Continues
  <2>2. Owns(t, m) => m \in excused'
    BY <2>1 DEF Owns
  <2> QED
    BY <1>3, <1>4, <1>5, <2>1, <2>2
<1>14. ASSUME NEW t \in Threads, Saves(t)
       PROVE  Where(m)'
  <2> DEFINE l == flush[t].list
  <2>1. ToSet(table'[l]) = ToSet(table[l]) \cup ToSet(flush[t].batch)
    BY <1>0, <1>14, ToSetFacts DEF Saves
  <2>2. Saved(m) \/ Owns(t, m) => Saved(m)'
    BY <1>0, <1>14, <2>1 DEF Saved, Owns, Saves
  <2>3. UNCHANGED <<redis, sent>> /\ excused \subseteq excused'
    BY <1>14 DEF Saves, Continues, Stops
  <2>4. Owned(m) => Owned(m)' \/ Owns(t, m) \/ m \in excused'
    <3>1. CASE Continues(t, {})
      BY <1>5, <3>1 DEF Continues
    <3>2. CASE Stops(Uncommitted(Threads \ {t}))
      BY <3>2, OwnsUncommitted DEF Stops
    <3> QED
      BY <1>14, <3>1, <3>2 DEF Saves
  <2> QED
    BY <1>3, <2>2, <2>3, <2>4
<1> HIDE DEF Where
<1> QED
  BY <1>0, <1>6, <1>7, <1>8, <1>9, <1>10, <1>11, <1>12, <1>13, <1>14, NextForms

\* In every interleaving of handlers, overlapping flushes, SIGINT and crashes,
\* the only records lost are those redis refused, those pushed between LRANGE
\* and LTRIM or after SIGINT, and those in a copy that was cut off.
THEOREM LossOnlyInWindow == Spec => []LostOnlyInWindow
<1> DEFINE IInv == Basis /\ TrimSafe /\ Kept
<1>1. Init => IInv
  <2> SUFFICES ASSUME Init PROVE TrimSafe /\ Kept
    BY BasisInit
  <2>1. TrimSafe
    BY IdleEntry DEF TrimSafe, Init
  <2>2. Kept
    BY DEF Kept, Init
  <2> QED
    BY <2>1, <2>2
<1>2. IInv /\ [Next]_vars => IInv'
  <2> SUFFICES ASSUME IInv, [Next]_vars PROVE IInv'
    OBVIOUS
  <2>1. Basis'
    BY BasisStep
  <2>2. CASE Next
    BY <2>1, <2>2, TrimSafeStep, KeptStep
  <2>3. CASE UNCHANGED vars
    BY <2>1, <2>3 DEF vars, TrimSafe, Kept, Uncommitted, Saved
  <2> QED
    BY <2>2, <2>3
<1>3. IInv => LostOnlyInWindow
  BY DEF LostOnlyInWindow, Kept, Held, Uncommitted
<1> QED
  BY <1>1, <1>2, <1>3, PTL DEF Spec

-----------------------------------------------------------------------------
(* The order of records while flushes do not overlap.                      *)

Alone == ~overlapped => \A s, t \in Threads : flush[s].pc # "idle" /\ flush[t].pc # "idle" => s = t

\* What has been copied and not yet emptied is the head of the list.
Prefix ==
  ~overlapped =>
    \A t \in Threads :
      flush[t].pc = "trim" =>
        /\ Len(flush[t].batch) <= Len(redis[flush[t].list])
        /\ \A i \in 1 .. Len(flush[t].batch) : flush[t].batch[i] = redis[flush[t].list][i]

Rising(s) == \A i, j \in DOMAIN s : i < j => s[i] < s[j]

Before(s, q) == \A x \in ToSet(s), y \in ToSet(q) : x < y

\* Rows, then the copy, then the cached records, each in order.
Ordered(l, t) ==
  /\ flush[t].list = l /\ flush[t].pc # "trim" =>
       /\ Rising(flush[t].batch) /\ Before(table[l], flush[t].batch)
       /\ Before(flush[t].batch, redis[l])

Tidy ==
  ~overlapped =>
    /\ \A l \in Lists : Rising(table[l]) /\ Rising(redis[l]) /\ Before(table[l], redis[l])
    /\ \A t \in Threads, l \in Lists : Ordered(l, t)

LEMMA RisingEmpty ==
  /\ Rising(<<>>) /\ \A s : Before(<<>>, s) /\ Before(s, <<>>)
BY DEF Rising, Before, ToSet

LEMMA RisingAppend ==
  ASSUME NEW s \in Seq(Nat), NEW x \in Nat, Rising(s), \A y \in ToSet(s) : y < x
  PROVE  Rising(Append(s, x))
<1> DEFINE a == Append(s, x)
<1>1. /\ DOMAIN a = DOMAIN s \cup {Len(s) + 1} /\ a[Len(s) + 1] = x /\ \A i \in DOMAIN s : a[i] = s[i]
      /\ DOMAIN s = 1 .. Len(s) /\ Len(s) \in Nat
  OBVIOUS
<1>2. \A i \in DOMAIN s : s[i] \in ToSet(s)
  BY DEF ToSet
<1> HIDE DEF a
<1>3. Rising(a)
  <2> SUFFICES ASSUME NEW i \in DOMAIN a, NEW j \in DOMAIN a, i < j
               PROVE  a[i] < a[j]
    BY DEF Rising
  <2>1. i \in DOMAIN s
    BY <1>1
  <2>2. CASE j \in DOMAIN s
    BY <1>1, <2>1, <2>2 DEF Rising
  <2>3. CASE j = Len(s) + 1
    BY <1>1, <1>2, <2>1, <2>3
  <2> QED
    BY <1>1, <2>2, <2>3
<1> QED
  BY <1>3 DEF a

LEMMA RisingConcat ==
  ASSUME NEW s \in Seq(Nat), NEW q \in Seq(Nat)
  PROVE  Rising(s \o q) <=> Rising(s) /\ Rising(q) /\ Before(s, q)
<1> DEFINE a == s \o q
<1>1. /\ \A i \in DOMAIN s : i \in DOMAIN a /\ a[i] = s[i]
      /\ \A i \in DOMAIN q : Len(s) + i \in DOMAIN a /\ a[Len(s) + i] = q[i]
      /\ \A i \in DOMAIN a : i \in DOMAIN s \/ (i - Len(s) \in DOMAIN q /\ a[i] = q[i - Len(s)])
      /\ DOMAIN s = 1 .. Len(s) /\ DOMAIN q = 1 .. Len(q) /\ Len(s) \in Nat /\ Len(q) \in Nat
      /\ DOMAIN a = 1 .. Len(s) + Len(q)
  OBVIOUS
<1> HIDE DEF a
<1>2. ASSUME Rising(a)
      PROVE  Rising(s) /\ Rising(q) /\ Before(s, q)
  <2>1. Rising(s)
    BY <1>1, <1>2 DEF Rising
  <2>2. Rising(q)
    <3> SUFFICES ASSUME NEW i \in DOMAIN q, NEW j \in DOMAIN q, i < j
                 PROVE  q[i] < q[j]
      BY DEF Rising
    <3>1. Len(s) + i \in DOMAIN a /\ Len(s) + j \in DOMAIN a /\ Len(s) + i < Len(s) + j
      BY <1>1
    <3>2. a[Len(s) + i] < a[Len(s) + j]
      BY <1>2, <3>1 DEF Rising
    <3> QED
      BY <1>1, <3>2
  <2>3. Before(s, q)
    <3> SUFFICES ASSUME NEW i \in DOMAIN s, NEW j \in DOMAIN q
                 PROVE  s[i] < q[j]
      BY DEF Before, ToSet
    <3>1. i \in DOMAIN a /\ Len(s) + j \in DOMAIN a /\ i < Len(s) + j
      BY <1>1
    <3>2. a[i] < a[Len(s) + j]
      BY <1>2, <3>1 DEF Rising
    <3> QED
      BY <1>1, <3>2
  <2> QED
    BY <2>1, <2>2, <2>3
<1>3. ASSUME Rising(s), Rising(q), Before(s, q)
      PROVE  Rising(a)
  <2> SUFFICES ASSUME NEW i \in DOMAIN a, NEW j \in DOMAIN a, i < j
               PROVE  a[i] < a[j]
    BY DEF Rising
  <2>1. CASE i \in DOMAIN s /\ j \in DOMAIN s
    BY <1>1, <1>3, <2>1 DEF Rising
  <2>2. CASE i \in DOMAIN s /\ j \notin DOMAIN s
    <3>1. a[i] = s[i] /\ s[i] \in ToSet(s) /\ j - Len(s) \in DOMAIN q /\ a[j] = q[j - Len(s)]
      BY <1>1, <2>2 DEF ToSet
    <3>2. q[j - Len(s)] \in ToSet(q)
      BY <3>1 DEF ToSet
    <3> QED
      BY <1>3, <3>1, <3>2 DEF Before
  <2>3. CASE i \notin DOMAIN s
    <3>1. /\ i - Len(s) \in DOMAIN q /\ a[i] = q[i - Len(s)]
          /\ j - Len(s) \in DOMAIN q /\ a[j] = q[j - Len(s)]
          /\ i - Len(s) < j - Len(s)
      BY <1>1, <2>3
    <3> QED
      BY <1>3, <3>1 DEF Rising
  <2> QED
    BY <2>1, <2>2, <2>3
<1> QED
  BY <1>2, <1>3 DEF a

LEMMA BeforeConcat ==
  ASSUME NEW s \in Seq(Nat), NEW q \in Seq(Nat), NEW r \in Seq(Nat)
  PROVE  /\ Before(s \o q, r) <=> Before(s, r) /\ Before(q, r)
         /\ Before(s, q \o r) <=> Before(s, q) /\ Before(s, r)
<1>1. ToSet(s \o q) = ToSet(s) \cup ToSet(q) /\ ToSet(q \o r) = ToSet(q) \cup ToSet(r)
  BY ToSetFacts
<1> QED
  BY <1>1 DEF Before

\* The property of the run, in these terms.
LEMMA TidyInOrder == ASSUME Basis, Tidy PROVE InOrder
<1> SUFFICES ASSUME ~overlapped, NEW t \in Threads, NEW l \in Lists
             PROVE  LET copy == IF flush[t].list = l /\ flush[t].pc # "trim" THEN flush[t].batch ELSE <<>>
                    IN  Rising(table[l] \o copy \o redis[l])
  BY DEF InOrder, Rising
<1> DEFINE copy == IF flush[t].list = l /\ flush[t].pc # "trim" THEN flush[t].batch ELSE <<>>
<1>1. table[l] \in Seq(Nat) /\ redis[l] \in Seq(Nat) /\ flush[t].batch \in Seq(Nat)
  <2>1. Seq(Msgs) \subseteq Seq(Nat)
    BY HistoryAssumption DEF Msgs
  <2> QED
    BY <2>1 DEF Basis, TypeOK
<1>2. copy \in Seq(Nat) /\ table[l] \o copy \in Seq(Nat)
  BY <1>1
<1>3. Rising(table[l]) /\ Rising(redis[l]) /\ Before(table[l], redis[l])
  BY DEF Tidy
<1>4. Rising(copy) /\ Before(table[l], copy) /\ Before(copy, redis[l])
  BY RisingEmpty DEF Tidy, Ordered
<1> HIDE DEF copy
<1>5. Rising(table[l] \o copy) /\ Before(table[l] \o copy, redis[l])
  BY <1>1, <1>2, <1>3, <1>4, RisingConcat, BeforeConcat
<1>6. Rising(table[l] \o copy \o redis[l])
  BY <1>1, <1>2, <1>3, <1>5, RisingConcat
<1> QED
  BY <1>6 DEF copy

LEMMA AloneStep == ASSUME Basis, Alone, Next PROVE Alone'
<1>0. TypeOK /\ FlushOK
  BY DEF Basis
<1>1. ASSUME NEW cut, Stops(cut)
      PROVE  Alone'
  BY <1>1, IdleEntry DEF Alone, Stops
<1>2. ASSUME NEW t \in Threads, NEW e, OnlyThread(t, e), flush[t].pc # "idle", overlapped' = overlapped
      PROVE  Alone'
  BY <1>2 DEF Alone, OnlyThread
<1>3. CASE (\E l \in Lists : Pushes(l)) \/ Refuses \/ Restarts
  BY <1>3 DEF Pushes, Refuses, Restarts, Alone
<1>4. CASE Halts
  BY <1>1, <1>4 DEF Halts
<1>5. ASSUME NEW t \in Threads, Begins(t)
      PROVE  Alone'
  <2> SUFFICES ASSUME ~overlapped'
               PROVE  \A s, r \in Threads : flush'[s].pc # "idle" /\ flush'[r].pc # "idle" => s = r
    BY DEF Alone
  <2>1. \A s \in Threads \ {t} : flush'[s].pc = "idle"
    BY <1>5 DEF Begins, OnlyThread
  <2> QED
    BY <2>1
<1>6. ASSUME NEW t \in Threads, Takes(t) \/ Empties(t) \/ Inserts(t) \/ Drops(t) \/ Saves(t)
      PROVE  Alone'
  <2>1. /\ flush[t].pc # "idle" /\ overlapped' = overlapped
        /\ (\E e : OnlyThread(t, e)) \/ \E cut : Stops(cut)
    <3>1. CASE Takes(t) \/ Empties(t)
      BY <3>1 DEF Takes, Empties
    <3>2. CASE Inserts(t)
      BY <3>2 DEF Inserts
    <3>3. CASE Drops(t) \/ Saves(t)
      BY <3>3 DEF Drops, Saves, Continues
    <3> QED
      BY <1>6, <3>1, <3>2, <3>3
  <2> QED
    BY <1>1, <1>2, <2>1
<1> QED
  BY <1>0, <1>3, <1>4, <1>5, <1>6, NextForms

LEMMA PrefixStep == ASSUME Basis, Alone, Prefix, Next PROVE Prefix'
<1>0. TypeOK /\ FlushOK
  BY DEF Basis
<1>a. /\ redis \in [Lists -> Seq(Msgs)] /\ overlapped \in BOOLEAN
       /\ \A t \in Threads : flush[t].list \in Lists /\ flush[t].batch \in Seq(Msgs)
  BY DEF Basis, TypeOK
<1>1. ASSUME NEW cut, Stops(cut)
      PROVE  Prefix'
  BY <1>1, IdleEntry DEF Prefix, Stops
<1>2. ASSUME NEW t \in Threads, NEW e, e.pc # "trim", OnlyThread(t, e), UNCHANGED redis, overlapped' \/ overlapped' = overlapped
      PROVE  Prefix'
  BY <1>2 DEF Prefix, OnlyThread
<1>3. ASSUME NEW l \in Lists, Pushes(l)
      PROVE  Prefix'
  <2> SUFFICES ASSUME ~overlapped, NEW t \in Threads, flush[t].pc = "trim"
               PROVE  /\ Len(flush[t].batch) <= Len(redis'[flush[t].list])
                      /\ \A i \in 1 .. Len(flush[t].batch) : flush[t].batch[i] = redis'[flush[t].list][i]
    BY <1>3 DEF Prefix, Pushes
  <2> DEFINE k == flush[t].list
             b == flush[t].batch
  <2>1. Len(b) <= Len(redis[k]) /\ \A i \in 1 .. Len(b) : b[i] = redis[k][i]
    BY DEF Prefix
  <2>2. b \in Seq(Msgs) /\ redis[k] \in Seq(Msgs)
    BY <1>a
  <2>3. redis'[k] = redis[k] \/ redis'[k] = Append(redis[k], sent')
    BY <1>a, <1>3 DEF Pushes
  <2> HIDE DEF k, b
  <2>4. Len(b) <= Len(redis'[k]) /\ \A i \in 1 .. Len(b) : b[i] = redis'[k][i]
    BY <2>1, <2>2, <2>3
  <2> QED
    BY <2>4 DEF k, b
<1>4. CASE Refuses \/ Restarts
  BY <1>4 DEF Refuses, Restarts, Prefix
<1>5. CASE Halts
  BY <1>1, <1>5 DEF Halts
<1>6. ASSUME NEW t \in Threads, Begins(t)
      PROVE  Prefix'
  <2>1. /\ OnlyThread(t, [pc |-> "read", list |-> 1, batch |-> <<>>, done |-> 0]) /\ redis' = redis
        /\ overlapped' \/ overlapped' = overlapped
    BY <1>a, <1>6 DEF Begins
  <2> QED
    BY <1>2, <2>1
<1>7. ASSUME NEW t \in Threads, Takes(t)
      PROVE  Prefix'
  <2>1. /\ flush'[t].batch = redis[flush[t].list] /\ flush'[t].list = flush[t].list
        /\ redis' = redis /\ overlapped' = overlapped
        /\ \A s \in Threads \ {t} : flush'[s] = flush[s]
    BY <1>7 DEF Takes, OnlyThread
  <2>2. Len(redis[flush[t].list]) \in Nat
    BY <1>0
  <2> QED
    BY <2>1, <2>2 DEF Prefix
<1>8. ASSUME NEW t \in Threads, Empties(t)
      PROVE  Prefix'
  <2>1. /\ flush[t].pc = "trim" /\ overlapped' = overlapped /\ flush'[t].pc = "insert"
        /\ \A s \in Threads \ {t} : flush'[s] = flush[s]
    BY <1>8 DEF Empties, OnlyThread
  <2>2. ~overlapped => \A s \in Threads : flush'[s].pc # "trim"
    BY <2>1 DEF Alone
  <2> QED
    BY <2>1, <2>2 DEF Prefix
<1>9. ASSUME NEW t \in Threads, Inserts(t)
      PROVE  Prefix'
  <2>1. PICK d \in Nat, pc \in {"insert", "commit"} :
           OnlyThread(t, [pc |-> pc, list |-> flush[t].list, batch |-> flush[t].batch, done |-> d])
    BY <1>9 DEF Inserts
  <2> QED
    BY <1>2, <1>9, <2>1 DEF Inserts
<1>10. ASSUME NEW t \in Threads, Drops(t) \/ Saves(t)
       PROVE  Prefix'
  <2>1. \/ OnlyThread(t, NextList(t)) /\ redis' = redis /\ overlapped' = overlapped
        \/ \E cut : Stops(cut)
    BY <1>10 DEF Drops, Saves, Continues
  <2>2. NextList(t).pc # "trim"
    BY NextListEntry
  <2> QED
    BY <1>1, <1>2, <2>1, <2>2
<1> QED
  BY <1>0, <1>3, <1>4, <1>5, <1>6, <1>7, <1>8, <1>9, <1>10, NextForms

\* A prefix of a list is as ordered as the list is.
LEMMA PrefixOrdered ==
  ASSUME NEW b \in Seq(Nat), NEW r \in Seq(Nat), NEW q, Len(b) <= Len(r),
         \A i \in 1 .. Len(b) : b[i] = r[i], Rising(r), Before(q, r)
  PROVE  Rising(b) /\ Before(q, b)
<1>1. \A i \in DOMAIN b : i \in DOMAIN r /\ b[i] = r[i]
  OBVIOUS
<1> QED
  BY <1>1 DEF Rising, Before, ToSet

LEMMA TidyStep == ASSUME Basis, Alone, Prefix, Tidy, Next PROVE Tidy'
<1>0. TypeOK /\ FlushOK /\ Stored /\ overlapped \in BOOLEAN /\ sent \in Nat
  BY DEF Basis, TypeOK
<1>1. /\ redis \in [Lists -> Seq(Nat)] /\ table \in [Lists -> Seq(Nat)]
      /\ \A t \in Threads : flush[t].list \in Lists /\ flush[t].batch \in Seq(Nat)
  <2>1. Seq(Msgs) \subseteq Seq(Nat)
    BY HistoryAssumption DEF Msgs
  <2> QED
    BY <1>0, <2>1 DEF TypeOK
<1> SUFFICES ASSUME ~overlapped'
             PROVE  /\ \A l \in Lists : Rising(table'[l]) /\ Rising(redis'[l]) /\ Before(table'[l], redis'[l])
                    /\ \A t \in Threads, l \in Lists : Ordered(l, t)'
  BY DEF Tidy
<1>2. ~overlapped
  <2>1. ASSUME NEW t \in Threads, Begins(t) \/ Takes(t) \/ Empties(t) \/ Inserts(t) \/ Drops(t) \/ Saves(t)
        PROVE  ~overlapped
    BY <2>1 DEF Begins, Takes, Empties, Inserts, Drops, Saves
  <2>2. CASE (\E l \in Lists : Pushes(l)) \/ Refuses \/ Halts \/ Restarts
    BY <2>2 DEF Pushes, Refuses, Halts, Restarts
  <2> QED
    BY <1>0, <2>1, <2>2, NextForms
<1>3. /\ \A l \in Lists : Rising(table[l]) /\ Rising(redis[l]) /\ Before(table[l], redis[l])
      /\ \A t \in Threads, l \in Lists : Ordered(l, t)
  BY <1>2 DEF Tidy
<1> DEFINE Lines == \A l \in Lists : Rising(table[l]) /\ Rising(redis[l]) /\ Before(table[l], redis[l])
<1>4. \A t \in Threads, l \in Lists : flush'[t].batch = <<>> => Ordered(l, t)'
  BY RisingEmpty DEF Ordered
<1>5. ASSUME NEW t \in Threads, NEW s \in Threads \ {t}, flush[t].pc # "idle"
      PROVE  flush[s].batch = <<>>
  BY <1>0, <1>2, <1>5, IdleEntry DEF Alone, FlushOK
<1>6. ASSUME UNCHANGED <<redis, table>>
      PROVE  Lines' /\ \A t \in Threads, l \in Lists : flush'[t] = flush[t] => Ordered(l, t)'
  BY <1>3, <1>6 DEF Ordered
<1>7. ASSUME NEW l \in Lists, Pushes(l)
      PROVE  Lines' /\ \A t \in Threads, k \in Lists : Ordered(k, t)'
  <2>1. redis'[l] = Append(redis[l], sent') /\ sent' = sent + 1 /\ table' = table /\ flush' = flush
    BY <1>7 DEF Pushes
  <2>2. ToSet(redis'[l]) = ToSet(redis[l]) \cup {sent'}
    <3>1. redis[l] \in Seq(Nat) /\ sent' \in Nat
      BY <1>0, <1>1, <2>1
    <3> QED
      BY <2>1, <3>1, ToSetFacts
  <2>3. /\ \A y \in ToSet(redis[l]) \cup ToSet(table[l]) : y < sent'
        /\ \A t \in Threads : \A y \in ToSet(flush[t].batch) : y < sent'
    <3>1. \A y \in 1 .. sent : y < sent'
      BY <1>0, <2>1
    <3> QED
      BY <1>0, <3>1 DEF Stored
  <2>4. Rising(redis'[l])
    BY <1>0, <1>1, <1>3, <2>1, <2>3, RisingAppend
  <2>5. Before(table[l], redis'[l]) /\ \A t \in Threads : Before(flush[t].batch, redis[l]) => Before(flush[t].batch, redis'[l])
    BY <1>3, <2>2, <2>3 DEF Before
  <2>6. Lines'
    BY <1>3, <1>7, <2>1, <2>4, <2>5 DEF Pushes
  <2>7. ASSUME NEW t \in Threads, NEW k \in Lists
        PROVE  Ordered(k, t)'
    BY <1>3, <1>7, <2>1, <2>5 DEF Pushes, Ordered
  <2> QED
    BY <2>6, <2>7
<1>8. CASE Refuses \/ Restarts
  BY <1>6, <1>8 DEF Refuses, Restarts
<1>9. ASSUME NEW cut, Stops(cut), UNCHANGED <<redis, table>>
      PROVE  Lines' /\ \A t \in Threads, l \in Lists : Ordered(l, t)'
  BY <1>4, <1>6, <1>9, IdleEntry DEF Stops
<1>10. ASSUME NEW t \in Threads, NEW e, OnlyThread(t, e), e.batch = <<>> \/ e.pc = "trim", UNCHANGED <<redis, table>>
       PROVE  Lines' /\ \A s \in Threads, l \in Lists : Ordered(l, s)'
  <2>1. \A l \in Lists : Ordered(l, t)'
    BY <1>4, <1>10 DEF OnlyThread, Ordered
  <2> QED
    BY <1>6, <1>10, <2>1 DEF OnlyThread
<1>11. ASSUME NEW t \in Threads, Begins(t)
       PROVE  Lines' /\ \A s \in Threads, l \in Lists : Ordered(l, s)'
  <2>1. OnlyThread(t, [pc |-> "read", list |-> 1, batch |-> <<>>, done |-> 0]) /\ UNCHANGED <<redis, table>>
    BY <1>11 DEF Begins
  <2> QED
    BY <1>10, <2>1
<1>12. ASSUME NEW t \in Threads, Takes(t)
       PROVE  Lines' /\ \A s \in Threads, l \in Lists : Ordered(l, s)'
  <2>1. OnlyThread(t, [pc |-> "trim", list |-> flush[t].list, batch |-> redis[flush[t].list], done |-> 0]) /\ UNCHANGED <<redis, table>>
    BY <1>12 DEF Takes
  <2> QED
    BY <1>10, <2>1
<1>13. ASSUME NEW t \in Threads, Empties(t)
       PROVE  Lines' /\ \A s \in Threads, l \in Lists : Ordered(l, s)'
  <2> DEFINE k == flush[t].list
             b == flush[t].batch
  <2>1. /\ flush[t].pc = "trim" /\ table' = table /\ redis'[k] = <<>> /\ \A l \in Lists \ {k} : redis'[l] = redis[l]
        /\ flush'[t].batch = b /\ flush'[t].list = k
        /\ \A s \in Threads \ {t} : flush'[s] = flush[s]
    BY <1>13 DEF Empties, OnlyThread
  <2>2. Lines'
    BY <1>3, <2>1, RisingEmpty
  <2>3. Len(b) <= Len(redis[k]) /\ \A i \in 1 .. Len(b) : b[i] = redis[k][i]
    BY <1>2, <2>1 DEF Prefix
  <2>4. Rising(b) /\ Before(table[k], b)
    BY <1>1, <1>3, <2>3, PrefixOrdered
  <2>5. \A l \in Lists : Ordered(l, t)'
    BY <2>1, <2>4, RisingEmpty DEF Ordered
  <2>6. \A s \in Threads \ {t} : flush'[s].batch = <<>>
    BY <1>5, <2>1
  <2> QED
    BY <1>4, <2>2, <2>5, <2>6
<1>14. ASSUME NEW t \in Threads, Inserts(t)
       PROVE  Lines' /\ \A s \in Threads, l \in Lists : Ordered(l, s)'
  <2>1. UNCHANGED <<redis, table>> /\ flush[t].pc = "insert"
    BY <1>14 DEF Inserts
  <2>2. /\ flush'[t].batch = flush[t].batch /\ flush'[t].list = flush[t].list
        /\ \A s \in Threads \ {t} : flush'[s] = flush[s]
    BY <1>14 DEF Inserts, OnlyThread
  <2>3. \A l \in Lists : Ordered(l, t)'
    BY <1>3, <2>1, <2>2 DEF Ordered
  <2> QED
    BY <1>6, <2>1, <2>2, <2>3
<1>15. ASSUME NEW t \in Threads, Drops(t)
       PROVE  Lines' /\ \A s \in Threads, l \in Lists : Ordered(l, s)'
  <2>1. OnlyThread(t, NextList(t)) /\ UNCHANGED <<redis, table>> /\ NextList(t).batch = <<>>
    BY <1>15, NextListEntry DEF Drops, Continues
  <2> QED
    BY <1>10, <2>1
<1>16. ASSUME NEW t \in Threads, Saves(t)
       PROVE  Lines' /\ \A s \in Threads, l \in Lists : Ordered(l, s)'
  <2> DEFINE k == flush[t].list
             b == flush[t].batch
  <2>1. /\ flush[t].pc = "commit" /\ redis' = redis /\ table'[k] = table[k] \o b
        /\ \A l \in Lists \ {k} : table'[l] = table[l]
    BY <1>16 DEF Saves
  <2>2. Rising(b) /\ Before(table[k], b) /\ Before(b, redis[k])
    BY <1>1, <1>3, <2>1 DEF Ordered
  <2>3. Rising(table'[k]) /\ Before(table'[k], redis[k])
    BY <1>1, <1>3, <2>1, <2>2, RisingConcat, BeforeConcat
  <2>4. Lines'
    BY <1>3, <2>1, <2>3
  <2>5. \A s \in Threads : flush'[s].batch = <<>>
    <3>1. CASE Continues(t, {})
      BY <1>5, <2>1, <3>1, NextListEntry DEF Continues, OnlyThread
    <3>2. CASE Stops(Uncommitted(Threads \ {t}))
      BY <3>2, IdleEntry DEF Stops
    <3> QED
      BY <1>16, <3>1, <3>2 DEF Saves
  <2> QED
    BY <1>4, <2>4, <2>5
<1>17. CASE Halts
  BY <1>9, <1>17 DEF Halts
<1> QED
  BY <1>0, <1>7, <1>8, <1>11, <1>12, <1>13, <1>14, <1>15, <1>16, <1>17, NextForms

\* While flushes have not overlapped, table, copy and cached list together hold
\* every record at most once, in the order of the pushes, whatever failed or
\* died between two statements.
THEOREM RecordsInOrder == Spec => []InOrder
<1> DEFINE IInv == Basis /\ Alone /\ Prefix /\ Tidy
<1>1. Init => IInv
  <2> SUFFICES ASSUME Init PROVE Alone /\ Prefix /\ Tidy
    BY BasisInit
  <2>1. /\ \A t \in Threads : flush[t].pc = "idle" /\ flush[t].batch = <<>>
        /\ \A l \in Lists : redis[l] = <<>> /\ table[l] = <<>>
    BY IdleEntry DEF Init
  <2>2. Alone /\ Prefix
    BY <2>1 DEF Alone, Prefix
  <2>3. Tidy
    BY <2>1, RisingEmpty DEF Tidy, Ordered
  <2> QED
    BY <2>2, <2>3
<1>2. IInv /\ [Next]_vars => IInv'
  <2> SUFFICES ASSUME IInv, [Next]_vars PROVE IInv'
    OBVIOUS
  <2>1. Basis'
    BY BasisStep
  <2>2. CASE Next
    BY <2>1, <2>2, AloneStep, PrefixStep, TidyStep
  <2>3. CASE UNCHANGED vars
    <3>1. Alone' /\ Prefix'
      BY <2>3 DEF vars, Alone, Prefix
    <3>2. Tidy'
      BY <2>3 DEF vars, Tidy, Ordered, Before, Rising
    <3> QED
      BY <2>1, <3>1, <3>2
  <2> QED
    BY <2>2, <2>3
<1>3. IInv => InOrder
  BY TidyInOrder
<1> QED
  BY <1>1, <1>2, <1>3, PTL DEF Spec

-----------------------------------------------------------------------------
(* How often a record is saved.                                            *)

Distinct(s) == \A i, j \in DOMAIN s : s[i] = s[j] => i = j

\* Lists and copies hold a record once, and a record is in one list only.
Once ==
  /\ \A l \in Lists : Distinct(redis[l])
  /\ \A t \in Threads : Distinct(flush[t].batch)
  /\ \A k, l \in Lists : k # l => ToSet(redis[k]) \cap ToSet(redis[l]) = {}

\* The threads that hold a copy of m and may still save it.
Claims(m) == {t \in Threads : m \in ToSet(flush[t].batch)}

\* What redis holds is not saved, and is in no copy but those taken from that
\* list and not yet followed by their LTRIM.
CachedOnly ==
  \A l \in Lists : \A m \in ToSet(redis[l]) :
    /\ ~Saved(m)
    /\ \A t \in Claims(m) : flush[t].pc = "trim" /\ flush[t].list = l

\* A thread has saved m once, or may still do so, or has no part in it.
Budget == \A m \in Msgs : Copies(m) + Cardinality(Claims(m)) <= Cardinality(Threads)

\* What one step does to a thread's copy, and to a list.
LEMMA BatchForms ==
  ASSUME Basis, Next, NEW s \in Threads
  PROVE  \/ flush'[s].batch = <<>>
         \/ /\ flush'[s].batch = flush[s].batch /\ flush'[s].list = flush[s].list
            /\ flush'[s].pc = flush[s].pc \/ flush[s].pc # "trim" \/ redis'[flush[s].list] = <<>>
         \/ Takes(s) /\ flush'[s].batch = redis[flush[s].list]
<1>0. TypeOK /\ FlushOK
  BY DEF Basis
<1>1. CASE (\E l \in Lists : Pushes(l)) \/ Refuses \/ Restarts
  BY <1>1 DEF Pushes, Refuses, Restarts
<1>2. CASE Halts
  BY <1>2, IdleEntry DEF Halts, Stops
<1>3. ASSUME NEW t \in Threads, Begins(t) \/ Takes(t)
      PROVE  flush'[s] = flush[s] \/ flush'[s].batch = <<>> \/ (Takes(s) /\ flush'[s].batch = redis[flush[s].list])
  <2>1. CASE Begins(t)
    BY <2>1 DEF Begins, OnlyThread
  <2>2. CASE Takes(t)
    <3>1. flush'[t].batch = redis[flush[t].list] /\ \A r \in Threads \ {t} : flush'[r] = flush[r]
      BY <2>2 DEF Takes, OnlyThread
    <3> QED
      BY <2>2, <3>1
  <2> QED
    BY <1>3, <2>1, <2>2
<1>4. ASSUME NEW t \in Threads, Empties(t)
      PROVE  \/ flush'[s] = flush[s]
             \/ /\ flush'[s].batch = flush[s].batch /\ flush'[s].list = flush[s].list
                /\ redis'[flush[s].list] = <<>>
  BY <1>4 DEF Empties, OnlyThread
<1>5. ASSUME NEW t \in Threads, Inserts(t)
      PROVE  \/ flush'[s] = flush[s]
             \/ flush'[s].batch = flush[s].batch /\ flush'[s].list = flush[s].list /\ flush[s].pc # "trim"
  BY <1>5 DEF Inserts, OnlyThread
<1>6. ASSUME NEW t \in Threads, Drops(t) \/ Saves(t)
      PROVE  flush'[s] = flush[s] \/ flush'[s].batch = <<>>
  <2>1. OnlyThread(t, NextList(t)) \/ \E cut : Stops(cut)
    BY <1>6 DEF Drops, Saves, Continues
  <2> QED
    BY <2>1, NextListEntry, IdleEntry DEF OnlyThread, Stops
<1> QED
  BY <1>0, <1>1, <1>2, <1>3, <1>4, <1>5, <1>6, NextForms

LEMMA ListForms ==
  ASSUME Basis, Next
  PROVE  /\ \/ \E l \in Lists : Pushes(l)
            \/ \A l \in Lists : redis'[l] = redis[l] \/ redis'[l] = <<>>
         /\ table' = table \/ \E t \in Threads : Saves(t)
<1>0. TypeOK /\ FlushOK
  BY DEF Basis
<1>1. ASSUME NEW t \in Threads, Begins(t) \/ Takes(t) \/ Inserts(t) \/ Drops(t)
      PROVE  table' = table /\ redis' = redis
  BY <1>1 DEF Begins, Takes, Inserts, Drops
<1>2. ASSUME NEW t \in Threads, Empties(t)
      PROVE  table' = table /\ \A l \in Lists : redis'[l] = redis[l] \/ redis'[l] = <<>>
  BY <1>2 DEF Empties
<1>3. ASSUME NEW t \in Threads, Saves(t)
      PROVE  redis' = redis
  BY <1>3 DEF Saves
<1>4. CASE Refuses \/ Restarts \/ Halts
  BY <1>4 DEF Refuses, Restarts, Halts
<1>5. ASSUME NEW l \in Lists, Pushes(l)
      PROVE  table' = table
  BY <1>5 DEF Pushes
<1> QED
  BY <1>0, <1>1, <1>2, <1>3, <1>4, <1>5, NextForms

\* A record just pushed is nowhere else.
LEMMA NewRecord ==
  ASSUME Basis, NEW l \in Lists, Pushes(l)
  PROVE  /\ sent' \in Nat /\ redis[l] \in Seq(Nat) /\ redis'[l] = Append(redis[l], sent')
         /\ ToSet(redis'[l]) = ToSet(redis[l]) \cup {sent'}
         /\ \A k \in Lists \ {l} : redis'[k] = redis[k]
         /\ \A k \in Lists : sent' \notin ToSet(redis[k]) /\ sent' \notin ToSet(table[k])
         /\ \A t \in Threads : sent' \notin ToSet(flush[t].batch)
<1>1. sent \in Nat /\ sent' = sent + 1 /\ redis'[l] = Append(redis[l], sent') /\ \A k \in Lists \ {l} : redis'[k] = redis[k]
  BY DEF Basis, TypeOK, Pushes
<1>2. sent' \in Nat /\ sent' \notin 1 .. sent
  BY <1>1
<1>3. redis[l] \in Seq(Nat)
  <2>1. Seq(Msgs) \subseteq Seq(Nat)
    BY HistoryAssumption DEF Msgs
  <2> QED
    BY <2>1 DEF Basis, TypeOK
<1>4. ToSet(redis'[l]) = ToSet(redis[l]) \cup {sent'}
  BY <1>1, <1>2, <1>3, ToSetFacts
<1> QED
  BY <1>1, <1>2, <1>3, <1>4 DEF Basis, Stored

LEMMA DistinctAppend ==
  ASSUME NEW s \in Seq(Nat), NEW x \in Nat, Distinct(s), x \notin ToSet(s)
  PROVE  Distinct(Append(s, x))
<1> DEFINE a == Append(s, x)
<1>1. DOMAIN a = DOMAIN s \cup {Len(s) + 1} /\ a[Len(s) + 1] = x /\ \A i \in DOMAIN s : a[i] = s[i]
  OBVIOUS
<1>2. \A i \in DOMAIN s : s[i] # x
  BY DEF ToSet
<1> HIDE DEF a
<1>3. Distinct(a)
  BY <1>1, <1>2 DEF Distinct
<1> QED
  BY <1>3 DEF a

LEMMA OnceStep == ASSUME Basis, Once, Next PROVE Once'
<1>0. /\ Distinct(<<>>) /\ ToSet(<<>>) = {} /\ redis \in [Lists -> Seq(Msgs)]
      /\ \A t \in Threads : flush[t].list \in Lists
  BY DEF Distinct, ToSet, Basis, TypeOK
<1>1. ASSUME NEW t \in Threads
      PROVE  Distinct(flush'[t].batch)
  BY <1>0, BatchForms DEF Once
<1>2. CASE \A l \in Lists : redis'[l] = redis[l] \/ redis'[l] = <<>>
  BY <1>0, <1>1, <1>2 DEF Once
<1>3. ASSUME NEW l \in Lists, Pushes(l)
      PROVE  Once'
  <2>1. Distinct(redis'[l])
    <3>1. /\ sent' \in Nat /\ redis[l] \in Seq(Nat) /\ sent' \notin ToSet(redis[l])
          /\ redis'[l] = Append(redis[l], sent')
      BY <1>3, NewRecord
    <3>2. Distinct(redis[l])
      BY DEF Once
    <3> QED
      BY <3>1, <3>2, DistinctAppend
  <2>2. \A k \in Lists : Distinct(redis'[k])
    BY <1>3, <2>1, NewRecord DEF Once
  <2>3. ASSUME NEW j \in Lists, NEW k \in Lists, j # k
        PROVE  ToSet(redis'[j]) \cap ToSet(redis'[k]) = {}
    <3>1. ToSet(redis[j]) \cap ToSet(redis[k]) = {}
      BY <2>3 DEF Once
    <3>2. \A i \in Lists : sent' \notin ToSet(redis[i])
      BY <1>3, NewRecord
    <3>3. /\ ToSet(redis'[l]) = ToSet(redis[l]) \cup {sent'}
          /\ \A i \in Lists \ {l} : ToSet(redis'[i]) = ToSet(redis[i])
      BY <1>3, NewRecord
    <3> QED
      BY <2>3, <3>1, <3>2, <3>3
  <2> QED
    BY <1>1, <2>2, <2>3 DEF Once
<1> QED
  BY <1>2, <1>3, ListForms

LEMMA CachedOnlyStep == ASSUME Basis, Once, CachedOnly, Next PROVE CachedOnly'
<1>0. /\ ToSet(<<>>) = {} /\ redis \in [Lists -> Seq(Msgs)] /\ table \in [Lists -> Seq(Msgs)]
      /\ \A t \in Threads : flush[t].list \in Lists /\ flush[t].batch \in Seq(Msgs)
  BY DEF ToSet, Basis, TypeOK
<1>1. CASE \E k \in Lists : Pushes(k)
  <2> PICK k \in Lists : Pushes(k)
    BY <1>1
  <2> SUFFICES ASSUME NEW l \in Lists, NEW m \in ToSet(redis'[l])
               PROVE  /\ ~Saved(m)
                      /\ \A t \in Claims(m) : flush[t].pc = "trim" /\ flush[t].list = l
    BY DEF CachedOnly, Pushes, Saved, Claims
  <2>1. CASE m = sent'
    BY <2>1, NewRecord DEF Saved, Claims
  <2>2. CASE m # sent'
    <3>1. m \in ToSet(redis[l])
      BY <2>2, NewRecord
    <3> QED
      BY <3>1 DEF CachedOnly
  <2> QED
    BY <2>1, <2>2
<1>2. CASE \A l \in Lists : redis'[l] = redis[l] \/ redis'[l] = <<>>
  <2> SUFFICES ASSUME NEW l \in Lists, NEW m \in ToSet(redis'[l])
               PROVE  /\ ~Saved(m)'
                      /\ \A t \in Claims(m)' : flush'[t].pc = "trim" /\ flush'[t].list = l
    BY DEF CachedOnly
  <2>1. m \in ToSet(redis[l]) /\ redis'[l] # <<>>
    BY <1>0, <1>2
  <2>2. ~Saved(m) /\ \A t \in Claims(m) : flush[t].pc = "trim" /\ flush[t].list = l
    BY <2>1 DEF CachedOnly
  <2>3. ASSUME NEW t \in Threads, Saves(t)
        PROVE  ~Saved(m)'
    <3>1. ToSet(table'[flush[t].list]) = ToSet(table[flush[t].list]) \cup ToSet(flush[t].batch)
      BY <1>0, <2>3, ToSetFacts DEF Saves
    <3>2. m \notin ToSet(flush[t].batch)
      BY <2>2, <2>3 DEF Saves, Claims
    <3> QED
      BY <2>2, <2>3, <3>1, <3>2 DEF Saved, Saves
  <2>4. ~Saved(m)'
    BY <2>2, <2>3, ListForms DEF Saved
  <2>5. ASSUME NEW t \in Threads, m \in ToSet(flush'[t].batch)
        PROVE  flush'[t].pc = "trim" /\ flush'[t].list = l
    <3>1. CASE /\ flush'[t].batch = flush[t].batch /\ flush'[t].list = flush[t].list
               /\ flush'[t].pc = flush[t].pc \/ flush[t].pc # "trim" \/ redis'[flush[t].list] = <<>>
      BY <2>1, <2>2, <2>5, <3>1 DEF Claims
    <3>2. CASE Takes(t) /\ flush'[t].batch = redis[flush[t].list]
      <4>1. flush[t].list = l
        BY <1>0, <2>1, <2>5, <3>2 DEF Once
      <4> QED
        BY <3>2, <4>1 DEF Takes, OnlyThread
    <3> QED
      BY <1>0, <2>5, <3>1, <3>2, BatchForms
  <2> QED
    BY <2>4, <2>5 DEF Claims
<1> QED
  BY <1>1, <1>2, ListForms

\* The rows that hold m, in tables tb.
Rows(tb, m) == {p \in Lists \X (1 .. Len(tb[1]) + Len(tb[2])) : p[2] \in DOMAIN tb[p[1]] /\ tb[p[1]][p[2]] = m}

LEMMA RowsFinite ==
  ASSUME NEW tb \in [Lists -> Seq(Msgs)], NEW m
  PROVE  IsFiniteSet(Rows(tb, m)) /\ Cardinality(Rows(tb, m)) \in Nat
<1> DEFINE N == Len(tb[1]) + Len(tb[2])
<1>1. N \in Nat
  BY DEF Lists
<1>2. IsFiniteSet(Lists) /\ IsFiniteSet(1 .. N)
  <2> HIDE DEF N
  <2>1. IsFiniteSet(1 .. N)
    BY <1>1, FS_Interval
  <2>2. IsFiniteSet(1 .. 2)
    <3>1. 1 \in Int /\ 2 \in Int
      OBVIOUS
    <3> QED
      BY ONLY <3>1, FS_Interval, Zenon
  <2> QED
    BY <2>1, <2>2 DEF Lists
<1>3. IsFiniteSet(Lists \X (1 .. N))
  BY <1>2, FS_Product
<1>4. Rows(tb, m) \in SUBSET (Lists \X (1 .. N))
  BY DEF Rows
<1> QED
  BY <1>3, <1>4, FS_Subset, FS_CardinalityType

\* A batch adds each of its records once.
LEMMA RowsAppend ==
  ASSUME NEW tb \in [Lists -> Seq(Msgs)], NEW tc \in [Lists -> Seq(Msgs)], NEW k \in Lists, NEW b \in Seq(Msgs),
         Distinct(b), tc[k] = tb[k] \o b, \A l \in Lists \ {k} : tc[l] = tb[l], NEW m
  PROVE  Cardinality(Rows(tc, m)) <= IF m \in ToSet(b) THEN Cardinality(Rows(tb, m)) + 1 ELSE Cardinality(Rows(tb, m))
<1>1. /\ \A i \in DOMAIN tc[k] : \/ i \in DOMAIN tb[k] /\ tc[k][i] = tb[k][i]
                                 \/ i - Len(tb[k]) \in DOMAIN b /\ tc[k][i] = b[i - Len(tb[k])]
      /\ Len(tb[k]) \in Nat /\ DOMAIN b \subseteq Nat /\ \A i \in DOMAIN tc[k] : i \in Nat
  <2> DEFINE a == tb[k]
  <2>1. a \in Seq(Msgs)
    OBVIOUS
  <2> HIDE DEF a
  <2>2. /\ \A i \in DOMAIN (a \o b) : \/ i \in DOMAIN a /\ (a \o b)[i] = a[i]
                                      \/ i - Len(a) \in DOMAIN b /\ (a \o b)[i] = b[i - Len(a)]
        /\ Len(a) \in Nat /\ DOMAIN b \subseteq Nat /\ \A i \in DOMAIN (a \o b) : i \in Nat
    BY <2>1
  <2> QED
    BY <2>2 DEF a
<1>2. \A l \in Lists : DOMAIN tb[l] \subseteq 1 .. Len(tb[1]) + Len(tb[2])
  <2>1. /\ tb[1] \in Seq(Msgs) /\ tb[2] \in Seq(Msgs) /\ Lists = {1, 2}
        /\ Len(tb[1]) \in Nat /\ Len(tb[2]) \in Nat
        /\ DOMAIN tb[1] = 1 .. Len(tb[1]) /\ DOMAIN tb[2] = 1 .. Len(tb[2])
    BY DEF Lists
  <2> QED
    BY <2>1
<1>3. ASSUME NEW p \in Rows(tc, m), p \notin Rows(tb, m)
      PROVE  p[1] = k /\ p[2] - Len(tb[k]) \in DOMAIN b /\ b[p[2] - Len(tb[k])] = m /\ p = <<p[1], p[2]>> /\ p[2] \in Nat
  <2>1. p \in Lists \X Nat /\ p = <<p[1], p[2]>> /\ p[1] \in Lists /\ p[2] \in DOMAIN tc[p[1]] /\ tc[p[1]][p[2]] = m /\ p[2] \in Nat
    BY DEF Rows
  <2>2. ~(p[2] \in DOMAIN tb[p[1]] /\ tb[p[1]][p[2]] = m)
    BY <1>2, <1>3, <2>1 DEF Rows
  <2>3. p[1] = k
    BY <2>1, <2>2
  <2> QED
    BY <1>1, <2>1, <2>2, <2>3
<1>4. IsFiniteSet(Rows(tb, m)) /\ Cardinality(Rows(tb, m)) \in Nat
  BY RowsFinite
<1>5. CASE m \in ToSet(b)
  <2>1. PICK i \in DOMAIN b : b[i] = m
    BY <1>5 DEF ToSet
  <2> DEFINE q == <<k, Len(tb[k]) + i>>
  <2>2. Rows(tc, m) \subseteq Rows(tb, m) \cup {q}
    <3> SUFFICES ASSUME NEW p \in Rows(tc, m), p \notin Rows(tb, m)
                 PROVE  p = q
      OBVIOUS
    <3>1. p[1] = k /\ p[2] - Len(tb[k]) = i /\ p = <<p[1], p[2]>> /\ p[2] \in Nat
      BY <1>3, <2>1 DEF Distinct
    <3>2. p[2] = Len(tb[k]) + i
      BY <1>1, <2>1, <3>1
    <3> QED
      BY <3>1, <3>2
  <2> HIDE DEF q
  <2>3. IsFiniteSet(Rows(tb, m) \cup {q}) /\ Cardinality(Rows(tb, m) \cup {q}) <= Cardinality(Rows(tb, m)) + 1
    <3> DEFINE R == Rows(tb, m)
    <3>1. IsFiniteSet(R) /\ Cardinality(R) \in Nat
      BY <1>4
    <3> HIDE DEF R
    <3>2. IsFiniteSet(R \cup {q}) /\ Cardinality(R \cup {q}) = IF q \in R THEN Cardinality(R) ELSE Cardinality(R) + 1
      BY <3>1, FS_AddElement
    <3>3. Cardinality(R \cup {q}) <= Cardinality(R) + 1
      BY <3>1, <3>2
    <3> QED
      BY <3>2, <3>3 DEF R
  <2>4. /\ Cardinality(Rows(tc, m)) <= Cardinality(Rows(tb, m) \cup {q}) /\ Cardinality(Rows(tc, m)) \in Nat
        /\ Cardinality(Rows(tb, m) \cup {q}) \in Nat
    BY <2>2, <2>3, FS_Subset, FS_CardinalityType
  <2>5. Cardinality(Rows(tc, m)) <= Cardinality(Rows(tb, m)) + 1
    BY <1>4, <2>3, <2>4
  <2> QED
    BY <1>5, <2>5
<1>6. CASE m \notin ToSet(b)
  <2>1. Rows(tc, m) \subseteq Rows(tb, m)
    BY <1>3, <1>6 DEF ToSet
  <2> QED
    BY <1>4, <1>6, <2>1, FS_Subset
<1> QED
  BY <1>5, <1>6

LEMMA CopiesRows ==
  ASSUME NEW m
  PROVE  Copies(m) = Cardinality(Rows(table, m)) /\ Copies(m)' = Cardinality(Rows(table', m))
BY DEF Copies, Rows

LEMMA ThreadsFinite ==
  /\ IsFiniteSet(Threads) /\ Cardinality(Threads) \in Nat
  /\ \A S \in SUBSET Threads : IsFiniteSet(S) /\ Cardinality(S) \in Nat /\ Cardinality(S) <= Cardinality(Threads)
<1>1. IsFiniteSet(Threads)
  BY HistoryAssumption, FS_AddElement DEF Threads
<1> QED
  BY <1>1, FS_Subset, FS_CardinalityType

LEMMA BudgetStep == ASSUME Basis, Once, CachedOnly, Budget, Next PROVE Budget'
<1>0. /\ TypeOK /\ FlushOK /\ table \in [Lists -> Seq(Msgs)] /\ table' \in [Lists -> Seq(Msgs)]
      /\ \A t \in Threads : flush[t].list \in Lists /\ flush[t].batch \in Seq(Msgs)
  BY BasisStep DEF Basis, TypeOK
<1> SUFFICES ASSUME NEW m \in Msgs
             PROVE  Copies(m)' + Cardinality(Claims(m)') <= Cardinality(Threads)
  BY DEF Budget
<1>1. Copies(m) + Cardinality(Claims(m)) <= Cardinality(Threads)
  BY DEF Budget
<1>2. /\ Claims(m) \in SUBSET Threads /\ Claims(m)' \in SUBSET Threads
      /\ Cardinality(Claims(m)) \in Nat /\ Cardinality(Claims(m)') \in Nat /\ Cardinality(Threads) \in Nat
      /\ IsFiniteSet(Claims(m)) /\ Cardinality(Claims(m)') <= Cardinality(Threads)
  <2>1. Claims(m) \in SUBSET Threads /\ Claims(m)' \in SUBSET Threads
    BY DEF Claims
  <2> QED
    BY <2>1, ThreadsFinite
<1>3. Copies(m) \in Nat /\ Copies(m)' \in Nat
  BY <1>0, CopiesRows, RowsFinite
<1>4. table' = table => Copies(m)' = Copies(m)
  BY CopiesRows
<1>5. ASSUME Copies(m)' <= Copies(m), Claims(m)' \subseteq Claims(m)
      PROVE  Copies(m)' + Cardinality(Claims(m)') <= Cardinality(Threads)
  <2>1. Cardinality(Claims(m)') <= Cardinality(Claims(m))
    BY <1>2, <1>5, FS_Subset
  <2> QED
    BY <1>1, <1>2, <1>3, <1>5, <2>1
<1>6. ASSUME NEW t \in Threads, Takes(t), m \in ToSet(redis[flush[t].list])
      PROVE  Copies(m)' + Cardinality(Claims(m)') <= Cardinality(Threads)
  <2>1. ~Saved(m) /\ table' = table
    BY <1>0, <1>6 DEF CachedOnly, Takes
  <2>2. Rows(table, m) = {}
    BY <2>1 DEF Rows, Saved, ToSet
  <2>3. Copies(m)' = 0
    BY <1>4, <2>1, <2>2, CopiesRows, FS_EmptySet
  <2> QED
    BY <1>2, <2>3
<1>7. ASSUME NEW t \in Threads, Saves(t)
      PROVE  Copies(m)' + Cardinality(Claims(m)') <= Cardinality(Threads)
  <2> DEFINE k == flush[t].list
             b == flush[t].batch
  <2>1. Distinct(b) /\ table'[k] = table[k] \o b /\ (\A l \in Lists \ {k} : table'[l] = table[l]) /\ k \in Lists /\ b \in Seq(Msgs)
    BY <1>0, <1>7 DEF Once, Saves
  <2> HIDE DEF k
  <2>2. Copies(m)' <= IF m \in ToSet(b) THEN Copies(m) + 1 ELSE Copies(m)
    <3>1. Cardinality(Rows(table', m)) <= IF m \in ToSet(b) THEN Cardinality(Rows(table, m)) + 1 ELSE Cardinality(Rows(table, m))
      BY <1>0, <2>1, RowsAppend
    <3> QED
      BY <3>1, CopiesRows
  <2>3. \A s \in Threads : flush'[s].batch = <<>> \/ (s # t /\ flush'[s].batch = flush[s].batch)
    <3>1. OnlyThread(t, NextList(t)) \/ \E cut : Stops(cut)
      BY <1>7 DEF Saves, Continues
    <3> QED
      BY <3>1, NextListEntry, IdleEntry DEF OnlyThread, Stops
  <2>4. Claims(m)' \subseteq Claims(m) \ {t}
    BY <2>3 DEF Claims, ToSet
  <2>5. CASE m \in ToSet(b)
    <3>1. t \in Claims(m)
      BY <2>5 DEF Claims
    <3>2. IsFiniteSet(Claims(m) \ {t}) /\ Cardinality(Claims(m) \ {t}) = Cardinality(Claims(m)) - 1
      BY <1>2, <3>1, FS_RemoveElement
    <3>3. Cardinality(Claims(m)') <= Cardinality(Claims(m)) - 1
      BY <2>4, <3>2, FS_Subset
    <3>4. Copies(m)' <= Copies(m) + 1
      BY <2>2, <2>5
    <3> QED
      BY <1>1, <1>2, <1>3, <3>3, <3>4
  <2>6. CASE m \notin ToSet(b)
    BY <1>5, <2>2, <2>4, <2>6
  <2> QED
    BY <2>5, <2>6
<1>8. ASSUME table' = table, \A t \in Threads : Takes(t) => m \notin ToSet(redis[flush[t].list])
      PROVE  Copies(m)' + Cardinality(Claims(m)') <= Cardinality(Threads)
  <2>1. ASSUME NEW s \in Threads, m \in ToSet(flush'[s].batch)
        PROVE  m \in ToSet(flush[s].batch)
    BY <1>8, <2>1, BatchForms DEF ToSet
  <2>2. Claims(m)' \subseteq Claims(m)
    BY <2>1 DEF Claims
  <2> QED
    BY <1>3, <1>4, <1>5, <1>8, <2>2
<1> QED
  BY <1>6, <1>7, <1>8, ListForms

\* Overlapping flushes may each save the copy they took before the first LTRIM,
\* but no record reaches its table more often than there are threads.
THEOREM CopiesStayBounded == Spec => []CopiesBounded
<1> DEFINE IInv == Basis /\ Once /\ CachedOnly /\ Budget
<1>1. Init => IInv
  <2> SUFFICES ASSUME Init PROVE Once /\ CachedOnly /\ Budget
    BY BasisInit
  <2>1. /\ \A t \in Threads : flush[t].batch = <<>>
        /\ \A l \in Lists : redis[l] = <<>> /\ table[l] = <<>>
        /\ ToSet(<<>>) = {} /\ Distinct(<<>>)
    BY IdleEntry DEF Init, ToSet, Distinct
  <2>2. Once /\ CachedOnly
    BY <2>1 DEF Once, CachedOnly
  <2>3. ASSUME NEW m \in Msgs
        PROVE  Copies(m) + Cardinality(Claims(m)) <= Cardinality(Threads)
    <3>1. Claims(m) = {}
      BY <2>1 DEF Claims
    <3>2. Rows(table, m) = {}
      <4>1. \A p \in Lists \X (1 .. Len(table[1]) + Len(table[2])) : DOMAIN table[p[1]] = {}
        BY <2>1
      <4> QED
        BY <4>1 DEF Rows
    <3> QED
      BY <3>1, <3>2, CopiesRows, FS_EmptySet, ThreadsFinite
  <2> QED
    BY <2>2, <2>3 DEF Budget
<1>2. IInv /\ [Next]_vars => IInv'
  <2> SUFFICES ASSUME IInv, [Next]_vars PROVE IInv'
    OBVIOUS
  <2>1. Basis'
    BY BasisStep
  <2>2. CASE Next
    BY <2>1, <2>2, OnceStep, CachedOnlyStep, BudgetStep
  <2>3. CASE UNCHANGED vars
    <3>1. Once' /\ CachedOnly'
      BY <2>3 DEF vars, Once, CachedOnly, Claims, Saved
    <3>2. Budget'
      BY <2>3 DEF vars, Budget, Claims, Copies
    <3> QED
      BY <2>1, <3>1, <3>2
  <2> QED
    BY <2>2, <2>3
<1>3. IInv => CopiesBounded
  <2> SUFFICES ASSUME IInv, NEW m \in Msgs PROVE Copies(m) <= Cardinality(Threads)
    BY DEF CopiesBounded
  <2>1. Copies(m) \in Nat
    BY CopiesRows, RowsFinite DEF Basis, TypeOK
  <2>2. Cardinality(Claims(m)) \in Nat
    BY ThreadsFinite DEF Claims
  <2> QED
    BY <2>1, <2>2, ThreadsFinite DEF Budget
<1> QED
  BY <1>1, <1>2, <1>3, PTL DEF Spec

=============================================================================
