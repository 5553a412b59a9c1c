---------------------------- MODULE HistoryCache ----------------------------
(***************************************************************************)
(* CacheManager: handlers append chat records to a redis list, flushes     *)
(* move the list to the history tables.  A flush copies the list (LRANGE), *)
(* empties it (LTRIM) and only then inserts the copy in one transaction,   *)
(* in batches.  A timer hands a flush to a pool of threads every second,   *)
(* whether the last one has ended or not; SIGINT flushes once more and     *)
(* exits.  Each redis command and each SQL statement is a step.            *)
(***************************************************************************)
EXTENDS Integers, Sequences, FiniteSets, SequencesExt

CONSTANTS
  MaxSent,    \* bound: chat records stored
  Flushers,   \* threads of mysqlInsertThreadPool
  Main,       \* the thread that runs the SIGINT handler
  BatchSize,  \* rows per INSERT (100 in the code)
  Faults      \* what may go wrong: subset of {"rpush", "insert", "crash", "exit"}

Lists == 1 .. 2       \* 1 private, 2 group
Msgs  == 1 .. MaxSent \* records, numbered in the order in which they are stored
Threads == Flushers \cup {Main}

ASSUME HistoryAssumption ==
  /\ MaxSent \in Nat
  /\ IsFiniteSet(Flushers)
  /\ Main \notin Flushers
  /\ BatchSize \in Nat \ {0}
  /\ Faults \subseteq {"rpush", "insert", "crash", "exit"}

VARIABLES
  redis,     \* the cached lists
  table,     \* committed rows of private_chat_history and group_chat_history
  flush,     \* what each thread is doing
  process,   \* running, exiting (SIGINT handler at work), stopped
  sent,      \* records whose handler has called store...InCache: 1 .. sent
  excused,   \* history: records redis refused, pushed between a LRANGE and its LTRIM
             \* or after SIGINT, or in a copy that an error or the end cut off
  overlapped \* history: two flushes have been under way at once

vars == <<redis, table, flush, process, sent, excused, overlapped>>

Idle == [pc |-> "idle", list |-> 1, batch |-> <<>>, done |-> 0]

TypeOK ==
  /\ redis \in [Lists -> Seq(Msgs)]
  /\ table \in [Lists -> Seq(Msgs)]
  /\ flush \in [Threads -> [pc : {"idle", "read", "trim", "insert", "commit"},
                            list : Lists, batch : Seq(Msgs), done : Nat]]
  /\ \A t \in Threads : flush[t].done <= Len(flush[t].batch)
  /\ process \in {"running", "exiting", "stopped"}
  /\ sent \in 0 .. MaxSent
  /\ excused \subseteq 1 .. sent
  /\ overlapped \in BOOLEAN

Init ==
  /\ redis = [l \in Lists |-> <<>>]
  /\ table = [l \in Lists |-> <<>>]
  /\ flush = [t \in Threads |-> Idle]
  /\ process = "running"
  /\ sent = 0
  /\ excused = {}
  /\ overlapped = FALSE

-----------------------------------------------------------------------------
(* Redis commands.                                                         *)

rpush(l, m) == redis' = [redis EXCEPT ![l] = Append(@, m)]
lrange(l)   == redis[l]
ltrim(l)    == redis' = [redis EXCEPT ![l] = <<>>]

-----------------------------------------------------------------------------
(* Handlers.                                                               *)

\* Flushes that have copied list l and not yet emptied it.
InWindow(l) == {t \in Threads : flush[t].pc = "trim" /\ flush[t].list = l}

\* storePrivateMessageInCache, storeGroupMessageInCache: one RPUSH; when it
\* fails the record is logged and dropped.
Store(l) ==
  /\ process # "stopped" /\ sent < MaxSent
  /\ sent' = sent + 1
  /\ \/ /\ rpush(l, sent')
        /\ excused' = IF InWindow(l) = {} /\ process = "running"
                         THEN excused ELSE excused \cup {sent'}
     \/ /\ "rpush" \in Faults
        /\ excused' = excused \cup {sent'}
        /\ UNCHANGED redis
  /\ UNCHANGED <<table, flush, process, overlapped>>

-----------------------------------------------------------------------------
(* A flush.                                                                *)

At(t, pc) == flush[t].pc = pc /\ process # "stopped"

\* After the private list comes the group list, then the flush is over.
NextList(t) == IF flush[t].list = 1
                 THEN [Idle EXCEPT !.pc = "read", !.list = 2]
                 ELSE Idle

\* Records that threads ts have taken out of redis and not committed.
Uncommitted(ts) ==
  UNION {ToSet(flush[t].batch) : t \in {s \in ts : flush[s].pc \in {"insert", "commit"}}}

\* The process ends and MySQL rolls back: records cut are gone.
Stop(cut) ==
  /\ process' = "stopped"
  /\ flush' = [t \in Threads |-> Idle]
  /\ excused' = excused \cup cut

\* Thread t is through with its list, its copy saved except for the records
\* cut.  The SIGINT handler's last list ends the process.
EndList(t, cut) ==
  IF t = Main /\ flush[t].list = 2
    THEN Stop(cut \cup Uncommitted(Threads \ {t}))
    ELSE /\ flush' = [flush EXCEPT ![t] = NextList(t)]
         /\ excused' = excused \cup cut
         /\ UNCHANGED process

\* Thread t begins a flush.
Begin(t) ==
  /\ flush' = [flush EXCEPT ![t].pc = "read"]
  /\ overlapped' = (overlapped \/ \E s \in Threads \ {t} : flush[s].pc # "idle")
  /\ UNCHANGED <<redis, table, sent, excused>>

\* The timer's task reaches a thread of the pool.
Start(t) ==
  /\ t \in Flushers /\ At(t, "idle")
  /\ Begin(t)
  /\ UNCHANGED process

\* Mutation: LRANGE leaves the copy out of step with what LTRIM removes.
MutRead(t) ==
  LET cached == lrange(flush[t].list)
  IN  /\ At(t, "read")
      /\ IF cached = <<>>
           THEN EndList(t, {})
           ELSE /\ flush' = [flush EXCEPT ![t].pc = "trim", ![t].batch = Tail(cached)]
                /\ UNCHANGED <<process, excused>>
      /\ UNCHANGED <<redis, table, sent, overlapped>>

\* LRANGE 0 -1: nothing cached ends this list.
Read(t) ==
  LET cached == lrange(flush[t].list)
  IN  /\ At(t, "read")
      /\ IF cached = <<>>
           THEN EndList(t, {})
           ELSE /\ flush' = [flush EXCEPT ![t].pc = "trim", ![t].batch = cached]
                /\ UNCHANGED <<process, excused>>
      /\ UNCHANGED <<redis, table, sent, overlapped>>

\* Mutation: the list is not emptied.
MutTrim(t) ==
  /\ At(t, "trim")
  /\ flush' = [flush EXCEPT ![t].pc = "insert"]
  /\ UNCHANGED <<redis, table, process, sent, excused, overlapped>>

\* LTRIM 1 0: the list is emptied, whatever it holds by now.
Trim(t) ==
  /\ At(t, "trim")
  /\ ltrim(flush[t].list)
  /\ flush' = [flush EXCEPT ![t].pc = "insert"]
  /\ UNCHANGED <<table, process, sent, excused, overlapped>>

\* Mutation: the loop over the batches runs once more at the end of the copy.
MutInsert(t) ==
  LET f    == flush[t]
      upto == f.done + BatchSize
  IN  /\ At(t, "insert")
      /\ flush' = [flush EXCEPT ![t].done = upto,
                   ![t].pc = IF upto > Len(f.batch) THEN "commit" ELSE "insert"]
      /\ UNCHANGED <<redis, table, process, sent, excused, overlapped>>

\* Mutation: a copy that could not be inserted is pushed back to the cache.
MutRequeue(t) ==
  LET f == flush[t]
  IN  /\ At(t, "insert")
      /\ \/ /\ flush' = [flush EXCEPT ![t].done = Len(f.batch), ![t].pc = "commit"]
            /\ UNCHANGED <<redis, process, excused>>
         \/ /\ "insert" \in Faults /\ EndList(t, {})
            /\ redis' = [redis EXCEPT ![f.list] = @ \o f.batch]
      /\ UNCHANGED <<table, sent, overlapped>>

\* One INSERT of at most BatchSize rows inside the transaction; an error
\* rolls everything back and the copy is gone.
Insert(t) ==
  LET f    == flush[t]
      upto == IF f.done + BatchSize < Len(f.batch) THEN f.done + BatchSize
                                                   ELSE Len(f.batch)
  IN  /\ At(t, "insert")
      /\ \/ /\ flush' = [flush EXCEPT ![t].done = upto,
                            ![t].pc = IF upto = Len(f.batch) THEN "commit" ELSE "insert"]
            /\ UNCHANGED <<process, excused>>
         \/ "insert" \in Faults /\ EndList(t, ToSet(f.batch))
      /\ UNCHANGED <<redis, table, sent, overlapped>>

Commit(t) ==
  LET f == flush[t]
  IN  /\ At(t, "commit")
      /\ table' = [table EXCEPT ![f.list] = @ \o SubSeq(f.batch, 1, f.done)]
      /\ EndList(t, {})
      /\ UNCHANGED <<redis, sent, overlapped>>

-----------------------------------------------------------------------------
(* The process.                                                            *)

\* resetHandler -> Service::reset -> flushCacheToDatabase, then exit.
Interrupt ==
  /\ "exit" \in Faults /\ process = "running"
  /\ process' = "exiting"
  /\ Begin(Main)

\* Open transactions are rolled back by the server; redis keeps its lists.
Crash ==
  /\ "crash" \in Faults /\ process # "stopped"
  /\ Stop(Uncommitted(Threads))
  /\ UNCHANGED <<redis, table, sent, overlapped>>

Restart ==
  /\ process = "stopped"
  /\ process' = "running"
  /\ UNCHANGED <<redis, table, flush, sent, excused, overlapped>>

FlushStep(t) == Start(t) \/ Read(t) \/ Trim(t) \/ Insert(t) \/ Commit(t)

Next ==
  \/ \E l \in Lists : Store(l)
  \/ \E t \in Threads : FlushStep(t)
  \/ Interrupt \/ Crash \/ Restart

Spec == Init /\ [][Next]_vars

\* The timer keeps enqueueing flushes; the pool's threads and the SIGINT
\* handler run them.
FairSpec == Spec /\ \A t \in Threads : WF_vars(FlushStep(t))

-----------------------------------------------------------------------------
(* Properties.                                                             *)

Copies(m) == Cardinality({p \in Lists \X (1 .. Len(table[1]) + Len(table[2])) :
                            p[2] \in DOMAIN table[p[1]] /\ table[p[1]][p[2]] = m})

Saved(m) == \E l \in Lists : m \in ToSet(table[l])

Held(m) == \/ \E l \in Lists : m \in ToSet(redis[l])
           \/ \E t \in Threads : m \in ToSet(flush[t].batch)

\* A record leaves redis for a copy and a copy for the table.  The only records
\* lost are those redis refused, those pushed between a flush's LRANGE and its
\* LTRIM or after SIGINT, and those in a copy that a failed INSERT, a crash or
\* the exit cut off.
LostOnlyInWindow == \A m \in 1 .. sent : Held(m) \/ Saved(m) \/ m \in excused

\* Flushes that overlap may all save the copy they took before the first
\* LTRIM, but no record is saved more often than there are threads.
CopiesBounded == \A m \in Msgs : Copies(m) <= Cardinality(Threads)

\* As long as flushes have not overlapped, rows, the copy being inserted and
\* the cached list together hold every record at most once and in the order of
\* the pushes, even when an INSERT fails or the process dies between statements.
InOrder ==
  ~overlapped =>
    \A t \in Threads, l \in Lists :
      LET copy == IF flush[t].list = l /\ flush[t].pc # "trim" THEN flush[t].batch ELSE <<>>
          rows == table[l] \o copy \o redis[l]
      IN  \A i, j \in DOMAIN rows : i < j => rows[i] < rows[j]

\* With flushes that run again and again, every record that is not lost in
\* one of these ways reaches its table, unless the process ends first.
EventuallySaved ==
  \A m \in Msgs : m <= sent ~> (Saved(m) \/ m \in excused \/ process = "stopped")
=============================================================================
