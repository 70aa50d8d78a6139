------------------------------ MODULE TrexStore ------------------------------
(***************************************************************************)
(* The PostgreSQL store used by several threads                            *)
(* (src/src/trex/store/db_store.py): the tables, the cache of what they    *)
(* hold, and the built-in connection pool.                                 *)
(*                                                                         *)
(* One timeframe.  A table maps a bar's time to its row: whether it has    *)
(* prices (or NULLs), and the names of the indicators in its document.  A  *)
(* transaction happens at its commit: writers of one row wait for each     *)
(* other in the database.  AsyncTrexStore does the same between awaits.    *)
(***************************************************************************)
EXTENDS Naturals, Sequences, FiniteSets, SequencesExt

CONSTANTS Threads, Exchanges, Symbols,
          Hidden,    \* the exchange a scan passes over: "public"
          Inds,      \* names of indicators
          Batches,   \* what callers write: sequences of [t, priced, doc]
          Databases, \* what an earlier run of the program may have left
          Memory,    \* a CandleStore to migrate: [bars, points]
          Sizes,     \* max_size of the pool
          Cutoff,    \* of delete_old_data()
          LastN,     \* of is_indicator_complete()
          MaxCalls   \* calls begun, a bound

Tables == Exchanges \X Symbols

BatchRows == [t : Nat, priced : BOOLEAN, doc : SUBSET Inds]

ASSUME MaxCallsAssumption == MaxCalls \in Nat /\ LastN \in Nat /\ Sizes \subseteq Nat \ {0}
ASSUME BatchesAssumption ==
  /\ Batches \subseteq Seq(BatchRows)
  /\ Memory.bars \in Seq(BatchRows) /\ Memory.points \in Seq(BatchRows)
ASSUME DatabasesAssumption ==
  \A d \in Databases :
    DOMAIN d \subseteq Tables /\ \A tb \in DOMAIN d : IsFiniteSet(DOMAIN d[tb])

VARIABLES stored,    \* table -> time -> row, for the tables that were made
          meta,      \* _meta: table -> the names of its indicators
          loaded,    \* _meta_loaded
          task,      \* thread -> the call it is in
          answer,    \* history: what the last step answered
          size,      \* max_size
          permits,   \* _sema
          idle,      \* the number of connections in _idle
          closed,    \* "no", "flag" between the two halves of close(), "yes"
          begun,     \* calls begun
          behind     \* history: tables whose touch a later scan did not see

vars == <<stored, meta, loaded, task, answer, size, permits, idle, closed, begun, behind>>

(* todo: batches to write, or tables to delete from; scan, left, missed:   *)
(* what a scan has found, the tables it has still to read, and (history)   *)
(* those touched meanwhile; first, seen, torn (history): the rows of the   *)
(* first statement, those the table had during the call, and whether it    *)
(* was written to between the statements.                                  *)
NoTask == [pc |-> "idle", op |-> "none", table |-> << >>, todo |-> << >>,
           scan |-> << >>, left |-> {}, missed |-> {},
           first |-> << >>, seen |-> {}, torn |-> FALSE]

-----------------------------------------------------------------------------
(* The statements of the writers and of the readers.                       *)

(* INSERT ... ON CONFLICT, one statement for each row of the batch: prices *)
(* are those of the last statement that has them, and the documents are    *)
(* merged.                                                                 *)
Upsert(rows, batch) ==
  LET Of(t)   == {j \in DOMAIN batch : batch[j].t = t}
      Sets(t) == {j \in Of(t) : batch[j].sets}
      old(t)  == IF t \in DOMAIN rows THEN rows[t] ELSE [priced |-> FALSE, doc |-> {}]
  IN  [t \in DOMAIN rows \cup {batch[j].t : j \in DOMAIN batch} |->
        [priced |-> IF Sets(t) = {} THEN old(t).priced ELSE batch[Max(Sets(t))].priced,
         doc |-> old(t).doc \cup UNION {batch[j].doc : j \in Of(t)}]]

(* save_indicators() writes NULL for prices its rows lack. *)
FullRow(r)   == [t |-> r.t, sets |-> TRUE, priced |-> r.priced, doc |-> r.doc]
CandleRow(r) == [t |-> r.t, sets |-> TRUE, priced |-> TRUE, doc |-> {}]
DocRow(r)    == [t |-> r.t, sets |-> FALSE, priced |-> FALSE, doc |-> r.doc]

Each(RowOf(_), batch) == [j \in DOMAIN batch |-> RowOf(batch[j])]

Names(batch) == UNION {batch[j].doc : j \in DOMAIN batch}

Keys(rows) == UNION {rows[t].doc : t \in DOMAIN rows}

(* The newest rows, ORDER BY time DESC LIMIT n. *)
Newest(rows, n) ==
  {t \in DOMAIN rows : Cardinality({u \in DOMAIN rows : t <= u}) <= n}

Carrying(rows, ts, i) == {t \in ts : i \in rows[t].doc}

(* Mutant: any record of the window will do. *)
CompleteAny(counted, rows, i) ==
  LET n == Cardinality(Newest(counted, LastN))
      records == Carrying(rows, Newest(rows, LastN), i)
  IN  [complete |-> n > 0 /\ records # {}, records |-> records]

(* is_indicator_complete(): the window is counted by one statement and     *)
(* its records are read by another.                                        *)
Complete(counted, rows, i) ==
  LET n == Cardinality(Newest(counted, LastN))
      records == Carrying(rows, Newest(rows, LastN), i)
  IN  [complete |-> n > 0 /\ Cardinality(records) = n, records |-> records]

(* get_indicator_stats(), likewise; what it aggregates is left out. *)
Stats(counted, rows, i) ==
  [count |-> Cardinality(Carrying(counted, DOMAIN counted, i)),
   last |-> Newest([t \in Carrying(rows, DOMAIN rows, i) |-> rows[t]], 1)]

(* get_candle_count(), get_indicator(), get_candles_with_indicators(),     *)
(* get_latest_bar() and fetch_bars(), which reads NULL prices as zero.     *)
CandleCount(rows) == Cardinality(DOMAIN rows)
Indicator(rows, i) == Carrying(rows, DOMAIN rows, i)
CandlesWithIndicators(rows) == {<<t, rows[t].doc>> : t \in Newest(rows, LastN)}
LatestBar(rows) == {<<t, rows[t]>> : t \in Newest(rows, 1)}
Bars(rows) == {<<t, IF rows[t].priced THEN "price" ELSE "zero">> : t \in DOMAIN rows}

Reads == {"query", "stats", "complete"}

Answer(op, first, rows, i) ==
  IF op = "query"
  THEN [count |-> CandleCount(rows), series |-> Indicator(rows, i),
        window |-> CandlesWithIndicators(rows),
        latest |-> LatestBar(rows), bars |-> Bars(rows)]
  ELSE IF op = "stats" THEN Stats(first, rows, i) ELSE Complete(first, rows, i)

TheInd == CHOOSE i \in Inds : TRUE

(* What a scan lists. *)
Listed == {tb \in DOMAIN stored : tb[1] \notin Hidden}

NoRows == << >>

Stored(tb) == IF tb \in DOMAIN stored THEN stored[tb] ELSE NoRows

(* A function with one value put in. *)
With(f, x, v) == [y \in DOMAIN f \cup {x} |-> IF y = x THEN v ELSE f[y]]

-----------------------------------------------------------------------------
(* The program starts, for the first time or again, with what is in the    *)
(* database; scan_on_init or not.  A scan leaves its connection behind.    *)
Init ==
  /\ stored \in Databases
  /\ loaded \in BOOLEAN
  /\ meta = IF loaded THEN [tb \in Listed |-> Keys(stored[tb])] ELSE << >>
  /\ answer = << >>
  /\ task = [p \in Threads |-> NoTask]
  /\ size \in Sizes
  /\ permits = size
  /\ idle = IF loaded THEN 1 ELSE 0
  /\ closed = "no"
  /\ begun = 0
  /\ behind = {}

(* Calls.  Writers go for a connection at once; readers and deletions look *)
(* into the cache first.                                                   *)
Begin(p, op, table, todo, pc) ==
  /\ task[p].pc = "idle" /\ begun < MaxCalls
  /\ begun' = begun + 1
  /\ task' = [task EXCEPT ![p] =
       [NoTask EXCEPT !.pc = pc, !.op = op, !.table = table, !.todo = todo,
                      !.seen = IF op \in Reads THEN {Stored(table)} ELSE {}]]
  /\ UNCHANGED <<stored, meta, loaded, size, permits, idle, closed, behind>>

SaveIndicators(p) ==
  \E tb \in Tables, b \in Batches : Begin(p, "write", tb, <<Each(FullRow, b)>>, "want")

BulkSaveCandles(p) ==
  \E tb \in Tables, b \in Batches : Begin(p, "write", tb, <<Each(CandleRow, b)>>, "want")

BulkUpdateIndicators(p) ==
  \E tb \in Tables, b \in Batches : Begin(p, "write", tb, <<Each(DocRow, b)>>, "want")

UpdateIndicatorOnly(p) ==
  \E tb \in Tables, b \in Batches :
    Len(b) = 1 /\ b[1].doc # {} /\ Begin(p, "write", tb, <<Each(DocRow, b)>>, "want")

(* The candles in one transaction, then each time's points in one. *)
MigrateFromMemoryStore(p) ==
  \E tb \in Tables :
    Begin(p, "write", tb,
          <<Each(CandleRow, Memory.bars)>>
            \o [j \in DOMAIN Memory.points |-> <<DocRow(Memory.points[j])>>], "want")

(* get_exchanges(), get_tables(), table_exists(), list_all_indicators():   *)
(* the cache alone. *)
MetadataQuery(p) == Begin(p, "meta", << >>, << >>, "find")

QueryRows(p) == \E tb \in Tables : Begin(p, "query", tb, << >>, "find")

QueryTwice(p) ==
  \E op \in {"stats", "complete"}, tb \in Tables : Begin(p, op, tb, << >>, "find")

(* Of one table, of an exchange, or of all (<< >>). *)
DeleteOldData(p) ==
  \E where \in {<< >>} \cup {<<ex>> : ex \in Exchanges} \cup Tables :
    Begin(p, "delete", where, << >>, "find")

Refresh(p) == Begin(p, "refresh", << >>, << >>, "scanwant")

(* The coroutines of AsyncTrexStore are these calls. *)
AsyncMetadata(p) == MetadataQuery(p) \/ Refresh(p)
AsyncReads(p)    == QueryRows(p)
AsyncWrites(p)   == SaveIndicators(p) \/ UpdateIndicatorOnly(p)

Call(p) == AsyncMetadata(p) \/ AsyncReads(p) \/ AsyncWrites(p) \/ QueryTwice(p)
           \/ BulkSaveCandles(p) \/ BulkUpdateIndicators(p)
           \/ MigrateFromMemoryStore(p) \/ DeleteOldData(p)

-----------------------------------------------------------------------------
(* On with the call; it has returned at "idle". *)
Goto(p, pc) ==
  task' = [task EXCEPT ![p] = IF pc = "idle" THEN NoTask ELSE [@ EXCEPT !.pc = pc]]

(* The pool: connection() checks the flag, takes a permit, and recycles a  *)
(* connection or makes one; what it took it gives back on the way out.     *)
Admit(p) ==
  /\ task[p].pc \in {"want", "scanwant"}
  /\ IF closed # "no" THEN Goto(p, "idle")
     ELSE Goto(p, IF task[p].pc = "want" THEN "wait" ELSE "scanwait")
  /\ UNCHANGED <<stored, meta, loaded, size, permits, idle, closed, begun, behind>>

(* Mutant: a permit is lost with a connection that could not be made. *)
AcquireLeaky(p) ==
  /\ task[p].pc \in {"wait", "scanwait"} /\ permits > 0
  /\ permits' = permits - 1
  /\ idle' = IF idle > 0 THEN idle - 1 ELSE 0
  /\ \/ Goto(p, IF task[p].pc = "wait" THEN "run" ELSE "list")
     \/ idle = 0 /\ Goto(p, "idle")
  /\ UNCHANGED <<stored, meta, loaded, size, closed, begun, behind>>

Acquire(p) ==
  /\ task[p].pc \in {"wait", "scanwait"} /\ permits > 0
  /\ \/ /\ permits' = permits - 1
        /\ idle' = IF idle > 0 THEN idle - 1 ELSE 0
        /\ Goto(p, IF task[p].pc = "wait" THEN "run" ELSE "list")
     \/ /\ idle = 0                           \* connect() raises
        /\ Goto(p, "idle")
        /\ UNCHANGED <<permits, idle>>
  /\ UNCHANGED <<stored, meta, loaded, size, closed, begun, behind>>

(* Mutant: a connection goes back into a pool that is closed. *)
GiveBackAlways == permits' = permits + 1 /\ idle' = idle + 1

GiveBack == permits' = permits + 1 /\ idle' = IF closed = "no" THEN idle + 1 ELSE idle

(* A broken connection is not kept. *)
Discard == permits' = permits + 1 /\ UNCHANGED idle

(* close(), by any thread. *)
CloseFlag ==
  /\ closed = "no"
  /\ closed' = "flag"
  /\ UNCHANGED <<stored, meta, loaded, task, size, permits, idle, begun, behind>>

CloseIdle ==
  /\ closed = "flag"
  /\ closed' = "yes"
  /\ idle' = 0
  /\ UNCHANGED <<stored, meta, loaded, task, size, permits, begun, behind>>

-----------------------------------------------------------------------------
(* _ensure_meta() and the look into the cache; what is not in it is empty. *)
Targets(where) ==
  IF where \in Tables THEN {where}
  ELSE {tb \in DOMAIN meta : where = << >> \/ tb[1] = where[1]}

Find(p) ==
  /\ task[p].pc = "find"
  /\ IF ~ loaded THEN Goto(p, "scanwant")
     ELSE IF task[p].op = "meta" THEN Goto(p, "idle")
     ELSE IF task[p].op = "delete"
     THEN task' = [task EXCEPT ![p].pc = "want", ![p].todo = Targets(task[p].table)]
     ELSE Goto(p, IF task[p].table \in DOMAIN meta THEN "want" ELSE "idle")
  /\ UNCHANGED <<stored, meta, loaded, size, permits, idle, closed, begun, behind>>

(* _scan_metadata(): the tables, then the names of each, then the cache is *)
(* replaced. *)
ScanTables(p) ==
  /\ task[p].pc = "list"
  /\ task' = [task EXCEPT ![p].pc = "names", ![p].left = Listed,
                          ![p].scan = [tb \in Listed |-> {}], ![p].missed = {}]
  /\ UNCHANGED <<stored, meta, loaded, size, permits, idle, closed, begun, behind>>

ScanNames(p) ==
  /\ task[p].pc = "names"
  /\ \E tb \in task[p].left :
       task' = [task EXCEPT ![p].left = @ \ {tb}, ![p].scan[tb] = Keys(stored[tb])]
  /\ UNCHANGED <<stored, meta, loaded, size, permits, idle, closed, begun, behind>>

ScanEnd(p) ==
  /\ task[p].pc = "names" /\ task[p].left = {}
  /\ GiveBack
  /\ Goto(p, "replace")
  /\ UNCHANGED <<stored, meta, loaded, size, closed, begun, behind>>

Replace(p) ==
  /\ task[p].pc = "replace"
  /\ meta' = task[p].scan
  /\ loaded' = TRUE
  /\ behind' = task[p].missed
  /\ task' = [task EXCEPT ![p].pc = IF task[p].op = "refresh" THEN "idle" ELSE "find",
                          ![p].scan = << >>, ![p].missed = {}]
  /\ UNCHANGED <<stored, size, permits, idle, closed, begun>>

-----------------------------------------------------------------------------
(* History: the readers of a table whose rows change. *)
Noticed(t, tb, rows) ==
  IF t.op \in Reads /\ t.pc # "idle" /\ t.table = tb
  THEN [t EXCEPT !.seen = @ \cup {rows}, !.torn = @ \/ t.pc = "second"]
  ELSE t

(* The commit of a write; the schema and the table are made if need be. *)
Write(p) ==
  /\ task[p].pc = "run" /\ task[p].op = "write"
  /\ LET tb == task[p].table
         rows == Upsert(Stored(tb), Head(task[p].todo))
     IN  /\ stored' = With(stored, tb, rows)
         /\ task' = [q \in Threads |-> IF q = p THEN [task[p] EXCEPT !.pc = "touch"]
                                       ELSE Noticed(task[q], tb, rows)]
  /\ GiveBack
  /\ UNCHANGED <<meta, loaded, size, closed, begun, behind>>

(* Mutant: the cache learns of a table, not of its new indicators. *)
TouchTableOnly(p) ==
  /\ task[p].pc = "touch"
  /\ LET tb == task[p].table
     IN  /\ meta' = meta @@ (tb :> Names(Head(task[p].todo)))
         /\ task' = [q \in Threads |->
              IF q # p THEN [task[q] EXCEPT !.missed = @ \cup {tb}]
              ELSE IF Len(task[p].todo) > 1
              THEN [task[p] EXCEPT !.pc = "want", !.todo = Tail(@)]
              ELSE NoTask]
  /\ UNCHANGED <<stored, loaded, size, permits, idle, closed, begun, behind>>

(* _touch_meta(); a migration goes on with its next transaction. *)
Touch(p) ==
  /\ task[p].pc = "touch"
  /\ LET tb == task[p].table
         known == IF tb \in DOMAIN meta THEN meta[tb] ELSE {}
     IN  /\ meta' = With(meta, tb, known \cup Names(Head(task[p].todo)))
         /\ task' = [q \in Threads |->
              IF q # p THEN IF task[q].pc \in {"names", "replace"} /\ tb \notin task[q].left
                            THEN [task[q] EXCEPT !.missed = @ \cup {tb}] ELSE task[q]
              ELSE IF Len(task[p].todo) > 1
              THEN [task[p] EXCEPT !.pc = "want", !.todo = Tail(@)]
              ELSE NoTask]
  /\ UNCHANGED <<stored, loaded, size, permits, idle, closed, begun, behind>>

(* One transaction for all tables; one that was never made raises. *)
Delete(p) ==
  /\ task[p].pc = "run" /\ task[p].op = "delete"
  /\ LET old == task[p].todo \cap DOMAIN stored
         Kept(tb) == LET ts == {t \in DOMAIN stored[tb] : Cutoff <= t}
                     IN  [t \in ts |-> stored[tb][t]]
     IN  IF task[p].todo \subseteq DOMAIN stored
         THEN /\ stored' = [tb \in DOMAIN stored |-> IF tb \in old THEN Kept(tb) ELSE stored[tb]]
              /\ task' = [q \in Threads |->
                   IF q = p THEN NoTask
                   ELSE IF task[q].table \in old
                   THEN Noticed(task[q], task[q].table, Kept(task[q].table)) ELSE task[q]]
         ELSE Goto(p, "idle") /\ UNCHANGED stored
  /\ GiveBack
  /\ UNCHANGED <<meta, loaded, size, closed, begun, behind>>

(* The call returns what its statements found. *)
Tell(p, first) ==
  /\ answer' = [op |-> task[p].op, seen |-> task[p].seen, torn |-> task[p].torn,
                is |-> Answer(task[p].op, first, Stored(task[p].table), TheInd)]
  /\ Goto(p, "idle")

Query(p) ==
  /\ task[p].pc = "run" /\ task[p].op = "query"
  /\ Tell(p, Stored(task[p].table))
  /\ GiveBack
  /\ UNCHANGED <<stored, meta, loaded, size, closed, begun, behind>>

FirstQuery(p) ==
  /\ task[p].pc = "run" /\ task[p].op \in {"stats", "complete"}
  /\ task' = [task EXCEPT ![p].pc = "second", ![p].first = Stored(task[p].table)]
  /\ UNCHANGED <<stored, meta, loaded, size, permits, idle, closed, begun, behind>>

SecondQuery(p) ==
  /\ task[p].pc = "second"
  /\ Tell(p, task[p].first)
  /\ GiveBack
  /\ UNCHANGED <<stored, meta, loaded, size, closed, begun, behind>>

(* A statement, or the commit, fails: the transaction is rolled back and   *)
(* the call raises; the connection may be broken.                          *)
Fail(p) ==
  /\ task[p].pc \in {"run", "second", "list", "names"}
  /\ GiveBack \/ Discard
  /\ task' = [task EXCEPT ![p] = NoTask]
  /\ UNCHANGED <<stored, meta, loaded, size, closed, begun, behind>>

Quiet(p) == \/ Admit(p) \/ Acquire(p) \/ Find(p) \/ ScanTables(p) \/ ScanNames(p)
            \/ ScanEnd(p) \/ Replace(p) \/ Write(p) \/ Touch(p) \/ Delete(p)
            \/ FirstQuery(p) \/ Fail(p)

Step(p) == Query(p) \/ SecondQuery(p) \/ (Quiet(p) /\ answer' = << >>)

Next == \/ \E p \in Threads : Step(p) \/ (Call(p) /\ answer' = << >>)
        \/ (CloseFlag \/ CloseIdle) /\ answer' = << >>

(* A thread in a call goes on, and the database answers. *)
Spec == Init /\ [][Next]_vars /\ \A p \in Threads : WF_vars(Step(p))

-----------------------------------------------------------------------------
Busy == {p \in Threads : task[p].pc \in {"run", "second", "list", "names"}}

(* Whatever writers, scans, failures and restarts do, the cache has every  *)
(* table and every indicator that a write of this program has stored; but  *)
(* for tables of a schema that scans pass over, and those a write touched  *)
(* while a scan that replaces the cache was under way (_scan_metadata,     *)
(* _touch_meta).                                                           *)
CacheIsTrue ==
  loaded => \A tb \in DOMAIN stored :
    \/ tb \in DOMAIN meta /\ Keys(stored[tb]) \subseteq meta[tb]
    \/ tb[1] \in Hidden \/ tb \in behind
    \/ \E p \in Threads : task[p].pc = "touch" /\ task[p].table = tb

(* A read answers what was true of the table at some moment of the call;   *)
(* one of two statements if nothing was written between them (the queries, *)
(* is_indicator_complete, get_indicator_stats).                            *)
ReadsAreTrue ==
  answer # << >> /\ ~ answer.torn =>
    \E rows \in answer.seen :
      /\ answer.is = Answer(answer.op, rows, rows, TheInd)
      /\ answer.op = "complete" /\ answer.is.complete =>
           Newest(rows, LastN) # {} /\ \A t \in Newest(rows, LastN) : TheInd \in rows[t].doc

(* No more connections than max_size are ever open, a permit comes back    *)
(* with each, and a closed pool keeps none (_MiniPool).                    *)
PoolIsWhole ==
  /\ permits + Cardinality(Busy) = size
  /\ idle + Cardinality(Busy) <= size
  /\ closed = "yes" => idle = 0

(* Each call returns or raises, whoever else waits for a connection, fails *)
(* or closes the pool (_connection, _MiniPool.connection).                 *)
CallsReturn == \A p \in Threads : task[p].pc # "idle" ~> task[p].pc = "idle"
=============================================================================
