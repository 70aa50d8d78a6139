-------------------------- MODULE TrexStore_proofs --------------------------
(***************************************************************************)
(* Proofs about TrexStore, for any threads, tables, batches and pools: the *)
(* cache knows what was written, a read answers what was true at a moment  *)
(* of the call, and the pool loses no permit and no connection.            *)
(***************************************************************************)
EXTENDS TrexStore, FiniteSetTheorems, SequenceTheorems, TLAPS

Fields == {"pc", "op", "table", "todo", "scan", "left", "missed", "first", "seen", "torn"}

Statements == [t : Nat, sets : BOOLEAN, priced : BOOLEAN, doc : SUBSET Inds]

(* A task has its fields, and a writer something to write.                 *)
TaskOK(p) ==
  /\ DOMAIN task[p] = Fields
  /\ task[p].op = "write" => task[p].todo \in Seq(Seq(Statements)) /\ task[p].todo # << >>
  /\ task[p].pc = "touch" => task[p].op = "write"

(* A thread at a statement holds a permit, and a connection that is not    *)
(* idle.                                                                   *)
PoolInv ==
  /\ permits \in Nat /\ idle \in Nat /\ size \in Nat /\ closed \in {"no", "flag", "yes"}
  /\ IsFiniteSet(Busy) /\ PoolIsWhole

TablesAreFinite == \A tb \in DOMAIN stored : IsFiniteSet(DOMAIN stored[tb])

(* A reader has seen what the table is now; what its first statement found *)
(* still holds, unless it knows better.                                    *)
ReadInv(p) ==
  /\ task[p].op \in Reads /\ task[p].pc # "idle" => Stored(task[p].table) \in task[p].seen
  /\ task[p].pc = "second" =>
       /\ task[p].op \in Reads
       /\ task[p].torn \/ task[p].first = Stored(task[p].table)

(* The writers that have committed and are about to tell the cache.        *)
Touching(tb) == {q \in Threads : task[q].pc = "touch" /\ task[q].table = tb}

Coming(tb) == UNION {Names(Head(task[q].todo)) : q \in Touching(tb)}

(* What a cache says of a table, with what it is about to be told.         *)
Covers(m, tb) ==
  /\ tb \in DOMAIN m \/ Touching(tb) # {}
  /\ Keys(stored[tb]) \subseteq (IF tb \in DOMAIN m THEN m[tb] ELSE {}) \cup Coming(tb)

CacheInv ==
  loaded => \A tb \in DOMAIN stored : tb[1] \in Hidden \/ tb \in behind \/ Covers(meta, tb)

(* A scan could replace the cache by what it has found, but for the tables *)
(* it has still to read, and those it knows it missed.                     *)
ScanInv(p) ==
  task[p].pc \in {"names", "replace"} =>
    /\ task[p].left \subseteq DOMAIN stored \cap DOMAIN task[p].scan
    /\ task[p].pc = "replace" => task[p].left = {}
    /\ \A tb \in DOMAIN stored :
         \/ tb[1] \in Hidden \/ tb \in task[p].left \/ tb \in task[p].missed
         \/ Covers(task[p].scan, tb)

(* All of it but what the pool and the answers are about.                  *)
DataInv ==
  /\ DOMAIN task = Threads /\ TablesAreFinite /\ CacheInv
  /\ \A p \in Threads : TaskOK(p) /\ ReadInv(p) /\ ScanInv(p)

IInv == DataInv /\ PoolInv /\ ReadsAreTrue

-----------------------------------------------------------------------------
(* The statements.                                                         *)

LEMMA NoTaskProperties ==
  /\ DOMAIN NoTask = Fields
  /\ NoTask.pc = "idle" /\ NoTask.op = "none" /\ NoTask.table = << >> /\ NoTask.torn = FALSE
BY DEF NoTask, Fields

(* A row for each row of a batch.                                          *)
LEMMA EachProperties ==
  ASSUME NEW b \in Seq(BatchRows)
  PROVE  /\ Each(FullRow, b) \in Seq(Statements)
         /\ Each(CandleRow, b) \in Seq(Statements)
         /\ Each(DocRow, b) \in Seq(Statements)
<1>1. /\ Len(b) \in Nat /\ DOMAIN b = 1..Len(b)
      /\ \A j \in 1..Len(b) : b[j] \in BatchRows
  BY LenProperties, ElementOfSeq
<1>2. \A j \in 1..Len(b) :
        FullRow(b[j]) \in Statements /\ CandleRow(b[j]) \in Statements
        /\ DocRow(b[j]) \in Statements
  BY <1>1 DEF BatchRows, FullRow, CandleRow, DocRow, Statements
<1>3. /\ Each(FullRow, b) \in [1..Len(b) -> Statements]
      /\ Each(CandleRow, b) \in [1..Len(b) -> Statements]
      /\ Each(DocRow, b) \in [1..Len(b) -> Statements]
  BY <1>1, <1>2 DEF Each
<1> QED BY ONLY <1>1, <1>3, SeqDef

(* Upserting a batch adds its times, and no names but its own.             *)
LEMMA UpsertProperties ==
  ASSUME NEW rows, IsFiniteSet(DOMAIN rows), NEW batch \in Seq(Statements)
  PROVE  /\ IsFiniteSet(DOMAIN Upsert(rows, batch))
         /\ Keys(Upsert(rows, batch)) \subseteq Keys(rows) \cup Names(batch)
<1> DEFINE Times == {batch[j].t : j \in DOMAIN batch}
<1>1. Len(batch) \in Nat /\ DOMAIN batch = 1..Len(batch)
  BY LenProperties
<1>2. IsFiniteSet(DOMAIN batch)
  BY <1>1, FS_Interval
<1>3. IsFiniteSet(Times)
  <2> DEFINE f == [j \in DOMAIN batch |-> batch[j].t]
  <2>1. f \in Surjection(DOMAIN batch, Times)
    BY DEF Surjection
  <2> HIDE DEF f, Times
  <2> QED BY <1>2, <2>1, FS_Surjection
<1>4. DOMAIN Upsert(rows, batch) = DOMAIN rows \cup Times
  BY DEF Upsert
<1>5. IsFiniteSet(DOMAIN Upsert(rows, batch))
  BY <1>3, <1>4, FS_Union
<1>6. ASSUME NEW x \in Keys(Upsert(rows, batch)), x \notin Keys(rows)
      PROVE  x \in Names(batch)
  <2>1. PICK t \in DOMAIN rows \cup Times : x \in Upsert(rows, batch)[t].doc
    BY <1>4, <1>6 DEF Keys
  <2>2. x \in (IF t \in DOMAIN rows THEN rows[t] ELSE [priced |-> FALSE, doc |-> {}]).doc
             \cup UNION {batch[j].doc : j \in {k \in DOMAIN batch : batch[k].t = t}}
    BY <2>1 DEF Upsert
  <2>3. t \in DOMAIN rows => x \notin rows[t].doc
    BY <1>6 DEF Keys
  <2> QED BY <2>2, <2>3 DEF Names
<1> QED BY <1>5, <1>6

-----------------------------------------------------------------------------
(* The pool: a step takes a permit, gives one back, or leaves all as it is.*)

PoolSame == UNCHANGED <<permits, idle, size, closed>>

LEMMA PoolUnused ==
  ASSUME PoolInv, PoolSame, \A q \in Threads : q \in Busy <=> (q \in Busy)'
  PROVE  PoolInv'
<1>1. Busy' = Busy
  BY DEF Busy
<1> QED BY <1>1 DEF PoolInv, PoolSame, PoolIsWhole

LEMMA PoolTaken ==
  ASSUME PoolInv, NEW p \in Threads, p \notin Busy, (p \in Busy)',
         \A q \in Threads \ {p} : q \in Busy <=> (q \in Busy)',
         permits > 0, permits' = permits - 1,
         idle' = IF idle > 0 THEN idle - 1 ELSE 0, UNCHANGED <<size, closed>>
  PROVE  PoolInv'
<1>1. Busy' = Busy \cup {p}
  BY DEF Busy
<1>2. IsFiniteSet(Busy) /\ Cardinality(Busy) \in Nat
  BY FS_CardinalityType DEF PoolInv
<1>3. IsFiniteSet(Busy \cup {p}) /\ Cardinality(Busy \cup {p}) = Cardinality(Busy) + 1
  BY <1>2, FS_AddElement
<1> QED BY <1>1, <1>2, <1>3 DEF PoolInv, PoolIsWhole

LEMMA PoolGiven ==
  ASSUME PoolInv, NEW p \in Threads, p \in Busy, (p \notin Busy)',
         \A q \in Threads \ {p} : q \in Busy <=> (q \in Busy)',
         GiveBack \/ Discard, UNCHANGED <<size, closed>>
  PROVE  PoolInv'
<1>1. Busy' = Busy \ {p}
  BY DEF Busy
<1>2. IsFiniteSet(Busy) /\ Cardinality(Busy) \in Nat
  BY FS_CardinalityType DEF PoolInv
<1>3. /\ IsFiniteSet(Busy \ {p}) /\ Cardinality(Busy \ {p}) = Cardinality(Busy) - 1
      /\ Cardinality(Busy \ {p}) \in Nat
  BY <1>2, FS_RemoveElement, FS_CardinalityType
<1>4. CASE GiveBack
  BY <1>1, <1>2, <1>3, <1>4 DEF PoolInv, PoolIsWhole, GiveBack
<1>5. CASE Discard
  BY <1>1, <1>2, <1>3, <1>5 DEF PoolInv, PoolIsWhole, Discard
<1> QED BY <1>4, <1>5

-----------------------------------------------------------------------------
(* A step of one thread that writes nothing to a table, nor is about to    *)
(* tell the cache of what it wrote, before or after.                       *)
LEMMA OthersStay ==
  ASSUME DataInv, NEW p \in Threads, UNCHANGED stored,
         DOMAIN task' = Threads, \A q \in Threads \ {p} : task'[q] = task[q],
         task[p].pc # "touch", task'[p].pc # "touch"
  PROVE  /\ \A tb : Touching(tb)' = Touching(tb) /\ Coming(tb)' = Coming(tb)
         /\ \A q \in Threads \ {p} : TaskOK(q)' /\ ReadInv(q)' /\ ScanInv(q)'
<1>1. \A tb : Touching(tb)' = Touching(tb)
  BY DEF Touching
<1>2. \A tb : Coming(tb)' = Coming(tb)
  <2>1. \A tb : \A q \in Touching(tb) : task'[q] = task[q]
    BY DEF Touching
  <2> QED BY <1>1, <2>1 DEF Coming
<1>3. ASSUME NEW q \in Threads \ {p}
      PROVE  TaskOK(q)' /\ ReadInv(q)' /\ ScanInv(q)'
  <2>1. task'[q] = task[q] /\ TaskOK(q) /\ ReadInv(q) /\ ScanInv(q)
    BY DEF DataInv
  <2>2. TaskOK(q)' /\ ReadInv(q)'
    BY <2>1 DEF TaskOK, ReadInv, Stored
  <2>3. ScanInv(q)'
    BY <2>1, <1>1, <1>2 DEF ScanInv, Covers
  <2> QED BY <2>2, <2>3
<1> QED BY <1>1, <1>2, <1>3

LEMMA OwnStep ==
  ASSUME DataInv, NEW p \in Threads,
         UNCHANGED <<stored, meta, loaded, behind>>,
         DOMAIN task' = Threads, \A q \in Threads \ {p} : task'[q] = task[q],
         task[p].pc # "touch", task'[p].pc # "touch",
         TaskOK(p)', ReadInv(p)', ScanInv(p)'
  PROVE  DataInv'
<1>1. /\ \A tb : Touching(tb)' = Touching(tb) /\ Coming(tb)' = Coming(tb)
      /\ \A q \in Threads \ {p} : TaskOK(q)' /\ ReadInv(q)' /\ ScanInv(q)'
  BY OthersStay
<1>2. CacheInv'
  BY <1>1 DEF DataInv, CacheInv, Covers
<1> QED BY <1>1, <1>2 DEF DataInv, TablesAreFinite

LEMMA GotoProperties ==
  ASSUME DataInv, NEW p \in Threads, NEW pc, Goto(p, pc)
  PROVE  /\ DOMAIN task' = Threads /\ \A q \in Threads \ {p} : task'[q] = task[q]
         /\ DOMAIN task'[p] = Fields /\ task'[p].pc = pc
         /\ pc = "idle" => task'[p].op = "none"
         /\ pc # "idle" => \A f \in Fields \ {"pc"} : task'[p][f] = task[p][f]
<1>1. DOMAIN task = Threads /\ DOMAIN task[p] = Fields
  BY DEF DataInv, TaskOK
<1>2. task'[p] = IF pc = "idle" THEN NoTask ELSE [task[p] EXCEPT !.pc = pc]
  BY <1>1 DEF Goto
<1>3. DOMAIN task' = Threads /\ \A q \in Threads \ {p} : task'[q] = task[q]
  BY <1>1 DEF Goto
<1>4. CASE pc = "idle"
  BY <1>2, <1>3, <1>4, NoTaskProperties
<1>5. CASE pc # "idle"
  BY <1>1, <1>2, <1>3, <1>5 DEF Fields
<1> QED BY <1>4, <1>5

-----------------------------------------------------------------------------
(* A call begins.                                                          *)
LEMMA BeginStep ==
  ASSUME DataInv, PoolInv, NEW p \in Threads, NEW op, NEW table, NEW todo,
         NEW pc \in {"want", "find", "scanwant"}, Begin(p, op, table, todo, pc),
         op = "write" => todo \in Seq(Seq(Statements)) /\ todo # << >>
  PROVE  DataInv' /\ PoolInv'
<1>1. DOMAIN task = Threads /\ task[p].pc = "idle"
  BY DEF DataInv, Begin
<1>2. task'[p] = [NoTask EXCEPT !.pc = pc, !.op = op, !.table = table, !.todo = todo,
                      !.seen = IF op \in Reads THEN {Stored(table)} ELSE {}]
  BY <1>1 DEF Begin
<1>3. DOMAIN task' = Threads /\ \A q \in Threads \ {p} : task'[q] = task[q]
  BY <1>1 DEF Begin
<1>4. /\ DOMAIN task'[p] = Fields /\ task'[p].pc = pc /\ task'[p].op = op
      /\ task'[p].table = table /\ task'[p].todo = todo
      /\ op \in Reads => task'[p].seen = {Stored(table)}
  BY <1>2, NoTaskProperties DEF Fields
<1>5. UNCHANGED <<stored, meta, loaded, behind>> /\ PoolSame
  BY DEF Begin, PoolSame
<1>6. TaskOK(p)' /\ ReadInv(p)' /\ ScanInv(p)'
  BY <1>4, <1>5 DEF TaskOK, ReadInv, ScanInv, Stored
<1>7. DataInv'
  BY <1>1, <1>3, <1>4, <1>5, <1>6, OwnStep
<1>8. \A q \in Threads : q \in Busy <=> (q \in Busy)'
  BY <1>1, <1>3, <1>4 DEF Busy
<1> QED BY <1>5, <1>7, <1>8, PoolUnused

(* A batch alone, and those of a migration.                                *)
LEMMA BatchAlone ==
  ASSUME NEW b \in Seq(Statements)
  PROVE  <<b>> \in Seq(Seq(Statements)) /\ <<b>> # << >>
OBVIOUS

LEMMA MoreToDo ==
  ASSUME NEW S, NEW s \in Seq(S), Len(s) > 1
  PROVE  Tail(s) \in Seq(S) /\ Tail(s) # << >>
<1>1. Len(s) \in Nat /\ s # << >>
  BY LenProperties
<1>2. PICK u : u = Tail(s)
  OBVIOUS
<1>3. u \in Seq(S) /\ Len(u) = Len(s) - 1
  BY ONLY s \in Seq(S), <1>1, <1>2, HeadTailProperties
<1>4. Len(u) # 0
  <2>1. \A n \in Nat : n > 1 => n - 1 # 0
    OBVIOUS
  <2> QED BY ONLY <1>1, <1>3, Len(s) > 1, <2>1
<1> QED BY <1>2, <1>3, <1>4

LEMMA MigrationTodo ==
  LET todo == <<Each(CandleRow, Memory.bars)>>
                \o [j \in DOMAIN Memory.points |-> <<DocRow(Memory.points[j])>>]
  IN  todo \in Seq(Seq(Statements)) /\ todo # << >>
<1> DEFINE a == <<Each(CandleRow, Memory.bars)>>
           b == [j \in DOMAIN Memory.points |-> <<DocRow(Memory.points[j])>>]
           n == Len(Memory.points)
<1>1. a \in Seq(Seq(Statements)) /\ Len(a) = 1
  BY BatchesAssumption, EachProperties
<1>2. Memory.points \in Seq(BatchRows)
  BY BatchesAssumption
<1>3. /\ n \in Nat /\ DOMAIN Memory.points = 1..n
      /\ \A j \in 1..n : Memory.points[j] \in BatchRows
  BY <1>2, LenProperties, ElementOfSeq
<1>4. \A j \in 1..n : DocRow(Memory.points[j]) \in Statements
  BY <1>3 DEF BatchRows, DocRow, Statements
<1>5. \A j \in 1..n : <<DocRow(Memory.points[j])>> \in Seq(Statements)
  BY <1>4
<1>6. b \in [1..n -> Seq(Statements)]
  BY <1>3, <1>5
<1>7. b \in Seq(Seq(Statements))
  BY ONLY <1>3, <1>6, SeqDef
<1> HIDE DEF a, b
<1>8. a \o b \in Seq(Seq(Statements)) /\ Len(a \o b) = Len(a) + Len(b) /\ Len(b) \in Nat
  BY <1>1, <1>7, ConcatProperties, LenProperties
<1>9. a \o b # << >>
  BY <1>1, <1>8
<1> QED BY <1>8, <1>9 DEF a, b

LEMMA CallStep ==
  ASSUME DataInv, PoolInv, NEW p \in Threads, Call(p)
  PROVE  DataInv' /\ PoolInv'
<1>1. \A b \in Batches : /\ Each(FullRow, b) \in Seq(Statements)
                         /\ Each(CandleRow, b) \in Seq(Statements)
                         /\ Each(DocRow, b) \in Seq(Statements)
  BY BatchesAssumption, EachProperties
<1>2. CASE SaveIndicators(p)
  BY <1>1, <1>2, BatchAlone, BeginStep DEF SaveIndicators
<1>3. CASE BulkSaveCandles(p)
  BY <1>1, <1>3, BatchAlone, BeginStep DEF BulkSaveCandles
<1>4. CASE BulkUpdateIndicators(p)
  BY <1>1, <1>4, BatchAlone, BeginStep DEF BulkUpdateIndicators
<1>5. CASE UpdateIndicatorOnly(p)
  BY <1>1, <1>5, BatchAlone, BeginStep DEF UpdateIndicatorOnly
<1>6. CASE MigrateFromMemoryStore(p)
  BY <1>6, MigrationTodo, BeginStep DEF MigrateFromMemoryStore
<1>7. CASE MetadataQuery(p) \/ Refresh(p)
  BY <1>7, BeginStep DEF MetadataQuery, Refresh
<1>8. CASE QueryRows(p)
  BY <1>8, BeginStep DEF QueryRows
<1>9. CASE QueryTwice(p)
  BY <1>9, BeginStep DEF QueryTwice
<1>10. CASE DeleteOldData(p)
  BY <1>10, BeginStep DEF DeleteOldData
<1> QED
  BY <1>2, <1>3, <1>4, <1>5, <1>6, <1>7, <1>8, <1>9, <1>10
  DEF Call, AsyncMetadata, AsyncReads, AsyncWrites

-----------------------------------------------------------------------------
(* A thread goes on with its call, or returns from it.                     *)
LEMMA GoingOn ==
  ASSUME DataInv, NEW p \in Threads, NEW pc, Goto(p, pc),
         task[p].pc \notin {"idle", "touch"},
         pc \notin {"touch", "names", "replace", "second"},
         UNCHANGED <<stored, meta, loaded, behind>>
  PROVE  DataInv'
<1>1. TaskOK(p) /\ ReadInv(p)
  BY DEF DataInv
<1>2. /\ DOMAIN task' = Threads /\ \A q \in Threads \ {p} : task'[q] = task[q]
      /\ DOMAIN task'[p] = Fields /\ task'[p].pc = pc
      /\ pc = "idle" => task'[p].op = "none"
      /\ pc # "idle" => \A f \in Fields \ {"pc"} : task'[p][f] = task[p][f]
  BY GotoProperties
<1>3. pc # "idle" => /\ task'[p].op = task[p].op /\ task'[p].todo = task[p].todo
                     /\ task'[p].table = task[p].table /\ task'[p].seen = task[p].seen
  BY <1>2 DEF Fields
<1>4. TaskOK(p)' /\ ReadInv(p)' /\ ScanInv(p)'
  BY <1>1, <1>2, <1>3 DEF TaskOK, ReadInv, ScanInv, Reads, Stored
<1> QED BY <1>2, <1>4, OwnStep

LEMMA GotoBusy ==
  ASSUME DataInv, NEW p \in Threads, NEW pc, Goto(p, pc)
  PROVE  /\ (p \in Busy)' <=> pc \in {"run", "second", "list", "names"}
         /\ \A q \in Threads \ {p} : q \in Busy <=> (q \in Busy)'
BY GotoProperties DEF Busy

LEMMA AdmitStep ==
  ASSUME DataInv, PoolInv, NEW p \in Threads, Admit(p)
  PROVE  DataInv' /\ PoolInv'
<1>1. PICK pc \in {"idle", "wait", "scanwait"} : Goto(p, pc)
  BY DEF Admit
<1>2. DataInv'
  BY <1>1, GoingOn DEF Admit
<1>3. \A q \in Threads : q \in Busy <=> (q \in Busy)'
  BY <1>1, GotoBusy DEF Admit, Busy
<1> QED BY <1>2, <1>3, PoolUnused DEF Admit, PoolSame

LEMMA AcquireStep ==
  ASSUME DataInv, PoolInv, NEW p \in Threads, Acquire(p)
  PROVE  DataInv' /\ PoolInv'
<1>1. /\ task[p].pc \in {"wait", "scanwait"} /\ permits > 0
      /\ UNCHANGED <<stored, meta, loaded, behind, size, closed>>
  BY DEF Acquire
<1>2. p \notin Busy
  BY <1>1 DEF Busy
<1>3. CASE /\ permits' = permits - 1
           /\ idle' = IF idle > 0 THEN idle - 1 ELSE 0
           /\ Goto(p, IF task[p].pc = "wait" THEN "run" ELSE "list")
  <2>1. PICK pc \in {"run", "list"} : Goto(p, pc)
    BY <1>3
  <2>2. DataInv'
    BY <1>1, <2>1, GoingOn
  <2>3. (p \in Busy)' /\ \A q \in Threads \ {p} : q \in Busy <=> (q \in Busy)'
    BY <2>1, GotoBusy
  <2> QED BY <1>1, <1>2, <1>3, <2>2, <2>3, PoolTaken
<1>4. CASE Goto(p, "idle") /\ UNCHANGED <<permits, idle>>
  <2>1. DataInv'
    BY <1>1, <1>4, GoingOn
  <2>2. \A q \in Threads : q \in Busy <=> (q \in Busy)'
    BY <1>2, <1>4, GotoBusy
  <2> QED BY <1>1, <1>4, <2>1, <2>2, PoolUnused DEF PoolSame
<1> QED BY <1>3, <1>4 DEF Acquire

LEMMA FindStep ==
  ASSUME DataInv, PoolInv, NEW p \in Threads, Find(p)
  PROVE  DataInv' /\ PoolInv'
<1>1. /\ task[p].pc = "find" /\ UNCHANGED <<stored, meta, loaded, behind>> /\ PoolSame
  BY DEF Find, PoolSame
<1>2. p \notin Busy
  BY <1>1 DEF Busy
<1>3. ASSUME NEW pc \in {"idle", "scanwant", "want"}, Goto(p, pc)
      PROVE  DataInv' /\ PoolInv'
  <2>1. DataInv'
    BY <1>1, <1>3, GoingOn
  <2>2. \A q \in Threads : q \in Busy <=> (q \in Busy)'
    BY <1>2, <1>3, GotoBusy
  <2> QED BY <1>1, <2>1, <2>2, PoolUnused
<1>4. CASE /\ task[p].op = "delete"
           /\ task' = [task EXCEPT ![p].pc = "want", ![p].todo = Targets(task[p].table)]
  <2>1. DOMAIN task = Threads /\ TaskOK(p)
    BY DEF DataInv
  <2>2. DOMAIN task' = Threads /\ \A q \in Threads \ {p} : task'[q] = task[q]
    BY <1>4, <2>1
  <2>3. DOMAIN task'[p] = Fields /\ task'[p].pc = "want" /\ task'[p].op = "delete"
    BY <1>4, <2>1 DEF TaskOK, Fields
  <2>4. TaskOK(p)' /\ ReadInv(p)' /\ ScanInv(p)'
    BY <2>3 DEF TaskOK, ReadInv, ScanInv, Reads
  <2>5. DataInv'
    BY <1>1, <2>2, <2>3, <2>4, OwnStep
  <2>6. \A q \in Threads : q \in Busy <=> (q \in Busy)'
    BY <1>2, <2>2, <2>3 DEF Busy
  <2> QED BY <1>1, <2>5, <2>6, PoolUnused
<1> QED BY <1>3, <1>4 DEF Find

LEMMA FailStep ==
  ASSUME DataInv, PoolInv, NEW p \in Threads, Fail(p)
  PROVE  DataInv' /\ PoolInv'
<1>1. /\ task[p].pc \in {"run", "second", "list", "names"} /\ (GiveBack \/ Discard)
      /\ UNCHANGED <<stored, meta, loaded, behind, size, closed>>
  BY DEF Fail
<1>2. Goto(p, "idle")
  BY DEF Fail, Goto
<1>3. DataInv'
  BY <1>1, <1>2, GoingOn
<1>4. /\ p \in Busy /\ (p \notin Busy)'
      /\ \A q \in Threads \ {p} : q \in Busy <=> (q \in Busy)'
  BY <1>1, <1>2, GotoBusy DEF Busy
<1> QED BY <1>1, <1>3, <1>4, PoolGiven

LEMMA CloseStep ==
  ASSUME DataInv, PoolInv, CloseFlag \/ CloseIdle
  PROVE  DataInv' /\ PoolInv'
<1>1. UNCHANGED <<stored, meta, loaded, task, behind, size, permits>>
  BY DEF CloseFlag, CloseIdle
<1>2. DataInv'
  BY <1>1 DEF DataInv, TablesAreFinite, CacheInv, Covers, Touching, Coming, TaskOK,
              ReadInv, ScanInv, Stored
<1>3. Busy' = Busy /\ Cardinality(Busy) \in Nat
  BY <1>1, FS_CardinalityType DEF Busy, PoolInv
<1>4. PoolInv'
  BY <1>1, <1>3 DEF PoolInv, PoolIsWhole, CloseFlag, CloseIdle
<1> QED BY <1>2, <1>4

-----------------------------------------------------------------------------
(* The readers.                                                            *)
LEMMA TellStep ==
  ASSUME DataInv, PoolInv, NEW p \in Threads, p \in Busy, Goto(p, "idle"), GiveBack,
         UNCHANGED <<stored, meta, loaded, behind, size, closed>>
  PROVE  DataInv' /\ PoolInv'
<1>1. task[p].pc \notin {"idle", "touch"}
  BY DEF Busy
<1>2. DataInv'
  BY <1>1, GoingOn
<1>3. (p \notin Busy)' /\ \A q \in Threads \ {p} : q \in Busy <=> (q \in Busy)'
  BY GotoBusy
<1> QED BY <1>2, <1>3, PoolGiven

(* A window that is complete when it was counted is complete: it has       *)
(* records, and each carries the indicator.                                *)
LEMMA WindowIsFull ==
  ASSUME NEW rows, IsFiniteSet(DOMAIN rows), NEW i, Complete(rows, rows, i).complete
  PROVE  Newest(rows, LastN) # {} /\ \A t \in Newest(rows, LastN) : i \in rows[t].doc
<1> DEFINE W == Newest(rows, LastN)
           C == Carrying(rows, W, i)
<1>1. W \subseteq DOMAIN rows /\ C \subseteq W
  BY DEF Newest, Carrying
<1>2. Cardinality(W) > 0 /\ Cardinality(C) = Cardinality(W)
  BY DEF Complete
<1>3. \A t \in C : i \in rows[t].doc
  BY DEF Carrying
<1> HIDE DEF W, C
<1>4. IsFiniteSet(W)
  BY <1>1, FS_Subset
<1>5. C = W
  BY <1>1, <1>2, <1>4, FS_Subset
<1>6. W # {}
  BY <1>2, FS_EmptySet
<1> QED BY <1>3, <1>5, <1>6 DEF W

LEMMA QueryStep ==
  ASSUME DataInv, PoolInv, NEW p \in Threads, Query(p)
  PROVE  DataInv' /\ PoolInv' /\ ReadsAreTrue'
<1>1. p \in Busy /\ task[p].op = "query" /\ ReadInv(p)
  BY DEF Query, Busy, DataInv
<1>2. DataInv' /\ PoolInv'
  BY <1>1, TellStep DEF Query, Tell
<1> DEFINE rows == Stored(task[p].table)
<1>3. /\ answer'.op = "query" /\ answer'.seen = task[p].seen
      /\ answer'.is = Answer("query", rows, rows, TheInd)
  BY <1>1 DEF Query, Tell
<1>4. rows \in task[p].seen
  BY <1>1 DEF ReadInv, Reads, Query
<1> HIDE DEF rows
<1> QED BY <1>2, <1>3, <1>4 DEF ReadsAreTrue

LEMMA SecondQueryStep ==
  ASSUME DataInv, PoolInv, NEW p \in Threads, SecondQuery(p)
  PROVE  DataInv' /\ PoolInv' /\ ReadsAreTrue'
<1>1. p \in Busy /\ ReadInv(p) /\ task[p].pc = "second"
  BY DEF SecondQuery, Busy, DataInv
<1>2. DataInv' /\ PoolInv'
  BY <1>1, TellStep DEF SecondQuery, Tell
<1> DEFINE rows == Stored(task[p].table)
<1>3. /\ answer'.op = task[p].op /\ answer'.seen = task[p].seen
      /\ answer'.torn = task[p].torn
      /\ answer'.is = Answer(task[p].op, task[p].first, rows, TheInd)
  BY DEF SecondQuery, Tell
<1>4. /\ rows \in task[p].seen
      /\ task[p].torn \/ task[p].first = rows
  BY <1>1 DEF ReadInv
<1>5. IsFiniteSet(DOMAIN rows)
  BY FS_EmptySet DEF Stored, NoRows, DataInv, TablesAreFinite
<1> HIDE DEF rows
<1>6. ASSUME ~ answer'.torn, answer'.op = "complete", answer'.is.complete
      PROVE  Newest(rows, LastN) # {}
             /\ \A t \in Newest(rows, LastN) : TheInd \in rows[t].doc
  <2>1. answer'.is = Complete(rows, rows, TheInd)
    BY <1>3, <1>4, <1>6 DEF Answer
  <2> QED BY <1>5, <1>6, <2>1, WindowIsFull
<1>7. ~ answer'.torn => answer'.is = Answer(answer'.op, rows, rows, TheInd)
  BY <1>3, <1>4
<1> QED BY <1>2, <1>3, <1>4, <1>6, <1>7 DEF ReadsAreTrue

LEMMA FirstQueryStep ==
  ASSUME DataInv, PoolInv, NEW p \in Threads, FirstQuery(p)
  PROVE  DataInv' /\ PoolInv'
<1>1. /\ task[p].pc = "run" /\ task[p].op \in {"stats", "complete"}
      /\ UNCHANGED <<stored, meta, loaded, behind>> /\ PoolSame
  BY DEF FirstQuery, PoolSame
<1>2. DOMAIN task = Threads /\ TaskOK(p) /\ ReadInv(p)
  BY DEF DataInv
<1>3. DOMAIN task' = Threads /\ \A q \in Threads \ {p} : task'[q] = task[q]
  BY <1>2 DEF FirstQuery
<1>4. /\ DOMAIN task'[p] = Fields /\ task'[p].pc = "second" /\ task'[p].op = task[p].op
      /\ task'[p].table = task[p].table /\ task'[p].seen = task[p].seen
      /\ task'[p].first = Stored(task[p].table)
  BY <1>2 DEF FirstQuery, TaskOK, Fields
<1>5. TaskOK(p)' /\ ReadInv(p)' /\ ScanInv(p)'
  BY <1>1, <1>2, <1>4 DEF TaskOK, ReadInv, ScanInv, Stored, Reads
<1>6. DataInv'
  BY <1>1, <1>3, <1>4, <1>5, OwnStep
<1>7. \A q \in Threads : q \in Busy <=> (q \in Busy)'
  BY <1>1, <1>3, <1>4 DEF Busy
<1> QED BY <1>1, <1>6, <1>7, PoolUnused

-----------------------------------------------------------------------------
(* A scan.                                                                 *)
LEMMA ScanTablesStep ==
  ASSUME DataInv, PoolInv, NEW p \in Threads, ScanTables(p)
  PROVE  DataInv' /\ PoolInv'
<1>1. /\ task[p].pc = "list" /\ UNCHANGED <<stored, meta, loaded, behind>> /\ PoolSame
  BY DEF ScanTables, PoolSame
<1>2. DOMAIN task = Threads /\ TaskOK(p) /\ ReadInv(p)
  BY DEF DataInv
<1>3. DOMAIN task' = Threads /\ \A q \in Threads \ {p} : task'[q] = task[q]
  BY <1>2 DEF ScanTables
<1>4. /\ DOMAIN task'[p] = Fields /\ task'[p].pc = "names" /\ task'[p].op = task[p].op
      /\ task'[p].table = task[p].table /\ task'[p].seen = task[p].seen
      /\ task'[p].todo = task[p].todo /\ task'[p].left = Listed
      /\ task'[p].scan = [tb \in Listed |-> {}]
  BY <1>2 DEF ScanTables, TaskOK, Fields
<1>5. TaskOK(p)' /\ ReadInv(p)'
  BY <1>1, <1>2, <1>4 DEF TaskOK, ReadInv, Stored
<1>6. ScanInv(p)'
  BY <1>1, <1>4 DEF ScanInv, Listed
<1>7. DataInv'
  BY <1>1, <1>3, <1>4, <1>5, <1>6, OwnStep
<1>8. \A q \in Threads : q \in Busy <=> (q \in Busy)'
  BY <1>1, <1>3, <1>4 DEF Busy
<1> QED BY <1>1, <1>7, <1>8, PoolUnused

LEMMA ScanNamesStep ==
  ASSUME DataInv, PoolInv, NEW p \in Threads, ScanNames(p)
  PROVE  DataInv' /\ PoolInv'
<1>1. /\ task[p].pc = "names" /\ UNCHANGED <<stored, meta, loaded, behind>> /\ PoolSame
  BY DEF ScanNames, PoolSame
<1>2. DOMAIN task = Threads /\ TaskOK(p) /\ ReadInv(p) /\ ScanInv(p)
  BY DEF DataInv
<1>3. PICK tb0 \in task[p].left :
        task' = [task EXCEPT ![p].left = @ \ {tb0}, ![p].scan[tb0] = Keys(stored[tb0])]
  BY DEF ScanNames
<1>4. DOMAIN task' = Threads /\ \A q \in Threads \ {p} : task'[q] = task[q]
  BY <1>2, <1>3
<1>5. /\ DOMAIN task'[p] = Fields /\ task'[p].pc = "names" /\ task'[p].op = task[p].op
      /\ task'[p].table = task[p].table /\ task'[p].seen = task[p].seen
      /\ task'[p].todo = task[p].todo /\ task'[p].left = task[p].left \ {tb0}
      /\ task'[p].scan = [task[p].scan EXCEPT ![tb0] = Keys(stored[tb0])]
      /\ task'[p].missed = task[p].missed
  BY <1>1, <1>2, <1>3 DEF TaskOK, Fields
<1>6. TaskOK(p)' /\ ReadInv(p)'
  BY <1>1, <1>2, <1>5 DEF TaskOK, ReadInv, Stored
<1>7. \A tb : Touching(tb)' = Touching(tb) /\ Coming(tb)' = Coming(tb)
  BY <1>1, <1>4, <1>5, OthersStay
<1>8. /\ tb0 \in DOMAIN task[p].scan /\ DOMAIN task'[p].scan = DOMAIN task[p].scan
      /\ task'[p].scan[tb0] = Keys(stored[tb0])
      /\ \A tb \in DOMAIN task[p].scan \ {tb0} : task'[p].scan[tb] = task[p].scan[tb]
  BY <1>1, <1>2, <1>3, <1>5 DEF ScanInv
<1>9. ASSUME NEW tb \in DOMAIN stored, tb[1] \notin Hidden, tb \notin task'[p].left,
             tb \notin task'[p].missed
      PROVE  Covers(task[p].scan, tb)'
  <2>1. CASE tb = tb0
    BY <1>1, <1>8, <2>1 DEF Covers
  <2>2. CASE tb # tb0
    <3>1. Covers(task[p].scan, tb)
      BY <1>1, <1>2, <1>5, <1>9, <2>2 DEF ScanInv
    <3> QED BY <1>1, <1>7, <1>8, <2>2, <3>1 DEF Covers
  <2> QED BY <2>1, <2>2
<1>10. ScanInv(p)'
  <2>1. task'[p].left \subseteq DOMAIN stored' \cap DOMAIN task'[p].scan
    BY <1>1, <1>2, <1>5, <1>8 DEF ScanInv
  <2> QED BY <1>1, <1>5, <1>9, <2>1 DEF ScanInv
<1>11. DataInv'
  BY <1>1, <1>4, <1>5, <1>6, <1>10, OwnStep
<1>12. \A q \in Threads : q \in Busy <=> (q \in Busy)'
  BY <1>1, <1>4, <1>5 DEF Busy
<1> QED BY <1>1, <1>11, <1>12, PoolUnused

LEMMA ScanEndStep ==
  ASSUME DataInv, PoolInv, NEW p \in Threads, ScanEnd(p)
  PROVE  DataInv' /\ PoolInv'
<1>1. /\ task[p].pc = "names" /\ task[p].left = {} /\ GiveBack /\ Goto(p, "replace")
      /\ UNCHANGED <<stored, meta, loaded, behind, size, closed>>
  BY DEF ScanEnd
<1>2. TaskOK(p) /\ ReadInv(p) /\ ScanInv(p)
  BY DEF DataInv
<1>3. /\ DOMAIN task' = Threads /\ \A q \in Threads \ {p} : task'[q] = task[q]
      /\ DOMAIN task'[p] = Fields /\ task'[p].pc = "replace"
      /\ \A f \in Fields \ {"pc"} : task'[p][f] = task[p][f]
  BY <1>1, GotoProperties
<1>4. /\ task'[p].op = task[p].op /\ task'[p].todo = task[p].todo
      /\ task'[p].table = task[p].table /\ task'[p].seen = task[p].seen
      /\ task'[p].left = {} /\ task'[p].scan = task[p].scan
      /\ task'[p].missed = task[p].missed
  BY <1>1, <1>3 DEF Fields
<1>5. TaskOK(p)' /\ ReadInv(p)'
  BY <1>1, <1>2, <1>3, <1>4 DEF TaskOK, ReadInv, Stored
<1>6. \A tb : Touching(tb)' = Touching(tb) /\ Coming(tb)' = Coming(tb)
  BY <1>1, <1>3, OthersStay
<1>7. ScanInv(p)'
  BY <1>1, <1>2, <1>3, <1>4, <1>6 DEF ScanInv, Covers
<1>8. DataInv'
  BY <1>1, <1>3, <1>5, <1>7, OwnStep
<1>9. /\ p \in Busy /\ (p \notin Busy)'
      /\ \A q \in Threads \ {p} : q \in Busy <=> (q \in Busy)'
  BY <1>1, <1>3 DEF Busy
<1> QED BY <1>1, <1>8, <1>9, PoolGiven

LEMMA ReplaceStep ==
  ASSUME DataInv, PoolInv, NEW p \in Threads, Replace(p)
  PROVE  DataInv' /\ PoolInv'
<1>1. /\ task[p].pc = "replace" /\ meta' = task[p].scan /\ behind' = task[p].missed
      /\ UNCHANGED stored /\ PoolSame
  BY DEF Replace, PoolSame
<1>2. DOMAIN task = Threads /\ TaskOK(p) /\ ReadInv(p) /\ ScanInv(p)
  BY DEF DataInv
<1>3. DOMAIN task' = Threads /\ \A q \in Threads \ {p} : task'[q] = task[q]
  BY <1>2 DEF Replace
<1>4. /\ DOMAIN task'[p] = Fields /\ task'[p].pc \in {"idle", "find"}
      /\ task'[p].op = task[p].op /\ task'[p].table = task[p].table
      /\ task'[p].seen = task[p].seen /\ task'[p].todo = task[p].todo
  BY <1>2 DEF Replace, TaskOK, Fields
<1>5. TaskOK(p)' /\ ReadInv(p)' /\ ScanInv(p)'
  BY <1>1, <1>2, <1>4 DEF TaskOK, ReadInv, ScanInv, Stored
<1>6. /\ \A tb : Touching(tb)' = Touching(tb) /\ Coming(tb)' = Coming(tb)
      /\ \A q \in Threads \ {p} : TaskOK(q)' /\ ReadInv(q)' /\ ScanInv(q)'
  BY <1>1, <1>3, <1>4, OthersStay
<1>7. CacheInv'
  BY <1>1, <1>2, <1>6 DEF CacheInv, ScanInv, Covers
<1>8. DataInv'
  BY <1>1, <1>3, <1>5, <1>6, <1>7 DEF DataInv, TablesAreFinite
<1>9. \A q \in Threads : q \in Busy <=> (q \in Busy)'
  BY <1>1, <1>3, <1>4 DEF Busy
<1> QED BY <1>1, <1>8, <1>9, PoolUnused

-----------------------------------------------------------------------------
(* A commit, seen by the other threads.                                    *)
SameButReads(q) ==
  /\ task'[q].pc = task[q].pc /\ task'[q].op = task[q].op
  /\ task'[q].table = task[q].table /\ task'[q].todo = task[q].todo
  /\ task'[q].scan = task[q].scan /\ task'[q].left = task[q].left
  /\ task'[q].missed = task[q].missed

LEMMA Bystander ==
  ASSUME NEW q \in Threads, TaskOK(q), task'[q] = task[q]
  PROVE  SameButReads(q) /\ TaskOK(q)'
BY DEF SameButReads, TaskOK

LEMMA Onlooker ==
  ASSUME NEW q \in Threads, TaskOK(q), ReadInv(q), NEW tb, NEW rows,
         task'[q] = Noticed(task[q], tb, rows)
  PROVE  /\ SameButReads(q) /\ TaskOK(q)'
         /\ task[q].table # tb => task'[q] = task[q]
         /\ task[q].table = tb /\ Stored(tb)' = rows => ReadInv(q)'
<1>1. DOMAIN task[q] = Fields
  BY DEF TaskOK
<1>2. CASE ~ (task[q].op \in Reads /\ task[q].pc # "idle" /\ task[q].table = tb)
  <2>1. task'[q] = task[q]
    BY <1>2 DEF Noticed
  <2>2. SameButReads(q) /\ TaskOK(q)'
    BY <2>1, Bystander
  <2>3. task[q].table = tb /\ Stored(tb)' = rows => ReadInv(q)'
    BY <1>2, <2>1 DEF ReadInv
  <2> QED BY <2>1, <2>2, <2>3
<1>3. CASE task[q].op \in Reads /\ task[q].pc # "idle" /\ task[q].table = tb
  <2>1. task'[q] = [task[q] EXCEPT !.seen = @ \cup {rows}, !.torn = @ \/ task[q].pc = "second"]
    BY <1>3 DEF Noticed
  <2>2. /\ DOMAIN task'[q] = Fields /\ SameButReads(q)
        /\ task'[q].seen = task[q].seen \cup {rows}
    BY <1>1, <2>1 DEF Fields, SameButReads
  <2>3. task[q].pc = "second" => task'[q].torn
    BY <1>1, <2>1 DEF Fields
  <2>4. TaskOK(q)'
    BY <2>2 DEF TaskOK, SameButReads
  <2>5. Stored(tb)' = rows => ReadInv(q)'
    BY <1>3, <2>2, <2>3 DEF ReadInv, SameButReads
  <2> QED BY <1>3, <2>2, <2>4, <2>5
<1> QED BY <1>2, <1>3

LEMMA WriteStep ==
  ASSUME DataInv, PoolInv, NEW p \in Threads, Write(p)
  PROVE  DataInv' /\ PoolInv'
<1>0. PICK tb0, batch, rows :
        /\ tb0 = task[p].table /\ batch = Head(task[p].todo)
        /\ rows = Upsert(Stored(tb0), batch)
  OBVIOUS
<1>1. /\ task[p].pc = "run" /\ task[p].op = "write" /\ GiveBack
      /\ UNCHANGED <<meta, loaded, behind, size, closed>>
      /\ stored' = With(stored, tb0, rows)
      /\ task' = [q \in Threads |-> IF q = p THEN [task[p] EXCEPT !.pc = "touch"]
                                    ELSE Noticed(task[q], tb0, rows)]
  BY <1>0 DEF Write
<1>2. /\ TablesAreFinite /\ CacheInv
      /\ \A q \in Threads : TaskOK(q) /\ ReadInv(q) /\ ScanInv(q)
  BY DEF DataInv
<1>3. batch \in Seq(Statements)
  BY <1>0, <1>1, <1>2, HeadTailProperties DEF TaskOK
<1>4. IsFiniteSet(DOMAIN Stored(tb0))
  BY <1>2, FS_EmptySet DEF Stored, NoRows, TablesAreFinite
<1>5. IsFiniteSet(DOMAIN rows) /\ Keys(rows) \subseteq Keys(Stored(tb0)) \cup Names(batch)
  BY <1>0, <1>3, <1>4, UpsertProperties
<1>6. tb0 \notin DOMAIN stored => Keys(Stored(tb0)) = {}
  BY DEF Stored, NoRows, Keys
<1>7. /\ DOMAIN stored' = DOMAIN stored \cup {tb0} /\ stored'[tb0] = rows
      /\ \A tb \in DOMAIN stored \ {tb0} : stored'[tb] = stored[tb]
  BY <1>1 DEF With
<1>8. Keys(stored'[tb0])
        \subseteq (IF tb0 \in DOMAIN stored THEN Keys(stored[tb0]) ELSE {}) \cup Names(batch)
  BY <1>5, <1>6, <1>7 DEF Stored
<1>9. /\ DOMAIN task' = Threads
      /\ \A q \in Threads \ {p} : task'[q] = Noticed(task[q], tb0, rows)
      /\ task'[p] = [task[p] EXCEPT !.pc = "touch"]
  BY <1>1
<1>10. /\ DOMAIN task'[p] = Fields /\ task'[p].pc = "touch" /\ task'[p].op = "write"
       /\ task'[p].table = tb0 /\ task'[p].todo = task[p].todo
  BY <1>0, <1>1, <1>2, <1>9 DEF TaskOK, Fields
<1>11. TaskOK(p)' /\ ReadInv(p)' /\ ScanInv(p)'
  BY <1>1, <1>2, <1>10 DEF TaskOK, ReadInv, ScanInv, Reads
<1>12. ASSUME NEW q \in Threads \ {p}
       PROVE  SameButReads(q) /\ TaskOK(q)' /\ ReadInv(q)'
  <2>1. /\ SameButReads(q) /\ TaskOK(q)'
        /\ task[q].table # tb0 => task'[q] = task[q]
        /\ task[q].table = tb0 /\ Stored(tb0)' = rows => ReadInv(q)'
    BY <1>2, <1>9, Onlooker
  <2>2. CASE task[q].table = tb0
    BY <1>7, <2>1, <2>2 DEF Stored
  <2>3. CASE task[q].table # tb0
    BY <1>2, <1>7, <2>1, <2>3 DEF ReadInv, Stored
  <2> QED BY <2>1, <2>2, <2>3
<1>13. \A tb : /\ tb # tb0 => Touching(tb)' = Touching(tb)
               /\ Touching(tb) \subseteq Touching(tb)'
  <2>1. \A q \in Threads \ {p} : task'[q].pc = task[q].pc /\ task'[q].table = task[q].table
    BY <1>12 DEF SameButReads
  <2>2. task[p].pc # "touch" /\ task'[p].table = tb0
    BY <1>1, <1>10
  <2> QED BY <2>1, <2>2 DEF Touching
<1>14. \A tb : Coming(tb) \subseteq Coming(tb)'
  <2>1. \A tb : \A q \in Touching(tb) : q \in Threads \ {p} /\ task'[q].todo = task[q].todo
    BY <1>1, <1>12 DEF Touching, SameButReads
  <2> QED BY <1>13, <2>1 DEF Coming
<1>15. p \in Touching(tb0)' /\ Names(batch) \subseteq Coming(tb0)'
  <2>1. p \in Touching(tb0)'
    BY <1>10 DEF Touching
  <2> QED BY <1>0, <1>10, <2>1 DEF Coming
<1>16. ASSUME NEW q \in Threads, task'[q].pc \in {"names", "replace"}
       PROVE  ScanInv(q)'
  <2>1. q # p
    BY <1>10, <1>16
  <2>2. SameButReads(q) /\ ScanInv(q) /\ task[q].pc = task'[q].pc
    BY <1>2, <1>12, <2>1 DEF SameButReads
  <2>3. ASSUME NEW tb \in DOMAIN stored', tb[1] \notin Hidden, tb \notin task[q].left,
               tb \notin task[q].missed
        PROVE  Covers(task[q].scan, tb)'
    <3>1. tb \in DOMAIN stored => Covers(task[q].scan, tb)
      BY <1>16, <2>2, <2>3 DEF ScanInv
    <3>2. task'[q].scan = task[q].scan
      BY <2>2 DEF SameButReads
    <3>3. CASE tb = tb0
      BY <1>8, <1>14, <1>15, <3>1, <3>2, <3>3 DEF Covers
    <3>4. CASE tb # tb0
      BY <1>7, <1>13, <1>14, <2>3, <3>1, <3>2, <3>4 DEF Covers
    <3> QED BY <3>3, <3>4
  <2> QED BY <1>7, <1>16, <2>2, <2>3 DEF ScanInv, SameButReads
<1>17. ASSUME loaded, NEW tb \in DOMAIN stored', tb[1] \notin Hidden, tb \notin behind
       PROVE  Covers(meta, tb)'
  <2>1. tb \in DOMAIN stored => Covers(meta, tb)
    BY <1>2, <1>17 DEF CacheInv
  <2>2. CASE tb = tb0
    BY <1>1, <1>8, <1>14, <1>15, <2>1, <2>2 DEF Covers
  <2>3. CASE tb # tb0
    BY <1>1, <1>7, <1>13, <1>14, <1>17, <2>1, <2>3 DEF Covers
  <2> QED BY <2>2, <2>3
<1>18. CacheInv'
  BY <1>1, <1>17 DEF CacheInv
<1>19. TablesAreFinite'
  BY <1>2, <1>5, <1>7 DEF TablesAreFinite
<1>20. DataInv'
  BY <1>9, <1>11, <1>12, <1>16, <1>18, <1>19 DEF DataInv, ScanInv
<1>21. /\ p \in Busy /\ (p \notin Busy)'
       /\ \A q \in Threads \ {p} : q \in Busy <=> (q \in Busy)'
  BY <1>1, <1>10, <1>12 DEF Busy, SameButReads
<1> QED BY <1>1, <1>20, <1>21, PoolGiven

(* The cache is told; scans under way have missed it, unless they have the *)
(* table still to read.                                                    *)
LEMMA TouchStep ==
  ASSUME DataInv, PoolInv, NEW p \in Threads, Touch(p)
  PROVE  DataInv' /\ PoolInv'
<1>0. PICK tb0, batch, known :
        /\ tb0 = task[p].table /\ batch = Head(task[p].todo)
        /\ known = IF tb0 \in DOMAIN meta THEN meta[tb0] ELSE {}
  OBVIOUS
<1>1. /\ task[p].pc = "touch" /\ UNCHANGED <<stored, loaded, behind>> /\ PoolSame
      /\ meta' = With(meta, tb0, known \cup Names(batch))
      /\ task' = [q \in Threads |->
           IF q # p THEN IF task[q].pc \in {"names", "replace"} /\ tb0 \notin task[q].left
                         THEN [task[q] EXCEPT !.missed = @ \cup {tb0}] ELSE task[q]
           ELSE IF Len(task[p].todo) > 1
           THEN [task[p] EXCEPT !.pc = "want", !.todo = Tail(@)]
           ELSE NoTask]
  BY <1>0 DEF Touch, PoolSame
<1>2. /\ TablesAreFinite /\ CacheInv
      /\ \A q \in Threads : TaskOK(q) /\ ReadInv(q) /\ ScanInv(q)
  BY DEF DataInv
<1>3. /\ task[p].op = "write" /\ DOMAIN task[p] = Fields
      /\ task[p].todo \in Seq(Seq(Statements))
  BY <1>1, <1>2 DEF TaskOK
<1>4. /\ DOMAIN meta' = DOMAIN meta \cup {tb0} /\ meta'[tb0] = known \cup Names(batch)
      /\ \A tb \in DOMAIN meta \ {tb0} : meta'[tb] = meta[tb]
  BY <1>1 DEF With
<1>5. /\ DOMAIN task' = Threads
      /\ task'[p] = IF Len(task[p].todo) > 1
                    THEN [task[p] EXCEPT !.pc = "want", !.todo = Tail(@)] ELSE NoTask
  BY <1>1
<1>6. /\ DOMAIN task'[p] = Fields /\ task'[p].pc \in {"want", "idle"}
      /\ task'[p].op \in {"write", "none"}
      /\ task'[p].op = "write" => task'[p].todo \in Seq(Seq(Statements))
                                  /\ task'[p].todo # << >>
  <2>1. CASE Len(task[p].todo) > 1
    <3>1. task'[p] = [task[p] EXCEPT !.pc = "want", !.todo = Tail(@)]
      BY <1>5, <2>1
    <3>2. /\ DOMAIN task'[p] = Fields /\ task'[p].pc = "want" /\ task'[p].op = "write"
          /\ task'[p].todo = Tail(task[p].todo)
      BY <1>3, <3>1 DEF Fields
    <3>3. Tail(task[p].todo) \in Seq(Seq(Statements)) /\ Tail(task[p].todo) # << >>
      BY ONLY <1>3, <2>1, MoreToDo
    <3> QED BY <3>2, <3>3
  <2>2. CASE ~ (Len(task[p].todo) > 1)
    BY <1>5, <2>2, NoTaskProperties
  <2> QED BY <2>1, <2>2
<1>7. TaskOK(p)' /\ ReadInv(p)' /\ ScanInv(p)'
  BY <1>6 DEF TaskOK, ReadInv, ScanInv, Reads
<1>8. ASSUME NEW q \in Threads \ {p}
      PROVE  /\ DOMAIN task'[q] = Fields
             /\ task'[q].pc = task[q].pc /\ task'[q].op = task[q].op
             /\ task'[q].table = task[q].table /\ task'[q].todo = task[q].todo
             /\ task'[q].scan = task[q].scan /\ task'[q].left = task[q].left
             /\ task'[q].seen = task[q].seen /\ task'[q].torn = task[q].torn
             /\ task'[q].first = task[q].first
             /\ task[q].pc \in {"names", "replace"} =>
                  /\ task[q].missed \subseteq task'[q].missed
                  /\ tb0 \in task[q].left \/ tb0 \in task'[q].missed
  <2>1. DOMAIN task[q] = Fields
    BY <1>2 DEF TaskOK
  <2>2. CASE task[q].pc \in {"names", "replace"} /\ tb0 \notin task[q].left
    <3>1. task'[q] = [task[q] EXCEPT !.missed = @ \cup {tb0}]
      BY <1>1, <2>2
    <3> QED BY <2>1, <2>2, <3>1 DEF Fields
  <2>3. CASE ~ (task[q].pc \in {"names", "replace"} /\ tb0 \notin task[q].left)
    <3>1. task'[q] = task[q]
      BY <1>1, <2>3
    <3> QED BY <2>1, <2>3, <3>1
  <2> QED BY <2>2, <2>3
<1>9. \A q \in Threads \ {p} : TaskOK(q)' /\ ReadInv(q)'
  BY <1>1, <1>2, <1>8 DEF TaskOK, ReadInv, Stored
<1>10. \A tb : /\ Touching(tb)' = Touching(tb) \ {p}
               /\ tb # tb0 => p \notin Touching(tb)
  BY <1>0, <1>6, <1>8 DEF Touching
<1>11. \A tb : \A q \in Touching(tb)' : task'[q].todo = task[q].todo
  BY <1>8, <1>10 DEF Touching
<1>12. \A tb : tb # tb0 => Touching(tb)' = Touching(tb) /\ Coming(tb)' = Coming(tb)
  BY <1>10, <1>11 DEF Coming
<1>13. Coming(tb0) \subseteq Coming(tb0)' \cup Names(batch)
  <2>1. \A q \in Touching(tb0) : q = p \/ q \in Touching(tb0)'
    BY <1>10
  <2> QED BY <1>0, <1>11, <2>1 DEF Coming
<1>14. ASSUME NEW q \in Threads, task'[q].pc \in {"names", "replace"}
       PROVE  ScanInv(q)'
  <2>1. q # p
    BY <1>6, <1>14
  <2>2. ScanInv(q) /\ task[q].pc = task'[q].pc /\ task'[q].scan = task[q].scan
    BY <1>2, <1>8, <2>1
  <2>3. ASSUME NEW tb \in DOMAIN stored, tb[1] \notin Hidden, tb \notin task[q].left,
               tb \notin task'[q].missed
        PROVE  Covers(task[q].scan, tb)'
    <3>1. tb # tb0 /\ tb \notin task[q].missed
      BY <1>8, <1>14, <2>1, <2>2, <2>3
    <3>2. Covers(task[q].scan, tb)
      BY <1>14, <2>2, <2>3, <3>1 DEF ScanInv
    <3> QED BY <1>1, <1>12, <2>2, <3>1, <3>2 DEF Covers
  <2> QED BY <1>1, <1>8, <1>14, <2>1, <2>2, <2>3 DEF ScanInv
<1>15. ASSUME loaded, NEW tb \in DOMAIN stored, tb[1] \notin Hidden, tb \notin behind
       PROVE  Covers(meta, tb)'
  <2>1. Covers(meta, tb)
    BY <1>2, <1>15 DEF CacheInv
  <2>2. CASE tb = tb0
    BY <1>0, <1>1, <1>4, <1>13, <2>1, <2>2 DEF Covers
  <2>3. CASE tb # tb0
    BY <1>1, <1>4, <1>12, <2>1, <2>3 DEF Covers
  <2> QED BY <2>2, <2>3
<1>16. CacheInv'
  BY <1>1, <1>15 DEF CacheInv
<1>17. DataInv'
  BY <1>1, <1>2, <1>5, <1>7, <1>9, <1>14, <1>16 DEF DataInv, TablesAreFinite, ScanInv
<1>18. \A q \in Threads : q \in Busy <=> (q \in Busy)'
  BY <1>1, <1>6, <1>8 DEF Busy
<1> QED BY <1>1, <1>17, <1>18, PoolUnused

(* A deletion takes rows away, and leaves the cache as it is.              *)
LEMMA DeleteStep ==
  ASSUME DataInv, PoolInv, NEW p \in Threads, Delete(p)
  PROVE  DataInv' /\ PoolInv'
<1> DEFINE old == task[p].todo \cap DOMAIN stored
           Kept(tb) == [t \in {t \in DOMAIN stored[tb] : Cutoff <= t} |-> stored[tb][t]]
<1>1. /\ task[p].pc = "run" /\ GiveBack
      /\ UNCHANGED <<meta, loaded, behind, size, closed>>
  BY DEF Delete
<1>2. p \in Busy
  BY <1>1 DEF Busy
<1>3. /\ TablesAreFinite /\ CacheInv
      /\ \A q \in Threads : TaskOK(q) /\ ReadInv(q) /\ ScanInv(q)
  BY DEF DataInv
<1>4. CASE Goto(p, "idle") /\ UNCHANGED stored
  BY <1>1, <1>2, <1>4, TellStep
<1>5. CASE /\ stored' = [tb \in DOMAIN stored |-> IF tb \in old THEN Kept(tb) ELSE stored[tb]]
           /\ task' = [q \in Threads |->
                IF q = p THEN NoTask
                ELSE IF task[q].table \in old
                THEN Noticed(task[q], task[q].table, Kept(task[q].table)) ELSE task[q]]
  <2>1. /\ DOMAIN stored' = DOMAIN stored
        /\ \A tb \in old : stored'[tb] = Kept(tb)
        /\ \A tb \in DOMAIN stored \ old : stored'[tb] = stored[tb]
    BY <1>5
  <2>2. \A tb \in DOMAIN stored : /\ DOMAIN Kept(tb) \subseteq DOMAIN stored[tb]
                                  /\ \A t \in DOMAIN Kept(tb) : Kept(tb)[t] = stored[tb][t]
    OBVIOUS
  <2>3. /\ DOMAIN task' = Threads /\ task'[p] = NoTask
        /\ \A q \in Threads \ {p} :
             task'[q] = IF task[q].table \in old
                        THEN Noticed(task[q], task[q].table, Kept(task[q].table)) ELSE task[q]
    BY <1>5
  <2>4. old \subseteq DOMAIN stored
    OBVIOUS
  <2> HIDE DEF Kept, old
  <2>5. \A tb \in DOMAIN stored :
          DOMAIN stored'[tb] \subseteq DOMAIN stored[tb]
          /\ \A t \in DOMAIN stored'[tb] : stored'[tb][t] = stored[tb][t]
    BY <2>1, <2>2
  <2>6. \A tb \in DOMAIN stored : Keys(stored'[tb]) \subseteq Keys(stored[tb])
    BY <2>5 DEF Keys
  <2>7. TablesAreFinite'
    BY <1>3, <2>1, <2>5, FS_Subset DEF TablesAreFinite
  <2>8. TaskOK(p)' /\ ReadInv(p)' /\ ScanInv(p)' /\ task'[p].pc = "idle"
    BY <2>3, NoTaskProperties DEF TaskOK, ReadInv, ScanInv
  <2>9. ASSUME NEW q \in Threads \ {p}
        PROVE  SameButReads(q) /\ TaskOK(q)' /\ ReadInv(q)'
    <3>1. PICK tb : tb = task[q].table
      OBVIOUS
    <3>2. CASE tb \in old
      <4>1. PICK rows : rows = Kept(tb)
        OBVIOUS
      <4>2. task'[q] = Noticed(task[q], tb, rows)
        BY <2>3, <3>1, <3>2, <4>1
      <4>3. Stored(tb)' = rows
        BY <2>1, <2>4, <3>2, <4>1 DEF Stored
      <4> QED BY <1>3, <3>1, <4>2, <4>3, Onlooker
    <3>3. CASE tb \notin old
      <4>1. task'[q] = task[q] /\ Stored(tb)' = Stored(tb)
        BY <2>1, <2>3, <3>1, <3>3 DEF Stored
      <4>2. ReadInv(q)'
        BY <1>3, <3>1, <4>1 DEF ReadInv
      <4> QED BY <1>3, <4>1, <4>2, Bystander
    <3> QED BY <3>2, <3>3
  <2>10. \A tb : Touching(tb)' = Touching(tb)
    BY <1>1, <2>8, <2>9 DEF Touching, SameButReads
  <2>11. \A tb : Coming(tb)' = Coming(tb)
    <3>1. \A tb : \A q \in Touching(tb) : task'[q].todo = task[q].todo
      BY <1>1, <2>9 DEF Touching, SameButReads
    <3> QED BY <2>10, <3>1 DEF Coming
  <2>12. CacheInv'
    BY <1>1, <1>3, <2>1, <2>6, <2>10, <2>11 DEF CacheInv, Covers
  <2>13. ASSUME NEW q \in Threads \ {p}
         PROVE  ScanInv(q)'
    <3>1. SameButReads(q) /\ ScanInv(q)
      BY <1>3, <2>9
    <3> QED BY <2>1, <2>6, <2>10, <2>11, <3>1 DEF ScanInv, Covers, SameButReads
  <2>14. DataInv'
    BY <2>3, <2>7, <2>8, <2>9, <2>12, <2>13 DEF DataInv
  <2>15. (p \notin Busy)' /\ \A q \in Threads \ {p} : q \in Busy <=> (q \in Busy)'
    BY <2>8, <2>9 DEF Busy, SameButReads
  <2> QED BY <1>1, <1>2, <2>14, <2>15, PoolGiven
<1> QED BY <1>4, <1>5 DEF Delete

-----------------------------------------------------------------------------
LEMMA InitIInv == Init => IInv
<1> SUFFICES ASSUME Init PROVE IInv
  OBVIOUS
<1>1. /\ DOMAIN task = Threads
      /\ \A p \in Threads : DOMAIN task[p] = Fields /\ task[p].pc = "idle" /\ task[p].op = "none"
  BY NoTaskProperties DEF Init
<1>2. \A p \in Threads : TaskOK(p) /\ ReadInv(p) /\ ScanInv(p)
  BY <1>1 DEF TaskOK, ReadInv, ScanInv, Reads
<1>3. TablesAreFinite
  BY DatabasesAssumption DEF Init, TablesAreFinite
<1>4. CacheInv
  BY DEF Init, CacheInv, Covers, Listed
<1>5. Busy = {}
  BY <1>1 DEF Busy
<1>6. PoolInv
  BY <1>5, FS_EmptySet, MaxCallsAssumption DEF Init, PoolInv, PoolIsWhole
<1>7. ReadsAreTrue
  BY DEF Init, ReadsAreTrue
<1> QED BY <1>1, <1>2, <1>3, <1>4, <1>6, <1>7 DEF IInv, DataInv

LEMMA QuietStep ==
  ASSUME DataInv, PoolInv, NEW p \in Threads, Quiet(p)
  PROVE  DataInv' /\ PoolInv'
BY AdmitStep, AcquireStep, FindStep, ScanTablesStep, ScanNamesStep, ScanEndStep, ReplaceStep,
   WriteStep, TouchStep, DeleteStep, FirstQueryStep, FailStep
DEF Quiet

LEMMA NextIInv == IInv /\ [Next]_vars => IInv'
<1> SUFFICES ASSUME IInv, [Next]_vars PROVE IInv'
  OBVIOUS
<1>1. DataInv /\ PoolInv
  BY DEF IInv
<1>2. answer' = << >> => ReadsAreTrue'
  BY DEF ReadsAreTrue
<1>3. ASSUME NEW p \in Threads, Step(p)
      PROVE  IInv'
  BY <1>1, <1>2, <1>3, QueryStep, SecondQueryStep, QuietStep DEF Step, IInv
<1>4. ASSUME NEW p \in Threads, Call(p), answer' = << >>
      PROVE  IInv'
  BY <1>1, <1>2, <1>4, CallStep DEF IInv
<1>5. CASE (CloseFlag \/ CloseIdle) /\ answer' = << >>
  BY <1>1, <1>2, <1>5, CloseStep DEF IInv
<1>6. CASE UNCHANGED vars
  <2>1. UNCHANGED <<stored, meta, loaded, task, answer, size, permits, idle, closed, behind>>
    BY <1>6 DEF vars
  <2>2. DataInv'
    BY <1>1, <2>1 DEF DataInv, TablesAreFinite, CacheInv, Covers, Touching, Coming, TaskOK,
                      ReadInv, ScanInv, Stored
  <2>3. PoolInv'
    BY <1>1, <2>1 DEF PoolInv, PoolIsWhole, Busy
  <2>4. ReadsAreTrue'
    BY <2>1 DEF IInv, ReadsAreTrue
  <2> QED BY <2>2, <2>3, <2>4 DEF IInv
<1> QED BY <1>3, <1>4, <1>5, <1>6 DEF Next

(* The inductive invariant holds in every state the threads reach.         *)
THEOREM SpecIInv == Spec => []IInv
BY InitIInv, NextIInv, PTL DEF Spec

(* However many threads and connections, permits and connections in use    *)
(* always make up max_size, no more are open, and a closed pool keeps none *)
(* (_MiniPool.connection, close).                                          *)
THEOREM SpecPoolIsWhole == Spec => []PoolIsWhole
<1>1. IInv => PoolIsWhole
  BY DEF IInv, PoolInv
<1> QED BY <1>1, SpecIInv, PTL

(* Whatever is written, deleted, scanned, failed and migrated meanwhile, a *)
(* cache that is loaded has every table and indicator a write has stored,  *)
(* but for schemas scans pass over, writes that are about to tell it, and  *)
(* those the last scan missed (_scan_metadata, _touch_meta).               *)
THEOREM SpecCacheIsTrue == Spec => []CacheIsTrue
<1>1. IInv => CacheIsTrue
  <2> SUFFICES ASSUME IInv, loaded, NEW tb \in DOMAIN stored,
                      tb[1] \notin Hidden, tb \notin behind, Touching(tb) = {}
               PROVE  tb \in DOMAIN meta /\ Keys(stored[tb]) \subseteq meta[tb]
    BY DEF CacheIsTrue, Touching
  <2>1. Covers(meta, tb)
    BY DEF IInv, DataInv, CacheInv
  <2>2. Coming(tb) = {}
    BY DEF Coming
  <2> QED BY <2>1, <2>2 DEF Covers
<1> QED BY <1>1, SpecIInv, PTL

(* What a read returns was true of its table at some moment of the call,   *)
(* if its two statements saw the same rows, for every batch written and    *)
(* every deletion; a window told complete has its records (the queries,    *)
(* is_indicator_complete, get_indicator_stats).                            *)
THEOREM SpecReadsAreTrue == Spec => []ReadsAreTrue
<1>1. IInv => ReadsAreTrue
  BY DEF IInv
<1> QED BY <1>1, SpecIInv, PTL
=============================================================================
