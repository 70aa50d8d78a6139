------------------------------ MODULE AutoSeed ------------------------------
(***************************************************************************)
(* AutoEngine with a database (src/src/trex/engine/auto.py): at the start  *)
(* of the program seed() feeds every stored bar to the indicators and      *)
(* saves the values the database lacks; then push() saves each live bar,   *)
(* feeds it, and the indicators save their values one by one.  One thread  *)
(* does all of it.  The program can go down at any point, and any write    *)
(* can fail: failures are logged and passed over.                          *)
(*                                                                         *)
(* One symbol.  A bar is its time, and whether its prices are real; an     *)
(* indicator's value is the sequence of candles it was computed over.      *)
(***************************************************************************)
EXTENDS Integers, Sequences, FiniteSets, SequencesExt

CONSTANTS Inds,     \* the registered indicators, in that order
          Frame,    \* indicator -> candles of one of its bars: 1 for the
                    \* indicators of the timeframe that is seeded
          Period,   \* indicator -> bars of its window
          Snapshot, \* snapshot_size
          Offset,   \* local time less UTC, on the program's machine
          Failing,  \* the calls of the database that may fail
          NoValue,  \* where no value is stored
          MaxTime,  \* the last bar of the exchange, a bound
          MaxRuns   \* starts of the program, a bound

Names == Range(Inds)

Times == (IF Offset > 0 THEN 1 - Offset ELSE 1)..(IF Offset < 0 THEN MaxTime - Offset ELSE MaxTime)

Candles == [time : Times, real : BOOLEAN]

ASSUME IndsAssumption == Inds \in Seq(Names) /\ IsInjective(Inds)
ASSUME FrameAssumption == Frame \in [Names -> Nat \ {0}]
ASSUME PeriodAssumption == Period \in [Names -> Nat \ {0}]
ASSUME SizesAssumption == Snapshot \in Nat \ {0} /\ Offset \in Int
ASSUME FailingAssumption == Failing \subseteq {"candle", "value", "bulk", "stats"}
ASSUME BoundsAssumption == MaxTime \in Nat /\ MaxRuns \in Nat
ASSUME NoValueAssumption == NoValue \notin Seq(Candles)

VARIABLES rows,     \* the database: time -> "none", "candle", or "null" for a
                    \* row whose OHLCV columns are NULL
          values,   \* the database: indicator -> time -> value
          pc,       \* where the program is, "down" when it does not run
          runs,     \* how often it was started
          clock,    \* the newest bar of the exchange
          bars,     \* the bars seed() has fetched
          fed,      \* how many of them it has fed
          candle,   \* the candle being provided
          todo,     \* the indicators that have not consumed it
          engine,   \* indicator -> its unfinished bar and its window
          booted,   \* whether the converter has left its boot phase
          known,    \* last_calc: indicator -> last_time, 0 for none
          pending,  \* seed()'s: indicator -> time -> value
          memory,   \* the times in the CandleStore
          lost,     \* history: the values whose writing failed, by time
          unsaved   \* history: the bars whose writing failed

autoVars == <<rows, values, pc, runs, clock, bars, fed, candle, todo, engine, booted,
          known, pending, memory, lost, unsaved>>

NoValues == [i \in Names |-> [t \in Times |-> NoValue]]

(* A newly registered indicator. *)
NewEngine == [i \in Names |-> [part |-> << >>, window |-> << >>]]

(* In the order of time: the n-th is the one with n of them up to it.      *)
Ascending(ts) ==
  [n \in 1..Cardinality(ts) |-> CHOOSE t \in ts : Cardinality({u \in ts : u <= t}) = n]

TimesOf(s) == [n \in DOMAIN s |-> s[n].time]

LastOf(s, n) == IF Len(s) > n THEN SubSeq(s, Len(s) - n + 1, Len(s)) ELSE s

-----------------------------------------------------------------------------
(* The registry holds the indicators of the seeded timeframe apart.        *)
Seeded == {i \in Names : Frame[i] = 1}

(* fetch_bars(): a NULL column is read as 0. *)
FetchBars ==
  LET stored == Ascending({t \in Times : rows[t] # "none"})
  IN [n \in DOMAIN stored |-> [time |-> stored[n], real |-> rows[stored[n]] = "candle"]]

(* Mutant: the newest stored bar counts as calculated. *)
LastTimeOfBars(i) ==
  LET ts == {t \in Times : rows[t] # "none"}
  IN IF ts = {} THEN 0 ELSE CHOOSE t \in ts : \A u \in ts : u <= t

(* get_indicator_stats()["last_time"] *)
LastTime(i) ==
  LET ts == {t \in Times : values[i][t] # NoValue}
  IN IF ts = {} THEN 0 ELSE CHOOSE t \in ts : \A u \in ts : u <= t

(* An INSERT ... ON CONFLICT of values: a missing row is made, with NULLs. *)
WithRows(ts) == [t \in Times |-> IF t \in ts /\ rows[t] = "none" THEN "null" ELSE rows[t]]

(* The converter gathers candles from the opening of a bar on, and closes  *)
(* it by count; a bar of one candle is the candle.                         *)
Gathered(i, c) ==
  IF engine[i].part = << >> /\ c.time % Frame[i] # 0 THEN << >>
  ELSE Append(engine[i].part, c)

IsBar(i, part) == Len(part) = Frame[i]

Window(i, part) == LastOf(engine[i].window \o part, Period[i] * Frame[i])

(* Mutant: a value is given the time it is computed at. *)
StampNow(part) == clock

(* _on_emit(): the candle's time went through utcfromtimestamp(), and back *)
(* through timestamp(), which takes it for local time.                     *)
Stamp(part) == Head(part).time - Offset

-----------------------------------------------------------------------------
AutoInit ==
  /\ rows = [t \in Times |-> "none"]
  /\ values = NoValues
  /\ pc = "down" /\ runs = 0 /\ clock = 0
  /\ bars = << >> /\ fed = 0 /\ candle = << >> /\ todo = << >>
  /\ engine = NewEngine /\ booted = FALSE
  /\ known = [i \in Names |-> 0] /\ pending = NoValues
  /\ memory = << >>
  /\ lost = [i \in Names |-> {}]
  /\ unsaved = {}

(* init(), and the registrations that wire the live hooks. *)
Start ==
  /\ pc = "down" /\ runs < MaxRuns
  /\ pc' = "up"
  /\ runs' = runs + 1
  /\ UNCHANGED <<rows, values, clock, bars, fed, candle, todo, engine, booted, known,
                 pending, memory, lost, unsaved>>

(* The process ends: what is not in the database is gone. *)
Crash ==
  /\ pc # "down"
  /\ pc' = "down"
  /\ bars' = << >> /\ fed' = 0 /\ candle' = << >> /\ todo' = << >>
  /\ engine' = NewEngine /\ booted' = FALSE
  /\ known' = [i \in Names |-> 0] /\ pending' = NoValues
  /\ memory' = << >>
  /\ UNCHANGED <<rows, values, runs, clock, lost, unsaved>>

(* Time passes, and nobody pushes the exchange's bar. *)
Missed ==
  /\ pc # "ready" /\ clock < MaxTime
  /\ clock' = clock + 1
  /\ UNCHANGED <<rows, values, pc, runs, bars, fed, candle, todo, engine, booted,
                 known, pending, memory, lost, unsaved>>

(* seed(), down to where the seed hooks are set.                           *)
SeedFetch ==
  /\ pc = "up"
  /\ IF Seeded # {} /\ FetchBars # << >>
     THEN /\ known' \in {[i \in Names |-> IF i \in asked THEN LastTime(i) ELSE 0] :
                           asked \in IF "stats" \in Failing THEN SUBSET Seeded ELSE {Seeded}}
          /\ bars' = FetchBars
          /\ pc' = "feed"
          /\ UNCHANGED memory
     ELSE /\ pc' = "ready"
          /\ memory' = LastOf(TimesOf(FetchBars), Snapshot)
          /\ UNCHANGED <<bars, known>>
  /\ UNCHANGED <<rows, values, runs, clock, fed, candle, todo, engine, booted,
                 pending, lost, unsaved>>

(* ctx.provide(c): the converter spends its first candle on its boot. *)
Provide(c) ==
  /\ booted' = TRUE
  /\ IF booted THEN candle' = <<c>> /\ todo' = Inds ELSE UNCHANGED <<candle, todo>>

SeedFeed ==
  /\ pc = "feed" /\ todo = << >> /\ fed < Len(bars)
  /\ Provide(bars[fed + 1])
  /\ fed' = fed + 1
  /\ UNCHANGED <<rows, values, pc, runs, clock, bars, engine, known, pending, memory,
                 lost, unsaved>>

(* The hook seed() sets: values beyond the last one are put aside. *)
SeedHook(i, t, v) ==
  /\ pending' = IF t > known[i] THEN [pending EXCEPT ![i][t] = v] ELSE pending
  /\ UNCHANGED <<rows, values, lost>>

(* The hook wire_indicator() sets: broadcast, then update_indicator_only(). *)
LiveHook(i, t, v) ==
  /\ \/ /\ values' = [values EXCEPT ![i][t] = v]
        /\ rows' = IF i \in Seeded THEN WithRows({t}) ELSE rows
        /\ UNCHANGED lost
     \/ /\ "value" \in Failing
        /\ lost' = [lost EXCEPT ![i] = @ \cup {t}]
        /\ UNCHANGED <<rows, values>>
  /\ UNCHANGED pending

Hook(i, t, v) ==
  IF pc = "feed" /\ i \in Seeded THEN SeedHook(i, t, v) ELSE LiveHook(i, t, v)

(* One indicator's turn in the converter's loops. *)
Consume ==
  /\ todo # << >>
  /\ LET i == Head(todo)
         part == Gathered(i, Head(candle))
         window == Window(i, part)
     IN IF IsBar(i, part)
        THEN /\ engine' = [engine EXCEPT ![i] = [part |-> << >>, window |-> window]]
             /\ IF Len(window) = Period[i] * Frame[i]
                THEN Hook(i, Stamp(part), window)
                ELSE UNCHANGED <<rows, values, lost, pending>>
        ELSE /\ engine' = [engine EXCEPT ![i].part = part]
             /\ UNCHANGED <<rows, values, lost, pending>>
  /\ todo' = Tail(todo)
  /\ candle' = IF Len(todo) = 1 THEN << >> ELSE candle
  /\ UNCHANGED <<pc, runs, clock, bars, fed, booted, known, memory, unsaved>>

(* bulk_update_indicators(): one transaction. *)
SeedSave ==
  /\ pc = "feed" /\ todo = << >> /\ fed = Len(bars)
  /\ LET due == [i \in Names |-> {t \in Times : pending[i][t] # NoValue}]
     IN \/ /\ values' = [i \in Names |-> [t \in Times |->
                           IF t \in due[i] THEN pending[i][t] ELSE values[i][t]]]
           /\ rows' = WithRows(UNION {due[i] : i \in Names})
           /\ lost' = [i \in Names |-> lost[i] \ due[i]]
        \/ /\ "bulk" \in Failing /\ \E i \in Names : due[i] # {}
           /\ lost' = [i \in Names |-> lost[i] \cup due[i]]
           /\ UNCHANGED <<rows, values>>
  /\ pc' = "saved"
  /\ UNCHANGED <<runs, clock, bars, fed, candle, todo, engine, booted, known, pending,
                 memory, unsaved>>

(* Mutant: the oldest bars go to the memory. *)
SeedEndOldest ==
  /\ pc = "saved"
  /\ memory' = SubSeq(TimesOf(bars), 1, IF Len(bars) < Snapshot THEN Len(bars) ELSE Snapshot)
  /\ pending' = NoValues
  /\ pc' = "ready"
  /\ UNCHANGED <<rows, values, runs, clock, bars, fed, candle, todo, engine, booted,
                 known, lost, unsaved>>

(* The memory store is seeded with the fetched bars, and the live hooks    *)
(* are wired again.                                                        *)
SeedEnd ==
  /\ pc = "saved"
  /\ memory' = LastOf(TimesOf(bars), Snapshot)
  /\ pending' = NoValues
  /\ pc' = "ready"
  /\ UNCHANGED <<rows, values, runs, clock, bars, fed, candle, todo, engine, booted,
                 known, lost, unsaved>>

(* push(): the bar is saved, kept in memory, and provided.                 *)
Push ==
  /\ pc = "ready" /\ todo = << >> /\ clock < MaxTime
  /\ clock' = clock + 1
  /\ \/ /\ rows' = [rows EXCEPT ![clock + 1] = "candle"]
        /\ UNCHANGED unsaved
     \/ /\ "candle" \in Failing
        /\ unsaved' = unsaved \cup {clock + 1}
        /\ UNCHANGED rows
  /\ memory' = Append(memory, clock + 1)
  /\ Provide([time |-> clock + 1, real |-> TRUE])
  /\ UNCHANGED <<values, pc, runs, bars, fed, engine, known, pending, lost>>

AutoNext == Start \/ Crash \/ Missed \/ SeedFetch \/ SeedFeed \/ Consume \/ SeedSave
        \/ SeedEnd \/ Push

AutoSpec == AutoInit /\ [][AutoNext]_autoVars

-----------------------------------------------------------------------------
(* Values are windows of candles, and nothing lies beyond the bound.       *)
AutoTypeOK ==
  /\ rows \in [Times -> {"none", "candle", "null"}]
  /\ values \in [Names -> [Times -> Seq(Candles) \cup {NoValue}]]
  /\ pc \in {"down", "up", "feed", "saved", "ready"}
  /\ runs \in Nat /\ clock \in 0..MaxTime
  /\ bars \in Seq(Candles) /\ fed \in 0..Len(bars)
  /\ candle \in Seq(Candles) /\ todo \in Seq(Names)
  /\ engine \in [Names -> [part : Seq(Candles), window : Seq(Candles)]]
  /\ booted \in BOOLEAN /\ known \in [Names -> Nat]
  /\ pending \in [Names -> [Times -> Seq(Candles) \cup {NoValue}]]
  /\ memory \in Seq(Times)
  /\ lost \in [Names -> SUBSET Times] /\ unsaved \subseteq Times

(* The candles of the database up to a time, in order. *)
Stored(t) ==
  LET ts == Ascending({u \in Times : rows[u] = "candle" /\ u <= t})
  IN [n \in DOMAIN ts |-> [time |-> ts[n], real |-> TRUE]]

(* Up to the first bar that could not be saved, whichever of seed() and    *)
(* push() computed it, in whichever run of the program: a stored value is  *)
(* the one of the stored candles that end at its time.  (The first candle  *)
(* of all is never fed.)                                                   *)
ValuesAreRight ==
  \A i \in Seeded : \A t \in Times :
    values[i][t] # NoValue /\ (\A u \in unsaved : t < u) =>
      /\ rows[t] = "candle"
      /\ Len(Stored(t)) > Period[i]
      /\ values[i][t] = LastOf(Stored(t), Period[i])

(* A program that is ready has every value of its candles in the database, *)
(* wherever an earlier run of it ended; but for those whose writing failed *)
(* and that no later seed() has written.                                   *)
SeedIsComplete ==
  pc = "ready" /\ todo = << >> =>
    \A i \in Seeded : \A t \in Times :
      rows[t] = "candle" /\ Len(Stored(t)) > Period[i] =>
        values[i][t] # NoValue \/ t \in lost[i]

(* What a client is shown first is the end of what the database has, if    *)
(* every bar could be saved.                                               *)
MemoryIsTail ==
  pc = "ready" /\ unsaved = {} =>
    /\ memory = LastOf(TimesOf(Stored(MaxTime)), Len(memory))
    /\ Len(memory) >= Len(LastOf(Stored(MaxTime), Snapshot))
=============================================================================
