---------------------------- MODULE CandleStore ----------------------------
(***************************************************************************)
(* CandleStore (src/src/trex/server/store.py): the in-memory cache of one  *)
(* (symbol, timeframe) pair.  Feeder threads upsert bars under the lock;   *)
(* the close callback is called after the lock is released, so it is a     *)
(* step of its own.  Every method that only reads is an operator.          *)
(*                                                                         *)
(* A bar is its time and a revision that stands for its prices.  The body  *)
(* of a `with self._lock` block is one step.                               *)
(***************************************************************************)
EXTENDS Integers, Sequences, FiniteSets, SequencesExt

CONSTANTS Time,      \* bar times
          Rev,       \* the contents a bar can have
          MaxBars,   \* max_bars
          Feeders,   \* the threads that call update()
          Batches,   \* the lists seed() is called with
          Sizes,     \* the positive numbers of bars the queries ask for
          NoBar      \* None

Bar == [time : Time, rev : Rev]

ASSUME TimeAssumption == Time \subseteq Nat
ASSUME MaxBarsAssumption == MaxBars \in Nat \ {0}
ASSUME BatchesAssumption == Batches \subseteq Seq(Bar)
ASSUME SizesAssumption == Sizes \subseteq Nat \ {0}
ASSUME NoBarAssumption == NoBar \notin Bar

VARIABLES bars,        \* _bars
          times,       \* _times, the mirror searched by bisect
          closing,     \* per feeder: the bar its callback is still owed
          closedTimes  \* history: the times found closed since seed()

vars == <<bars, times, closing, closedTimes>>

-----------------------------------------------------------------------------
Ascending(s) == \A i, j \in DOMAIN s : i < j => s[i] < s[j]

TimesOf(s) == [i \in DOMAIN s |-> s[i].time]

(* bisect.bisect_left: how many elements of the sorted s are below x. *)
BisectLeft(s, x) ==
  CHOOSE i \in 0..Len(s) : /\ \A j \in 1..i : s[j] < x
                           /\ \A j \in (i+1)..Len(s) : s[j] >= x

(* _evict() on either array: s[drop:]. *)
Drop(s) == IF Len(s) > MaxBars THEN Len(s) - MaxBars ELSE 0

(* Mutant: the newest go. *)
EvictNewest(s) == SubSeq(s, 1, Len(s) - Drop(s))

Evict(s) == SubSeq(s, 1 + Drop(s), Len(s))

(* The list seed() keeps: one bar per time, ascending, the last one of a   *)
(* time in the order given (the sort is stable, the dict keeps the last).  *)
IsSeedOf(s, batch) ==
  /\ Ascending(TimesOf(s))
  /\ {s[i].time : i \in DOMAIN s} = {batch[i].time : i \in DOMAIN batch}
  /\ \A i \in DOMAIN s : \E j \in DOMAIN batch :
       /\ s[i] = batch[j]
       /\ \A k \in DOMAIN batch : k > j => batch[k].time # batch[j].time

-----------------------------------------------------------------------------
Init ==
  /\ bars = << >>
  /\ times = << >>
  /\ closing = [f \in Feeders |-> NoBar]
  /\ closedTimes = {}

(* Mutant: the mirror is not evicted. *)
SeedWholeMirror ==
  \E batch \in Batches :
    \E n \in 0..Len(batch) : \E s \in [1..n -> {batch[i] : i \in DOMAIN batch}] :
      /\ IsSeedOf(s, batch)
      /\ bars' = Evict(s)
      /\ times' = TimesOf(s)
      /\ closedTimes' = {}
      /\ UNCHANGED closing

(* seed(): replaces the arrays; the bars held before are gone. *)
Seed ==
  \E batch \in Batches :
    \E n \in 0..Len(batch) : \E s \in [1..n -> {batch[i] : i \in DOMAIN batch}] :
      /\ IsSeedOf(s, batch)
      /\ bars' = Evict(s)
      /\ times' = Evict(TimesOf(s))
      /\ closedTimes' = {}
      /\ UNCHANGED closing

(* update() of a bar of the open time: replaced in place. *)
UpdateTick(f, bar) ==
  /\ closing[f] = NoBar
  /\ times # << >> /\ bar.time = Last(times)
  /\ bars' = [bars EXCEPT ![Len(bars)] = bar]
  /\ UNCHANGED <<times, closing, closedTimes>>

(* update() of an older bar: replaced, or inserted where bisect says.      *)
(* Nothing is evicted on this branch.                                      *)
UpdateLate(f, bar) ==
  /\ closing[f] = NoBar
  /\ times # << >> /\ bar.time < Last(times)
  /\ LET idx == BisectLeft(times, bar.time)
     IN  IF idx < Len(times) /\ times[idx + 1] = bar.time
         THEN /\ bars' = [bars EXCEPT ![idx + 1] = bar]
              /\ times' = times
         ELSE /\ bars' = InsertAt(bars, idx + 1, bar)
              /\ times' = InsertAt(times, idx + 1, bar.time)
  /\ UNCHANGED <<closing, closedTimes>>

(* Mutant: a tick of the open bar is appended, too. *)
UpdateAppendTick(f, bar) ==
  /\ closing[f] = NoBar
  /\ times # << >> => bar.time >= Last(times)
  /\ bars' = Evict(Append(bars, bar))
  /\ times' = Evict(Append(times, bar.time))
  /\ IF bars = << >>
     THEN UNCHANGED <<closing, closedTimes>>
     ELSE /\ closing' = [closing EXCEPT ![f] = Last(bars)]
          /\ closedTimes' = closedTimes \cup {Last(bars).time}

(* update() of a newer bar: appended, the oldest evicted; the bar that was *)
(* last has closed and its callback is owed once the lock is released.     *)
UpdateAppend(f, bar) ==
  /\ closing[f] = NoBar
  /\ times # << >> => bar.time > Last(times)
  /\ bars' = Evict(Append(bars, bar))
  /\ times' = Evict(Append(times, bar.time))
  /\ IF bars = << >>
     THEN UNCHANGED <<closing, closedTimes>>
     ELSE /\ closing' = [closing EXCEPT ![f] = Last(bars)]
          /\ closedTimes' = closedTimes \cup {Last(bars).time}

(* on_bar_close(closed_bar), after the lock. *)
FireClose(f) ==
  /\ closing[f] # NoBar
  /\ closing' = [closing EXCEPT ![f] = NoBar]
  /\ UNCHANGED <<bars, times, closedTimes>>

Update(f, bar) == UpdateTick(f, bar) \/ UpdateLate(f, bar) \/ UpdateAppend(f, bar)

Next ==
  \/ Seed
  \/ \E f \in Feeders : FireClose(f) \/ \E bar \in Bar : Update(f, bar)

Spec == Init /\ [][Next]_vars

-----------------------------------------------------------------------------
(* The query of a history page; recent() is modelled in LiveChart. *)

(* Mutant: the page begins one bar late. *)
HistoryPageShort(before, count) ==
  LET idx   == BisectLeft(times, before)
      start == IF idx - count >= 0 THEN idx - count + 1 ELSE 0
  IN  SubSeq(bars, start + 1, idx)

(* history_page(before, count): idx is searched in times, cut from bars. *)
HistoryPage(before, count) ==
  LET idx   == BisectLeft(times, before)
      start == IF idx - count > 0 THEN idx - count ELSE 0
  IN  SubSeq(bars, start + 1, idx)

-----------------------------------------------------------------------------
(* Properties. *)

(* The two arrays hold bars and times, and what a feeder owes is a bar. *)
TypeOK ==
  /\ bars \in Seq(Bar)
  /\ times \in Seq(Time)
  /\ closing \in [Feeders -> Bar \cup {NoBar}]
  /\ closedTimes \subseteq Time

(* "sorted mirror for bisect -- always in sync": the arrays have one entry *)
(* per bar, agree on every time, and are strictly ascending, so bisect     *)
(* finds the bar it is asked for.                                          *)
InSync ==
  /\ Len(times) = Len(bars)
  /\ \A i \in 1..Len(bars) : times[i] = bars[i].time
  /\ Ascending(times)

(* A history page is the newest `count` bars older than `before`: paging   *)
(* backwards skips no bar, repeats none, and an empty page means that      *)
(* there is nothing older (the terminal stops asking then).                *)
PagesAreContiguous ==
  \A before \in Time, count \in Sizes :
    LET page  == HistoryPage(before, count)
        older == {i \in 1..Len(bars) : bars[i].time < before}
    IN  /\ \A k \in 1..Len(page) : page[k].time < before
        /\ older # {} => page # << >>
        /\ \A i \in older :
             \/ \E k \in 1..Len(page) : page[k] = bars[i]
             \/ Len(page) = count /\ bars[i].time < page[1].time

(* A time is found closed once between two seeds, whatever the feeders'    *)
(* order: late bars and ticks never reopen a closed bar.                   *)
CloseOnce ==
  [][\A f \in Feeders : closing[f] = NoBar /\ closing'[f] # NoBar
                          => closing'[f].time \notin closedTimes]_vars

(* The arrays implement the map that TimeSeries describes. *)
heldBars ==
  [t \in {bars[i].time : i \in DOMAIN bars} |->
     bars[CHOOSE i \in DOMAIN bars : bars[i].time = t].rev]

Abstract == INSTANCE TimeSeries WITH held <- heldBars

(* Every step of the store is a step of the map: an update loses no bar    *)
(* but the oldest, and only when it appends.                               *)
ImplementsTimeSeries == Abstract!Spec
=============================================================================
