---------------------------- MODULE ChartHistory ----------------------------
(***************************************************************************)
(* The terminal's candle cache (src/src/chartEngine.ts): a snapshot fills  *)
(* it, live bars extend it and trim it, and scrolling to its left edge     *)
(* asks the server for a page of older candles, in the next animation      *)
(* frame, with an eight second timer against a server that never answers.  *)
(* The server is the store behind AutoEngine's hooks, one message at a     *)
(* time; both ways between them are streams.                               *)
(***************************************************************************)
EXTENDS Integers, FiniteSets, Sequences, SequencesExt

CONSTANTS Symbols,
          First,       \* symbol -> the oldest time its store has
          Start,       \* the newest time of every store at the start
          Page,        \* candles of a snapshot, and HISTORY_CHUNK
          MaxCache,    \* MAX_CACHE
          TrimTo,      \* TRIM_TO
          MaxTime,     \* the newest time ever, a bound
          MaxRequests, \* the requests for history, a bound
          MaxSwitches  \* the snapshots the user asks for, a bound

ASSUME FirstAssumption == First \in [Symbols -> 1..Start]
ASSUME TimesAssumption == Start \in Nat /\ MaxTime \in Nat /\ Start <= MaxTime
ASSUME PageAssumption == Page \in Nat \ {0}
ASSUME TrimAssumption == MaxCache \in Nat /\ TrimTo \in 1..(MaxCache - 1)
ASSUME BoundsAssumption == MaxRequests \in Nat /\ MaxSwitches \in Nat

Candles == [of : Symbols, time : 1..MaxTime]

VARIABLES candles,        \* this.candles
          noMoreHistory,  \* this.noMoreHistory
          historyPending, \* this.historyPending
          historyTimeout, \* this.historyTimeout: a request's number, 0 for null
          timers,         \* the timers that have not fired, by request
          frames,         \* requests put off to the next animation frame
          requests,       \* how many were made
          switches,       \* how often the user asked for a snapshot
          inbox,          \* messages on their way to the server
          serving,        \* the session's symbol
          newest,         \* symbol -> the newest time of its store
          wire,           \* messages on their way to the terminal
          late,           \* history: an answer took more than eight seconds
          trimmed         \* history: the cache was trimmed

engine == <<candles, noMoreHistory, historyPending, historyTimeout, timers>>
history == <<late, trimmed>>
vars == <<engine, frames, requests, switches, inbox, serving, newest, wire, history>>

(* The candles of a symbol's store from one time to another. *)
StoreBetween(s, from, to) == [i \in 1..(IF from > to THEN 0 ELSE to - from + 1) |->
                                [of |-> s, time |-> from + i - 1]]

(* The oldest time of the page of a store that ends at a time. *)
From(s, last) == IF First[s] + Page > last + 1 THEN First[s] ELSE (last + 1) - Page

Snapshot(s) == [type |-> "snapshot", bars |-> StoreBetween(s, From(s, newest[s]), newest[s])]

Init ==
  /\ serving \in Symbols
  /\ newest = [s \in Symbols |-> Start]
  /\ candles = << >>
  /\ noMoreHistory = FALSE /\ historyPending = FALSE
  /\ historyTimeout = 0 /\ timers = {}
  /\ frames = << >> /\ requests = 0 /\ switches = 0
  /\ inbox = << >>
  /\ wire = <<Snapshot(serving)>>
  /\ late = FALSE /\ trimmed = FALSE

-----------------------------------------------------------------------------
(* The user.                                                               *)

(* onVisibleRangeChange() near the left edge. *)
ScrollLeft ==
  /\ ~ historyPending /\ ~ noMoreHistory /\ candles # << >>
  /\ requests < MaxRequests
  /\ requests' = requests + 1
  /\ historyPending' = TRUE
  /\ frames' = Append(frames, [before |-> candles[1].time, no |-> requests'])
  /\ timers' = timers \cup {requests'} /\ historyTimeout' = requests'
  /\ UNCHANGED <<candles, noMoreHistory, switches, inbox, serving, newest, wire, history>>

AnimationFrame ==
  /\ frames # << >>
  /\ frames' = Tail(frames)
  /\ inbox' = Append(inbox, [type |-> "history", before |-> Head(frames).before,
                             no |-> Head(frames).no])
  /\ UNCHANGED <<engine, requests, switches, serving, newest, wire, history>>

(* changeSymbol(), or a change of timeframe that stays with the symbol. *)
Switch(s) ==
  /\ switches < MaxSwitches
  /\ switches' = switches + 1
  /\ inbox' = Append(inbox, [type |-> "symbol", symbol |-> s])
  /\ UNCHANGED <<engine, frames, requests, serving, newest, wire, history>>

(* The requests whose page has not come. *)
Outstanding ==
  {frames[i].no : i \in DOMAIN frames}
    \cup {inbox[i].no : i \in {j \in DOMAIN inbox : inbox[j].type = "history"}}
    \cup {wire[i].no : i \in {j \in DOMAIN wire : wire[j].type = "history"}}

(* "safety valve - don't deadlock if the server never answers" *)
TimerFires(no) ==
  /\ no \in timers
  /\ timers' = timers \ {no}
  /\ late' = (late \/ no \in Outstanding)
  /\ historyPending' = FALSE
  /\ UNCHANGED <<candles, noMoreHistory, historyTimeout, frames, requests, switches,
                 inbox, serving, newest, wire, trimmed>>

-----------------------------------------------------------------------------
(* The server.                                                             *)

Serve ==
  /\ inbox # << >>
  /\ inbox' = Tail(inbox)
  /\ LET m == Head(inbox)
     IN  IF m.type = "symbol"
         THEN /\ serving' = m.symbol
              /\ wire' = Append(wire, Snapshot(m.symbol))
         ELSE /\ wire' = Append(wire,
                   [type |-> "history", no |-> m.no,
                    bars |-> StoreBetween(serving, From(serving, m.before - 1), m.before - 1)])
              /\ UNCHANGED serving
  /\ UNCHANGED <<engine, frames, requests, switches, newest, history>>

Push ==
  /\ newest[serving] < MaxTime
  /\ newest' = [newest EXCEPT ![serving] = @ + 1]
  /\ wire' = Append(wire, [type |-> "bar", bar |-> [of |-> serving, time |-> newest'[serving]]])
  /\ UNCHANGED <<engine, frames, requests, switches, inbox, serving, history>>

-----------------------------------------------------------------------------
(* What the engine makes of a message.                                     *)

SetCandles(bars) ==
  /\ candles' = bars
  /\ noMoreHistory' = FALSE /\ historyPending' = FALSE
  /\ UNCHANGED <<historyTimeout, timers, trimmed>>

(* What filter() keeps of a page: a page ascends (protocol.ts:547), so its *)
(* candles older than the oldest here are its first ones.                  *)
OlderOf(page) ==
  SubSeq(page, 1, Cardinality({i \in DOMAIN page :
                                 candles = << >> \/ page[i].time < candles[1].time}))

(* Mutant: a page is taken as it comes. *)
PrependAll(older) ==
  /\ historyPending' = FALSE
  /\ timers' = timers \ {historyTimeout} /\ historyTimeout' = 0
  /\ candles' = older \o candles
  /\ noMoreHistory' = (noMoreHistory \/ older = << >>)
  /\ UNCHANGED trimmed

(* Mutant: off by one. *)
PrependBelow(older) ==
  /\ historyPending' = FALSE
  /\ timers' = timers \ {historyTimeout} /\ historyTimeout' = 0
  /\ LET add == SelectSeq(older, LAMBDA c : candles = << >> \/ c.time < candles[1].time - 1)
     IN  /\ candles' = add \o candles
         /\ noMoreHistory' = (noMoreHistory \/ add = << >>)
  /\ UNCHANGED trimmed

(* Mutant: a page that is not full is taken for the last. *)
PrependLatches(older) ==
  /\ historyPending' = FALSE
  /\ timers' = timers \ {historyTimeout} /\ historyTimeout' = 0
  /\ candles' = OlderOf(older) \o candles
  /\ noMoreHistory' = (Len(older) <= Page)
  /\ UNCHANGED trimmed

(* Mutant: the timer is cleared, and the flag it would reset is not. *)
PrependKeepsPending(older) ==
  /\ timers' = timers \ {historyTimeout} /\ historyTimeout' = 0
  /\ candles' = OlderOf(older) \o candles
  /\ noMoreHistory' = (noMoreHistory \/ OlderOf(older) = << >>)
  /\ UNCHANGED <<historyPending, trimmed>>

(* prependHistory(): a page without an older candle says there is none. *)
PrependHistory(older) ==
  /\ historyPending' = FALSE
  /\ timers' = timers \ {historyTimeout} /\ historyTimeout' = 0
  /\ candles' = OlderOf(older) \o candles
  /\ noMoreHistory' = (noMoreHistory \/ OlderOf(older) = << >>)
  /\ UNCHANGED trimmed

(* maybeTrimCache(), if the user is near the right edge. *)
Trimmed(cs, near) ==
  IF Len(cs) > MaxCache /\ near THEN SubSeq(cs, Len(cs) - TrimTo + 1, Len(cs)) ELSE cs

(* applyBar() *)
ApplyBar(b, near) ==
  /\ candles' = IF candles = << >> \/ b.time > Last(candles).time
                THEN Trimmed(Append(candles, b), near)
                ELSE [i \in DOMAIN candles |-> IF candles[i].time = b.time THEN b ELSE candles[i]]
  /\ trimmed' = (trimmed \/ Len(candles') < Len(candles))
  /\ UNCHANGED <<noMoreHistory, historyPending, historyTimeout, timers>>

Receive ==
  /\ wire # << >>
  /\ wire' = Tail(wire)
  /\ LET m == Head(wire)
     IN  \/ m.type = "snapshot" /\ SetCandles(m.bars)
         \/ m.type = "history" /\ PrependHistory(m.bars)
         \/ m.type = "bar" /\ \E near \in BOOLEAN : ApplyBar(m.bar, near)
  /\ UNCHANGED <<frames, requests, switches, inbox, serving, newest, late>>

-----------------------------------------------------------------------------
Next ==
  \/ ScrollLeft \/ AnimationFrame
  \/ \E s \in Symbols : Switch(s)
  \/ \E no \in 1..MaxRequests : TimerFires(no)
  \/ Serve \/ Push \/ Receive

(* The server answers, the browser draws and receives, and the user keeps  *)
(* scrolling to the left edge.                                             *)
Spec ==
  /\ Init /\ [][Next]_vars
  /\ WF_vars(ScrollLeft) /\ WF_vars(AnimationFrame) /\ WF_vars(Serve) /\ WF_vars(Receive)

-----------------------------------------------------------------------------
TypeOK ==
  /\ candles \in Seq(Candles)
  /\ noMoreHistory \in BOOLEAN /\ historyPending \in BOOLEAN
  /\ historyTimeout \in 0..MaxRequests /\ timers \subseteq 1..MaxRequests
  /\ requests \in 0..MaxRequests /\ switches \in 0..MaxSwitches
  /\ serving \in Symbols /\ newest \in [Symbols -> 1..MaxTime]
  /\ late \in BOOLEAN /\ trimmed \in BOOLEAN
  /\ Len(frames) <= requests /\ Cardinality(Outstanding) <= requests

(* "The engine can then assume a clean, strictly-increasing time domain"   *)
(* (App.tsx:2746-2747): it stays one, whatever pages, snapshots and bars   *)
(* cross on the way, however often a page comes and the cache is trimmed.  *)
StrictlyIncreasing ==
  \A i, j \in DOMAIN candles : i < j => candles[i].time < candles[j].time

(* Without a new snapshot in between and short of the cache's limit, pages *)
(* that come late or twice leave no hole.  A page that was asked for       *)
(* before a snapshot or a trim moved the left edge leaves one.             *)
Contiguous ==
  switches = 0 /\ ~ trimmed =>
    \A i \in 1..(Len(candles) - 1) : candles[i + 1].time = candles[i].time + 1

(* "[...] a definitive end-of-history flag (empty reply => nothing older   *)
(* exists)" (App.tsx:2796-2797): a page without an older candle comes at   *)
(* the end of history only, unless it was late or answers a request made   *)
(* before a snapshot or a trim.                                            *)
EndIsTrue ==
  noMoreHistory /\ switches = 0 /\ ~ trimmed /\ ~ late =>
    candles # << >> /\ candles[1].time = First[candles[1].of]

(* A user who keeps scrolling comes to the oldest candle, unless answers   *)
(* are late, other snapshots are asked for, or the cache is trimmed.       *)
AllHistory ==
  <>(\/ late \/ trimmed \/ switches > 0
     \/ candles # << >> /\ candles[1].time = First[serving])
=============================================================================
