----------------------------- MODULE LiveChart -----------------------------
(***************************************************************************)
(* One terminal on an AutoEngine (src/src/trex/engine/auto.py): the feed   *)
(* thread pushes bars into the store and broadcasts them, the session's    *)
(* hooks send snapshots of the store from pool threads, and the terminal   *)
(* (src/src/App.tsx, src/src/chartEngine.ts) replaces its chart by each    *)
(* snapshot and applies each bar to it.                                    *)
(*                                                                         *)
(* What is sent to the session arrives in the order of the sends: the      *)
(* session's send lock is fair and the socket is one stream.               *)
(*                                                                         *)
(* Bars are kept in the order of their times, one for each, by the store   *)
(* as by the chart: either is a function from times to bars.               *)
(***************************************************************************)
EXTENDS Naturals, FiniteSets, Sequences, Functions

CONSTANTS Symbols,
          NoSymbol,     \* a session's symbol before it asks for one
          Source,       \* the timeframe of the feed: source_timeframe
          Others,       \* the other timeframes a terminal may ask for
          SnapshotSize, \* snapshot_size
          InitialBars,  \* the bars each symbol's store is seeded with
          LastBar,      \* the last bar of a symbol, a bound
          MaxPushes,    \* the pushes, a bound
          MaxAsked      \* the user's choices, a bound

ASSUME SymbolsAssumption == Symbols # {} /\ NoSymbol \notin Symbols
ASSUME TimeframesAssumption == Source \notin Others /\ NoSymbol \notin Others \cup {Source}
ASSUME SnapshotSizeAssumption == SnapshotSize \in Nat \ {0}
ASSUME InitialBarsAssumption == InitialBars \in 0..LastBar /\ LastBar \in Nat
ASSUME LiveBoundsAssumption == MaxPushes \in Nat /\ MaxAsked \in Nat

Timeframes == {Source} \cup Others

VARIABLES store,   \* symbol -> its bars in the source timeframe
          late,    \* history: symbol -> the times that were put in behind newer
          feed,    \* the bar the feed thread has to broadcast, or none
          pushes,  \* how many bars it has pushed
          session, \* the session's symbol and timeframe
          inbox,   \* the terminal's messages the server has not read
          hooks,   \* the two hooks that can be at work at once
          wire,    \* what is on its way to the terminal
          chart,   \* the terminal's candles
          view,    \* the symbol and timeframe it shows
          selected,\* history: those the user last asked for
          asked,   \* how often the user has
          whole,   \* history: whether the last snapshot was still the store's
                   \* end when it was sent, and was the one asked for
          dropped, \* history: the times of bars the chart has left out since
          crossed  \* history: what the user asked for while on_connect was at
                   \* work, symbol or timeframe

market == <<store, late, feed, pushes>>
terminal == <<chart, view, selected, asked, whole, dropped, crossed>>
liveVars == <<market, session, inbox, hooks, wire, terminal>>

None == << >>

NoBars == [t \in {} |-> None]

Idle == [at |-> "idle"]

Calls == {"connect", "dispatch"}

ChartSettings == {"symbol", "frame"}   \* what a message may set

(* The App's messages after its hello, which names no symbol.  on_connect  *)
(* is a task of its own; "dispatch" is the hook of the message in hand.    *)
LiveInit ==
  /\ store = [s \in Symbols |-> [t \in 1..InitialBars |-> [of |-> s, time |-> t, rev |-> 0]]]
  /\ late = [s \in Symbols |-> {}]
  /\ feed = None /\ pushes = 0
  /\ session = [c \in ChartSettings |-> IF c = "symbol" THEN NoSymbol ELSE Source]
  /\ \E s \in Symbols : selected = [c \in ChartSettings |-> IF c = "symbol" THEN s ELSE Source]
  /\ view = selected
  /\ inbox = <<[set |-> "symbol", to |-> selected["symbol"]],
               [set |-> "frame", to |-> selected["frame"]]>>
  /\ hooks = [x \in Calls |-> IF x = "connect" THEN [at |-> "start"] ELSE Idle]
  /\ wire = << >>
  /\ chart = NoBars
  /\ asked = 0 /\ whole = FALSE /\ dropped = {} /\ crossed = {}

(* The store of a symbol and timeframe: the feed fills only its own        *)
(* timeframe, any other get_store() makes is empty.                        *)
StoreOf(symbol, frame) ==
  IF symbol \in Symbols /\ frame = Source THEN store[symbol] ELSE NoBars

(* recent(): the newest of them.                                           *)
Recent(bars) ==
  Restrict(bars, {t \in DOMAIN bars : Cardinality({u \in DOMAIN bars : u > t}) < SnapshotSize})

Newest(bars, t) == \A u \in DOMAIN bars : u <= t

With(b, bars) == [t \in DOMAIN bars \cup {b.time} |-> IF t = b.time THEN b ELSE bars[t]]

-----------------------------------------------------------------------------
(* The feed thread.                                                        *)

(* A bar the store lacks, or a new revision of one it has. *)
Revised(s, t) ==
  [of |-> s, time |-> t, rev |-> IF t \in DOMAIN store[s] THEN store[s][t].rev + 1 ELSE 0]

(* push(): the store first, which has a place for a bar of any time ...    *)
PushBar(s, t) ==
  /\ feed = None /\ pushes < MaxPushes
  /\ pushes' = pushes + 1
  /\ feed' = <<Revised(s, t)>>
  /\ store' = [store EXCEPT ![s] = With(Revised(s, t), @)]
  /\ late' = IF t \in DOMAIN store[s] \/ Newest(store[s], t) THEN late
             ELSE [late EXCEPT ![s] = @ \cup {t}]
  /\ UNCHANGED <<session, inbox, hooks, wire, terminal>>

(* What a hook has read is out of date when a bar it lacks goes out,       *)
(* whether or not the session is one of those it goes to.                  *)
Overtaken(h, b) ==
  IF h.at = "send" /\ h.symbol = b.of /\ h.bars # Recent(StoreOf(h.symbol, h.frame))
  THEN [h EXCEPT !.fresh = FALSE] ELSE h

(* Mutant: README's broadcast_bar(bar), "to all". *)
BroadcastAll ==
  /\ feed # None
  /\ wire' = Append(wire, [type |-> "bar", bar |-> feed[1]])
  /\ hooks' = [x \in Calls |-> Overtaken(hooks[x], feed[1])]
  /\ feed' = None
  /\ UNCHANGED <<store, late, pushes, session, inbox, terminal>>

(* ... then broadcast_bar(), to a session that has the bar's symbol.       *)
Broadcast ==
  /\ feed # None
  /\ wire' = IF session["symbol"] = feed[1].of
             THEN Append(wire, [type |-> "bar", bar |-> feed[1]]) ELSE wire
  /\ hooks' = [x \in Calls |-> Overtaken(hooks[x], feed[1])]
  /\ feed' = None
  /\ UNCHANGED <<store, late, pushes, session, inbox, terminal>>

-----------------------------------------------------------------------------
(* The session.                                                            *)

(* _dispatch() notes the symbol or timeframe and calls the hook, which has *)
(* returned before the next message is read.                               *)
Dispatch ==
  /\ inbox # << >> /\ hooks["dispatch"] = Idle
  /\ inbox' = Tail(inbox)
  /\ session' = [session EXCEPT ![Head(inbox).set] = Head(inbox).to]
  /\ hooks' = [hooks EXCEPT !["dispatch"] = [at |-> "start"]]
  /\ UNCHANGED <<market, wire, terminal>>

(* The hook looks at the session ... *)
HookStarts(x) ==
  /\ hooks[x].at = "start"
  /\ hooks' = [hooks EXCEPT ![x] =
                 [at |-> "read",
                  symbol |-> session["symbol"], frame |-> session["frame"]]]
  /\ UNCHANGED <<market, session, inbox, wire, terminal>>

(* ... reads the store ... *)
HookReads(x) ==
  /\ hooks[x].at = "read"
  /\ LET h == hooks[x]
     IN  hooks' = [hooks EXCEPT ![x] =
                     [at |-> "send", symbol |-> h.symbol, frame |-> h.frame,
                      bars |-> Recent(StoreOf(h.symbol, h.frame)), fresh |-> TRUE]]
  /\ UNCHANGED <<market, session, inbox, wire, terminal>>

(* ... and sends the snapshot. *)
HookSends(x) ==
  /\ hooks[x].at = "send"
  /\ LET h == hooks[x]
     IN  wire' = Append(wire, [type |-> "snapshot", symbol |-> h.symbol,
                               frame |-> h.frame, bars |-> h.bars, fresh |-> h.fresh])
  /\ hooks' = [hooks EXCEPT ![x] = Idle]
  /\ UNCHANGED <<market, session, inbox, terminal>>

-----------------------------------------------------------------------------
(* The terminal.                                                           *)

(* Mutant: only the newest bar is revised. *)
ApplyBarToEnd(b, candles) ==
  IF Newest(candles, b.time) THEN With(b, candles) ELSE candles

(* applyBar(): in place of the newest, after it, or in place of an older   *)
(* one; a bar older than the newest that the chart does not have is left.  *)
ApplyBar(b, candles) ==
  IF Newest(candles, b.time) \/ b.time \in DOMAIN candles THEN With(b, candles) ELSE candles

(* handleMessage(): a snapshot also sets what it is said to be of.         *)
Receive ==
  /\ wire # << >>
  /\ wire' = Tail(wire)
  /\ LET m == Head(wire)
     IN  IF m.type = "bar"
         THEN /\ chart' = ApplyBar(m.bar, chart)
              /\ dropped' = dropped \cup ({m.bar.time} \ DOMAIN chart')
              /\ UNCHANGED <<whole, view>>
         ELSE /\ chart' = m.bars /\ dropped' = {}
              /\ whole' = /\ m.fresh
                          /\ m.symbol = selected["symbol"] /\ m.frame = selected["frame"]
              /\ view' = [c \in ChartSettings |->
                             IF m[c] = NoSymbol THEN view[c] ELSE m[c]]
  /\ UNCHANGED <<market, session, inbox, hooks, selected, asked, crossed>>

(* Nothing is under way. *)
Settled ==
  /\ feed = None /\ inbox = << >> /\ wire = << >>
  /\ \A x \in Calls : hooks[x] = Idle

(* changeSymbol(), changeTimeframe(). *)
Ask(set, to) ==
  /\ asked < MaxAsked
  /\ asked' = asked + 1
  /\ view' = [view EXCEPT ![set] = to]
  /\ selected' = [selected EXCEPT ![set] = to]
  /\ inbox' = Append(inbox, [set |-> set, to |-> to])
  /\ crossed' = IF hooks["connect"] = Idle THEN crossed ELSE crossed \cup {set}
  /\ UNCHANGED <<market, session, hooks, wire, chart, whole, dropped>>

-----------------------------------------------------------------------------
LiveNext ==
  \/ \E s \in Symbols, t \in 1..LastBar : PushBar(s, t)
  \/ Broadcast
  \/ Dispatch
  \/ \E x \in Calls : HookStarts(x) \/ HookReads(x) \/ HookSends(x)
  \/ Receive
  \/ \E s \in Symbols : Ask("symbol", s)
  \/ \E f \in Timeframes : Ask("frame", f)

LiveSpec == LiveInit /\ [][LiveNext]_liveVars

-----------------------------------------------------------------------------
(* A settled terminal shows what the user asked for last, whatever the     *)
(* snapshots on their way to it have put there (App.tsx:2755), and has     *)
(* candles of that symbol and no others: "on_symbol -> switch symbol,      *)
(* resend snapshot" (README.md:55).  Not so of what a user asks for while  *)
(* on_connect is at work: its snapshot may be sent after on_symbol's, with *)
(* the settings that were.                                                 *)
ShowsWhatIsAsked ==
  Settled =>
    /\ \A c \in ChartSettings \ crossed : view[c] = selected[c]
    /\ "symbol" \notin crossed => \A t \in DOMAIN chart : chart[t].of = selected["symbol"]

(* A chart whose last snapshot was the one asked for, with no bar sent     *)
(* past it, follows the store from then on, through any pushes in any      *)
(* order of their times: it has the store's bars from its first to the     *)
(* newest, revision by revision.  It lacks only bars that came late, to    *)
(* the store behind newer ones and to the chart after its snapshot: the    *)
(* store puts them in (store.py:130-137), the chart does not               *)
(* (chartEngine.ts:572-578).                                               *)
FollowsTheStore ==
  Settled /\ whole /\ selected["frame"] = Source =>
    LET bars == store[selected["symbol"]]
    IN  /\ \A t \in DOMAIN chart : t \in DOMAIN bars /\ chart[t] = bars[t]
        /\ \A t \in DOMAIN bars : Newest(bars, t) => t \in DOMAIN chart
        /\ \A t \in DOMAIN bars \ DOMAIN chart :
             \/ \A u \in DOMAIN chart : t < u
             \/ t \in late[selected["symbol"]] \cap dropped
=============================================================================
