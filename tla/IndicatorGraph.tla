--------------------------- MODULE IndicatorGraph ---------------------------
(***************************************************************************)
(* Indicators that feed on one another (src/src/trex/engine/pipeline.py,   *)
(* engine/context.py, indic/volatility/bbands.py, indic/momentum/macd.py). *)
(* A leaf (SMA, StdDev, EMA) puts a value out for each input from the end  *)
(* of its warm-up on.  A composite (Bollinger bands, MACD) listens to two  *)
(* leaves, and puts a value out when both have spoken.                     *)
(*                                                                         *)
(* One thread feeds and registers.  A bar is fed call by call: the CTF     *)
(* calls its keys, a key's indicator feeds its leaves, and a leaf calls    *)
(* its callbacks, each before the next of the level above.  A bar is its   *)
(* number, and a leaf's value the number of the bar it was computed at.    *)
(***************************************************************************)
EXTENDS Naturals, Sequences, SequencesExt

CONSTANTS Leaves, Composites,
          Fast, Slow,  \* the leaves a composite listens to: SMA and StdDev,
                       \* or the fast and the slow EMA
          Class,       \* the class of a composite
          Forwarding,  \* those that feed their leaves themselves (MACD)
          Warm,        \* a leaf's warm-up
          Removable,   \* leaves a user may register, and de-attach
          MaxBars      \* bars fed, a bound

Hears(c) == {Fast[c], Slow[c]}

ASSUME ListenAssumption ==
  /\ Leaves \cap Composites = {}
  /\ Fast \in [Composites -> Leaves] /\ Slow \in [Composites -> Leaves]
  /\ \A c \in Composites : Fast[c] # Slow[c]
ASSUME ForwardingAssumption == Forwarding \subseteq Composites
ASSUME WarmAssumption == Warm \in [Leaves -> Nat \ {0}]
ASSUME RemovableAssumption == Removable \subseteq Leaves
ASSUME MaxBarsAssumption == MaxBars \in Nat

(* Bollinger bands listen to the SMA and the StdDev of their own period    *)
(* and input, and nothing else that listens to one of the two does not     *)
(* listen to both.                                                         *)
ASSUME BandsAssumption ==
  \A c \in Composites \ Forwarding :
    /\ Warm[Fast[c]] = Warm[Slow[c]]
    /\ \A d \in Composites : Hears(c) \cap Hears(d) # {} =>
         d \notin Forwarding /\ Fast[d] = Fast[c] /\ Slow[d] = Slow[c]

VARIABLES bar,    \* bars fed
          order,  \* the CTF's callbacks for the timeframe, by key
          live,   \* the indicators in the registry
          removed,\* history: the leaves that were de-attached
          told,   \* leaf -> its callbacks, in insertion order
          due,    \* the keys the CTF has still to call for the bar
          inputs, \* the leaves the indicator it called has still to feed
          calls,  \* the callbacks the leaf that was fed has still to call
          fed,    \* leaf -> the bars it consumed
          slot,   \* composite -> side -> the value it keeps
          ready,  \* composite -> the sides whose flag is up
          out     \* composite -> the pairs of values it put out

registry == <<order, live, removed, told>>
graphVars == <<bar, registry, due, inputs, calls, fed, slot, ready, out>>

Sides == {"fast", "slow"}

GraphInit ==
  /\ bar = 0
  /\ order = << >>
  /\ live = {}
  /\ removed = {}
  /\ told = [l \in Leaves |-> << >>]
  /\ due = << >> /\ inputs = << >> /\ calls = << >>
  /\ fed = [l \in Leaves |-> << >>]
  /\ slot = [c \in Composites |-> [s \in Sides |-> 0]]
  /\ ready = [c \in Composites |-> {}]
  /\ out = [c \in Composites |-> << >>]

Feeding == due # << >> \/ inputs # << >> \/ calls # << >>

-----------------------------------------------------------------------------
(* Mutant: a callback list, to which every registration adds. *)
SubscribedAgain(ks, k) == Append(ks, k)

(* add_timeframe(): a key is there once, in the place it first had. *)
Subscribed(ks, k) == IF Contains(ks, k) THEN ks ELSE Append(ks, k)

(* A callback is filed under make_listener_key(): the class and the name   *)
(* of the method.                                                          *)
ListenerKey(cb) == <<Class[cb.to], cb.side>>

WithCallback(cbs, cb) ==
  LET At(i) == ListenerKey(cbs[i]) = ListenerKey(cb)
  IN  IF \E i \in DOMAIN cbs : At(i)
      THEN [i \in DOMAIN cbs |-> IF At(i) THEN cb ELSE cbs[i]]
      ELSE Append(cbs, cb)

(* get() of a leaf that is not in the registry: a new instance. *)
RegisterLeaf(l) ==
  /\ ~ Feeding /\ l \notin live
  /\ live' = live \cup {l}
  /\ order' = Subscribed(order, l)
  /\ told' = [told EXCEPT ![l] = << >>]
  /\ fed' = [fed EXCEPT ![l] = << >>]
  /\ UNCHANGED <<bar, removed, due, inputs, calls, slot, ready, out>>

(* de_attach_by_key() by the user of a leaf nobody else listens to: it     *)
(* leaves the registry, and its key stays with the CTF (_dispatch's        *)
(* clean-up and remove_dispatch_timeframe() ask `if ctf:`, and that is     *)
(* never true: Source.__len__ is the number of the values put out, of      *)
(* which a ConvertTimeFrame keeps none).                                   *)
DeAttach(l) ==
  /\ ~ Feeding /\ l \in live \cap Removable
  /\ told[l] = << >>
  /\ live' = live \ {l}
  /\ removed' = removed \cup {l}
  /\ UNCHANGED <<bar, order, told, due, inputs, calls, fed, slot, ready, out>>

(* get() of a composite: init_depends() registers what it listens to       *)
(* first, with its callbacks.                                              *)
RegisterComposite(c) ==
  /\ ~ Feeding /\ c \notin live
  /\ LET f == Fast[c]  s == Slow[c]
         Old(l) == IF l \in live THEN told[l] ELSE << >>
     IN  /\ live' = live \cup {f, s, c}
         /\ order' = Subscribed(Subscribed(Subscribed(order, f), s), c)
         /\ told' = [told EXCEPT ![f] = WithCallback(Old(f), [to |-> c, side |-> "fast"]),
                                 ![s] = WithCallback(Old(s), [to |-> c, side |-> "slow"])]
         /\ fed' = [l \in Leaves |-> IF l \in {f, s} \ live THEN << >> ELSE fed[l]]
  /\ UNCHANGED <<bar, removed, due, inputs, calls, slot, ready, out>>

-----------------------------------------------------------------------------
(* The CTF hands a bar to the keys in the order they have in its dict ...  *)
Provide ==
  /\ ~ Feeding /\ bar < MaxBars
  /\ bar' = bar + 1
  /\ due' = order
  /\ UNCHANGED <<registry, inputs, calls, fed, slot, ready, out>>

(* _dispatch(): a stale key is passed over; Bollinger bands do nothing     *)
(* with their own input.                                                   *)
InputsOf(k) ==
  IF k \notin live THEN << >>
  ELSE IF k \in Leaves THEN <<k>>
  ELSE IF k \in Forwarding THEN <<Fast[k], Slow[k]>> ELSE << >>

Dispatch ==
  /\ calls = << >> /\ inputs = << >> /\ due # << >>
  /\ due' = Tail(due)
  /\ inputs' = InputsOf(Head(due))
  /\ UNCHANGED <<bar, registry, calls, fed, slot, ready, out>>

(* Mutant: a leaf is silent for one bar too many. *)
ConsumeLate ==
  /\ calls = << >> /\ inputs # << >>
  /\ LET l == Head(inputs)
     IN  /\ fed' = [fed EXCEPT ![l] = Append(@, bar)]
         /\ calls' = IF Len(fed'[l]) > Warm[l] THEN told[l] ELSE << >>
  /\ inputs' = Tail(inputs)
  /\ UNCHANGED <<bar, registry, due, slot, ready, out>>

(* A leaf's add_input_value(): from its warm-up on it emits, which calls   *)
(* its callbacks one after the other.                                      *)
Consume ==
  /\ calls = << >> /\ inputs # << >>
  /\ LET l == Head(inputs)
     IN  /\ fed' = [fed EXCEPT ![l] = Append(@, bar)]
         /\ calls' = IF Len(fed'[l]) >= Warm[l] THEN told[l] ELSE << >>
  /\ inputs' = Tail(inputs)
  /\ UNCHANGED <<bar, registry, due, slot, ready, out>>

(* _on_sma() and _on_std(), _on_fast() and _on_slow(). *)
Other(side) == IF side = "fast" THEN "slow" ELSE "fast"

(* Mutant: the flags are not reset. *)
OnValueNoReset ==
  /\ calls # << >>
  /\ calls' = Tail(calls)
  /\ LET c == Head(calls).to  side == Head(calls).side
     IN  /\ slot' = [slot EXCEPT ![c][side] = bar]
         /\ ready' = [ready EXCEPT ![c] = @ \cup {side}]
         /\ out' = IF Other(side) \in ready[c]
                   THEN [out EXCEPT ![c] = Append(@, <<slot'[c]["fast"], slot'[c]["slow"]>>)]
                   ELSE out
  /\ UNCHANGED <<bar, registry, due, inputs, fed>>

OnValue ==
  /\ calls # << >>
  /\ calls' = Tail(calls)
  /\ LET c == Head(calls).to  side == Head(calls).side
     IN  /\ slot' = [slot EXCEPT ![c][side] = bar]
         /\ IF Other(side) \in ready[c]
            THEN /\ ready' = [ready EXCEPT ![c] = {}]
                 /\ out' = [out EXCEPT ![c] = Append(@, <<slot'[c]["fast"], slot'[c]["slow"]>>)]
            ELSE /\ ready' = [ready EXCEPT ![c] = @ \cup {side}]
                 /\ UNCHANGED out
  /\ UNCHANGED <<bar, registry, due, inputs, fed>>

GraphNext ==
  \/ Provide \/ Dispatch \/ Consume \/ OnValue
  \/ \E l \in Leaves : RegisterLeaf(l) \/ DeAttach(l)
  \/ \E c \in Composites : RegisterComposite(c)

GraphSpec == GraphInit /\ [][GraphNext]_graphVars

-----------------------------------------------------------------------------
Keys == Leaves \cup Composites

Callbacks == [to : Composites, side : Sides]

(* Types. *)
GraphTypeOK ==
  /\ bar \in Nat
  /\ order \in Seq(Keys) /\ due \in Seq(Keys)
  /\ live \subseteq Keys /\ removed \subseteq Leaves
  /\ told \in [Leaves -> Seq(Callbacks)] /\ calls \in Seq(Callbacks)
  /\ inputs \in Seq(Leaves)
  /\ fed \in [Leaves -> Seq(Nat)]
  /\ slot \in [Composites -> [Sides -> Nat]]
  /\ ready \in [Composites -> SUBSET Sides]
  /\ out \in [Composites -> Seq(Nat \X Nat)]

(* "Both SMA and StdDev receive the same raw input": between two bars, a   *)
(* shared leaf has every bar once, whoever else listens to it (README.md,  *)
(* deduplication), whatever was removed and registered anew; unless a      *)
(* composite that forwards its input (macd.py:137) feeds it as well.       *)
FedOncePerBar ==
  ~ Feeding =>
    \A l \in Leaves \cap live :
      (\A c \in Forwarding \cap live : l \notin Hears(c)) =>
        fed[l] = [i \in 1..Len(fed[l]) |-> bar - Len(fed[l]) + i]

(* A composite that forwards its input feeds its leaves twice; a leaf that *)
(* was removed and made anew keeps its old place in the converter's dict   *)
(* (context.py:288), and is fed in it while it warms up.  Either leaves    *)
(* the toggle out of step.                                                 *)
Regular(c) == c \notin Forwarding /\ Hears(c) \cap removed = {}

(* "Emission occurs once both values are available for the current bar     *)
(* (per-tick toggle)" (bbands.py:22-23): a composite never puts out the    *)
(* values of two different bars, and, but for one that forwards its input, *)
(* none a second time ("To avoid double emission", macd.py:25), even from  *)
(* leaves that were removed and made anew.                                 *)
InStep ==
  \A c \in Composites : \A i, j \in DOMAIN out[c] :
    /\ Regular(c) => out[c][i][1] = out[c][i][2]
    /\ c \notin Forwarding /\ i < j => out[c][i][2] < out[c][j][2]

(* "Unique, stable key for an (indicator, listener) pair" (context.py:305) *)
(* is the class and the method: a second composite of the class over one   *)
(* of the leaves takes the first one's place.                              *)
Alone(c) ==
  \A d \in Composites \ {c} : Class[d] = Class[c] => Hears(d) \cap Hears(c) = {}

(* A bar by which both leaves of a composite are warm gives it a value, of *)
(* this bar, before it is through, however many indicators were made over  *)
(* its leaves meanwhile.                                                   *)
SpeaksWhenWarm ==
  [][Feeding /\ ~ Feeding' =>
       \A c \in Composites \cap live :
         Alone(c) /\ Regular(c) /\ (\A l \in Hears(c) : Len(fed'[l]) >= Warm[l]) =>
           /\ out'[c] # << >>
           /\ Last(out'[c]) = <<bar, bar>>]_graphVars
=============================================================================
