--------------------------- MODULE IndicatorFeed ---------------------------
(***************************************************************************)
(* One indicator of any class, fed bar after bar, whose values go to the   *)
(* terminal as points once a server is attached (engine/indicator.py,      *)
(* presentation/series_mixin.py).  Bar t has the time t.                   *)
(***************************************************************************)
EXTENDS Bands, SeriesCatalog

CONSTANTS Kinds,      \* the classes
          Bars,       \* what a bar may be: [h, l, c, v], fractions
          Period,     \* the period of the windows
          Smooth,     \* the second period: EMA, DEMA, %D, tenkan
          Long,       \* the third: senkou
          Step, MaxAf,\* of the parabolic SAR
          Tiny,       \* KAMA's 1e-10
          BarsPerDay,
          MaxBars     \* bars fed, a bound

ASSUME PeriodAssumption == Period \in Nat \ {0, 1}
ASSUME FeedAssumption == BarsPerDay \in Nat \ {0} /\ MaxBars \in Nat

VARIABLES kind,    \* the class of the instance
          pipe,    \* its pipeline, with the class's state
          seen,    \* history: the bars it was fed
          raw,     \* the time of _last_raw, 0 for None
          hooked,  \* whether _emit_hook is set
          spoke,   \* history: the result of the last tick
          points,  \* history: the points sent with the last bar
          turns    \* history: how often the parabolic stop changed sides

vars == <<kind, pipe, seen, raw, hooked, spoke, points, turns>>

Day(t) == ((t - 1) \div BarsPerDay) + 1

(* The constructors, with the warm-up each gives the pipeline. *)
New(k) ==
  CASE k = "sma" -> NewSma          [] k = "ema" -> NewEma
    [] k = "wma" -> NewWma          [] k = "vwma" -> NewVwma
    [] k = "kama" -> NewKama        [] k = "zlema" -> NewZlema
    [] k = "dema" -> NewDema        [] k = "rsi" -> NewRsi
    [] k = "mom" -> NewMom          [] k = "roc" -> NewRoc
    [] k = "obv" -> NewObv          [] k = "cci" -> NewCci
    [] k = "cmo" -> NewCmo          [] k = "mfi" -> NewMfi
    [] k = "stoch" -> NewStochastic [] k = "std" -> NewStdDev
    [] k = "bb" -> NewBollingerBands [] k = "tr" -> NewTr
    [] k = "ichi" -> NewIchimoku    [] k = "vwap" -> NewVwap
    [] k = "psar" -> NewParabolicSAR(Step)
    [] OTHER -> NewWindows

(* The functions of api.py, by family: the class, its parameters, and what *)
(* the default extractor gives it, the close or the bar itself.  hma, tema,*)
(* atr, keltner, trix, adx and supertrend are left out: their classes name *)
(* an api they do not import, and cannot be registered.                    *)
TrendApi(k, i, bar) ==
  CASE k = "sma" -> Sma(Period, i, bar.c)   [] k = "ema" -> Ema(Smooth, i, bar.c)
    [] k = "wma" -> Wma(Period, i, bar.c)   [] k = "vwma" -> Vwma(Period, i, bar)
    [] k = "kama" -> Kama(Period, 1, 3, Tiny, i, bar.c)
    [] k = "zlema" -> Zlema(Period, i, bar.c)
    [] k = "dema" -> Dema(Smooth, i, bar.c)

VolatilityApi(k, i, bar) ==
  CASE k = "tr" -> Tr(i, bar)               [] k = "std" -> StdDev(Period, i, bar.c)
    [] k = "bb" -> BollingerBands(Period, i, bar.c)
    [] k = "dc" -> DonchianChannel(Period, i, bar)

MomentumApi(k, i, bar) ==
  CASE k = "rsi" -> Rsi(Period, i, bar.c)   [] k = "aroon" -> Aroon(Period, i, bar)

OscillatorApi(k, i, bar) ==
  CASE k = "stoch" -> Stochastic(Period, Smooth, i, bar)
    [] k = "cci" -> Cci(Period, i, bar)     [] k = "willr" -> WilliamsR(Period, i, bar)
    [] k = "roc" -> Roc(Period, i, bar.c)   [] k = "mom" -> Mom(Period, i, bar.c)
    [] k = "mfi" -> Mfi(Period, i, bar)     [] k = "obv" -> Obv(i, bar)
    [] k = "cmo" -> Cmo(Period, i, bar.c)

HybridApi(k, i, bar, t) ==
  CASE k = "vwap" -> Vwap(i, bar, Day(t))
    [] k = "ichi" -> Ichimoku(Smooth, Period, Long, i, bar)
    [] k = "psar" -> ParabolicSAR(Step, MaxAf, i, bar)

Calculate(k, i, bar, t) ==
  CASE k \in {"sma", "ema", "wma", "vwma", "kama", "zlema", "dema"} -> TrendApi(k, i, bar)
    [] k \in {"tr", "std", "bb", "dc"} -> VolatilityApi(k, i, bar)
    [] k \in {"rsi", "aroon"} -> MomentumApi(k, i, bar)
    [] k \in {"vwap", "ichi", "psar"} -> HybridApi(k, i, bar, t)
    [] OTHER -> OscillatorApi(k, i, bar)

(* What the pipeline hands to the class, and keeps as prev_value. *)
ByClose == {"sma", "ema", "wma", "kama", "zlema", "dema", "rsi", "mom", "roc",
            "cmo", "std", "bb"}
Extracted(k, bar) == IF k \in ByClose THEN bar.c ELSE bar

(* Only the SAR is made with save_input. *)
SaveInput(k, i, bar) == IF k = "psar" THEN [i EXCEPT !.d.bars = Push(@, bar, 3)] ELSE i

Init ==
  /\ kind \in Kinds
  /\ pipe = New(kind)
  /\ seen = << >>
  /\ raw = 0
  /\ hooked = FALSE
  /\ spoke = Wait
  /\ points = {} /\ turns = 0

(* attach_server(), and _set_emit_hook() on the instance. *)
AttachServer ==
  /\ ~ hooked
  /\ hooked' = TRUE
  /\ UNCHANGED <<kind, pipe, seen, raw, spoke, points, turns>>

(* Bollinger bands and DEMA are called back by shared leaves that have the *)
(* bar before them; DEMA's add_input_value() does not remember the bar.    *)
CalledBack == {"bb", "dema"}

(* Mutant: the bar is remembered after the tick. *)
StampLate(k, r, t) == r

(* The time _on_emit() finds in _last_raw. *)
Stamp(k, r, t) == IF k \in CalledBack THEN r ELSE t

PeriodOf(k) == IF k \in {"ema", "dema"} THEN Smooth ELSE Period

(* _make_points(): the classes with several series, and the SAR, name the  *)
(* keys themselves; a number goes to the first series that is declared.    *)
KeysOf(k) ==
  CASE k \in {"bb", "dc"} -> Parts(<<k, Period>>, <<"_upper", "_mid", "_lower">>)
    [] k = "stoch" -> Parts(<<k, 0>>, <<"_k", "_d">>)
    [] k = "aroon" -> Parts(<<k, 0>>, <<"_up", "_down">>)
    [] k = "ichi" ->
         Parts(<<k, 0>>, <<"_tenkan", "_kijun", "_senkou_a", "_senkou_b", "_chikou">>)
    [] k = "psar" -> Single(k, 0)
    [] OTHER -> SubSeq(SeriesDefs(k, PeriodOf(k)), 1, 1)

MakePoints(k, time) == {[key |-> key, time |-> time] : key \in ToSet(KeysOf(k))}

(* What the tick of bar t puts out, s being what the class did. *)
PutOut(i, s) == IF i.left > 0 THEN Wait ELSE IF s.r = Raise THEN Raise ELSE Spoken(s)

(* The phase that the pipeline is in. *)
Phase(i, v, s) ==
  IF i.left > 0 THEN WarmUp(i, v)
  ELSE IF kind = "dema" THEN [i EXCEPT !.d = s.d]
  ELSE Advance(i, v, s)

Tick(i, bar, t, s) ==
  /\ pipe' = Phase(i, Extracted(kind, bar), s)
  /\ spoke' = PutOut(i, s)
  /\ points' = IF hooked /\ spoke'.is = "value"
               THEN MakePoints(kind, Stamp(kind, raw, t)) ELSE {}
  /\ turns' = IF kind = "psar" /\ spoke.is = "value" /\ spoke'.of.up # spoke.of.up
              THEN turns + 1 ELSE turns

(* add_input_value(): the bar is remembered, then goes through the phase;  *)
(* what is put out goes to the server from the post-emit hook.             *)
AddInputValue(bar) ==
  /\ Len(seen) < MaxBars
  /\ seen' = Append(seen, bar)
  /\ raw' = IF kind = "dema" THEN raw ELSE Len(seen')
  /\ LET i == SaveInput(kind, pipe, bar)
     IN  Tick(i, bar, Len(seen'), Calculate(kind, i, bar, Len(seen')))
  /\ UNCHANGED <<kind, hooked>>

Next == AttachServer \/ \E bar \in Bars : AddInputValue(bar)

Spec == Init /\ [][Next]_vars
=============================================================================
