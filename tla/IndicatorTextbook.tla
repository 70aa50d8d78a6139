------------------------- MODULE IndicatorTextbook -------------------------
(***************************************************************************)
(* What the values of IndicatorFeed should be: the definitions the classes *)
(* of src/src/trex/indic/ give, over all the bars seen, none of them       *)
(* incremental.                                                            *)
(***************************************************************************)
EXTENDS IndicatorFeed

Newest(s, n) == SubSeq(s, Len(s) - n + 1, Len(s))

Column(f, s) == [j \in DOMAIN s |-> s[j][f]]

Window(f) == Newest(Column(f, seen), Period)

Closes == Column("c", seen)
Changes == [j \in 1..(Len(seen) - 1) |-> Closes[j + 1] -- Closes[j]]
Gains(s)  == Total([j \in DOMAIN s |-> Positive(s[j])])
Losses(s) == Total([j \in DOMAIN s |-> Positive(Zero -- s[j])])

WeightedMean(vs, ws) == Total([j \in DOMAIN vs |-> vs[j] ** ws[j]]) // Total(ws)

(* The weights of an EMA that starts from the mean of n values. *)
EmaOf(vs, n) ==
  LET k == Frac(2, n + 1)
      rest == One -- k
      Weight(age) == FoldLeft(LAMBDA w, j : w ** rest, One, [j \in 1..age |-> j])
      later == SubSeq(vs, n + 1, Len(vs))
  IN  Mean(SubSeq(vs, 1, n)) ** Weight(Len(later))
        ++ k ** Total([j \in DOMAIN later |-> later[j] ** Weight(Len(later) - j)])

(* The close so many bars ago, of the first bar at the latest. *)
CloseBefore(t, lag) == IF t > lag THEN Closes[t - lag] ELSE Closes[1]

(* How far the close is from the low of the window ending t, in percent. *)
Position(t) ==
  LET b == SubSeq(seen, t - Period + 1, t)
      lo == Least(Column("l", b))
  IN  Over(Closes[t] -- lo, Greatest(Column("h", b)) -- lo) ** Hundred

(* Wilder's averages: of the first Period - 1 changes, then smoothed. *)
WilderOf(Part(_)) ==
  LET n == Whole(Period - 1)
      seed == Total([j \in 1..(Period - 1) |-> Part(Changes[j])]) // n
  IN  FoldLeft(LAMBDA a, x : (a ** n ++ Part(x)) // Whole(Period), seed,
               SubSeq(Changes, Period, Len(Changes)))

(* A flow of money is of the side its typical price moved to. *)
MfiOf ==
  LET tp == [j \in DOMAIN seen |-> Typical(seen[j])]
      flows == [j \in 1..Period |->
                  LET m == Len(seen) - Period + j
                  IN  [up |-> tp[m - 1] \preceq tp[m], of |-> tp[m] ** seen[m].v]]
      Side(up) == Total([j \in 1..Period |-> IF flows[j].up = up THEN flows[j].of ELSE Zero])
  IN  IF Side(FALSE) = Zero THEN Hundred
      ELSE Hundred ** (Side(TRUE) // (Side(TRUE) ++ Side(FALSE)))

MiddleOf(n) == Half(Greatest(Newest(Column("h", seen), n)), Least(Newest(Column("l", seen), n)))

VarianceOf(vs) ==
  LET mean == Mean(vs) IN  Mean([j \in DOMAIN vs |-> (vs[j] -- mean) ** (vs[j] -- mean)])

TrueRange(t) ==
  LET hi == IF Closes[t - 1] \preceq seen[t].h THEN seen[t].h ELSE Closes[t - 1]
      lo == LesserOf(seen[t].l, Closes[t - 1])
  IN  hi -- lo

(* Kaufman's average from the first close of the window on: its efficiency *)
(* is the way of p + 1 bars over the steps of p.                           *)
KamaOf(t) ==
  LET Way(j) == AbsOf(Closes[j] -- Closes[j - Period - 1])
      Steps(j) == Total([m \in 1..Period |-> AbsOf(Changes[j - m])])
      Speed(j) == LET steps == Steps(j)
                      er == Way(j) // (IF steps = Zero THEN Tiny ELSE steps)
                      root == (er ++ One) // Two
                  IN  root ** root
  IN  FoldLeft(LAMBDA a, j : a ++ Speed(j) ** (Closes[j] -- a), Closes[1],
               [m \in 1..(t - Period - 1) |-> Period + 1 + m])

(* How old the extreme of the window is, the oldest of equal ones, in      *)
(* percent of the period.                                                  *)
Since(f, Extreme(_)) ==
  LET w == Newest(Column(f, seen), Period + 1)
      age == Max({Period + 1 - j : j \in {j \in DOMAIN w : w[j] = Extreme(w)}})
  IN  Frac(100 * (Period - age), Period)

(* The definitions, at bar t, the newest.  Where the code differs from its *)
(* own words, the definition is the code's: KAMA, ROC and ZLEMA look one   *)
(* bar further back once they run, CCI is 0.015 times its formula, the     *)
(* first true range ignores the close before it, and RSI averages the      *)
(* changes of its first Period values, one change fewer than the chart it  *)
(* names (rsi.py:7).                                                       *)
Defined(t) ==
  CASE kind = "sma" -> Mean(Window("c"))
    [] kind = "ema" -> EmaOf(Closes, Smooth)
    [] kind = "wma" -> WeightedMean(Window("c"), [j \in 1..Period |-> Whole(j)])
    [] kind = "vwma" -> WeightedMean(Window("c"), Window("v"))
    [] kind = "zlema" ->
         EmaOf([j \in 1..t |-> Two ** Closes[j] -- CloseBefore(j, (Period + 1) \div 2)], Period)
    [] kind = "kama" -> KamaOf(t)
    [] kind = "aroon" ->
         [up |-> Since("h", Greatest), down |-> Since("l", Least),
          oscillator |-> Since("h", Greatest) -- Since("l", Least)]
    [] kind = "dema" ->
         LET firsts == [j \in 1..(t - Smooth + 1) |->
                          EmaOf(SubSeq(Closes, 1, Smooth + j - 1), Smooth)]
         IN  Two ** EmaOf(Closes, Smooth) -- EmaOf(firsts, Smooth)
    [] kind = "rsi" ->
         LET g == WilderOf(Positive)  l == WilderOf(LAMBDA x : Positive(Zero -- x))
         IN  IF l = Zero THEN Hundred ELSE Rounded(Hundred ** (g // (g ++ l)))
    [] kind = "mom" -> Closes[t] -- Closes[t - Period]
    [] kind = "roc" ->
         LET old == CloseBefore(t, Period + 1) IN  ((Closes[t] -- old) // old) ** Hundred
    [] kind = "obv" ->
         Total([j \in DOMAIN Changes |-> Whole(IF Changes[j] = Zero THEN 0
                                         ELSE IF Zero \prec Changes[j] THEN 1 ELSE -1)
                                         ** seen[j + 1].v])
    [] kind = "cci" ->
         LET tps == Newest([j \in DOMAIN seen |-> Typical(seen[j])], Period)
             mean == Mean(tps)
             dev == Mean([j \in 1..Period |-> AbsOf(tps[j] -- mean)])
         IN  Over(Last(tps) -- mean, dev)
    [] kind = "cmo" ->
         LET w == Newest(Changes, Period)
         IN  Over(Hundred ** Total(w), Gains(w) ++ Losses(w))
    [] kind = "mfi" -> MfiOf
    [] kind = "willr" ->
         LET hi == Greatest(Window("h"))
         IN  Over(Closes[t] -- hi, hi -- Least(Window("l"))) ** Hundred
    [] kind = "stoch" ->
         [k |-> Position(t), d |-> Mean([j \in 1..Smooth |-> Position(t - Smooth + j)])]
    [] kind = "std" -> VarianceOf(Window("c"))
    [] kind = "bb" -> [middle |-> Mean(Window("c")), variance |-> VarianceOf(Window("c"))]
    [] kind = "tr" -> IF t = 2 THEN seen[2].h -- seen[2].l ELSE TrueRange(t)
    [] kind = "dc" -> [upper |-> Greatest(Window("h")), lower |-> Least(Window("l")),
                       middle |-> MiddleOf(Period)]
    [] kind = "ichi" ->
         [tenkan |-> MiddleOf(Smooth), kijun |-> MiddleOf(Period), senkouB |-> MiddleOf(Long),
          senkouA |-> Half(MiddleOf(Smooth), MiddleOf(Period)),
          chikou |-> IF t > Period THEN Closes[t - Period] ELSE Zero]
    [] kind = "vwap" ->
         LET today == SelectSeq([j \in 1..t |-> j], LAMBDA j : Day(j) = Day(t))
         IN  WeightedMean([j \in DOMAIN today |-> Typical(seen[today[j]])],
                          [j \in DOMAIN today |-> seen[today[j]].v])

(* The tick of the first value, as the classes say (KAMA and DEMA: as they *)
(* do, one bar after and one before the tick of their docstrings).         *)
First ==
  CASE kind = "vwap" -> 1
    [] kind \in {"obv", "tr"} -> 2
    [] kind = "psar" -> 3
    [] kind \in {"mom", "roc", "cmo", "mfi", "aroon"} -> Period + 1
    [] kind = "kama" -> Period + 2
    [] kind = "stoch" -> Period + Smooth - 1
    [] kind = "ema" -> Smooth
    [] kind = "dema" -> 2 * Smooth - 1
    [] kind = "ichi" -> Long
    [] OTHER -> Period

-----------------------------------------------------------------------------
(* Whether the window, or the session, traded nothing; RSI stays silent    *)
(* while the price has not moved (rsi.py:70).                              *)
NothingTraded ==
  \/ kind = "vwma" /\ Total(Window("v")) = Zero
  \/ kind = "vwap" /\ \A j \in DOMAIN seen : Day(j) = Day(Len(seen)) => seen[j].v = Zero

NeverMoved == kind = "rsi" /\ \A j \in DOMAIN Changes : Changes[j] = Zero

(* However the sums were kept up, the value put out with a bar is the one  *)
(* the definition gives for all the bars seen: nothing drifts, leaks from  *)
(* a window that has moved on or survives a tick that raised.  A class     *)
(* speaks from its first tick on with every bar, and raises only where     *)
(* nothing was traded (the classes of indic/; the SAR is looked at below). *)
ValuesAreDefined ==
  seen # << >> =>
    CASE Len(seen) < First \/ NeverMoved -> spoke = Wait
      [] NothingTraded -> spoke = Raise
      [] OTHER -> /\ spoke.is = "value"
                  /\ kind # "psar" => spoke.of = Defined(Len(seen))

Within(x, lo, hi) == lo \preceq x /\ x \preceq hi

(* After its first value the stop is on its side of the bar, the extreme   *)
(* point has the bar's, and the stop is among the prices the bars had.     *)
(* The exception is the first uptrend of an instance that began in a       *)
(* downtrend: its two lows are still 0.0 when it begins, so the stop falls *)
(* to 0.0 and climbs from there, below every price (psar.py:69-70, 83).    *)
(* For two bars after a later turn the lows that bound it are old ones,    *)
(* not those of the last two bars that psar.py:13 names.                   *)
StopsBehind ==
  kind = "psar" /\ Len(seen) > 3 =>
    LET d == spoke.of  b == Last(seen)
    IN  /\ IF d.up THEN d.sar \preceq b.l /\ b.h \preceq d.ep
                   ELSE b.h \preceq d.sar /\ d.ep \preceq b.l
        /\ Within(d.af, Step, MaxAf)
        /\ d.sar \preceq Greatest(Column("h", seen))
        /\ \/ Least(Column("l", seen)) \preceq d.sar
           \/ d.up /\ turns = 1 /\ Zero \preceq d.sar

(* "CCI = (TP - SMA_TP) / (0.015 x MeanDev)" (cci.py:11).  The code puts   *)
(* its scale inside the division and outside it.                           *)
CciIsDocumented ==
  kind = "cci" /\ spoke.is = "value" =>
    LET tps == Newest([j \in DOMAIN seen |-> Typical(seen[j])], Period)
        mean == Mean(tps)
        dev == Mean([j \in DOMAIN tps |-> AbsOf(tps[j] -- mean)])
    IN  spoke.of = Over(Last(tps) -- mean, Frac(15, 1000) ** dev)

(* Every point sent is of a series the class declares and has the time of  *)
(* the bar it was computed from; one for each series (series_mixin.py:119).*)
PointsAreOfTheBar ==
  kind \notin CalledBack =>
    /\ \A p \in points : p.time = Len(seen) /\ p.key \in ToSet(SeriesDefs(kind, PeriodOf(kind)))
    /\ hooked /\ spoke.is = "value" /\ points # {} =>
         {p.key : p \in points} = ToSet(SeriesDefs(kind, PeriodOf(kind)))
=============================================================================
