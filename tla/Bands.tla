------------------------------- MODULE Bands -------------------------------
(***************************************************************************)
(* Volatility and hybrid indicators (src/src/trex/indic/volatility/ and    *)
(* hybrid/), in the form of MovingAverages.                                *)
(***************************************************************************)
EXTENDS Oscillators

NewStdDev == Fresh(0, [win |-> << >>, s |-> Zero, ss |-> Zero])

(* The variance: the class puts out its square root, in the run phase of   *)
(* max(variance, 0).                                                       *)
StdDev(p, i, v) ==
  LET win == Push(i.d.win, v, p)
      gone == IF i.booting THEN Zero ELSE Head(i.d.win)
      s  == i.d.s ++ (v -- gone)
      ss == i.d.ss ++ (v ** v -- gone ** gone)
      mean == s // Whole(p)
      variance == ss // Whole(p) -- mean ** mean
  IN  Return([win |-> win, s |-> s, ss |-> ss],
             IF Len(win) < p THEN Wait
             ELSE Value(IF i.booting THEN variance ELSE Positive(variance)))

NewBollingerBands == Fresh(0, [sma |-> NewSma, std |-> NewStdDev])

(* The shared SMA and StdDev are fed before their owner, and the second of *)
(* their callbacks emits: the middle, and the variance the band is made    *)
(* of.  The interplay of the callbacks is IndicatorGraph's.                *)
BollingerBands(p, i, v) ==
  LET s1 == Sma(p, i.d.sma, v)
      s2 == StdDev(p, i.d.std, v)
  IN  [d |-> [sma |-> Advance(i.d.sma, v, s1), std |-> Advance(i.d.std, v, s2)],
       r |-> IF i.booting THEN Go ELSE Wait,
       told |-> IF s1.r = Wait \/ s2.r = Wait THEN Wait
                ELSE Value([middle |-> s1.r.of, variance |-> s2.r.of])]

NewTr == Fresh(1, << >>)

(* The first value is of the second bar, and ignores the close before it. *)
Tr(i, bar) ==
  LET spans == <<bar.h -- bar.l, AbsOf(bar.h -- i.prev.c), AbsOf(bar.l -- i.prev.c)>>
  IN  Return(i.d, Value(IF i.booting THEN spans[1] ELSE Greatest(spans)))

Half(a, b) == (a ++ b) // Two

DonchianChannel(p, i, bar) ==
  LET w == Windows(i, bar, p)
      upper == Greatest(w.h)
      lower == Least(w.l)
  IN  Return(w, IF Len(w.h) < p THEN Wait
                ELSE Value([upper |-> upper, middle |-> Half(upper, lower), lower |-> lower]))

NewIchimoku ==
  LET none == [h |-> << >>, l |-> << >>]
  IN  Fresh(0, [t |-> none, k |-> none, s |-> none, closes |-> << >>])

(* Until kijun + 1 closes are held the lagging line is put out as 0.0. *)
Ichimoku(tenkan, kijun, senkou, i, bar) ==
  LET Pushed(w, n) == [h |-> Push(w.h, bar.h, n), l |-> Push(w.l, bar.l, n)]
      Middle(w) == Half(Greatest(w.h), Least(w.l))
      d == [t |-> Pushed(i.d.t, tenkan), k |-> Pushed(i.d.k, kijun),
            s |-> Pushed(i.d.s, senkou), closes |-> Push(i.d.closes, bar.c, kijun + 1)]
  IN  Return(d, IF Len(d.s.h) < senkou THEN Wait
                ELSE Value([tenkan |-> Middle(d.t), kijun |-> Middle(d.k),
                            senkouA |-> Half(Middle(d.t), Middle(d.k)),
                            senkouB |-> Middle(d.s),
                            chikou |-> IF Len(d.closes) = kijun + 1
                                       THEN Head(d.closes) ELSE Zero]))

NewVwap == Fresh(0, [date |-> 0, tpv |-> Zero, vol |-> Zero])

(* _new_session_step() on the first bar and when the date is another than  *)
(* the session's, else _intra_session_step().  Days are numbered from one. *)
Vwap(i, bar, day) ==
  LET new == i.d.date # day
      flow == Typical(bar) ** bar.v
      d == [date |-> day,
            tpv |-> IF new THEN flow ELSE i.d.tpv ++ flow,
            vol |-> IF new THEN bar.v ELSE i.d.vol ++ bar.v]
  IN  Return(d, Ratio(d.tpv, d.vol))

NewParabolicSAR(step) ==
  Fresh(2, [bars |-> << >>, sar |-> Zero, ep |-> Zero, af |-> step, up |-> TRUE,
            low |-> Zero, low2 |-> Zero, high |-> Zero, high2 |-> Zero])

SarValue(d) == [sar |-> d.sar, up |-> d.up, af |-> d.af, ep |-> d.ep]

(* _first_calculate(): the trend of the three bars kept so far. *)
SarStart(step, d) ==
  LET c1 == d.bars[1]  c2 == d.bars[2]  c3 == d.bars[3]
  IN  IF c1.c \prec c3.c
      THEN [d EXCEPT !.ep = c3.h, !.sar = c1.l, !.low = c2.l, !.low2 = c1.l,
                     !.up = TRUE, !.af = step]
      ELSE [d EXCEPT !.ep = c3.l, !.sar = c1.h, !.high = c2.h, !.high2 = c1.h,
                     !.up = FALSE, !.af = step]

LesserOf(a, b) == IF a \prec b THEN a ELSE b

(* Each trend keeps the two last lows, or highs, of its own bars only:     *)
(* after a reversal they are those of its last time, or still 0.0.         *)
Uptrend(step, maxAf, d, bar) ==
  LET sar == Least(<<d.sar ++ d.af ** (d.ep -- d.sar), d.low, d.low2>>)
      higher == d.ep \prec bar.h
      n == [d EXCEPT !.sar = sar,
                     !.ep = IF higher THEN bar.h ELSE @,
                     !.af = IF higher THEN LesserOf(@ ++ step, maxAf) ELSE @,
                     !.low2 = d.low, !.low = bar.l]
  IN  IF bar.l \prec sar
      THEN [n EXCEPT !.sar = n.ep, !.ep = bar.l, !.af = step, !.up = FALSE]
      ELSE n

(* Mutant: a reversal keeps the stop where it was. *)
DowntrendKeepsStop(step, maxAf, d, bar) ==
  LET sar == Greatest(<<d.sar ++ d.af ** (d.ep -- d.sar), d.high, d.high2>>)
      n == [d EXCEPT !.sar = sar, !.ep = LesserOf(@, bar.l),
                     !.high2 = d.high, !.high = bar.h]
  IN  IF sar \prec bar.h THEN [n EXCEPT !.ep = bar.h, !.af = step, !.up = TRUE] ELSE n

Downtrend(step, maxAf, d, bar) ==
  LET sar == Greatest(<<d.sar ++ d.af ** (d.ep -- d.sar), d.high, d.high2>>)
      lower == bar.l \prec d.ep
      n == [d EXCEPT !.sar = sar,
                     !.ep = IF lower THEN bar.l ELSE @,
                     !.af = IF lower THEN LesserOf(@ ++ step, maxAf) ELSE @,
                     !.high2 = d.high, !.high = bar.h]
  IN  IF sar \prec bar.h
      THEN [n EXCEPT !.sar = n.ep, !.ep = bar.h, !.af = step, !.up = TRUE]
      ELSE n

(* tick() appends to input_values (here d.bars) before the phase sees a bar. *)
ParabolicSAR(step, maxAf, i, bar) ==
  LET d == IF i.booting THEN SarStart(step, i.d)
           ELSE IF i.d.up THEN Uptrend(step, maxAf, i.d, bar)
           ELSE Downtrend(step, maxAf, i.d, bar)
  IN  Return(d, Value(SarValue(d)))
=============================================================================
