--------------------------- MODULE MovingAverages ---------------------------
(***************************************************************************)
(* The moving averages of src/src/trex/indic/trend/, one operator for a    *)
(* class: p is its period, i its pipeline, v the close (or the bar).       *)
(* While i.booting the operator is _first_calculate(), and afterwards      *)
(* _calculate_new_value().                                                 *)
(***************************************************************************)
EXTENDS Pipeline

Two == Whole(2)

NewSma == Fresh(0, [win |-> << >>, total |-> Zero])

(* Mutant: what leaves the window stays in the sum. *)
SmaGrowing(p, i, v) ==
  LET win == Push(i.d.win, v, p)
      total == i.d.total ++ v
  IN  Return([win |-> win, total |-> total],
             IF Len(win) < p THEN Wait ELSE Value(total // Whole(p)))

Sma(p, i, v) ==
  LET win == Push(i.d.win, v, p)
      total == IF i.booting THEN i.d.total ++ v
               ELSE i.d.total ++ (v -- Head(i.d.win))
  IN  Return([win |-> win, total |-> total],
             IF Len(win) < p THEN Wait ELSE Value(total // Whole(p)))

NewEma == Fresh(0, << >>)

(* The first p values are averaged; then prev_output is weighted. *)
Ema(p, i, v) ==
  LET k == Frac(2, p + 1)
      buf == Append(i.d, v)
  IN  IF i.booting
      THEN Return(buf, IF Len(buf) < p THEN Wait ELSE Value(Mean(buf)))
      ELSE Return(i.d, Value(i.last ** (One -- k) ++ v ** k))

NewWma == Fresh(0, [win |-> << >>, wsum |-> Zero, psum |-> Zero])

Weighted(win) == Total([j \in DOMAIN win |-> Whole(j) ** win[j]])

Wma(p, i, v) ==
  LET win == Push(i.d.win, v, p)
      full == Len(win) = p
      wsum == IF ~ i.booting THEN i.d.wsum -- i.d.psum ++ Whole(p) ** v
              ELSE IF full THEN Weighted(win) ELSE Zero
      psum == IF ~ i.booting THEN i.d.psum -- Head(i.d.win) ++ v
              ELSE IF full THEN Total(win) ELSE Zero
  IN  Return([win |-> win, wsum |-> wsum, psum |-> psum],
             IF full THEN Value(wsum // Frac(p * (p + 1), 2)) ELSE Wait)

NewVwma == Fresh(0, [close |-> << >>, volume |-> << >>, pv |-> Zero, vol |-> Zero])

Vwma(p, i, bar) ==
  LET close  == Push(i.d.close, bar.c, p)
      volume == Push(i.d.volume, bar.v, p)
      gone == IF i.booting THEN [pv |-> Zero, vol |-> Zero]
              ELSE [pv |-> Head(i.d.close) ** Head(i.d.volume), vol |-> Head(i.d.volume)]
      pv  == i.d.pv ++ (bar.c ** bar.v -- gone.pv)
      vol == i.d.vol ++ (bar.v -- gone.vol)
  IN  Return([close |-> close, volume |-> volume, pv |-> pv, vol |-> vol],
             IF Len(close) < p THEN Wait ELSE Ratio(pv, vol))

NewKama == Fresh(0, [win |-> << >>, diffs |-> << >>, vol |-> Zero, kama |-> Zero])

(* The change is measured to win[0] before v is pushed, so over p + 1 bars *)
(* while the volatility is of p changes: the ratio may exceed one.  tiny   *)
(* stands for the 1e-10 that replaces a volatility of zero.                *)
Kama(p, fast, slow, tiny, i, v) ==
  LET change == IF i.prev = NoValue THEN Zero ELSE AbsOf(v -- i.prev)
      win == Push(i.d.win, v, p + 1)
      diffs == IF i.prev = NoValue THEN << >> ELSE Push(i.d.diffs, change, p)
      vol == IF i.booting THEN i.d.vol ++ change
             ELSE i.d.vol -- Head(i.d.diffs) ++ change
      direction == AbsOf(v -- Head(i.d.win))
      er == direction // (IF vol = Zero THEN tiny ELSE vol)
      fastK == Frac(2, fast + 1)
      slowK == Frac(2, slow + 1)
      root == er ** (fastK -- slowK) ++ slowK
      kama == IF i.booting THEN Head(win)
              ELSE i.d.kama ++ root ** root ** (v -- i.d.kama)
      d == [win |-> win, diffs |-> diffs, vol |-> vol, kama |-> kama]
  IN  IF ~ i.booting THEN Return(d, Value(kama))
      ELSE IF Len(win) <= p THEN Return([d EXCEPT !.kama = Zero], Wait)
      ELSE Return(d, Go)

NewZlema == Fresh(0, [win |-> << >>, ema |-> NewEma])

(* From the second value on the lagged close is the oldest of a window     *)
(* that v has not entered yet.  The private EMA emits for its owner.       *)
Zlema(p, i, v) ==
  LET win == Push(i.d.win, v, ((p - 1) \div 2) + 1)
      lagged == IF i.booting THEN Head(win) ELSE Head(i.d.win)
      adjusted == Two ** v -- lagged
      s == Ema(p, i.d.ema, adjusted)
  IN  [d |-> [win |-> win, ema |-> Advance(i.d.ema, adjusted, s)],
       r |-> IF i.booting THEN Go ELSE Wait,
       told |-> s.r]

NewDema == Fresh(0, [ema1 |-> NewEma, ema2 |-> NewEma])

(* The shared EMA is fed by the converter and calls _on_ema1(), which      *)
(* feeds the private one; its callback emits.  The class's own             *)
(* add_input_value() does nothing, so its pipeline never moves.            *)
Dema(p, i, v) ==
  LET s1 == Ema(p, i.d.ema1, v)
      s2 == Ema(p, i.d.ema2, s1.r.of)
      d1 == [i.d EXCEPT !.ema1 = Advance(@, v, s1)]
  IN  IF s1.r = Wait THEN Return(d1, Wait)
      ELSE [d |-> [d1 EXCEPT !.ema2 = Advance(@, s1.r.of, s2)],
            r |-> Wait,
            told |-> IF s2.r = Wait THEN Wait
                     ELSE Value(Two ** s1.r.of -- s2.r.of)]
=============================================================================
