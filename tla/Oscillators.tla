---------------------------- MODULE Oscillators ----------------------------
(***************************************************************************)
(* The oscillators and volume indicators (src/src/trex/indic/oscillator/,  *)
(* momentum/rsi.py, momentum/aroon.py), in the form of MovingAverages.     *)
(* The 1e-10 added to a denominator only keeps 0/0 from raising, since the *)
(* numerator is zero with it: Over().                                      *)
(***************************************************************************)
EXTENDS MovingAverages

Over(a, b) == IF b = Zero THEN Zero ELSE a // b

Typical(bar) == (bar.h ++ bar.l ++ bar.c) // Whole(3)

NewRsi == Fresh(0, [seeded |-> FALSE, buf |-> << >>, gain |-> Zero, loss |-> Zero])

RsiOf(gain, loss) ==
  IF loss = Zero THEN Hundred
  ELSE Rounded(Hundred -- Hundred // (One ++ gain // loss))

(* p values seed the averages, with their p - 1 changes; a flat seed keeps *)
(* the pipeline booting, smoothing as in the run phase.                    *)
Rsi(p, i, v) ==
  LET d == v -- i.prev
      n == Whole(p - 1)
      buf == Append(i.d.buf, v)
      Change(j) == buf[j + 1] -- buf[j]
      mean == [gain |-> Total([j \in 1..(p-1) |-> Positive(Change(j))]) // n,
               loss |-> Total([j \in 1..(p-1) |-> Positive(Zero -- Change(j))]) // n]
      wilder == [gain |-> (i.d.gain ** n ++ Positive(d)) // Whole(p),
                 loss |-> (i.d.loss ** n ++ Positive(Zero -- d)) // Whole(p)]
      avg == IF i.d.seeded THEN wilder ELSE mean
  IN  IF ~ i.d.seeded /\ Len(buf) < p THEN Return([i.d EXCEPT !.buf = buf], Wait)
      ELSE Return([seeded |-> TRUE, buf |-> << >>, gain |-> avg.gain, loss |-> avg.loss],
                  IF i.booting /\ avg.gain = Zero /\ avg.loss = Zero THEN Wait
                  ELSE Value(RsiOf(avg.gain, avg.loss)))

NewMom == Fresh(0, << >>)

Mom(p, i, v) ==
  LET win == Push(i.d, v, p + 1)
  IN  Return(win, IF Len(win) <= p THEN Wait ELSE Value(v -- Head(win)))

NewRoc == Fresh(0, << >>)

(* In the run phase the oldest is read before v is pushed. *)
Roc(p, i, v) ==
  LET win == Push(i.d, v, p + 1)
      oldest == IF i.booting THEN Head(win) ELSE Head(i.d)
  IN  IF Len(win) <= p THEN Return(win, Wait)
      ELSE Return(win, Ratio((v -- oldest) ** Hundred, oldest))

NewObv == Fresh(1, Zero)

Obv(i, bar) ==
  LET d == IF i.prev.c \prec bar.c THEN i.d ++ bar.v
           ELSE IF bar.c \prec i.prev.c THEN i.d -- bar.v ELSE i.d
  IN  Return(d, Value(d))

Scale == Frac(1000, 15)   \* _SCALE, 1.0 / 0.015

(* The scale is a factor of the divisor and of the quotient: it cancels.   *)
NewCci == Fresh(0, [win |-> << >>, sum |-> Zero])

Cci(p, i, bar) ==
  LET tp == Typical(bar)
      win == Push(i.d.win, tp, p)
      sum == IF i.booting THEN i.d.sum ++ tp ELSE i.d.sum ++ (tp -- Head(i.d.win))
      sma == sum // Whole(p)
      dev == Total([j \in DOMAIN win |-> AbsOf(win[j] -- sma)]) // Whole(p)
  IN  Return([win |-> win, sum |-> sum],
             IF Len(win) < p THEN Wait
             ELSE Value(Over(tp -- sma, dev ** Scale) ** Scale))

NewCmo == Fresh(0, [gains |-> << >>, losses |-> << >>, gain |-> Zero, loss |-> Zero])

Cmo(p, i, v) ==
  LET g == Positive(v -- i.prev)
      l == Positive(i.prev -- v)
      gone == IF i.booting THEN [g |-> Zero, l |-> Zero]
              ELSE [g |-> Head(i.d.gains), l |-> Head(i.d.losses)]
      d == [gains |-> Push(i.d.gains, g, p), losses |-> Push(i.d.losses, l, p),
            gain |-> i.d.gain ++ (g -- gone.g), loss |-> i.d.loss ++ (l -- gone.l)]
  IN  IF i.prev = NoValue THEN Return(i.d, Wait)
      ELSE Return(d, IF Len(d.gains) < p THEN Wait
                     ELSE Value(Over(Hundred ** (d.gain -- d.loss), d.gain ++ d.loss)))

NewMfi == Fresh(0, [prevTp |-> Zero, pos |-> << >>, neg |-> << >>,
                    posSum |-> Zero, negSum |-> Zero])

Mfi(p, i, bar) ==
  LET tp == Typical(bar)
      flow == tp ** bar.v
      up == i.d.prevTp \preceq tp
      pos == IF up THEN flow ELSE Zero
      neg == IF up THEN Zero ELSE flow
      gone == IF i.booting THEN [pos |-> Zero, neg |-> Zero]
              ELSE [pos |-> Head(i.d.pos), neg |-> Head(i.d.neg)]
      d == IF i.prev = NoValue THEN [i.d EXCEPT !.prevTp = tp]
           ELSE [prevTp |-> tp,
                 pos |-> Push(i.d.pos, pos, p), neg |-> Push(i.d.neg, neg, p),
                 posSum |-> i.d.posSum ++ (pos -- gone.pos),
                 negSum |-> i.d.negSum ++ (neg -- gone.neg)]
  IN  Return(d, IF Len(d.pos) < p THEN Wait
                ELSE IF d.negSum = Zero THEN Value(Hundred)
                ELSE Value(Hundred -- Hundred // (One ++ d.posSum // d.negSum)))

NewWindows == Fresh(0, [h |-> << >>, l |-> << >>])

Windows(i, bar, n) == [h |-> Push(i.d.h, bar.h, n), l |-> Push(i.d.l, bar.l, n)]

WilliamsR(p, i, bar) ==
  LET w == Windows(i, bar, p)
      hh == Greatest(w.h)
      ll == Least(w.l)
  IN  Return(w, IF Len(w.h) < p THEN Wait
                ELSE Value(Over(hh -- bar.c, hh -- ll) ** Whole(-100)))

NewStochastic == Fresh(0, [w |-> [h |-> << >>, l |-> << >>], sma |-> NewSma])

(* %K goes into a private SMA, whose callback emits the pair. *)
Stochastic(kp, dp, i, bar) ==
  LET w == [h |-> Push(i.d.w.h, bar.h, kp), l |-> Push(i.d.w.l, bar.l, kp)]
      k == Over(bar.c -- Least(w.l), Greatest(w.h) -- Least(w.l)) ** Hundred
      s == Sma(dp, i.d.sma, k)
  IN  IF Len(w.h) < kp THEN Return([i.d EXCEPT !.w = w], Wait)
      ELSE [d |-> [w |-> w, sma |-> Advance(i.d.sma, k, s)],
            r |-> IF i.booting THEN Go ELSE Wait,
            told |-> IF s.r = Wait THEN Wait ELSE Value([k |-> k, d |-> s.r.of])]

(* max() and min() over indices: of equal extremes the first in the window. *)
FirstAt(win, x) == (CHOOSE j \in DOMAIN win : /\ win[j] = x
                                              /\ \A m \in 1..(j-1) : win[m] # x) - 1

Aroon(p, i, bar) ==
  LET w == Windows(i, bar, p + 1)
      up   == Whole(FirstAt(w.h, Greatest(w.h))) ** Frac(100, p)
      down == Whole(FirstAt(w.l, Least(w.l))) ** Frac(100, p)
  IN  Return(w, IF Len(w.h) <= p THEN Wait
                ELSE Value([up |-> up, down |-> down, oscillator |-> up -- down]))
=============================================================================
