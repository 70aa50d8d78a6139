-------------------------- MODULE MCIndicatorFeed --------------------------
(* Windows of three, a second period of two and a third of four; bars that *)
(* rise, fall without volume, or stand flat, over three days.              *)
EXTENDS IndicatorTextbook

MCBar(h, l, c, v) == [h |-> Whole(h), l |-> Whole(l), c |-> Whole(c), v |-> Whole(v)]
MCBars == {MCBar(6, 3, 6, 2), MCBar(4, 1, 2, 0), MCBar(5, 5, 5, 3)}
MCKinds == {"sma", "ema", "wma", "vwma", "kama", "zlema", "dema", "rsi", "mom", "roc",
            "obv", "cci", "cmo", "mfi", "willr", "stoch", "aroon", "std", "bb", "tr",
            "dc", "ichi", "vwap", "psar"}
MCStep == Frac(1, 50)
MCMaxAf == Frac(1, 25)
MCTiny == Frac(1, 10)
=============================================================================
