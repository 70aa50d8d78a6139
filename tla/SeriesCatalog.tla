--------------------------- MODULE SeriesCatalog ---------------------------
(***************************************************************************)
(* The series that indicators declare (src/src/trex/presentation/          *)
(* indicators.py).  A series is its key <<name, n, part>>, under which the *)
(* terminal files points: a name with a period n, or one part of a prefix. *)
(* n is 0 where the key has no period.  Colours, labels, panes and levels  *)
(* are left out.  f is the factory's name, and p a key_prefix <<name, n>>. *)
(***************************************************************************)
EXTENDS Naturals, Sequences, FiniteSets

Single(name, n) == <<<<name, n, "">>>>
Parts(p, names) == [j \in DOMAIN names |-> <<p[1], p[2], names[j]>>]

Channel == <<"_upper", "_mid", "_lower">>

(* The moving averages, and the lines over the candles that have no period *)
(* or are several.                                                         *)
MovingAverageLine(f, n) == Single(f, n)

Overlay(f, n, p) ==
  CASE f \in {"vwap", "psar"} -> Single(f, 0)
    [] f \in {"bb", "kc", "dc", "env"} -> Parts(p, Channel)
    [] f = "ichi" -> Parts(p, <<"_tenkan", "_kijun", "_senkou_a", "_senkou_b", "_chikou">>)
    [] f = "pp" -> Parts(p, <<"_r3", "_r2", "_r1", "_pp", "_s1", "_s2", "_s3">>)
    [] f \in {"vwma", "st", "linreg"} -> Single(f, n)
    [] OTHER -> MovingAverageLine(f, n)

(* The classic oscillators, from RSI to CMO, and the others. *)
Classics == {"rsi", "macd", "stoch", "srsi", "cci", "willr", "atr", "adx", "aroon",
             "mom", "roc", "trix", "dpo", "cmo"}

ClassicOscillator(f, n, p) ==
  CASE f = "macd" -> Parts(p, <<"_line", "_signal", "_hist">>)
    [] f \in {"stoch", "srsi"} -> Parts(p, <<"_k", "_d">>)
    [] f = "adx" -> Parts(p, <<"", "_plus", "_minus">>)
    [] f = "aroon" -> Parts(p, <<"_up", "_down">>)
    [] OTHER -> Single(f, n)

Oscillator(f, n, p) ==
  CASE f \in Classics -> ClassicOscillator(f, n, p)
    [] f = "ppo" -> Parts(p, <<"_line", "_signal", "_hist">>)
    [] f = "dmi" -> Parts(p, <<"_plus", "_minus">>)
    [] f = "vortex" -> Parts(p, <<"_pos", "_neg">>)
    [] f \in {"kst", "fisher"} -> Parts(p, <<"", "_signal">>)
    [] f = "er" -> Parts(p, <<"_bull", "_bear">>)
    [] f = "esf" -> Parts(p, <<"_val", "_trg">>)
    [] OTHER -> Single(f, 0)

Volume(f, n, p) ==
  CASE f \in {"volume", "obv", "vpt", "nvi", "pvi", "cho"} -> Single(f, 0)
    [] f = "kvo" -> Parts(p, <<"", "_signal">>)
    [] OTHER -> Single(f, n)

Volatility(f, n) == IF f \in {"cv", "vixfix"} THEN Single(f, 0) ELSE Single(f, n)

(* series_defs() of the classes.  Three of them give the prefix a period;  *)
(* the others leave the prefix of the factory.                             *)
SeriesDefs(class, n) ==
  CASE class \in {"bb", "dc"} -> Overlay(class, n, <<class, n>>)
    [] class = "tr" -> Single("tr", 0)
    [] class \in {"obv", "mfi"} -> Volume(class, n, <<class, 0>>)
    [] class = "std" -> Volatility(class, n)
    [] class \in Classics -> Oscillator(class, n, <<class, 0>>)
    [] OTHER -> Overlay(class, n, <<class, 0>>)
=============================================================================
