-------------------------- MODULE MCChartHistory --------------------------
(* ChartHistory for TLC: stores of different depth.                        *)
EXTENDS ChartHistory

(* One symbol goes back to the first time, the others are two bars younger. *)
OneFromOne ==
  [s \in Symbols |-> IF s = CHOOSE x \in Symbols : TRUE THEN 1 ELSE 3]
=============================================================================
