------------------------- MODULE MCIndicatorEngine -------------------------
(* The registry under its threads, and the graph of indicators under its   *)
(* feed, side by side: either one runs or the other.  Two of the listeners *)
(* have one name; Bollinger bands of period 2, and a MACD of periods 2     *)
(* and 3.                                                                  *)
EXTENDS IndicatorContext, IndicatorGraph

FunctionNames == [f |-> "f", g |-> "g", f2 |-> "f"]

FastLeaf == [bb2 |-> "sma2", macd |-> "ema2"]
SlowLeaf == [bb2 |-> "std2", macd |-> "ema3"]
Period == [l \in Leaves |-> IF l = "ema3" THEN 3 ELSE 2]

ClassName == [bb2 |-> "BollingerBands", macd |-> "MACD"]

EngineInit == Init /\ GraphInit

EngineNext ==
  \/ Next /\ order = << >> /\ bar = 0 /\ UNCHANGED graphVars
  \/ GraphNext /\ made = 0 /\ pc = [t \in Threads |-> Idle] /\ UNCHANGED vars

EngineSpec ==
  /\ EngineInit /\ [][EngineNext]_<<vars, graphVars>>
  /\ \A t \in Threads : WF_vars(Step(t) /\ UNCHANGED graphVars)
=============================================================================
