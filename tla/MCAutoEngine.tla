---------------------------- MODULE MCAutoEngine ----------------------------
(* An AutoEngine's database and indicators, and its terminal, side by      *)
(* side: either one runs or the other.  Indicators of one and of two bars, *)
(* and one of a higher timeframe that the seeded timeframe does not know.  *)
EXTENDS AutoSeed, LiveChart

CONSTANT MaxTogether   \* pushes and choices of the user, a bound

One == <<"sma2">>
TwoAndHigher == <<"sma1", "sma2", "high">>

Frames == [i \in Range(Inds) |-> IF i = "high" THEN 2 ELSE 1]
Periods == [i \in Range(Inds) |-> IF i = "sma2" THEN 2 ELSE 1]

SymbolsAreAlike == Permutations(Symbols)

EngineInit == AutoInit /\ LiveInit

EngineNext ==
  \/ AutoNext /\ hooks["connect"].at = "start" /\ Len(inbox) = 2 /\ pushes + asked = 0
     /\ UNCHANGED liveVars
  \/ LiveNext /\ runs + clock = 0 /\ pushes' + asked' <= MaxTogether /\ UNCHANGED autoVars

EngineSpec == EngineInit /\ [][EngineNext]_<<autoVars, liveVars>>
=============================================================================
