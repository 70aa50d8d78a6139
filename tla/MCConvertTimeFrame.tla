------------------------- MODULE MCConvertTimeFrame -------------------------
(* A small calendar: with a day of four minutes and a week of two days,    *)
(* bars of half a day and of the week, one of them with two subscribers,   *)
(* and a subscriber of the minute.                                         *)
EXTENDS ConvertTimeFrame

HalfDay == Day \div 2

SubscribesTo == [a |-> {HalfDay, Week}, b |-> {1, HalfDay}]

MinuteHalfDayAndWeek ==
  {w \in AllFrames \X Keys : w[1] \in SubscribesTo[w[2]]}
=============================================================================
