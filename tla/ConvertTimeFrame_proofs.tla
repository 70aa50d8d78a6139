----------------------- MODULE ConvertTimeFrame_proofs -----------------------
(***************************************************************************)
(* Proofs about ConvertTimeFrame, for any timeframes, subscribers and      *)
(* calendar.  Whatever the feed meets, no candle is counted into two bars  *)
(* of a timeframe, and nobody is told a bar twice.  As long as nothing     *)
(* irregular happens, every subscriber is told every bar since it came,    *)
(* and, for timeframes that fit the calendar (FramesFit), every bar is the *)
(* candles of one period, and no period is skipped.                        *)
(***************************************************************************)
EXTENDS ConvertTimeFrame, SequenceTheorems, TLAPS

Bars == Seq(Nat) \ {<< >>}

(* Where the feed thread can be: nowhere, at a callback, at a bucket.      *)
Places ==
  {Idle}
    \cup [at : {"call"}, b : Nat, i : Nat \ {0}, keys : Nat, frames : Nat]
    \cup [at : {"bucket"}, b : Nat \ {0}, frames : Nat]

TypeOK ==
  /\ booted \in BOOLEAN /\ now \in Nat /\ faults \in Nat
  /\ order \in Seq(Frames)
  /\ subs \in [AllFrames -> Seq(Keys)]
  /\ step \in [Frames -> {"wait", "build"}]
  /\ current \in [Frames -> Seq(Nat)]
  /\ past \in [Frames -> Seq(Bars)]
  /\ since \in [AllFrames -> [Keys -> Nat]]
  /\ got \in [AllFrames -> [Keys -> Seq(Bars)]]
  /\ feed \in Places

Distinct(s) == \A i, j \in DOMAIN s : s[i] = s[j] => i = j

(* The buckets that have still to be given the candle of this minute, and  *)
(* the callbacks that have still to be called for it.                      *)
Pending(f) ==
  \E i \in DOMAIN order :
    /\ order[i] = f
    /\ \/ feed.at = "call" /\ i > feed.b
       \/ feed.at = "bucket" /\ i >= feed.b

CallsFor(f) == feed.at = "call" /\ FrameAt(feed.b) = f

Uncalled(f, k) == CallsFor(f) /\ \E j \in DOMAIN subs[f] : j >= feed.i /\ subs[f][j] = k

(* The minutes a bucket has been given are below this one.                 *)
Bound(f) == IF Pending(f) THEN now ELSE now + 1

(* The walk: a bucket whose callbacks are called has just filled its bar.  *)
WalkOK ==
  /\ Distinct(order) /\ \A f \in AllFrames : Distinct(subs[f])
  /\ feed.at = "call" => feed.b <= Len(order)
  /\ feed.at = "call" /\ feed.b > 0 =>
       step[order[feed.b]] = "build" /\ Len(current[order[feed.b]]) = order[feed.b]

(* A bucket: the bars it closed lie before the one it works on, and that   *)
(* one before the candle it is given next.                                 *)
BucketOK(f) ==
  /\ ~ Contains(order, f) => current[f] = << >> /\ past[f] = << >> /\ subs[f] = << >>
  /\ step[f] = "build" => current[f] # << >>
  /\ \A i \in 1..Len(current[f]) : current[f][i] < Bound(f)
  /\ \A i \in 1..Len(past[f]) : current[f] # << >> /\ Last(past[f][i]) < Head(current[f])
  /\ InTimeOrder(past[f])

(* A subscriber: the bars it was told lie before the one that is built,    *)
(* and before the one it is just to be told.                               *)
SubscriberOK(f, k) ==
  /\ ~ Contains(subs[f], k) => got[f][k] = << >>
  /\ \A i \in 1..Len(got[f][k]) : Last(got[f][k][i]) < Bound(f)
  /\ step[f] = "build" /\ (Len(current[f]) < f \/ Uncalled(f, k)) =>
       \A i \in 1..Len(got[f][k]) : Last(got[f][k][i]) < Head(current[f])
  /\ InTimeOrder(got[f][k])

(* A subscriber of the minute.                                             *)
MinuteOK(k) ==
  /\ ~ Contains(subs[1], k) => got[1][k] = << >>
  /\ \A i \in 1..Len(got[1][k]) :
       Last(got[1][k][i]) < (IF Uncalled(1, k) THEN now ELSE now + 1)
  /\ InTimeOrder(got[1][k])

OrderInv ==
  /\ TypeOK /\ WalkOK
  /\ \A f \in Frames : BucketOK(f) /\ \A k \in Keys : SubscriberOK(f, k)
  /\ \A k \in Keys : MinuteOK(k)

-----------------------------------------------------------------------------
(* Bars and lists of bars.                                                 *)

LEMMA BarFacts ==
  ASSUME NEW bar \in Bars
  PROVE  /\ bar \in Seq(Nat) /\ Len(bar) \in Nat \ {0}
         /\ Head(bar) = bar[1] /\ Head(bar) \in Nat
         /\ Last(bar) = bar[Len(bar)] /\ Last(bar) \in Nat
<1>1. bar \in Seq(Nat) /\ bar # << >>
  BY DEF Bars
<1>2. Len(bar) \in Nat \ {0}
  BY <1>1, EmptySeq
<1>3. \A i \in 1..Len(bar) : bar[i] \in Nat
  BY <1>1, ElementOfSeq
<1>4. Head(bar) = bar[1] /\ Last(bar) = bar[Len(bar)]
  BY <1>1 DEF Last
<1> QED BY <1>1, <1>2, <1>3, <1>4

LEMMA OrderedAppend ==
  ASSUME NEW bs \in Seq(Bars), InTimeOrder(bs), NEW bar \in Bars,
         \A i \in 1..Len(bs) : Last(bs[i]) < Head(bar)
  PROVE  /\ Append(bs, bar) \in Seq(Bars) /\ Len(Append(bs, bar)) = Len(bs) + 1
         /\ \A i \in 1..Len(bs) : Append(bs, bar)[i] = bs[i]
         /\ Append(bs, bar)[Len(bs) + 1] = bar
         /\ InTimeOrder(Append(bs, bar))
<1>1. Len(bs) \in Nat /\ DOMAIN bs = 1..Len(bs)
  BY LenProperties
<1>2. PICK cs : cs = Append(bs, bar)
  OBVIOUS
<1>3. /\ cs \in Seq(Bars) /\ Len(cs) = Len(bs) + 1
      /\ \A i \in 1..Len(bs) : cs[i] = bs[i]
      /\ cs[Len(bs) + 1] = bar
  BY <1>1, <1>2, AppendProperties
<1>4. DOMAIN cs = 1..(Len(bs) + 1)
  BY <1>3, LenProperties
<1>5. ASSUME NEW i \in 1..(Len(bs) + 1), NEW j \in 1..(Len(bs) + 1), i < j
      PROVE  Last(cs[i]) < Head(cs[j])
  <2>1. i \in 1..Len(bs) /\ cs[i] = bs[i]
    BY <1>1, <1>3, <1>5
  <2>2. CASE j = Len(bs) + 1
    BY <1>3, <2>1, <2>2
  <2>3. CASE j # Len(bs) + 1
    <3>1. j \in 1..Len(bs) /\ cs[j] = bs[j]
      BY <1>1, <1>3, <1>5, <2>3
    <3> QED BY <1>1, <1>5, <2>1, <3>1 DEF InTimeOrder
  <2> QED BY <2>2, <2>3
<1>6. InTimeOrder(cs)
  BY <1>4, <1>5 DEF InTimeOrder
<1> QED BY <1>2, <1>3, <1>6

(* The parts of the type invariant, one timeframe at a time.               *)
LEMMA FrameTypes ==
  ASSUME TypeOK, NEW f \in Frames
  PROVE  /\ f \in AllFrames /\ f # 1 /\ f \in Nat \ {0, 1} /\ now \in Nat
         /\ step[f] \in {"wait", "build"}
         /\ current[f] \in Seq(Nat) /\ Len(current[f]) \in Nat
         /\ \A i \in 1..Len(current[f]) : current[f][i] \in Nat
         /\ past[f] \in Seq(Bars) /\ Len(past[f]) \in Nat
         /\ \A i \in 1..Len(past[f]) : past[f][i] \in Bars
<1>1. /\ f \in AllFrames /\ f # 1 /\ f \in Nat \ {0, 1} /\ now \in Nat
      /\ step[f] \in {"wait", "build"} /\ current[f] \in Seq(Nat) /\ past[f] \in Seq(Bars)
  BY FramesAssumption DEF TypeOK, AllFrames
<1> QED BY <1>1, LenProperties, ElementOfSeq

LEMMA KeyTypes ==
  ASSUME TypeOK, NEW f \in AllFrames
  PROVE  /\ subs[f] \in Seq(Keys) /\ Len(subs[f]) \in Nat /\ DOMAIN subs[f] = 1..Len(subs[f])
         /\ \A k \in Keys : /\ got[f][k] \in Seq(Bars) /\ Len(got[f][k]) \in Nat
                             /\ DOMAIN got[f][k] = 1..Len(got[f][k])
                             /\ \A i \in 1..Len(got[f][k]) : got[f][k][i] \in Bars
<1>1. subs[f] \in Seq(Keys) /\ \A k \in Keys : got[f][k] \in Seq(Bars)
  BY DEF TypeOK
<1> QED BY <1>1, LenProperties, ElementOfSeq

LEMMA OrderTypes ==
  ASSUME TypeOK
  PROVE  /\ order \in Seq(Frames) /\ Len(order) \in Nat /\ DOMAIN order = 1..Len(order)
         /\ \A b \in 1..Len(order) : order[b] \in Frames
<1>1. order \in Seq(Frames)
  BY DEF TypeOK
<1> QED BY <1>1, LenProperties, ElementOfSeq

LEMMA HistoryFacts ==
  ASSUME TypeOK, NEW f \in Frames
  PROVE  /\ History(f) = IF Len(current[f]) >= f THEN Append(past[f], current[f]) ELSE past[f]
         /\ Len(current[f]) >= f => current[f] \in Bars
<1>1. past[f] \in Seq(Bars) /\ current[f] \in Seq(Nat) /\ f \in Nat \ {0, 1} /\ Len(current[f]) \in Nat
  BY FrameTypes
<1>2. Len(current[f]) >= f => current[f] \in Bars
  BY <1>1, EmptySeq DEF Bars
<1>3. CASE Len(current[f]) >= f
  <2>1. History(f) = past[f] \o <<current[f]>>
    BY <1>3 DEF History
  <2> QED BY <1>1, <1>2, <1>3, <2>1, AppendIsConcat
<1>4. CASE ~ (Len(current[f]) >= f)
  <2>1. History(f) = past[f] \o << >>
    BY <1>4 DEF History
  <2> QED BY <1>1, <1>4, <2>1, ConcatEmptySeq
<1> QED BY <1>2, <1>3, <1>4

LEMMA HistoryFactsNext ==
  ASSUME TypeOK', NEW f \in Frames
  PROVE  History(f)' = IF Len(current'[f]) >= f
                       THEN Append(past'[f], current'[f]) ELSE past'[f]
<1>1. past'[f] \in Seq(Bars) /\ current'[f] \in Seq(Nat) /\ f \in Nat \ {0, 1}
  BY FramesAssumption DEF TypeOK
<1>2. CASE Len(current'[f]) >= f
  <2>1. History(f)' = past'[f] \o <<current'[f]>>
    BY <1>2 DEF History
  <2>2. PICK one \in Seq(Nat) : one = current'[f]
    BY <1>1
  <2>3. one \in Bars
    BY <1>1, <1>2, <2>2, EmptySeq DEF Bars
  <2> QED BY <1>1, <1>2, <2>1, <2>2, <2>3, AppendIsConcat
<1>3. CASE ~ (Len(current'[f]) >= f)
  <2>1. History(f)' = past'[f] \o << >>
    BY <1>3 DEF History
  <2> QED BY <1>1, <1>3, <2>1, ConcatEmptySeq
<1> QED BY <1>2, <1>3

LEMMA HistoryInOrder ==
  ASSUME TypeOK, NEW f \in Frames, BucketOK(f)
  PROVE  /\ History(f) \in Seq(Bars) /\ InTimeOrder(History(f))
         /\ \A i \in 1..Len(History(f)) : Last(History(f)[i]) < Bound(f)
<1>1. /\ past[f] \in Seq(Bars) /\ Len(past[f]) \in Nat /\ Len(current[f]) \in Nat
      /\ f \in Nat \ {0, 1}
      /\ now \in Nat /\ \A i \in 1..Len(past[f]) : past[f][i] \in Bars
  BY FrameTypes
<1>2. Bound(f) \in Nat
  BY <1>1 DEF Bound
<1>3. /\ InTimeOrder(past[f])
      /\ \A i \in 1..Len(past[f]) : current[f] # << >> /\ Last(past[f][i]) < Head(current[f])
      /\ \A i \in 1..Len(current[f]) : current[f][i] < Bound(f)
  BY DEF BucketOK
<1>4. current[f] # << >> => /\ current[f] \in Bars
                            /\ Head(current[f]) < Bound(f) /\ Last(current[f]) < Bound(f)
  <2> SUFFICES ASSUME current[f] # << >>
               PROVE  /\ current[f] \in Bars
                      /\ Head(current[f]) < Bound(f) /\ Last(current[f]) < Bound(f)
    OBVIOUS
  <2>1. current[f] \in Bars
    BY FrameTypes DEF Bars
  <2>2. /\ Len(current[f]) \in Nat \ {0} /\ Head(current[f]) = current[f][1]
        /\ Last(current[f]) = current[f][Len(current[f])]
    BY <2>1, BarFacts
  <2> QED BY <1>3, <2>1, <2>2
<1>5. ASSUME NEW i \in 1..Len(past[f])
      PROVE  Last(past[f][i]) < Bound(f)
  <2>1. Last(past[f][i]) \in Nat /\ Head(current[f]) \in Nat
    BY <1>1, <1>3, <1>4, BarFacts
  <2> QED BY <1>2, <1>3, <1>4, <2>1
<1>6. CASE Len(current[f]) >= f
  <2>1. current[f] \in Bars /\ current[f] # << >>
    BY <1>6, HistoryFacts DEF Bars
  <2>2. PICK h : h = Append(past[f], current[f])
    OBVIOUS
  <2>3. /\ h \in Seq(Bars) /\ Len(h) = Len(past[f]) + 1 /\ InTimeOrder(h)
        /\ \A i \in 1..Len(past[f]) : h[i] = past[f][i]
        /\ h[Len(past[f]) + 1] = current[f]
    BY <1>1, <1>3, <2>1, <2>2, OrderedAppend
  <2>4. \A i \in 1..Len(h) : Last(h[i]) < Bound(f)
    BY <1>1, <1>4, <1>5, <2>1, <2>3
  <2>5. History(f) = h
    BY <1>6, <2>2, HistoryFacts
  <2> QED BY <2>3, <2>4, <2>5
<1>7. CASE ~ (Len(current[f]) >= f)
  BY <1>1, <1>3, <1>5, <1>7, HistoryFacts
<1> QED BY <1>6, <1>7

-----------------------------------------------------------------------------
(* What a step does not touch stays in order.                              *)

LEMMA BoundType ==
  ASSUME TypeOK, NEW f
  PROVE  Bound(f) \in Nat /\ now <= Bound(f) /\ Bound(f) <= now + 1
<1>1. now \in Nat
  BY DEF TypeOK
<1> QED BY ONLY <1>1 DEF Bound

LEMMA BoundTypes ==
  ASSUME TypeOK, TypeOK', NEW f
  PROVE  Bound(f) \in Nat /\ Bound(f)' \in Nat
<1>1. now \in Nat /\ now' \in Nat
  BY DEF TypeOK
<1>2. (Bound(f) = now \/ Bound(f) = now + 1) /\ (Bound(f)' = now' \/ Bound(f)' = now' + 1)
  BY DEF Bound
<1> QED BY <1>1, <1>2

LEMMA BucketKept ==
  ASSUME TypeOK, TypeOK', NEW f \in Frames, BucketOK(f),
         current'[f] = current[f], past'[f] = past[f], step'[f] \in {step[f], "wait"},
         Contains(order, f)' \/ (~ Contains(order, f) /\ subs'[f] = << >>),
         Bound(f) <= Bound(f)'
  PROVE  BucketOK(f)'
<1>1. Bound(f) \in Nat /\ Bound(f)' \in Nat
  BY BoundTypes
<1>2. \A i \in 1..Len(current[f]) : current[f][i] \in Nat
  BY FrameTypes
<1>3. /\ ~ Contains(order, f) => current[f] = << >> /\ past[f] = << >> /\ subs[f] = << >>
      /\ step[f] = "build" => current[f] # << >>
      /\ \A i \in 1..Len(current[f]) : current[f][i] < Bound(f)
      /\ \A i \in 1..Len(past[f]) : current[f] # << >> /\ Last(past[f][i]) < Head(current[f])
      /\ InTimeOrder(past[f])
  BY DEF BucketOK
<1>4. \A i \in 1..Len(current'[f]) : current'[f][i] < Bound(f)'
  BY <1>1, <1>2, <1>3
<1>5. /\ ~ Contains(order, f)' => current'[f] = << >> /\ past'[f] = << >> /\ subs'[f] = << >>
      /\ step'[f] = "build" => current'[f] # << >>
      /\ \A i \in 1..Len(past'[f]) : current'[f] # << >> /\ Last(past'[f][i]) < Head(current'[f])
      /\ InTimeOrder(past'[f])
  BY <1>3
<1> QED BY <1>4, <1>5 DEF BucketOK

LEMMA SubscriberKept ==
  ASSUME TypeOK, TypeOK', NEW f \in Frames, NEW k \in Keys, SubscriberOK(f, k),
         current'[f] = current[f], step'[f] \in {step[f], "wait"}, got'[f][k] = got[f][k],
         Contains(subs[f], k) => Contains(subs[f], k)',
         Uncalled(f, k)' => Uncalled(f, k),
         Bound(f) <= Bound(f)'
  PROVE  SubscriberOK(f, k)'
<1>1. Bound(f) \in Nat /\ Bound(f)' \in Nat
  BY BoundTypes
<1>2. \A i \in 1..Len(got[f][k]) : Last(got[f][k][i]) \in Nat
  BY FrameTypes, KeyTypes, BarFacts
<1>3. /\ ~ Contains(subs[f], k) => got[f][k] = << >>
      /\ \A i \in 1..Len(got[f][k]) : Last(got[f][k][i]) < Bound(f)
      /\ step[f] = "build" /\ (Len(current[f]) < f \/ Uncalled(f, k)) =>
           \A i \in 1..Len(got[f][k]) : Last(got[f][k][i]) < Head(current[f])
      /\ InTimeOrder(got[f][k])
  BY DEF SubscriberOK
<1>4. \A i \in 1..Len(got'[f][k]) : Last(got'[f][k][i]) < Bound(f)'
  BY <1>1, <1>2, <1>3
<1>5. /\ ~ Contains(subs[f], k)' => got'[f][k] = << >>
      /\ step'[f] = "build" /\ (Len(current'[f]) < f \/ Uncalled(f, k)') =>
           \A i \in 1..Len(got'[f][k]) : Last(got'[f][k][i]) < Head(current'[f])
      /\ InTimeOrder(got'[f][k])
  BY <1>3
<1> QED BY <1>4, <1>5 DEF SubscriberOK

LEMMA MinuteKept ==
  ASSUME TypeOK, TypeOK', NEW k \in Keys, MinuteOK(k), got'[1][k] = got[1][k],
         Contains(subs[1], k) => Contains(subs[1], k)', now <= now',
         Uncalled(1, k)' => Uncalled(1, k) \/ now < now'
  PROVE  MinuteOK(k)'
<1>1. now \in Nat /\ now' \in Nat
  BY DEF TypeOK
<1>2. \A i \in 1..Len(got[1][k]) : Last(got[1][k][i]) \in Nat
  BY KeyTypes, BarFacts DEF AllFrames
<1>3. /\ ~ Contains(subs[1], k) => got[1][k] = << >>
      /\ \A i \in 1..Len(got[1][k]) :
           Last(got[1][k][i]) < (IF Uncalled(1, k) THEN now ELSE now + 1)
      /\ InTimeOrder(got[1][k])
  BY DEF MinuteOK
<1>4. \A i \in 1..Len(got'[1][k]) :
        Last(got'[1][k][i]) < (IF Uncalled(1, k)' THEN now' ELSE now' + 1)
  BY <1>1, <1>2, <1>3
<1>5. ~ Contains(subs[1], k)' => got'[1][k] = << >>
  BY <1>3
<1> QED BY <1>3, <1>4, <1>5 DEF MinuteOK

(* Which frame the callbacks of a place are of.                            *)
LEMMA FrameAtFacts ==
  ASSUME TypeOK, WalkOK, feed.at = "call"
  PROVE  /\ feed.b \in 0..Len(order) /\ feed.i \in Nat \ {0} /\ feed.keys \in Nat
         /\ feed.frames \in Nat
         /\ FrameAt(feed.b) \in AllFrames
         /\ feed.b = 0 => FrameAt(feed.b) = 1 /\ \A f \in Frames : ~ CallsFor(f)
         /\ feed.b > 0 => /\ FrameAt(feed.b) = order[feed.b] /\ order[feed.b] \in Frames
                          /\ \A f \in AllFrames : CallsFor(f) <=> f = order[feed.b]
<1>1. feed \in [at : {"call"}, b : Nat, i : Nat \ {0}, keys : Nat, frames : Nat]
  BY DEF TypeOK, Places, Idle
<1>2. feed.b \in 0..Len(order)
  BY <1>1, OrderTypes DEF WalkOK
<1>3. feed.b > 0 => order[feed.b] \in Frames
  BY <1>2, OrderTypes
<1>4. FrameAt(feed.b) = IF feed.b = 0 THEN 1 ELSE order[feed.b]
  BY DEF FrameAt
<1> QED BY <1>1, <1>2, <1>3, <1>4, FramesAssumption DEF CallsFor, AllFrames

LEMMA PlaceTypes ==
  ASSUME TypeOK
  PROVE  /\ feed.at \in {"idle", "call", "bucket"}
         /\ feed.at = "call" =>
              feed \in [at : {"call"}, b : Nat, i : Nat \ {0}, keys : Nat, frames : Nat]
         /\ feed.at = "bucket" => feed \in [at : {"bucket"}, b : Nat \ {0}, frames : Nat]
BY DEF TypeOK, Places, Idle

-----------------------------------------------------------------------------
(* A candle comes: no bucket, and no subscriber, has had it.               *)
LEMMA ProvideStep ==
  ASSUME OrderInv, Provide
  PROVE  OrderInv'
<1>1. PICK d \in Skips : now' = now + d /\ Fault(d > 1)
  BY DEF Provide
<1>2. /\ feed.at = "idle" /\ feed' = (IF booted THEN Calling(0, 0) ELSE Idle)
      /\ booted' = TRUE
      /\ UNCHANGED <<order, subs, step, current, past, since, got>>
  BY DEF Provide
<1>3. TypeOK /\ WalkOK
  BY DEF OrderInv
<1>4. now \in Nat /\ now' \in Nat /\ now + 1 <= now' /\ faults' \in Nat
  BY <1>1, <1>3, SkipsAssumption DEF TypeOK, Fault
<1>5. /\ Calling(0, 0) \in Places /\ Calling(0, 0).at = "call" /\ Calling(0, 0).b = 0
      /\ Idle \in Places /\ Idle.at = "idle"
  <2>1. Len(subs[1]) \in Nat
    BY <1>3, KeyTypes DEF AllFrames
  <2> QED BY <2>1 DEF Calling, Places, Idle, FrameAt
<1>6. feed' \in Places /\ (feed'.at = "idle" \/ (feed'.at = "call" /\ feed'.b = 0))
  BY <1>2, <1>5
<1>7. TypeOK'
  BY <1>2, <1>3, <1>4, <1>6 DEF TypeOK
<1>8. WalkOK'
  BY <1>2, <1>3, <1>6, OrderTypes DEF WalkOK
<1>9. \A f : Bound(f) <= Bound(f)'
  <2>1. \A f : (Bound(f) = now \/ Bound(f) = now + 1) /\ (Bound(f)' = now' \/ Bound(f)' = now' + 1)
    BY DEF Bound
  <2> QED BY <1>4, <2>1
<1>10. \A f \in Frames : ~ CallsFor(f)'
  BY <1>6, FramesAssumption DEF CallsFor, FrameAt
<1>11. \A f \in Frames : BucketOK(f)'
  BY <1>2, <1>3, <1>7, <1>9, BucketKept DEF OrderInv, BucketOK, Contains
<1>12. \A f \in Frames, k \in Keys : SubscriberOK(f, k)'
  BY <1>2, <1>3, <1>7, <1>9, <1>10, SubscriberKept DEF OrderInv, Uncalled, Contains
<1>13. \A k \in Keys : MinuteOK(k)'
  BY <1>2, <1>3, <1>4, <1>7, MinuteKept DEF OrderInv, Contains
<1> QED BY <1>7, <1>8, <1>11, <1>12, <1>13 DEF OrderInv

(* A candle a bucket has still to be given is not taken back.              *)
LEMMA BoundGrows ==
  ASSUME TypeOK, TypeOK', now' = now, NEW f, Pending(f)' => Pending(f)
  PROVE  Bound(f) <= Bound(f)'
<1>1. now \in Nat
  BY DEF TypeOK
<1>2. /\ Bound(f) = (IF Pending(f) THEN now ELSE now + 1)
      /\ Bound(f)' = (IF Pending(f)' THEN now' ELSE now' + 1)
  BY DEF Bound
<1> QED BY <1>1, <1>2

(* Who was told nothing was told nothing twice.                            *)
LEMMA NothingTold ==
  ASSUME NEW k, NEW f, got'[f][k] = << >>
  PROVE  SubscriberOK(f, k)' /\ (f = 1 => MinuteOK(k)')
<1>1. PICK g : g = got'[f][k]
  OBVIOUS
<1>2. g = << >> /\ Len(g) = 0 /\ 1..Len(g) = {} /\ DOMAIN g = {}
  BY <1>1
<1>3. InTimeOrder(g)
  BY <1>2 DEF InTimeOrder
<1> QED BY <1>1, <1>2, <1>3 DEF SubscriberOK, MinuteOK

(* The walk ends, by an exception or not: nobody is to be called any more. *)
LEMMA StopStep ==
  ASSUME OrderInv, feed' = Idle, faults' \in Nat,
         UNCHANGED <<booted, now, order, subs, step, current, past, since, got>>
  PROVE  OrderInv'
<1>1. TypeOK /\ WalkOK
  BY DEF OrderInv
<1>2. feed'.at = "idle" /\ Idle \in Places
  BY DEF Idle, Places
<1>3. TypeOK'
  BY <1>1, <1>2 DEF TypeOK
<1>4. WalkOK'
  BY <1>1, <1>2 DEF WalkOK
<1>5. \A f : Bound(f) <= Bound(f)' /\ ~ CallsFor(f)'
  BY <1>1, <1>2, <1>3, BoundGrows DEF Pending, CallsFor
<1>6. \A f \in Frames : BucketOK(f)'
  BY <1>1, <1>3, <1>5, BucketKept DEF OrderInv, BucketOK, Contains
<1>7. \A f \in Frames, k \in Keys : SubscriberOK(f, k)'
  BY <1>1, <1>3, <1>5, SubscriberKept DEF OrderInv, Uncalled, Contains
<1>8. now <= now'
  BY <1>1 DEF TypeOK
<1>9. \A k \in Keys : MinuteOK(k)'
  BY <1>1, <1>3, <1>5, <1>8, MinuteKept DEF OrderInv, Uncalled, Contains
<1> QED BY <1>3, <1>4, <1>6, <1>7, <1>9 DEF OrderInv

LEMMA RaiseStep ==
  ASSUME OrderInv, Raise
  PROVE  OrderInv'
<1>1. faults \in Nat
  BY DEF OrderInv, TypeOK
<1>2. Fault(TRUE) \/ Fault(FALSE)
  BY DEF Raise
<1>3. faults' \in Nat
  BY <1>1, <1>2 DEF Fault
<1> QED BY <1>3, StopStep DEF Raise

LEMMA BucketsDoneStep ==
  ASSUME OrderInv, BucketsDone
  PROVE  OrderInv'
<1>1. faults \in Nat
  BY DEF OrderInv, TypeOK
<1> QED BY <1>1, StopStep DEF BucketsDone

(* The callbacks of a bucket have been called: the next has its turn.      *)
LEMMA CallbacksDoneStep ==
  ASSUME OrderInv, CallbacksDone
  PROVE  OrderInv'
<1>1. TypeOK /\ WalkOK
  BY DEF OrderInv
<1>2. /\ feed.at = "call"
      /\ feed' = Visiting(feed.b + 1, IF feed.b = 0 THEN Len(order) ELSE feed.frames)
      /\ UNCHANGED <<booted, now, order, subs, current, past, since, got, faults>>
  BY DEF CallbacksDone
<1>3. step' = IF FrameAt(feed.b) = 1 THEN step ELSE [step EXCEPT ![FrameAt(feed.b)] = "wait"]
  BY DEF CallbacksDone
<1>4. feed.b \in Nat /\ feed.frames \in Nat
  BY <1>1, <1>2, FrameAtFacts, OrderTypes
<1>5. feed'.at = "bucket" /\ feed'.b = feed.b + 1 /\ feed' \in Places
  BY <1>1, <1>2, <1>4, OrderTypes DEF Visiting, Places
<1>6. step' \in [Frames -> {"wait", "build"}] /\ \A f \in Frames : step'[f] \in {step[f], "wait"}
  BY <1>1, <1>3 DEF TypeOK
<1>7. TypeOK'
  BY <1>1, <1>2, <1>5, <1>6 DEF TypeOK
<1>8. WalkOK'
  BY <1>1, <1>2, <1>5 DEF WalkOK
<1>9. \A f : Pending(f)' => Pending(f)
  <2> SUFFICES ASSUME NEW f, NEW i \in DOMAIN order', order'[i] = f, i >= feed'.b
               PROVE  Pending(f)
    BY <1>5 DEF Pending
  <2>1. i \in DOMAIN order /\ order[i] = f /\ i > feed.b
    BY <1>1, <1>2, <1>4, <1>5, OrderTypes
  <2> QED BY <1>2, <2>1 DEF Pending
<1>10. \A f : Bound(f) <= Bound(f)' /\ ~ CallsFor(f)'
  BY <1>1, <1>2, <1>5, <1>7, <1>9, BoundGrows DEF CallsFor
<1>11. \A f \in Frames : BucketOK(f)'
  BY <1>1, <1>2, <1>6, <1>7, <1>10, BucketKept DEF OrderInv, BucketOK, Contains
<1>12. \A f \in Frames, k \in Keys : SubscriberOK(f, k)'
  BY <1>1, <1>2, <1>6, <1>7, <1>10, SubscriberKept DEF OrderInv, Uncalled, Contains
<1>13. now <= now'
  BY <1>1, <1>2 DEF TypeOK
<1>14. \A k \in Keys : MinuteOK(k)'
  BY <1>1, <1>2, <1>7, <1>10, <1>13, MinuteKept DEF OrderInv, Uncalled, Contains
<1> QED BY <1>7, <1>8, <1>11, <1>12, <1>14 DEF OrderInv

(* A callback is called: it is told the minute, or the bar just filled.    *)
LEMMA CallbackStep ==
  ASSUME OrderInv, Callback
  PROVE  OrderInv'
<1>1. TypeOK /\ WalkOK
  BY DEF OrderInv
<1>2. PICK F : F = FrameAt(feed.b)
  OBVIOUS
<1>3. /\ feed.at = "call" /\ Len(subs[F]) = feed.keys /\ feed.i <= feed.keys
      /\ feed' = [feed EXCEPT !.i = @ + 1]
      /\ got' = [got EXCEPT ![F][subs[F][feed.i]] =
                   Append(@, IF F = 1 THEN <<now>> ELSE current[F])]
      /\ UNCHANGED <<booted, now, order, subs, step, current, past, since, faults>>
  BY <1>2 DEF Callback
<1>4. /\ feed \in [at : {"call"}, b : Nat, i : Nat \ {0}, keys : Nat, frames : Nat]
      /\ F \in AllFrames /\ feed.b \in 0..Len(order)
  BY <1>1, <1>2, <1>3, FrameAtFacts, PlaceTypes
<1>5. /\ feed.i \in DOMAIN subs[F] /\ subs[F][feed.i] \in Keys /\ Len(subs[F]) \in Nat
      /\ DOMAIN subs[F] = 1..Len(subs[F])
  <2>1. subs[F] \in Seq(Keys) /\ Len(subs[F]) \in Nat /\ DOMAIN subs[F] = 1..Len(subs[F])
    BY <1>1, <1>4, KeyTypes
  <2>2. feed.i \in 1..Len(subs[F])
    BY <1>3, <1>4, <2>1
  <2> QED BY <2>1, <2>2, ElementOfSeq
<1>6. PICK K \in Keys : K = subs[F][feed.i]
  BY <1>5
<1>7. /\ feed'.at = "call" /\ feed'.b = feed.b /\ feed'.i = feed.i + 1
      /\ feed' \in [at : {"call"}, b : Nat, i : Nat \ {0}, keys : Nat, frames : Nat]
  BY <1>3, <1>4
<1>8. Uncalled(F, K)
  <2>1. feed.i >= feed.i
    BY <1>4
  <2> QED BY <1>2, <1>3, <1>5, <1>6, <2>1 DEF Uncalled, CallsFor
<1>9. PICK bar : bar = IF F = 1 THEN <<now>> ELSE current[F]
  OBVIOUS
<1>10. F # 1 => /\ F \in Frames /\ feed.b > 0 /\ step[F] = "build" /\ Len(current[F]) = F
                /\ bar = current[F]
  <2>1. feed.b = 0 => F = 1
    BY <1>1, <1>2, <1>3, FrameAtFacts
  <2>2. feed.b > 0 => /\ F = order[feed.b] /\ F \in Frames
                      /\ step[F] = "build" /\ Len(current[F]) = F
    BY <1>1, <1>2, <1>3, FrameAtFacts DEF WalkOK
  <2>3. feed.b = 0 \/ feed.b > 0
    BY <1>4
  <2> QED BY <1>9, <2>1, <2>2, <2>3
<1>11. bar \in Bars
  <2>1. CASE F = 1
    <3>1. now \in Nat
      BY <1>1 DEF TypeOK
    <3>2. bar = <<now>>
      BY <1>9, <2>1
    <3>3. bar \in Seq(Nat) /\ Len(bar) = 1
      BY <3>1, <3>2
    <3>4. bar = << >> <=> Len(bar) = 0
      BY <3>3, EmptySeq
    <3>5. bar # << >>
      BY <3>3, <3>4
    <3> QED BY <3>3, <3>5 DEF Bars
  <2>2. CASE F # 1
    <3>1. Len(current[F]) >= F
      BY <1>1, <1>10, <2>2, FrameTypes
    <3> QED BY <1>1, <1>10, <2>2, <3>1, HistoryFacts
  <2> QED BY <2>1, <2>2
<1>12. PICK told : told = got[F][K]
  OBVIOUS
<1>13. /\ told \in Seq(Bars) /\ Len(told) \in Nat /\ InTimeOrder(told)
       /\ \A i \in 1..Len(told) : Last(told[i]) < Head(bar)
  <2>1. told \in Seq(Bars) /\ Len(told) \in Nat
    BY <1>1, <1>4, <1>12, KeyTypes
  <2>2. CASE F = 1
    <3>1. bar = <<now>> /\ Head(bar) = now
      BY <1>9, <2>2
    <3> QED BY <1>8, <1>12, <2>1, <2>2, <3>1 DEF OrderInv, MinuteOK
  <2>3. CASE F # 1
    BY <1>8, <1>10, <1>12, <2>1, <2>3 DEF OrderInv, SubscriberOK
  <2> QED BY <2>2, <2>3
<1>14. PICK now1 : now1 = Append(told, bar)
  OBVIOUS
<1>15. /\ now1 \in Seq(Bars) /\ Len(now1) = Len(told) + 1 /\ InTimeOrder(now1)
       /\ \A i \in 1..Len(told) : now1[i] = told[i]
       /\ now1[Len(told) + 1] = bar
  BY <1>11, <1>13, <1>14, OrderedAppend
<1>16. /\ got' \in [AllFrames -> [Keys -> Seq(Bars)]]
       /\ \A f \in AllFrames, k \in Keys :
            got'[f][k] = IF f = F /\ k = K THEN now1 ELSE got[f][k]
  <2>1. got' = [got EXCEPT ![F][K] = now1]
    BY <1>3, <1>6, <1>9, <1>12, <1>14
  <2>2. got \in [AllFrames -> [Keys -> Seq(Bars)]]
    BY <1>1 DEF TypeOK
  <2> QED BY <1>4, <1>15, <2>1, <2>2
<1>17. TypeOK'
  <2>1. feed' \in Places
    BY <1>7 DEF Places
  <2> QED BY <1>1, <1>3, <1>16, <2>1 DEF TypeOK
<1>18. WalkOK'
  BY <1>1, <1>3, <1>7 DEF WalkOK
<1>19. \A f : (Pending(f)' <=> Pending(f)) /\ (CallsFor(f)' <=> CallsFor(f))
  BY <1>3, <1>7 DEF Pending, CallsFor, FrameAt
<1>20. \A f, k : Uncalled(f, k)' => Uncalled(f, k)
  <2> SUFFICES ASSUME NEW f, NEW k, CallsFor(f), NEW j \in DOMAIN subs[f],
                      j >= feed.i + 1, subs[f][j] = k
               PROVE  j >= feed.i
    BY <1>3, <1>7, <1>19 DEF Uncalled
  <2>1. f = F
    BY <1>2 DEF CallsFor
  <2> QED BY <1>4, <1>5, <2>1
<1>21. ~ Uncalled(F, K)'
  <2> SUFFICES ASSUME NEW j \in DOMAIN subs[F], j >= feed.i + 1, subs[F][j] = K
               PROVE  FALSE
    BY <1>3, <1>7 DEF Uncalled
  <2>1. Distinct(subs[F])
    BY <1>1, <1>4 DEF WalkOK
  <2>2. j = feed.i
    BY <1>5, <1>6, <2>1 DEF Distinct
  <2> QED BY <1>4, <2>2
<1>22. \A f : Bound(f) <= Bound(f)' /\ Bound(f)' = Bound(f)
  <2>1. \A f : Bound(f) <= Bound(f)'
    BY <1>1, <1>3, <1>17, <1>19, BoundGrows
  <2>2. \A f : Bound(f)' = Bound(f)
    BY <1>3, <1>19 DEF Bound
  <2> QED BY <2>1, <2>2
<1>23. \A f \in Frames : BucketOK(f)'
  BY <1>1, <1>3, <1>17, <1>22, BucketKept DEF OrderInv, BucketOK, Contains
<1>24. \A f \in Frames, k \in Keys : SubscriberOK(f, k)'
  <2> SUFFICES ASSUME NEW f \in Frames, NEW k \in Keys
               PROVE  SubscriberOK(f, k)'
    OBVIOUS
  <2>1. f \in AllFrames
    BY DEF AllFrames
  <2>2. CASE f = F /\ k = K
    <3>1. F # 1 /\ got'[f][k] = now1
      BY <1>16, <2>1, <2>2, FramesAssumption
    <3>2. Contains(subs[f], k)'
      BY <1>3, <1>5, <1>6, <2>2 DEF Contains
    <3>3. \A i \in 1..Len(told) : Last(told[i]) < Bound(f)
      BY <1>12, <2>2 DEF OrderInv, SubscriberOK
    <3>4. Last(bar) < Bound(f)
      <4>1. bar = current[f] /\ bar[Len(bar)] < Bound(f)
        <5>1. Len(bar) \in 1..Len(bar) /\ bar = current[f]
          BY <1>10, <1>11, <2>2, <3>1, BarFacts
        <5> QED BY <5>1 DEF OrderInv, BucketOK
      <4> QED BY <1>11, <4>1, BarFacts
    <3>5. \A i \in 1..Len(now1) : Last(now1[i]) < Bound(f)
      BY <1>13, <1>15, <3>3, <3>4
    <3>6. ~ (Len(current'[f]) < f)
      BY <1>3, <1>10, <2>2, <3>1, FramesAssumption
    <3> QED BY <1>15, <1>21, <1>22, <2>2, <3>1, <3>2, <3>5, <3>6 DEF SubscriberOK
  <2>3. CASE ~ (f = F /\ k = K)
    <3>1. got'[f][k] = got[f][k]
      BY <1>16, <2>1, <2>3
    <3> QED BY <1>1, <1>3, <1>17, <1>20, <1>22, <3>1, SubscriberKept DEF OrderInv, Contains
  <2> QED BY <2>2, <2>3
<1>25. \A k \in Keys : MinuteOK(k)'
  <2> SUFFICES ASSUME NEW k \in Keys
               PROVE  MinuteOK(k)'
    OBVIOUS
  <2>1. 1 \in AllFrames
    BY DEF AllFrames
  <2>2. CASE F = 1 /\ k = K
    <3>1. got'[1][k] = now1 /\ bar = <<now>> /\ Last(bar) = now
      BY <1>9, <1>16, <2>1, <2>2 DEF Last
    <3>2. Contains(subs[1], k)'
      BY <1>3, <1>5, <1>6, <2>2 DEF Contains
    <3>3. now \in Nat /\ \A i \in 1..Len(told) : Last(told[i]) < now
      BY <1>1, <1>8, <1>12, <2>2 DEF OrderInv, MinuteOK, TypeOK
    <3>4. \A i \in 1..Len(told) : Last(told[i]) \in Nat
      BY <1>13, ElementOfSeq, BarFacts
    <3>5. \A i \in 1..Len(now1) : Last(now1[i]) < now + 1
      <4> SUFFICES ASSUME NEW i \in 1..Len(now1)
                   PROVE  Last(now1[i]) < now + 1
        OBVIOUS
      <4>1. CASE i = Len(told) + 1
        BY <1>15, <3>1, <3>3, <4>1
      <4>2. CASE i # Len(told) + 1
        <5>1. i \in 1..Len(told)
          BY <1>13, <1>15, <4>2
        <5> QED BY <1>15, <3>3, <3>4, <5>1
      <4> QED BY <4>1, <4>2
    <3> QED BY <1>3, <1>15, <1>21, <2>2, <3>1, <3>2, <3>5 DEF MinuteOK
  <2>3. CASE ~ (F = 1 /\ k = K)
    <3>1. got'[1][k] = got[1][k]
      BY <1>16, <2>1, <2>3
    <3>2. now <= now'
      BY <1>1, <1>3 DEF TypeOK
    <3> QED BY <1>1, <1>3, <1>17, <1>20, <3>1, <3>2, MinuteKept DEF OrderInv, Contains
  <2> QED BY <2>2, <2>3
<1> QED BY <1>17, <1>18, <1>23, <1>24, <1>25 DEF OrderInv

(* A subscriber, and perhaps a bucket, joins: it has had nothing yet.      *)
LEMMA DistinctAppend ==
  ASSUME NEW S, NEW s \in Seq(S), Distinct(s), NEW e \in S, ~ Contains(s, e)
  PROVE  /\ Append(s, e) \in Seq(S) /\ Distinct(Append(s, e))
         /\ Len(Append(s, e)) = Len(s) + 1
         /\ \A i \in 1..Len(s) : Append(s, e)[i] = s[i]
         /\ Append(s, e)[Len(s) + 1] = e
<1>1. Len(s) \in Nat /\ DOMAIN s = 1..Len(s)
  BY LenProperties
<1>2. PICK t : t = Append(s, e)
  OBVIOUS
<1>3. /\ t \in Seq(S) /\ Len(t) = Len(s) + 1
      /\ \A i \in 1..Len(s) : t[i] = s[i]
      /\ t[Len(s) + 1] = e
  BY <1>1, <1>2, AppendProperties
<1>4. DOMAIN t = 1..(Len(s) + 1)
  BY <1>3, LenProperties
<1>5. \A i \in 1..Len(s) : s[i] # e
  BY DEF Contains
<1>6. ASSUME NEW i \in 1..(Len(s) + 1), NEW j \in 1..(Len(s) + 1), t[i] = t[j]
      PROVE  i = j
  <2>1. /\ i = Len(s) + 1 \/ i \in 1..Len(s)
        /\ j = Len(s) + 1 \/ j \in 1..Len(s)
    BY <1>1
  <2>2. i \in 1..Len(s) /\ j \in 1..Len(s) => i = j
    BY <1>1, <1>3, <1>6 DEF Distinct
  <2> QED BY <1>3, <1>5, <1>6, <2>1, <2>2
<1>7. Distinct(t)
  BY <1>4, <1>6 DEF Distinct
<1> QED BY <1>2, <1>3, <1>7

LEMMA AddStep ==
  ASSUME OrderInv, NEW F \in AllFrames, NEW K \in Keys, AddTimeframe(F, K)
  PROVE  OrderInv'
<1>1. TypeOK /\ WalkOK
  BY DEF OrderInv
<1>2. /\ ~ Contains(subs[F], K)
      /\ subs' = [subs EXCEPT ![F] = Append(@, K)]
      /\ order' = IF F = 1 \/ Contains(order, F) THEN order ELSE Append(order, F)
      /\ since' = [since EXCEPT ![F][K] = now]
      /\ UNCHANGED <<booted, now, step, current, past, feed, got>>
  BY DEF AddTimeframe
<1>3. faults' \in Nat
  <2>1. faults \in Nat /\ Fault(feed.at # "idle")
    BY <1>1 DEF TypeOK, AddTimeframe
  <2> QED BY <2>1 DEF Fault
<1>4. since' \in [AllFrames -> [Keys -> Nat]]
  BY <1>1, <1>2 DEF TypeOK
<1>5. /\ order \in Seq(Frames) /\ Len(order) \in Nat /\ DOMAIN order = 1..Len(order)
      /\ subs[F] \in Seq(Keys) /\ Len(subs[F]) \in Nat /\ DOMAIN subs[F] = 1..Len(subs[F])
  BY <1>1, OrderTypes, KeyTypes
<1>6. PICK keys : keys = Append(subs[F], K)
  OBVIOUS
<1>7. /\ keys \in Seq(Keys) /\ Distinct(keys) /\ Len(keys) = Len(subs[F]) + 1
      /\ DOMAIN keys = 1..(Len(subs[F]) + 1)
      /\ \A i \in 1..Len(subs[F]) : keys[i] = subs[F][i]
      /\ keys[Len(subs[F]) + 1] = K
  <2>1. Distinct(subs[F])
    BY <1>1 DEF WalkOK
  <2>2. /\ keys \in Seq(Keys) /\ Distinct(keys) /\ Len(keys) = Len(subs[F]) + 1
        /\ \A i \in 1..Len(subs[F]) : keys[i] = subs[F][i]
        /\ keys[Len(subs[F]) + 1] = K
    BY <1>2, <1>5, <1>6, <2>1, DistinctAppend
  <2> QED BY <2>2, LenProperties
<1>8. /\ subs' \in [AllFrames -> Seq(Keys)]
      /\ \A f \in AllFrames : subs'[f] = IF f = F THEN keys ELSE subs[f]
  <2>1. subs' = [subs EXCEPT ![F] = keys] /\ subs \in [AllFrames -> Seq(Keys)]
    BY <1>1, <1>2, <1>6 DEF TypeOK
  <2> QED BY <1>7, <2>1
<1>9. \A f \in AllFrames, k \in Keys : Contains(subs[f], k) => Contains(subs[f], k)'
  BY <1>5, <1>7, <1>8 DEF Contains
(* Buckets keep their places: a new one comes last. *)
<1>10. /\ order' \in Seq(Frames) /\ Distinct(order') /\ Len(order') \in Nat
       /\ Len(order) <= Len(order') /\ DOMAIN order' = 1..Len(order')
       /\ \A i \in 1..Len(order) : order'[i] = order[i]
       /\ \A i \in 1..Len(order') : i \in 1..Len(order) \/ order'[i] = F
       /\ Contains(order', F) \/ F = 1
  <2>1. Distinct(order)
    BY <1>1 DEF WalkOK
  <2>2. CASE F = 1 \/ Contains(order, F)
    BY <1>2, <1>5, <2>1, <2>2
  <2>3. CASE ~ (F = 1 \/ Contains(order, F))
    <3>1. F \in Frames
      BY <2>3 DEF AllFrames
    <3>2. PICK buckets : buckets = Append(order, F)
      OBVIOUS
    <3>3. /\ buckets \in Seq(Frames) /\ Distinct(buckets) /\ Len(buckets) = Len(order) + 1
          /\ \A i \in 1..Len(order) : buckets[i] = order[i]
          /\ buckets[Len(order) + 1] = F
      BY <1>5, <2>1, <2>3, <3>1, <3>2, DistinctAppend
    <3>4. DOMAIN buckets = 1..(Len(order) + 1)
      BY <3>3, LenProperties
    <3>5. order' = buckets
      BY <1>2, <2>3, <3>2
    <3>6. Contains(buckets, F)
      BY <1>5, <3>3 DEF Contains
    <3> QED BY <1>5, <3>3, <3>4, <3>5, <3>6
  <2> QED BY <2>2, <2>3
<1>11. TypeOK'
  BY <1>1, <1>2, <1>3, <1>4, <1>8, <1>10 DEF TypeOK
<1>12. feed.at = "call" => feed.b \in 0..Len(order) /\ (feed.b > 0 => order'[feed.b] = order[feed.b])
  BY <1>1, <1>5, <1>10, FrameAtFacts
<1>13. WalkOK'
  <2>1. \A f \in AllFrames : Distinct(subs'[f])
    BY <1>1, <1>7, <1>8 DEF WalkOK
  <2>2. feed'.at = "call" => feed'.b <= Len(order')
    BY <1>2, <1>5, <1>10, <1>12
  <2>3. feed'.at = "call" /\ feed'.b > 0 =>
          step'[order'[feed'.b]] = "build" /\ Len(current'[order'[feed'.b]]) = order'[feed'.b]
    BY <1>1, <1>2, <1>12 DEF WalkOK
  <2> QED BY <1>10, <2>1, <2>2, <2>3 DEF WalkOK
<1>14. \A f : CallsFor(f)' <=> CallsFor(f)
  BY <1>2, <1>5, <1>12 DEF CallsFor, FrameAt
<1>15. \A f : f # F \/ Contains(order, F) => (Pending(f)' => Pending(f))
  <2> SUFFICES ASSUME NEW f, f # F \/ Contains(order, F),
                      NEW i \in 1..Len(order'), order'[i] = f,
                      (feed.at = "call" /\ i > feed.b) \/ (feed.at = "bucket" /\ i >= feed.b)
               PROVE  Pending(f)
    BY <1>2, <1>10 DEF Pending
  <2>1. i \in 1..Len(order)
    <3>1. CASE Contains(order, F) /\ f = F
      <4>1. PICK j \in 1..Len(order) : order[j] = F
        BY <3>1 DEF Contains
      <4>2. j \in 1..Len(order') /\ order'[j] = order'[i]
        BY <1>5, <1>10, <3>1, <4>1
      <4>3. i = j
        BY <1>10, <4>2 DEF Distinct
      <4> QED BY <4>3
    <3>2. CASE f # F
      BY <1>10, <3>2
    <3> QED BY <3>1, <3>2
  <2>2. order[i] = f
    BY <1>10, <2>1
  <2> QED BY <1>5, <2>1, <2>2 DEF Pending
<1>16. \A f : f # F \/ Contains(order, F) => Bound(f) <= Bound(f)'
  BY <1>1, <1>2, <1>11, <1>15, BoundGrows
<1>17. \A f \in AllFrames, k \in Keys :
         f # F \/ k # K => (Uncalled(f, k)' => Uncalled(f, k))
  <2> SUFFICES ASSUME NEW f \in AllFrames, NEW k \in Keys, f # F \/ k # K, CallsFor(f),
                      NEW j \in DOMAIN subs'[f], j >= feed.i, subs'[f][j] = k
               PROVE  \E i \in DOMAIN subs[f] : i >= feed.i /\ subs[f][i] = k
    BY <1>2, <1>14 DEF Uncalled
  <2>1. CASE f # F
    BY <1>8, <2>1
  <2>2. CASE f = F
    <3>1. j # Len(subs[F]) + 1
      BY <1>7, <1>8, <2>2
    <3>2. j \in 1..Len(subs[F]) /\ subs[F][j] = k
      BY <1>5, <1>7, <1>8, <2>2, <3>1
    <3> QED BY <1>5, <2>2, <3>2
  <2> QED BY <2>1, <2>2
<1>18. \A f \in AllFrames : got[f] = got'[f] /\ (f = F => got[F][K] = << >>)
  <2>1. F = 1 => got[F][K] = << >>
    BY <1>2 DEF OrderInv, MinuteOK
  <2>2. F \in Frames => got[F][K] = << >>
    BY <1>2 DEF OrderInv, SubscriberOK
  <2> QED BY <1>2, <2>1, <2>2 DEF AllFrames
<1>19. ASSUME NEW f \in Frames
       PROVE  BucketOK(f)' /\ \A k \in Keys : SubscriberOK(f, k)'
  <2>1. f \in AllFrames /\ f # 1
    BY <1>1, FrameTypes
  <2>2. BucketOK(f) /\ \A k \in Keys : SubscriberOK(f, k)
    BY DEF OrderInv
  <2>3. CASE f = F /\ ~ Contains(order, F)
    <3>1. current[f] = << >> /\ past[f] = << >> /\ subs[f] = << >> /\ step[f] # "build"
      BY <2>2, <2>3 DEF BucketOK
    <3>2. \A k \in Keys : got[f][k] = << >>
      <4>1. \A k : ~ Contains(subs[f], k)
        BY <3>1 DEF Contains
      <4> QED BY <2>2, <4>1 DEF SubscriberOK
    <3>3. BucketOK(f)'
      <4>1. Contains(order, f)'
        BY <1>10, <2>1, <2>3
      <4>2. PICK bs : bs = past[f]
        OBVIOUS
      <4>3. 1..Len(bs) = {} /\ InTimeOrder(bs) /\ past'[f] = bs
        BY <1>2, <3>1, <4>2 DEF InTimeOrder
      <4>4. PICK bar : bar = current[f]
        OBVIOUS
      <4>5. 1..Len(bar) = {} /\ current'[f] = bar /\ step'[f] # "build"
        BY <1>2, <3>1, <4>4
      <4> QED BY <4>1, <4>3, <4>5 DEF BucketOK
    <3>4. \A k \in Keys : got'[f][k] = << >>
      BY <1>2, <3>2
    <3> QED BY <3>3, <3>4, NothingTold
  <2>4. CASE f # F \/ Contains(order, F)
    <3>1. Bound(f) <= Bound(f)'
      BY <1>16, <2>4
    <3>2. Contains(order, f)' \/ (~ Contains(order, f) /\ subs'[f] = << >>)
      <4>1. Contains(order, f) => Contains(order, f)'
        BY <1>5, <1>10 DEF Contains
      <4>2. ~ Contains(order, f) => f # F /\ subs[f] = << >>
        BY <2>2, <2>4 DEF BucketOK
      <4> QED BY <1>8, <2>1, <4>1, <4>2
    <3>3. BucketOK(f)'
      BY <1>1, <1>2, <1>11, <2>2, <3>1, <3>2, BucketKept
    <3>4. ASSUME NEW k \in Keys
          PROVE  SubscriberOK(f, k)'
      <4>1. CASE f = F /\ k = K
        BY <1>18, <2>1, <4>1, NothingTold
      <4>2. CASE f # F \/ k # K
        BY <1>1, <1>2, <1>9, <1>11, <1>17, <2>1, <2>2, <3>1, <4>2, SubscriberKept
      <4> QED BY <4>1, <4>2
    <3> QED BY <3>3, <3>4
  <2> QED BY <2>3, <2>4
<1>20. ASSUME NEW k \in Keys
       PROVE  MinuteOK(k)'
  <2>1. 1 \in AllFrames /\ MinuteOK(k) /\ now <= now'
    BY <1>1, <1>2 DEF AllFrames, OrderInv, TypeOK
  <2>2. CASE 1 = F /\ k = K
    BY <1>18, <2>1, <2>2, NothingTold
  <2>3. CASE 1 # F \/ k # K
    BY <1>1, <1>2, <1>9, <1>11, <1>17, <2>1, <2>3, MinuteKept
  <2> QED BY <2>2, <2>3
<1> QED BY <1>11, <1>13, <1>19, <1>20 DEF OrderInv

(* A bucket is given the candle: it opens a bar with it, counts it into    *)
(* the bar it works on, or passes it over.                                 *)
LEMMA TickStep ==
  ASSUME OrderInv, OnTick
  PROVE  OrderInv'
<1>1. TypeOK /\ WalkOK
  BY DEF OrderInv
<1>2. PICK F : F = order[feed.b]
  OBVIOUS
<1>3. /\ feed.at = "bucket" /\ Len(order) = feed.frames /\ feed.b <= feed.frames
      /\ WaitStep(F) \/ BuildStep(F)
      /\ UNCHANGED <<booted, now, order, subs, since, got, faults>>
  BY <1>2 DEF OnTick
<1>4. /\ feed \in [at : {"bucket"}, b : Nat \ {0}, frames : Nat]
      /\ order \in Seq(Frames) /\ Len(order) \in Nat /\ DOMAIN order = 1..Len(order)
  BY <1>1, <1>3, PlaceTypes, OrderTypes
<1>5. /\ feed.b \in Nat \ {0} /\ feed.b \in DOMAIN order /\ F \in Frames
      /\ feed.frames \in Nat
  <2>1. feed.b \in 1..Len(order)
    BY <1>3, <1>4
  <2> QED BY <1>1, <1>2, <1>4, <2>1, OrderTypes
<1>6. /\ F \in AllFrames /\ F # 1 /\ F \in Nat \ {0, 1} /\ now \in Nat
      /\ step[F] \in {"wait", "build"}
      /\ current[F] \in Seq(Nat) /\ Len(current[F]) \in Nat
      /\ \A i \in 1..Len(current[F]) : current[F][i] \in Nat
      /\ past[F] \in Seq(Bars) /\ Len(past[F]) \in Nat
      /\ \A i \in 1..Len(past[F]) : past[F][i] \in Bars
  BY <1>1, <1>5, FrameTypes
<1>7. BucketOK(F) /\ \A k \in Keys : SubscriberOK(F, k)
  BY <1>5 DEF OrderInv
<1>8. Contains(order, F)
  BY <1>2, <1>4, <1>5 DEF Contains
<1>9. Pending(F) /\ Bound(F) = now
  <2>1. feed.b >= feed.b
    BY <1>5
  <2>2. Pending(F)
    BY <1>2, <1>3, <1>5, <2>1 DEF Pending
  <2> QED BY <2>2 DEF Bound
(* Wherever the walk goes on, this bucket has had the candle. *)
<1>10. /\ feed' = Visiting(feed.b + 1, feed.frames) \/ feed' = Calling(feed.b, feed.frames)
       /\ feed' = Calling(feed.b, feed.frames) =>
            BuildStep(F) /\ Len(current[F]) + 1 = F
  <2>1. Visiting(feed.b + 1, feed.frames).at # Calling(feed.b, feed.frames).at
    BY DEF Visiting, Calling
  <2>2. WaitStep(F) => feed' = Visiting(feed.b + 1, feed.frames)
    BY DEF WaitStep
  <2>3. BuildStep(F) => feed' = IF Len(current[F]) + 1 = F
                                THEN Calling(feed.b, feed.frames)
                                ELSE Visiting(feed.b + 1, feed.frames)
    BY DEF BuildStep
  <2> QED BY <1>3, <2>1, <2>2, <2>3
<1>11. /\ feed' \in Places
       /\ \/ feed'.at = "bucket" /\ feed'.b = feed.b + 1
          \/ feed'.at = "call" /\ feed'.b = feed.b
       /\ feed'.at = "call" => BuildStep(F) /\ Len(current[F]) + 1 = F
  <2>1. CASE feed' = Visiting(feed.b + 1, feed.frames)
    BY <1>5, <2>1 DEF Visiting, Places
  <2>2. CASE feed' = Calling(feed.b, feed.frames)
    <3>1. Len(subs[FrameAt(feed.b)]) \in Nat
      BY <1>1, <1>2, <1>5, <1>6, KeyTypes DEF FrameAt
    <3> QED BY <1>5, <1>10, <2>2, <3>1 DEF Calling, Places
  <2> QED BY <1>10, <2>1, <2>2
<1>12. feed'.at = "call" => \A f : CallsFor(f)' <=> f = F
  BY <1>2, <1>3, <1>5, <1>11 DEF CallsFor, FrameAt
<1>13. \A f : CallsFor(f)' => f = F
  BY <1>12 DEF CallsFor
<1>14. \A f : Pending(f)' => Pending(f) /\ f # F
  <2> SUFFICES ASSUME NEW f, NEW i \in 1..Len(order), order[i] = f, i > feed.b
               PROVE  Pending(f) /\ f # F
    BY <1>3, <1>4, <1>5, <1>11 DEF Pending
  <2>1. Pending(f)
    BY <1>3, <1>4, <1>5 DEF Pending
  <2>2. Distinct(order)
    BY <1>1 DEF WalkOK
  <2>3. f # F
    BY <1>2, <1>4, <1>5, <2>2 DEF Distinct
  <2> QED BY <2>1, <2>3
(* The bucket works on the bar it has opened, or on the one it had. *)
<1>15. /\ \A f \in Frames : f # F => current'[f] = current[f] /\ past'[f] = past[f]
                                     /\ step'[f] = step[f]
       /\ current' \in [Frames -> Seq(Nat)] /\ past' \in [Frames -> Seq(Bars)]
       /\ step' \in [Frames -> {"wait", "build"}]
       /\ \/ /\ current'[F] = <<now>> /\ past'[F] = History(F) /\ step'[F] = "build"
             /\ WaitStep(F)
          \/ current'[F] = current[F] /\ past'[F] = past[F] /\ step'[F] = step[F] /\ WaitStep(F)
          \/ /\ current'[F] = Append(current[F], now) /\ past'[F] = past[F]
             /\ step[F] = "build" /\ step'[F] = "build" /\ BuildStep(F)
  <2>1. /\ current \in [Frames -> Seq(Nat)] /\ past \in [Frames -> Seq(Bars)]
        /\ step \in [Frames -> {"wait", "build"}]
    BY <1>1 DEF TypeOK
  <2>2. CASE WaitStep(F) /\ IsBarOpen(now, F)
    <3>1. History(F) \in Seq(Bars)
      BY <1>1, <1>5, <1>7, HistoryInOrder
    <3>2. /\ current' = [current EXCEPT ![F] = <<now>>]
          /\ past' = [past EXCEPT ![F] = History(F)]
          /\ step' = [step EXCEPT ![F] = "build"]
      BY <2>2 DEF WaitStep
    <3>3. <<now>> \in Seq(Nat)
      BY <1>6
    <3> QED BY <1>5, <2>1, <2>2, <3>1, <3>2, <3>3
  <2>3. CASE WaitStep(F) /\ ~ IsBarOpen(now, F)
    <3>1. UNCHANGED <<current, past, step>>
      BY <2>3 DEF WaitStep
    <3> QED BY <2>1, <2>3, <3>1
  <2>4. CASE BuildStep(F)
    <3>1. /\ current' = [current EXCEPT ![F] = Append(@, now)]
          /\ UNCHANGED <<past, step>> /\ step[F] = "build"
      BY <2>4 DEF BuildStep
    <3>2. Append(current[F], now) \in Seq(Nat)
      BY <1>6, AppendProperties
    <3> QED BY <1>5, <2>1, <2>4, <3>1, <3>2
  <2> QED BY <1>3, <2>2, <2>3, <2>4
<1>16. TypeOK'
  BY <1>1, <1>3, <1>11, <1>15 DEF TypeOK
(* In a bar being built the first candle stays; the new one is the last.   *)
<1>17. BuildStep(F) =>
         /\ Len(current'[F]) = Len(current[F]) + 1 /\ Len(current[F]) > 0
         /\ \A i \in 1..Len(current[F]) : current'[F][i] = current[F][i]
         /\ current'[F][Len(current[F]) + 1] = now
         /\ Head(current'[F]) = Head(current[F]) /\ current'[F] # << >>
  <2> SUFFICES ASSUME BuildStep(F)
               PROVE  /\ Len(current'[F]) = Len(current[F]) + 1 /\ Len(current[F]) > 0
                      /\ \A i \in 1..Len(current[F]) : current'[F][i] = current[F][i]
                      /\ current'[F][Len(current[F]) + 1] = now
                      /\ Head(current'[F]) = Head(current[F]) /\ current'[F] # << >>
    OBVIOUS
  <2>1. /\ step[F] = "build" /\ current' = [current EXCEPT ![F] = Append(@, now)]
    BY DEF BuildStep
  <2>2. PICK old : old = current[F]
    OBVIOUS
  <2>3. PICK bar : bar = Append(old, now)
    OBVIOUS
  <2>4. current'[F] = bar
    BY <1>1, <1>5, <2>1, <2>2, <2>3 DEF TypeOK
  <2>5. old \in Bars
    BY <1>6, <1>7, <2>1, <2>2 DEF BucketOK, Bars
  <2>6. old \in Seq(Nat) /\ Len(old) \in Nat \ {0} /\ Head(old) = old[1]
    BY <2>5, BarFacts
  <2>7. /\ bar \in Seq(Nat) /\ Len(bar) = Len(old) + 1
        /\ \A i \in 1..Len(old) : bar[i] = old[i]
        /\ bar[Len(old) + 1] = now
    BY <1>6, <2>3, <2>6, AppendProperties
  <2>8. bar = << >> <=> Len(bar) = 0
    BY <2>7, EmptySeq
  <2>9. bar # << >>
    BY <2>6, <2>7, <2>8
  <2>10. bar \in Bars
    BY <2>7, <2>9 DEF Bars
  <2>11. Head(bar) = bar[1]
    BY <2>10, BarFacts
  <2> QED BY <2>2, <2>4, <2>6, <2>7, <2>9, <2>11
<1>18. feed'.at = "call" => step'[F] = "build" /\ Len(current'[F]) = F
  BY <1>11, <1>15, <1>17 DEF BuildStep
<1>19. WalkOK'
  <2>1. Distinct(order') /\ \A f \in AllFrames : Distinct(subs'[f])
    BY <1>1, <1>3 DEF WalkOK
  <2>2. feed'.at = "call" => feed'.b <= Len(order') /\ order'[feed'.b] = F
    BY <1>2, <1>3, <1>4, <1>5, <1>11
  <2> QED BY <1>18, <2>1, <2>2 DEF WalkOK
<1>20. \A f : Bound(f) <= Bound(f)'
  BY <1>1, <1>3, <1>14, <1>16, BoundGrows
<1>21. Bound(F)' = now + 1
  BY <1>3, <1>14 DEF Bound
<1>22. ASSUME NEW f \in Frames, f # F
       PROVE  BucketOK(f)' /\ \A k \in Keys : SubscriberOK(f, k)'
  <2>1. BucketOK(f) /\ \A k \in Keys : SubscriberOK(f, k)
    BY DEF OrderInv
  <2>2. ~ CallsFor(f)'
    BY <1>13, <1>22
  <2>3. BucketOK(f)'
    <3>1. Contains(order, f)' \/ (~ Contains(order, f) /\ subs'[f] = << >>)
      BY <1>3, <2>1 DEF BucketOK, Contains
    <3> QED BY <1>1, <1>15, <1>16, <1>20, <1>22, <2>1, <3>1, BucketKept
  <2>4. \A k \in Keys : SubscriberOK(f, k)'
    BY <1>1, <1>3, <1>15, <1>16, <1>20, <1>22, <2>1, <2>2, SubscriberKept DEF Uncalled, Contains
  <2> QED BY <2>3, <2>4
<1>23. Contains(order, F)'
  BY <1>3, <1>8 DEF Contains
<1>24. BucketOK(F)' /\ \A k \in Keys : SubscriberOK(F, k)'
  <2>1. CASE current'[F] = <<now>> /\ past'[F] = History(F) /\ step'[F] = "build" /\ WaitStep(F)
    <3>1. /\ History(F) \in Seq(Bars) /\ InTimeOrder(History(F))
          /\ \A i \in 1..Len(History(F)) : Last(History(F)[i]) < now
      BY <1>1, <1>5, <1>7, <1>9, HistoryInOrder
    <3>2. PICK bar : bar = <<now>>
      OBVIOUS
    <3>3. bar # << >> /\ Len(bar) = 1 /\ bar[1] = now /\ Head(bar) = now
      BY <3>2
    <3>4. BucketOK(F)'
      <4>1. \A i \in 1..Len(current'[F]) : current'[F][i] < Bound(F)'
        <5>1. \A i \in 1..1 : i = 1
          OBVIOUS
        <5> QED BY <1>6, <1>21, <2>1, <3>2, <3>3, <5>1
      <4> QED BY <1>23, <2>1, <3>1, <3>2, <3>3, <4>1 DEF BucketOK
    <3>5. feed'.at # "call"
      <4>1. feed' = Visiting(feed.b + 1, feed.frames)
        BY <2>1 DEF WaitStep
      <4> QED BY <4>1 DEF Visiting
    <3>6. ASSUME NEW k \in Keys
          PROVE  SubscriberOK(F, k)'
      <4>1. /\ ~ Contains(subs[F], k)' => got'[F][k] = << >>
            /\ \A i \in 1..Len(got'[F][k]) : Last(got'[F][k][i]) < now
            /\ InTimeOrder(got'[F][k])
        BY <1>3, <1>7, <1>9 DEF SubscriberOK, Contains
      <4>2. \A i \in 1..Len(got'[F][k]) : Last(got'[F][k][i]) < Bound(F)'
        <5>1. \A i \in 1..Len(got[F][k]) : got[F][k][i] \in Bars
          BY <1>1, <1>6, KeyTypes
        <5>2. \A i \in 1..Len(got'[F][k]) : Last(got'[F][k][i]) \in Nat
          BY <1>3, <5>1, BarFacts
        <5> QED BY <1>6, <1>21, <4>1, <5>2
      <4>3. Head(current'[F]) = now
        BY <2>1, <3>2, <3>3
      <4> QED BY <4>1, <4>2, <4>3 DEF SubscriberOK
    <3> QED BY <3>4, <3>6
  <2>2. CASE current'[F] = current[F] /\ past'[F] = past[F] /\ step'[F] = step[F] /\ WaitStep(F)
    <3>1. feed'.at # "call"
      <4>1. feed' = Visiting(feed.b + 1, feed.frames)
        BY <2>2 DEF WaitStep
      <4> QED BY <4>1 DEF Visiting
    <3>2. BucketOK(F)'
      BY <1>1, <1>5, <1>7, <1>16, <1>20, <1>23, <2>2, BucketKept
    <3>3. \A k \in Keys : SubscriberOK(F, k)'
      BY <1>1, <1>3, <1>5, <1>7, <1>16, <1>20, <2>2, <3>1, SubscriberKept
      DEF Uncalled, CallsFor, Contains
    <3> QED BY <3>2, <3>3
  <2>3. CASE /\ current'[F] = Append(current[F], now) /\ past'[F] = past[F]
             /\ step[F] = "build" /\ step'[F] = "build" /\ BuildStep(F)
    <3>1. /\ Len(current'[F]) = Len(current[F]) + 1 /\ Len(current[F]) > 0
          /\ \A i \in 1..Len(current[F]) : current'[F][i] = current[F][i]
          /\ current'[F][Len(current[F]) + 1] = now
          /\ Head(current'[F]) = Head(current[F]) /\ current'[F] # << >>
      BY <1>17, <2>3
    <3>2. BucketOK(F)'
      <4>1. \A i \in 1..Len(current'[F]) : current'[F][i] < Bound(F)'
        <5>1. \A i \in 1..Len(current[F]) : current[F][i] < now
          BY <1>7, <1>9 DEF BucketOK
        <5> SUFFICES ASSUME NEW i \in 1..(Len(current[F]) + 1)
                     PROVE  current'[F][i] < now + 1
          BY <1>21, <3>1
        <5>2. CASE i = Len(current[F]) + 1
          BY <1>6, <3>1, <5>2
        <5>3. CASE i # Len(current[F]) + 1
          <6>1. i \in 1..Len(current[F])
            BY <1>6, <5>3
          <6>2. PICK minute \in Nat : minute = current[F][i]
            BY <1>6, <6>1
          <6>3. minute < now
            BY <5>1, <6>1, <6>2
          <6>4. current'[F][i] = minute
            BY <3>1, <6>1, <6>2
          <6> QED BY <1>6, <6>2, <6>3, <6>4
        <5> QED BY <5>2, <5>3
      <4>2. /\ InTimeOrder(past'[F])
            /\ \A i \in 1..Len(past'[F]) : Last(past'[F][i]) < Head(current'[F])
        BY <1>7, <2>3, <3>1 DEF BucketOK
      <4> QED BY <1>23, <3>1, <4>1, <4>2 DEF BucketOK
    <3>3. ASSUME NEW k \in Keys
          PROVE  SubscriberOK(F, k)'
      <4>1. /\ ~ Contains(subs[F], k)' => got'[F][k] = << >>
            /\ \A i \in 1..Len(got'[F][k]) : Last(got'[F][k][i]) < now
            /\ InTimeOrder(got'[F][k])
        BY <1>3, <1>7, <1>9 DEF SubscriberOK, Contains
      <4>2. \A i \in 1..Len(got'[F][k]) : Last(got'[F][k][i]) < Bound(F)'
        <5>1. \A i \in 1..Len(got[F][k]) : got[F][k][i] \in Bars
          BY <1>1, <1>6, KeyTypes
        <5>2. \A i \in 1..Len(got'[F][k]) : Last(got'[F][k][i]) \in Nat
          BY <1>3, <5>1, BarFacts
        <5> QED BY <1>6, <1>21, <4>1, <5>2
      <4>3. ASSUME Len(current'[F]) < F \/ Uncalled(F, k)'
            PROVE  \A i \in 1..Len(got'[F][k]) : Last(got'[F][k][i]) < Head(current'[F])
        <5>1. Uncalled(F, k)' => Len(current[F]) + 1 = F
          BY <1>11 DEF Uncalled, CallsFor
        <5>2. Len(current[F]) < F
          BY <1>6, <3>1, <4>3, <5>1
        <5> QED BY <1>3, <1>7, <2>3, <3>1, <5>2 DEF SubscriberOK
      <4> QED BY <4>1, <4>2, <4>3 DEF SubscriberOK
    <3> QED BY <3>2, <3>3
  <2> QED BY <1>15, <2>1, <2>2, <2>3
<1>25. ASSUME NEW k \in Keys
       PROVE  MinuteOK(k)'
  <2>1. MinuteOK(k) /\ now <= now' /\ ~ CallsFor(1)'
    BY <1>3, <1>6, <1>13 DEF OrderInv
  <2> QED BY <1>1, <1>3, <1>16, <2>1, MinuteKept DEF Uncalled, Contains
<1> QED BY <1>16, <1>19, <1>22, <1>24, <1>25 DEF OrderInv

-----------------------------------------------------------------------------
LEMMA InitOrdered ==
  ASSUME Init
  PROVE  OrderInv
<1>1. TypeOK
  <2>1. << >> \in Seq(Frames) /\ << >> \in Seq(Keys) /\ << >> \in Seq(Nat) /\ << >> \in Seq(Bars)
    BY EmptySeq
  <2>2. now \in Nat /\ Idle \in Places
    BY DEF Init, Places
  <2> QED BY <2>1, <2>2 DEF Init, TypeOK
<1>2. PICK none : none = << >>
  OBVIOUS
<1>3. DOMAIN none = {} /\ 1..Len(none) = {} /\ InTimeOrder(none) /\ Distinct(none)
  BY <1>2 DEF InTimeOrder, Distinct
<1>4. /\ feed.at = "idle" /\ order = none
      /\ \A f \in AllFrames : subs[f] = none /\ \A k \in Keys : got[f][k] = none
      /\ \A f \in Frames : current[f] = none /\ past[f] = none /\ step[f] = "wait"
  BY <1>2 DEF Init, Idle
<1>5. WalkOK
  BY <1>3, <1>4 DEF WalkOK
<1>6. \A f \in Frames : BucketOK(f)
  BY <1>2, <1>3, <1>4 DEF BucketOK, AllFrames
<1>7. \A f \in Frames, k \in Keys : SubscriberOK(f, k)
  BY <1>2, <1>3, <1>4 DEF SubscriberOK, AllFrames
<1>8. \A k \in Keys : MinuteOK(k)
  BY <1>2, <1>3, <1>4 DEF MinuteOK, AllFrames
<1> QED BY <1>1, <1>5, <1>6, <1>7, <1>8 DEF OrderInv

(* The order of the minutes survives every step of the feed, every         *)
(* exception, and every subscription in between.                           *)
THEOREM SpecOrderInv == Spec => []OrderInv
<1>1. Init => OrderInv
  BY InitOrdered
<1>2. OrderInv /\ [Next]_vars => OrderInv'
  <2> SUFFICES ASSUME OrderInv, [Next]_vars
               PROVE  OrderInv'
    OBVIOUS
  <2>1. CASE Next
    BY <2>1, ProvideStep, CallbackStep, CallbacksDoneStep, RaiseStep, TickStep,
       BucketsDoneStep, AddStep DEF Next
  <2>2. CASE UNCHANGED vars
    BY <2>2 DEF vars, OrderInv, TypeOK, WalkOK, BucketOK, SubscriberOK, MinuteOK, Bound,
       Pending, Uncalled, CallsFor, FrameAt, Distinct, InTimeOrder, Contains
  <2> QED BY <2>1, <2>2
<1> QED BY <1>1, <1>2, PTL DEF Spec

(* No candle is counted into two bars of a timeframe, and no subscriber is *)
(* told a bar twice (CTF.py:85-134), for any set of timeframes and keys,   *)
(* any calendar, any gaps in the feed and any callbacks that raise.        *)
THEOREM SpecNoCandleTwice == Spec => []NoCandleTwice
<1>1. OrderInv => NoCandleTwice
  <2> SUFFICES ASSUME OrderInv, NEW f \in Frames
               PROVE  InTimeOrder(History(f)) /\ \A k \in Keys : InTimeOrder(got[f][k])
    BY DEF NoCandleTwice
  <2>1. TypeOK /\ BucketOK(f) /\ \A k \in Keys : SubscriberOK(f, k)
    BY DEF OrderInv
  <2> QED BY <2>1, HistoryInOrder DEF SubscriberOK
<1> QED BY <1>1, SpecOrderInv, PTL

-----------------------------------------------------------------------------
(* A regular feed.  Nothing changes under the walk, every candle is given  *)
(* to every bucket, and a bucket is between two bars or within one.        *)

WalkIsWhole ==
  /\ feed.at = "call" => /\ feed.keys = Len(subs[FrameAt(feed.b)])
                         /\ feed.b > 0 => feed.frames = Len(order)
  /\ feed.at = "bucket" => feed.frames = Len(order)

Booting ==
  ~ booted => feed.at = "idle" /\ \A f \in Frames : step[f] = "wait" /\ Len(current[f]) = 0

CountOK(f) ==
  /\ step[f] = "build" => Len(current[f]) < f \/ (CallsFor(f) /\ Len(current[f]) = f)
  /\ step[f] = "wait" => Len(current[f]) \in {0, f}

Undisturbed == WalkIsWhole /\ Booting /\ \A f \in Frames : CountOK(f)

RegularInv == Regular => Undisturbed

(* What a step of a regular feed does to one timeframe: nothing, ...       *)
Stays(f) ==
  /\ current'[f] = current[f] /\ past'[f] = past[f]
  /\ Len(current[f]) > 0 => Bound(f)' = Bound(f)

(* ... or it opens a bar with the candle, ...                              *)
Opens(f) ==
  /\ step[f] = "wait" /\ IsBarOpen(now, f) /\ Bound(f) = now /\ Bound(f)' = now + 1
  /\ current'[f] = <<now>> /\ past'[f] = History(f)

(* ... or it passes the candle over, ...                                   *)
Passes(f) ==
  /\ step[f] = "wait" /\ ~ IsBarOpen(now, f) /\ Bound(f) = now
  /\ current'[f] = current[f] /\ past'[f] = past[f]

(* ... or it counts the candle in.                                         *)
Counts(f) ==
  /\ step[f] = "build" /\ Len(current[f]) < f /\ Bound(f) = now /\ Bound(f)' = now + 1
  /\ current'[f] = Append(current[f], now) /\ past'[f] = past[f]

Effect == \A f \in Frames : Stays(f) \/ Opens(f) \/ Passes(f) \/ Counts(f)

(* A step that leaves the feed regular was regular itself ...              *)
LEMMA RegularIsKept ==
  ASSUME TypeOK, Next, faults' = 0
  PROVE  faults = 0
<1>1. faults \in Nat
  BY DEF TypeOK
<1>2. CASE Provide
  BY <1>1, <1>2 DEF Provide, Fault
<1>3. CASE Raise
  BY <1>1, <1>3 DEF Raise, Fault
<1>4. ASSUME NEW f \in AllFrames, NEW k \in Keys, AddTimeframe(f, k)
      PROVE  faults = 0
  BY <1>1, <1>4 DEF AddTimeframe, Fault
<1>5. CASE Callback \/ CallbacksDone \/ OnTick \/ BucketsDone
  BY <1>5 DEF Callback, CallbacksDone, OnTick, BucketsDone
<1> QED BY <1>2, <1>3, <1>4, <1>5 DEF Next

(* ... nothing raised, ...                                                 *)
LEMMA NothingRaises ==
  ASSUME OrderInv, RegularInv, Raise, faults' = 0
  PROVE  FALSE
<1>1. faults \in Nat
  BY DEF OrderInv, TypeOK
<1>2. ~ Fault(TRUE)
  BY <1>1 DEF Fault
<1>3. Fault(FALSE) => faults = 0
  BY <1>1 DEF Fault
<1>4. WalkIsWhole
  BY <1>2, <1>3 DEF Raise, RegularInv, Regular, Undisturbed
<1> QED BY <1>2, <1>4 DEF Raise, WalkIsWhole

(* ... no minute was missed, and nobody joined within a candle.            *)
LEMMA MinuteByMinute ==
  ASSUME TypeOK, Provide, faults' = 0
  PROVE  now' = now + 1
<1>1. faults \in Nat /\ now \in Nat
  BY DEF TypeOK
<1>2. PICK d \in Skips : now' = now + d /\ Fault(d > 1)
  BY DEF Provide
<1>3. d \in Nat \ {0}
  BY SkipsAssumption
<1>4. ~ (d > 1)
  BY <1>1, <1>2 DEF Fault
<1> QED BY <1>1, <1>2, <1>3, <1>4

LEMMA JoinsBetween ==
  ASSUME TypeOK, NEW F, NEW K, AddTimeframe(F, K), faults' = 0
  PROVE  feed.at = "idle" /\ feed'.at = "idle"
<1>1. faults \in Nat
  BY DEF TypeOK
<1>2. Fault(feed.at # "idle") /\ feed' = feed
  BY DEF AddTimeframe
<1> QED BY <1>1, <1>2 DEF Fault

LEMMA IdleBound ==
  ASSUME TypeOK, NEW f
  PROVE  /\ feed.at = "idle" => Bound(f) = now + 1
         /\ feed.at \in {"idle", "bucket"} => ~ CallsFor(f) /\ \A k : ~ Uncalled(f, k)
BY DEF Bound, Pending, CallsFor, Uncalled

LEMMA IdleBoundNext ==
  ASSUME TypeOK', NEW f
  PROVE  /\ feed'.at = "idle" => Bound(f)' = now' + 1
         /\ feed'.at \in {"idle", "bucket"} => ~ CallsFor(f)' /\ \A k : ~ Uncalled(f, k)'
BY DEF Bound, Pending, CallsFor, Uncalled

(* The bucket a candle is given to opens a bar, counts, or passes it over. *)
LEMMA TickEffect ==
  ASSUME OrderInv, TypeOK', RegularInv, faults = 0, OnTick,
         NEW F, F = order[feed.b]
  PROVE  /\ F \in Frames /\ feed.at = "bucket"
         /\ \A f \in Frames : f # F => Stays(f) /\ step'[f] = step[f]
         /\ \/ /\ Opens(F) /\ step'[F] = "build"
               /\ feed' = Visiting(feed.b + 1, feed.frames)
            \/ /\ Passes(F) /\ step'[F] = "wait"
               /\ feed' = Visiting(feed.b + 1, feed.frames)
            \/ /\ Counts(F) /\ step'[F] = "build"
               /\ feed' = IF Len(current[F]) + 1 = F
                          THEN Calling(feed.b, feed.frames)
                          ELSE Visiting(feed.b + 1, feed.frames)
<1>1. TypeOK /\ WalkOK
  BY DEF OrderInv
<1>3. /\ feed.at = "bucket" /\ Len(order) = feed.frames /\ feed.b <= feed.frames
      /\ WaitStep(F) \/ BuildStep(F)
      /\ UNCHANGED <<booted, now, order, subs, since, got, faults>>
  BY DEF OnTick
<1>4. /\ feed \in [at : {"bucket"}, b : Nat \ {0}, frames : Nat]
      /\ order \in Seq(Frames) /\ Len(order) \in Nat /\ DOMAIN order = 1..Len(order)
  BY <1>1, <1>3, PlaceTypes, OrderTypes
<1>5. feed.b \in Nat \ {0} /\ feed.b \in DOMAIN order /\ F \in Frames
  <2>1. feed.b \in 1..Len(order)
    BY <1>3, <1>4
  <2> QED BY <1>1, <1>4, <2>1, OrderTypes
<1>6. /\ F \in Nat \ {0, 1} /\ now \in Nat /\ step[F] \in {"wait", "build"}
      /\ current[F] \in Seq(Nat) /\ Len(current[F]) \in Nat
      /\ past[F] \in Seq(Bars)
  BY <1>1, <1>5, FrameTypes
<1>7. CountOK(F) /\ ~ CallsFor(F)
  <2>1. CountOK(F)
    BY <1>5 DEF RegularInv, Regular, Undisturbed
  <2> QED BY <1>1, <1>3, <2>1, IdleBound
<1>8. Distinct(order)
  BY <1>1 DEF WalkOK
<1>9. Bound(F) = now
  <2>1. feed.b >= feed.b
    BY <1>5
  <2>2. Pending(F)
    BY <1>3, <1>5, <2>1 DEF Pending
  <2> QED BY <2>2 DEF Bound
<1>10. \/ feed'.at = "bucket" /\ feed'.b = feed.b + 1
       \/ feed'.at = "call" /\ feed'.b = feed.b
  BY <1>3 DEF WaitStep, BuildStep, Visiting, Calling
<1>11. Bound(F)' = now + 1
  <2>1. \A i \in DOMAIN order : order[i] = F => i = feed.b
    BY <1>5, <1>8 DEF Distinct
  <2>2. ~ Pending(F)'
    BY <1>3, <1>4, <1>5, <1>10, <2>1 DEF Pending
  <2> QED BY <1>3, <2>2 DEF Bound
<1>12. \A f \in Frames : f # F => Bound(f)' = Bound(f)
  <2> SUFFICES ASSUME NEW f \in Frames, f # F
               PROVE  Bound(f)' = Bound(f)
    OBVIOUS
  <2>1. \A i \in 1..Len(order) : order[i] = f => (i >= feed.b <=> i > feed.b)
    BY <1>5
  <2>2. Pending(f) <=> \E i \in 1..Len(order) : order[i] = f /\ i >= feed.b
    BY <1>3, <1>4 DEF Pending
  <2>3. Pending(f)' <=> \E i \in 1..Len(order) : order[i] = f /\ i > feed.b
    BY <1>3, <1>4, <1>5, <1>10 DEF Pending
  <2> QED BY <1>3, <2>1, <2>2, <2>3 DEF Bound
<1>13. /\ current \in [Frames -> Seq(Nat)] /\ past \in [Frames -> Seq(Bars)]
       /\ step \in [Frames -> {"wait", "build"}]
  BY <1>1 DEF TypeOK
<1>14. \A f \in Frames : f # F => Stays(f) /\ step'[f] = step[f]
  BY <1>3, <1>12, <1>13 DEF WaitStep, BuildStep, Stays
<1>15. CASE WaitStep(F) /\ IsBarOpen(now, F)
  <2>1. /\ Opens(F) /\ step'[F] = "build" /\ feed' = Visiting(feed.b + 1, feed.frames)
    BY <1>5, <1>6, <1>9, <1>11, <1>13, <1>15 DEF WaitStep, Opens
  <2> QED BY <1>3, <1>5, <1>14, <2>1
<1>16. CASE WaitStep(F) /\ ~ IsBarOpen(now, F)
  <2>1. UNCHANGED <<current, past, step>> /\ step[F] = "wait"
    BY <1>16 DEF WaitStep
  <2>2. Passes(F) /\ step'[F] = "wait"
    BY <1>9, <1>16, <2>1 DEF Passes
  <2>3. feed' = Visiting(feed.b + 1, feed.frames)
    BY <1>16 DEF WaitStep
  <2> QED BY <1>3, <1>5, <1>14, <2>2, <2>3
<1>17. CASE BuildStep(F)
  <2>1. /\ step[F] = "build" /\ current' = [current EXCEPT ![F] = Append(@, now)]
        /\ UNCHANGED <<past, step>>
        /\ feed' = IF Len(current[F]) + 1 = F
                   THEN Calling(feed.b, feed.frames)
                   ELSE Visiting(feed.b + 1, feed.frames)
    BY <1>17 DEF BuildStep
  <2>2. Len(current[F]) < F
    BY <1>7, <2>1 DEF CountOK
  <2>3. Counts(F) /\ step'[F] = "build"
    BY <1>5, <1>9, <1>11, <1>13, <2>1, <2>2 DEF Counts
  <2> QED BY <1>3, <1>5, <1>14, <2>1, <2>3
<1> QED BY <1>3, <1>15, <1>16, <1>17

LEMMA ProvideRegular ==
  ASSUME OrderInv, OrderInv', Undisturbed, Provide, faults' = 0
  PROVE  Undisturbed' /\ Effect
<1>1. TypeOK /\ TypeOK' /\ now \in Nat
  BY DEF OrderInv, TypeOK
<1>2. /\ now' = now + 1 /\ feed.at = "idle" /\ booted' = TRUE
      /\ feed' = (IF booted THEN Calling(0, 0) ELSE Idle)
      /\ UNCHANGED <<order, subs, step, current, past, since, got>>
  BY <1>1, MinuteByMinute DEF Provide
<1>3. WalkIsWhole'
  BY <1>2 DEF WalkIsWhole, Calling, Idle, FrameAt
<1>4. \A f \in Frames : CountOK(f)'
  BY <1>1, <1>2, IdleBound DEF CountOK, Undisturbed
<1>5. ASSUME NEW f \in Frames, Len(current[f]) > 0
      PROVE  Bound(f)' = Bound(f)
  <2>1. booted
    BY <1>5 DEF Undisturbed, Booting
  <2>2. Contains(order, f)
    <3>1. current[f] # << >>
      BY <1>5
    <3> QED BY <3>1 DEF OrderInv, BucketOK
  <2>3. PICK i \in 1..Len(order) : order[i] = f
    BY <2>2 DEF Contains
  <2>4. feed'.at = "call" /\ feed'.b = 0
    BY <1>2, <2>1 DEF Calling
  <2>5. Pending(f)'
    BY <1>1, <1>2, <2>3, <2>4, OrderTypes DEF Pending
  <2> QED BY <1>1, <1>2, <2>5, IdleBound DEF Bound
<1> QED BY <1>2, <1>3, <1>4, <1>5 DEF Undisturbed, Booting, Effect, Stays

LEMMA CallbackRegular ==
  ASSUME OrderInv, OrderInv', Undisturbed, Callback
  PROVE  Undisturbed' /\ Effect
<1>1. TypeOK
  BY DEF OrderInv
<1>2. /\ feed.at = "call" /\ feed' = [feed EXCEPT !.i = @ + 1]
      /\ UNCHANGED <<booted, now, order, subs, step, current, past, since, faults>>
  BY DEF Callback
<1>3. feed \in [at : {"call"}, b : Nat, i : Nat \ {0}, keys : Nat, frames : Nat]
  BY <1>1, <1>2, PlaceTypes
<1>4. /\ feed'.at = "call" /\ feed'.b = feed.b
      /\ feed'.keys = feed.keys /\ feed'.frames = feed.frames
  BY <1>2, <1>3
<1>5. \A f : (Pending(f)' <=> Pending(f)) /\ (CallsFor(f)' <=> CallsFor(f))
  BY <1>2, <1>4 DEF Pending, CallsFor, FrameAt
<1>6. \A f : Bound(f)' = Bound(f)
  BY <1>2, <1>5 DEF Bound
<1>7. WalkIsWhole'
  BY <1>2, <1>4 DEF WalkIsWhole, FrameAt, Undisturbed
<1>8. \A f \in Frames : CountOK(f)'
  BY <1>2, <1>5 DEF CountOK, Undisturbed
<1>9. Booting'
  BY <1>2 DEF Booting, Undisturbed
<1> QED BY <1>2, <1>6, <1>7, <1>8, <1>9 DEF Undisturbed, Effect, Stays

LEMMA CallbacksDoneRegular ==
  ASSUME OrderInv, OrderInv', Undisturbed, CallbacksDone
  PROVE  Undisturbed' /\ Effect
<1>1. TypeOK /\ WalkOK /\ TypeOK'
  BY DEF OrderInv
<1>2. /\ feed.at = "call"
      /\ feed' = Visiting(feed.b + 1, IF feed.b = 0 THEN Len(order) ELSE feed.frames)
      /\ step' = IF FrameAt(feed.b) = 1 THEN step ELSE [step EXCEPT ![FrameAt(feed.b)] = "wait"]
      /\ UNCHANGED <<booted, now, order, subs, current, past, since, got, faults>>
  BY DEF CallbacksDone
<1>3. feed.b \in Nat /\ \A i \in DOMAIN order : i \in Nat
  BY <1>1, <1>2, FrameAtFacts, OrderTypes
<1>4. feed'.at = "bucket" /\ feed'.b = feed.b + 1
  BY <1>2 DEF Visiting
<1>5. \A f : Pending(f)' <=> Pending(f)
  <2>1. \A i \in DOMAIN order : i > feed.b <=> i >= feed'.b
    BY <1>3, <1>4
  <2> QED BY <1>2, <1>4, <2>1 DEF Pending
<1>6. \A f : Bound(f)' = Bound(f)
  BY <1>2, <1>5 DEF Bound
<1>7. WalkIsWhole'
  <2>1. feed'.frames = IF feed.b = 0 THEN Len(order) ELSE feed.frames
    BY <1>2 DEF Visiting
  <2>2. feed'.frames = Len(order)
    BY <1>2, <1>3, <2>1 DEF WalkIsWhole, Undisturbed
  <2> QED BY <1>2, <1>4, <2>2 DEF WalkIsWhole
<1>8. ASSUME NEW f \in Frames
      PROVE  CountOK(f)'
  <2>1. CountOK(f) /\ f # 1
    BY FramesAssumption DEF Undisturbed
  <2>2. CASE CallsFor(f)
    <3>1. feed.b > 0 /\ f = order[feed.b] /\ FrameAt(feed.b) = f
      BY <1>1, <1>2, <1>3, <2>1, <2>2, FrameAtFacts DEF CallsFor
    <3>2. Len(current[f]) = f
      BY <1>1, <1>2, <3>1 DEF WalkOK
    <3>3. step'[f] = "wait"
      BY <1>1, <1>2, <2>1, <3>1 DEF TypeOK
    <3> QED BY <1>2, <3>2, <3>3 DEF CountOK
  <2>3. CASE ~ CallsFor(f)
    <3>1. step'[f] = step[f]
      BY <1>1, <1>2, <2>3 DEF CallsFor, TypeOK
    <3> QED BY <1>2, <2>1, <2>3, <3>1 DEF CountOK
  <2> QED BY <2>2, <2>3
<1>9. Booting'
  BY <1>2 DEF Booting, Undisturbed
<1> QED BY <1>2, <1>6, <1>7, <1>8, <1>9 DEF Undisturbed, Effect, Stays

LEMMA BucketsDoneRegular ==
  ASSUME OrderInv, OrderInv', Undisturbed, BucketsDone
  PROVE  Undisturbed' /\ Effect
<1>1. TypeOK
  BY DEF OrderInv
<1>2. /\ feed.at = "bucket" /\ Len(order) = feed.frames /\ feed.b > feed.frames
      /\ feed' = Idle
      /\ UNCHANGED <<booted, now, order, subs, step, current, past, since, got, faults>>
  BY DEF BucketsDone
<1>3. feed'.at = "idle"
  BY <1>2 DEF Idle
<1>4. \A f : ~ Pending(f) /\ ~ Pending(f)'
  <2>1. feed.b \in Nat /\ Len(order) \in Nat /\ DOMAIN order = 1..Len(order)
    BY <1>1, <1>2, PlaceTypes, OrderTypes
  <2> QED BY <1>2, <1>3, <2>1 DEF Pending
<1>5. \A f : Bound(f)' = Bound(f)
  BY <1>2, <1>4 DEF Bound
<1>6. \A f \in Frames : CountOK(f)'
  BY <1>1, <1>2, IdleBound DEF CountOK, Undisturbed
<1>7. WalkIsWhole' /\ Booting'
  BY <1>2, <1>3 DEF WalkIsWhole, Booting, Undisturbed
<1> QED BY <1>2, <1>5, <1>6, <1>7 DEF Undisturbed, Effect, Stays

LEMMA AddRegular ==
  ASSUME OrderInv, OrderInv', Undisturbed, faults' = 0,
         NEW F \in AllFrames, NEW K \in Keys, AddTimeframe(F, K)
  PROVE  Undisturbed' /\ Effect
<1>1. TypeOK /\ TypeOK'
  BY DEF OrderInv
<1>2. /\ feed.at = "idle" /\ feed'.at = "idle"
      /\ UNCHANGED <<booted, now, step, current, past, feed, got>>
  BY <1>1, JoinsBetween DEF AddTimeframe
<1>3. \A f : Bound(f)' = Bound(f)
  BY <1>1, <1>2, IdleBound, IdleBoundNext
<1>4. \A f \in Frames : CountOK(f)'
  BY <1>1, <1>2, IdleBound DEF CountOK, Undisturbed
<1>5. WalkIsWhole' /\ Booting'
  BY <1>2 DEF WalkIsWhole, Booting, Undisturbed
<1> QED BY <1>2, <1>3, <1>4, <1>5 DEF Undisturbed, Effect, Stays

LEMMA TickRegular ==
  ASSUME OrderInv, OrderInv', Undisturbed, OnTick, faults = 0
  PROVE  Undisturbed' /\ Effect
<1>1. TypeOK /\ WalkOK /\ TypeOK' /\ WalkOK'
  BY DEF OrderInv
<1>2. PICK F : F = order[feed.b]
  OBVIOUS
<1>3. /\ F \in Frames /\ feed.at = "bucket"
      /\ \A f \in Frames : f # F => Stays(f) /\ step'[f] = step[f]
      /\ \/ /\ Opens(F) /\ step'[F] = "build"
            /\ feed' = Visiting(feed.b + 1, feed.frames)
         \/ /\ Passes(F) /\ step'[F] = "wait"
            /\ feed' = Visiting(feed.b + 1, feed.frames)
         \/ /\ Counts(F) /\ step'[F] = "build"
            /\ feed' = IF Len(current[F]) + 1 = F
                       THEN Calling(feed.b, feed.frames)
                       ELSE Visiting(feed.b + 1, feed.frames)
  BY <1>1, <1>2, TickEffect DEF RegularInv
<1>4. /\ UNCHANGED <<booted, now, order, subs>> /\ Len(order) = feed.frames
      /\ feed.b \in Nat \ {0} /\ F \in Nat \ {0, 1}
  <2>1. UNCHANGED <<booted, now, order, subs>> /\ Len(order) = feed.frames
    BY DEF OnTick
  <2> QED BY <1>1, <1>3, <2>1, PlaceTypes, FrameTypes
<1>5. feed' = Visiting(feed.b + 1, feed.frames) \/ feed' = Calling(feed.b, feed.frames)
  BY <1>3
<1>6. WalkIsWhole'
  <2>1. Calling(feed.b, feed.frames).keys = Len(subs[FrameAt(feed.b)])
    BY DEF Calling
  <2>2. CASE feed' = Visiting(feed.b + 1, feed.frames)
    BY <1>4, <2>2 DEF WalkIsWhole, Visiting
  <2>3. CASE feed' = Calling(feed.b, feed.frames)
    BY <1>4, <2>3 DEF WalkIsWhole, Calling, FrameAt
  <2> QED BY <1>5, <2>2, <2>3
<1>7. Booting'
  BY <1>3, <1>4 DEF Booting, Undisturbed
<1>8. ASSUME NEW f \in Frames, f # F
      PROVE  CountOK(f)'
  <2>1. CountOK(f) /\ ~ CallsFor(f)
    BY <1>1, <1>3, IdleBound DEF Undisturbed
  <2> QED BY <1>3, <1>8, <2>1 DEF CountOK, Stays
<1>9. CountOK(F)'
  <2>1. CASE Opens(F) /\ step'[F] = "build"
    <3>1. current'[F] = <<now>>
      BY <2>1 DEF Opens
    <3>2. Len(current'[F]) = 1
      BY <3>1
    <3> QED BY <1>4, <2>1, <3>2 DEF CountOK
  <2>2. CASE Passes(F) /\ step'[F] = "wait"
    BY <1>3, <2>2 DEF Passes, CountOK, Undisturbed
  <2>3. CASE /\ Counts(F) /\ step'[F] = "build"
             /\ feed' = IF Len(current[F]) + 1 = F
                        THEN Calling(feed.b, feed.frames)
                        ELSE Visiting(feed.b + 1, feed.frames)
    <3>1. /\ Len(current[F]) < F /\ current[F] \in Seq(Nat) /\ now \in Nat
          /\ Len(current[F]) \in Nat /\ current'[F] = Append(current[F], now)
      BY <1>1, <1>3, <2>3, FrameTypes DEF Counts
    <3>2. Len(current'[F]) = Len(current[F]) + 1
      BY <3>1, AppendProperties
    <3>3. CASE Len(current[F]) + 1 = F
      <4>1. feed'.at = "call" /\ feed'.b = feed.b
        BY <2>3, <3>3 DEF Calling
      <4>2. CallsFor(F)'
        BY <1>2, <1>4, <4>1 DEF CallsFor, FrameAt
      <4> QED BY <2>3, <3>2, <3>3, <4>2 DEF CountOK
    <3>4. CASE Len(current[F]) + 1 # F
      <4>1. Len(current'[F]) < F
        BY <1>4, <3>1, <3>2, <3>4
      <4> QED BY <2>3, <4>1 DEF CountOK
    <3> QED BY <3>3, <3>4
  <2> QED BY <1>3, <2>1, <2>2, <2>3
<1> QED BY <1>3, <1>6, <1>7, <1>8, <1>9 DEF Undisturbed, Effect

LEMMA RegularNext ==
  ASSUME OrderInv, OrderInv', Undisturbed, Next, faults' = 0
  PROVE  Undisturbed' /\ Effect /\ faults = 0
<1>1. TypeOK
  BY DEF OrderInv
<1>2. faults = 0
  BY <1>1, RegularIsKept
<1>3. RegularInv
  BY DEF RegularInv
<1> QED BY <1>2, <1>3, ProvideRegular, CallbackRegular, CallbacksDoneRegular, NothingRaises,
  TickRegular, BucketsDoneRegular, AddRegular DEF Next

(* Every timeframe's share in it. *)
LEMMA InitUndisturbed ==
  ASSUME Init
  PROVE  Undisturbed
<1>1. /\ feed.at = "idle"
      /\ \A f \in Frames : step[f] = "wait" /\ current[f] = << >>
  BY DEF Init, Idle
<1>2. \A f \in Frames : step[f] = "wait" /\ Len(current[f]) = 0
  BY <1>1
<1> QED BY <1>1, <1>2 DEF Undisturbed, WalkIsWhole, Booting, CountOK

LEMMA StutterUndisturbed ==
  ASSUME Undisturbed, UNCHANGED vars
  PROVE  Undisturbed' /\ \A f \in Frames : Stays(f)
BY DEF vars, Undisturbed, WalkIsWhole, Booting, CountOK, Stays, Bound, Pending, CallsFor, FrameAt

-----------------------------------------------------------------------------
(* The calendar.  Where the timeframes fit into it, a bar that opened with *)
(* the first minute of a period ends with its last.  Others exist: a bar   *)
(* of seven minutes or of two days is followed by minutes passed over.     *)
FramesFit ==
  \A f \in Frames : IF f <= Day THEN Day % f = 0 ELSE f = Week

LEMMA DivMod ==
  ASSUME NEW a \in Nat, NEW b \in Nat \ {0}
  PROVE  /\ a = b * (a \div b) + (a % b) /\ a \div b \in Nat
         /\ a % b \in Nat /\ a % b < b
OBVIOUS

LEMMA ModUnique ==
  ASSUME NEW b \in Nat \ {0}, NEW q \in Nat, NEW r \in Nat, r < b
  PROVE  (b * q + r) % b = r
<1>1. PICK a \in Nat : a = b * q + r
  OBVIOUS
<1>2. /\ a = b * (a \div b) + (a % b) /\ a \div b \in Nat
      /\ a % b \in Nat /\ a % b < b
  BY DivMod
<1>3. PICK p \in Nat, s \in Nat : p = a \div b /\ s = a % b
  BY <1>2
<1>4. b * q + r = b * p + s /\ s < b
  BY <1>1, <1>2, <1>3
<1>5. ~ (p < q)
  <2> SUFFICES ASSUME p + 1 <= q PROVE FALSE
    OBVIOUS
  <2>1. b * p + b <= b * q
    OBVIOUS
  <2> QED BY <1>4, <2>1
<1>6. ~ (q < p)
  <2> SUFFICES ASSUME q + 1 <= p PROVE FALSE
    OBVIOUS
  <2>1. b * q + b <= b * p
    OBVIOUS
  <2> QED BY <1>4, <2>1
<1>7. p = q
  BY <1>5, <1>6
<1> QED BY <1>1, <1>3, <1>4, <1>7

LEMMA Divides ==
  ASSUME NEW a \in Nat, NEW b \in Nat \ {0}, a % b = 0
  PROVE  \E c \in Nat : a = b * c
<1>1. a = b * (a \div b) + (a % b) /\ a \div b \in Nat
  BY DivMod
<1>2. PICK c \in Nat : c = a \div b
  BY <1>1
<1> QED BY <1>1, <1>2

LEMMA Multiple ==
  ASSUME NEW a \in Nat \ {0}, NEW b \in Nat
  PROVE  (a * b) % a = 0
<1>1. (a * b + 0) % a = 0
  BY ModUnique
<1> QED BY <1>1

(* f minutes on, within the day or at the next midnight. *)
LEMMA NextInDay ==
  ASSUME NEW m \in Nat, NEW f \in Nat \ {0}, NEW d \in Nat \ {0},
         d % f = 0, (m % d) % f = 0
  PROVE  ((m + f) % d) % f = 0
<1>1. PICK q \in Nat, r \in Nat : m = d * q + r /\ r = m % d /\ r < d
  BY DivMod
<1>2. r % f = 0
  BY <1>1
<1>3. PICK s \in Nat : r = f * s
  BY <1>2, Divides
<1>4. PICK e \in Nat : d = f * e
  BY Divides
<1>5. r + f = f * (s + 1)
  BY ONLY <1>3, f \in Nat, s \in Nat
<1>6. m + f = d * q + (r + f)
  BY ONLY <1>1, m \in Nat, f \in Nat, q \in Nat, r \in Nat, d \in Nat
<1>7. CASE r + f < d
  <2>1. (m + f) % d = r + f
    <3>1. PICK t \in Nat : t = r + f
      OBVIOUS
    <3>2. (d * q + t) % d = t
      BY <1>7, <3>1, ModUnique
    <3>3. m + f = d * q + t
      BY <1>6, <3>1
    <3> QED BY ONLY <3>1, <3>2, <3>3
  <2>2. (f * (s + 1)) % f = 0
    BY Multiple
  <2> QED BY <1>5, <2>1, <2>2
<1>8. CASE ~ (r + f < d)
  <2>1. s < e
    <3> SUFFICES ASSUME e <= s PROVE FALSE
      OBVIOUS
    <3>1. f * e <= f * s
      BY ONLY e <= s, e \in Nat, s \in Nat, f \in Nat
    <3>2. r < d
      BY <1>1
    <3> QED BY ONLY <1>3, <1>4, <3>1, <3>2, r \in Nat, d \in Nat
  <2>2. f * (s + 1) <= f * e
    BY ONLY <2>1, e \in Nat, s \in Nat, f \in Nat
  <2>3. r + f = d
    BY ONLY <1>4, <1>5, <1>8, <2>2, r \in Nat, d \in Nat, f \in Nat
  <2>4. m + f = d * (q + 1)
    BY ONLY <1>6, <2>3, d \in Nat, q \in Nat
  <2>5. (d * (q + 1)) % d = 0 /\ (f * 0) % f = 0
    BY Multiple
  <2>6. f * 0 = 0
    OBVIOUS
  <2> QED BY ONLY <2>4, <2>5, <2>6
<1> QED BY <1>7, <1>8

LEMMA NextPeriod ==
  ASSUME FramesFit, NEW f \in Frames, NEW m \in Nat, IsBarOpen(m, f)
  PROVE  IsBarOpen(m + f, f)
<1>1. f \in Nat \ {0, 1} /\ Day \in Nat \ {0} /\ Week \in Nat \ {0}
  BY FramesAssumption, CalendarAssumption
<1>2. CASE f <= Day
  <2>1. Day % f = 0 /\ (m % Day) % f = 0
    BY <1>2 DEF FramesFit, IsBarOpen
  <2>2. ((m + f) % Day) % f = 0
    BY <1>1, <2>1, NextInDay
  <2> QED BY <1>2, <2>2 DEF IsBarOpen
<1>3. CASE ~ (f <= Day)
  <2>1. f = Week /\ m % Week = 0
    BY <1>3 DEF FramesFit, IsBarOpen
  <2>2. PICK q \in Nat : m = Week * q
    BY <1>1, <2>1, Divides
  <2>4. m + f = Week * (q + 1)
    BY <1>1, <2>1, <2>2
  <2>5. (Week * (q + 1)) % Week = 0
    BY <1>1, Multiple
  <2> QED BY <1>3, <2>4, <2>5 DEF IsBarOpen
<1> QED BY <1>2, <1>3

InRow(bar) == \A i \in 1..Len(bar) : bar[i] + 1 = bar[1] + i

Whole(bar, f) == Len(bar) = f /\ InRow(bar) /\ IsBarOpen(bar[1], f)

(* A bucket's bars are whole periods, each begins where the one before has *)
(* ended, and the one being built has every minute up to this one.         *)
BarsOK(f) ==
  /\ Len(current[f]) > 0 =>
       /\ InRow(current[f]) /\ IsBarOpen(current[f][1], f)
       /\ current[f][1] + Len(current[f]) = Bound(f)
  /\ \A i \in 1..Len(past[f]) : Whole(past[f][i], f)
  /\ \A i \in 1..Len(past[f]) :
       i + 1 \in 1..Len(past[f]) => past[f][i + 1][1] = past[f][i][1] + f
  /\ Len(past[f]) > 0 =>
       Len(current[f]) > 0 /\ current[f][1] = past[f][Len(past[f])][1] + f

GotWhole(f, k) == \A i \in 1..Len(got[f][k]) : Whole(got[f][k][i], f)

ClockInv ==
  /\ FramesFit /\ OrderInv
  /\ Regular =>
       /\ Undisturbed
       /\ \A f \in Frames : BarsOK(f) /\ \A k \in Keys : GotWhole(f, k)

LEMMA WholeHistory ==
  ASSUME TypeOK, NEW f \in Frames, CountOK(f), BarsOK(f)
  PROVE  /\ \A i \in 1..Len(History(f)) : Whole(History(f)[i], f)
         /\ \A i \in 1..Len(History(f)) : i + 1 \in 1..Len(History(f)) =>
              History(f)[i + 1][1] = History(f)[i][1] + f
         /\ step[f] = "wait" /\ Len(History(f)) > 0 =>
              /\ History(f)[Len(History(f))] = current[f]
              /\ Len(current[f]) = f /\ current[f][1] + f = Bound(f)
<1>1. /\ f \in Nat \ {0, 1} /\ past[f] \in Seq(Bars) /\ Len(past[f]) \in Nat
      /\ current[f] \in Seq(Nat) /\ Len(current[f]) \in Nat
      /\ step[f] \in {"wait", "build"}
  BY FrameTypes
<1>2. CASE Len(current[f]) >= f
  <2>1. Len(current[f]) = f
    BY <1>1, <1>2 DEF CountOK
  <2>2. PICK h : h = Append(past[f], current[f])
    OBVIOUS
  <2>3. current[f] \in Bars
    BY <1>2, HistoryFacts
  <2>4. /\ Len(h) = Len(past[f]) + 1
        /\ \A i \in 1..Len(past[f]) : h[i] = past[f][i]
        /\ h[Len(past[f]) + 1] = current[f]
    BY <1>1, <2>2, <2>3, AppendProperties
  <2>5. Whole(current[f], f) /\ current[f][1] + f = Bound(f)
    BY <1>1, <2>1 DEF BarsOK, Whole
  <2>6. \A i \in 1..Len(past[f]) : Whole(past[f][i], f)
    BY DEF BarsOK
  <2>7. ASSUME NEW i \in 1..Len(h)
        PROVE  Whole(h[i], f)
    <3>1. CASE i \in 1..Len(past[f])
      <4>1. h[i] = past[f][i]
        BY <2>4, <3>1
      <4> QED BY <2>6, <3>1, <4>1
    <3>2. CASE i = Len(past[f]) + 1
      <4>1. h[i] = current[f]
        BY <2>4, <3>2
      <4> QED BY <2>5, <4>1
    <3>3. i \in 1..Len(past[f]) \/ i = Len(past[f]) + 1
      BY <1>1, <2>4
    <3> QED BY <3>1, <3>2, <3>3
  <2>8. ASSUME NEW i \in 1..Len(h), i + 1 \in 1..Len(h)
        PROVE  h[i + 1][1] = h[i][1] + f
    <3>1. i \in 1..Len(past[f]) /\ h[i] = past[f][i]
      BY <1>1, <2>4, <2>8
    <3>2. CASE i = Len(past[f])
      <4>1. h[i + 1] = current[f] /\ Len(past[f]) > 0
        BY <1>1, <2>4, <3>1, <3>2
      <4> QED BY <3>1, <3>2, <4>1 DEF BarsOK
    <3>3. CASE i # Len(past[f])
      <4>1. i + 1 \in 1..Len(past[f]) /\ h[i + 1] = past[f][i + 1]
        BY <1>1, <2>4, <3>1, <3>3
      <4> QED BY <3>1, <4>1 DEF BarsOK
    <3> QED BY <3>2, <3>3
  <2>9. History(f) = h
    BY <1>2, <2>2, HistoryFacts
  <2> QED BY <2>1, <2>4, <2>5, <2>7, <2>8, <2>9
<1>3. CASE ~ (Len(current[f]) >= f)
  <2>1. History(f) = past[f]
    BY <1>3, HistoryFacts
  <2>2. step[f] = "wait" => Len(current[f]) = 0
    BY <1>1, <1>3 DEF CountOK
  <2>3. step[f] = "wait" => ~ (Len(past[f]) > 0)
    BY <2>2 DEF BarsOK
  <2> QED BY <2>1, <2>3 DEF BarsOK
<1> QED BY <1>2, <1>3

(* Nothing, a bar opened, a candle passed over or counted: the bars stay   *)
(* whole.  This is where the timeframe must fit into the calendar: a       *)
(* bucket that has closed a bar must open the next with the next candle.   *)
LEMMA BarsStep ==
  ASSUME TypeOK, TypeOK', FramesFit, NEW f \in Frames, BucketOK(f), CountOK(f),
         BarsOK(f), Stays(f) \/ Opens(f) \/ Passes(f) \/ Counts(f)
  PROVE  BarsOK(f)'
<1>1. /\ f \in Nat \ {0, 1} /\ now \in Nat /\ past[f] \in Seq(Bars) /\ Len(past[f]) \in Nat
      /\ current[f] \in Seq(Nat) /\ Len(current[f]) \in Nat
      /\ \A i \in 1..Len(current[f]) : current[f][i] \in Nat
      /\ step[f] \in {"wait", "build"}
  BY FrameTypes
<1>2. CASE Stays(f)
  BY <1>2 DEF Stays, BarsOK
<1>3. CASE Opens(f)
  <2>1. PICK h : h = History(f)
    OBVIOUS
  <2>2. /\ \A i \in 1..Len(h) : Whole(h[i], f)
        /\ \A i \in 1..Len(h) : i + 1 \in 1..Len(h) => h[i + 1][1] = h[i][1] + f
        /\ Len(h) > 0 => h[Len(h)] = current[f] /\ current[f][1] + f = Bound(f)
    BY <1>3, <2>1, WholeHistory DEF Opens
  <2>3. PICK bar : bar = <<now>>
    OBVIOUS
  <2>4. Len(bar) = 1 /\ bar[1] = now
    BY <2>3
  <2>5. InRow(bar)
    BY <1>1, <2>4 DEF InRow
  <2>6. /\ current'[f] = bar /\ past'[f] = h
        /\ IsBarOpen(now, f) /\ Bound(f) = now /\ Bound(f)' = now + 1
    BY <1>3, <2>1, <2>3 DEF Opens
  <2>7. Len(h) > 0 => bar[1] = h[Len(h)][1] + f
    BY <2>2, <2>4, <2>6
  <2>8. /\ Len(current'[f]) > 0 /\ InRow(current'[f]) /\ IsBarOpen(current'[f][1], f)
        /\ current'[f][1] + Len(current'[f]) = Bound(f)'
    <3>1. IsBarOpen(bar[1], f)
      BY <2>4, <2>6
    <3>2. bar[1] + Len(bar) = now + 1 /\ Len(bar) > 0
      BY <1>1, <2>4
    <3>3. InRow(bar) /\ current'[f] = bar /\ Bound(f)' = now + 1
      BY <2>5, <2>6
    <3> QED BY ONLY <3>1, <3>2, <3>3
  <2> QED BY <2>2, <2>6, <2>7, <2>8 DEF BarsOK
<1>4. CASE Passes(f)
  <2>1. Len(current[f]) = 0
    <3> SUFFICES ASSUME Len(current[f]) > 0 PROVE FALSE
      BY <1>1
    <3>1. Len(current[f]) = f /\ Bound(f) = now /\ ~ IsBarOpen(now, f)
      BY <1>1, <1>4 DEF Passes, CountOK
    <3>2. PICK m \in Nat : m = current[f][1]
      BY <1>1, <3>1
    <3>3. IsBarOpen(m, f) /\ m + f = now
      BY <3>1, <3>2 DEF BarsOK
    <3>4. IsBarOpen(m + f, f)
      BY <3>3, NextPeriod
    <3> QED BY <3>1, <3>3, <3>4
  <2> QED BY <1>4, <2>1 DEF Passes, BarsOK
<1>5. CASE Counts(f)
  <2>1. PICK old : old = current[f]
    OBVIOUS
  <2>2. PICK bar : bar = Append(old, now)
    OBVIOUS
  <2>3. /\ current'[f] = bar /\ past'[f] = past[f] /\ Bound(f) = now /\ Bound(f)' = now + 1
        /\ step[f] = "build"
    BY <1>5, <2>1, <2>2 DEF Counts
  <2>4. /\ Len(bar) = Len(old) + 1 /\ \A i \in 1..Len(old) : bar[i] = old[i]
        /\ bar[Len(old) + 1] = now
    BY <1>1, <2>1, <2>2, AppendProperties
  <2>5. Len(old) \in Nat \ {0}
    <3>1. old # << >>
      BY <2>1, <2>3 DEF BucketOK
    <3>2. old = << >> <=> Len(old) = 0
      BY <1>1, <2>1, EmptySeq
    <3> QED BY <1>1, <2>1, <3>1, <3>2
  <2>6. PICK m \in Nat : m = old[1]
    BY <1>1, <2>1, <2>5
  <2>7. InRow(old) /\ IsBarOpen(m, f) /\ m + Len(old) = now
    BY <2>1, <2>3, <2>5, <2>6 DEF BarsOK
  <2>8. bar[1] = m
    BY <2>4, <2>5, <2>6
  <2>9. InRow(bar)
    <3> SUFFICES ASSUME NEW i \in 1..Len(bar)
                 PROVE  bar[i] + 1 = bar[1] + i
      BY DEF InRow
    <3>1. CASE i = Len(old) + 1
      BY <2>4, <2>5, <2>7, <2>8, <3>1
    <3>2. CASE i # Len(old) + 1
      <4>1. i \in 1..Len(old) /\ bar[i] = old[i]
        BY <2>4, <2>5, <3>2
      <4> QED BY <2>6, <2>7, <2>8, <4>1 DEF InRow
    <3> QED BY <3>1, <3>2
  <2>10. /\ Len(current'[f]) > 0 /\ InRow(current'[f]) /\ IsBarOpen(current'[f][1], f)
         /\ current'[f][1] + Len(current'[f]) = Bound(f)'
    BY <2>3, <2>4, <2>5, <2>7, <2>8, <2>9
  <2>11. current'[f][1] = current[f][1]
    BY <2>1, <2>3, <2>6, <2>8
  <2> QED BY <2>3, <2>10, <2>11 DEF BarsOK
<1> QED BY <1>2, <1>3, <1>4, <1>5

(* Only Callback tells anybody anything: the bar just filled.              *)
LEMMA WhatIsTold ==
  ASSUME OrderInv, [Next]_vars, NEW f \in Frames, NEW k \in Keys
  PROVE  \/ got'[f][k] = got[f][k]
         \/ Callback /\ CallsFor(f) /\ subs[f][feed.i] = k
              /\ got'[f][k] = Append(got[f][k], current[f]) /\ Len(current[f]) = f
<1>1. TypeOK /\ WalkOK /\ f \in AllFrames /\ f # 1
  BY FramesAssumption DEF OrderInv, AllFrames
<1>2. CASE Callback
  <2>1. PICK F : F = FrameAt(feed.b)
    OBVIOUS
  <2>2. /\ feed.at = "call"
        /\ got' = [got EXCEPT ![F][subs[F][feed.i]] =
                     Append(@, IF F = 1 THEN <<now>> ELSE current[F])]
    BY <1>2, <2>1 DEF Callback
  <2>3. got \in [AllFrames -> [Keys -> Seq(Bars)]]
    BY <1>1 DEF TypeOK
  <2>4. CASE f = F /\ k = subs[F][feed.i]
    <3>1. got'[f][k] = Append(got[f][k], current[f])
      BY <1>1, <2>2, <2>3, <2>4
    <3>2. feed.b > 0 /\ f = order[feed.b]
      BY <1>1, <2>1, <2>2, <2>4, FrameAtFacts
    <3>3. Len(current[f]) = f
      BY <1>1, <2>2, <3>2 DEF WalkOK
    <3> QED BY <1>2, <2>1, <2>2, <2>4, <3>1, <3>3 DEF CallsFor
  <2>5. CASE ~ (f = F /\ k = subs[F][feed.i])
    BY <1>1, <2>2, <2>3, <2>5
  <2> QED BY <2>4, <2>5
<1>3. CASE ~ Callback
  BY <1>3 DEF Next, vars, Provide, CallbacksDone, Raise, OnTick, BucketsDone, AddTimeframe
<1> QED BY <1>2, <1>3

LEMMA ClockNext ==
  ASSUME ClockInv, OrderInv', [Next]_vars
  PROVE  ClockInv'
<1>1. OrderInv /\ FramesFit /\ TypeOK /\ TypeOK'
  BY DEF ClockInv, OrderInv
<1>2. FramesFit'
  BY <1>1 DEF FramesFit
<1> SUFFICES ASSUME faults' = 0
             PROVE  /\ Undisturbed'
                    /\ \A f \in Frames : BarsOK(f)' /\ \A k \in Keys : GotWhole(f, k)'
  BY <1>1, <1>2 DEF ClockInv, Regular
<1>3. faults = 0
  BY <1>1, RegularIsKept DEF vars
<1>4. /\ Undisturbed
      /\ \A f \in Frames : BarsOK(f) /\ \A k \in Keys : GotWhole(f, k)
  BY <1>3 DEF ClockInv, Regular
<1>5. Undisturbed' /\ Effect
  <2>1. CASE Next
    BY <1>1, <1>4, <2>1, RegularNext
  <2>2. CASE UNCHANGED vars
    BY <1>4, <2>2, StutterUndisturbed DEF Effect
  <2> QED BY <2>1, <2>2
<1>6. ASSUME NEW f \in Frames
      PROVE  BarsOK(f)'
  <2>1. BucketOK(f) /\ CountOK(f) /\ BarsOK(f)
    BY <1>1, <1>4 DEF OrderInv, Undisturbed
  <2>2. Stays(f) \/ Opens(f) \/ Passes(f) \/ Counts(f)
    BY <1>5 DEF Effect
  <2> QED BY <1>1, <2>1, <2>2, BarsStep
<1>7. ASSUME NEW f \in Frames, NEW k \in Keys
      PROVE  GotWhole(f, k)'
  <2>1. CASE got'[f][k] = got[f][k]
    BY <1>4, <2>1 DEF GotWhole
  <2>2. CASE got'[f][k] = Append(got[f][k], current[f]) /\ Len(current[f]) = f
    <3>1. /\ f \in Nat \ {0, 1} /\ f \in AllFrames
          /\ current[f] \in Seq(Nat)
      BY <1>1, FrameTypes
    <3>2. Whole(current[f], f) /\ current[f] \in Bars
      <4>1. Len(current[f]) > 0 /\ Len(current[f]) >= f
        BY <2>2, <3>1
      <4> QED BY <1>1, <1>4, <2>2, <4>1, HistoryFacts DEF BarsOK, Whole
    <3>3. PICK told : told = got[f][k]
      OBVIOUS
    <3>4. told \in Seq(Bars) /\ Len(told) \in Nat
      BY <1>1, <3>1, <3>3, KeyTypes
    <3>5. PICK tells : tells = Append(told, current[f])
      OBVIOUS
    <3>6. /\ Len(tells) = Len(told) + 1 /\ \A i \in 1..Len(told) : tells[i] = told[i]
          /\ tells[Len(told) + 1] = current[f]
      BY <3>2, <3>4, <3>5, AppendProperties
    <3>7. \A i \in 1..Len(told) : Whole(told[i], f)
      BY <1>4, <3>3 DEF GotWhole
    <3>8. \A i \in 1..Len(tells) : Whole(tells[i], f)
      BY <3>2, <3>4, <3>6, <3>7
    <3>9. got'[f][k] = tells
      BY <2>2, <3>3, <3>5
    <3> QED BY <3>8, <3>9 DEF GotWhole
  <2> QED BY <1>1, <2>1, <2>2, WhatIsTold
<1> QED BY <1>5, <1>6, <1>7

(* Wherever the timeframes fit into the calendar, bars are whole periods.  *)
THEOREM SpecClockInv == Spec /\ FramesFit => []ClockInv
<1>1. Init /\ FramesFit => ClockInv
  <2> SUFFICES ASSUME Init, FramesFit
               PROVE  ClockInv
    OBVIOUS
  <2>1. OrderInv /\ Undisturbed
    BY InitOrdered, InitUndisturbed
  <2>2. PICK none : none = << >>
    OBVIOUS
  <2>3. Len(none) = 0 /\ 1..Len(none) = {}
    BY <2>2
  <2>4. \A f \in Frames : /\ current[f] = none /\ past[f] = none
                          /\ \A k \in Keys : got[f][k] = none
    BY <2>2 DEF Init, AllFrames
  <2>5. \A f \in Frames : BarsOK(f) /\ \A k \in Keys : GotWhole(f, k)
    BY <2>3, <2>4 DEF BarsOK, GotWhole
  <2> QED BY <2>1, <2>5 DEF ClockInv
<1>2. ClockInv /\ OrderInv' /\ [Next]_vars => ClockInv'
  BY ClockNext
<1> QED BY <1>1, <1>2, SpecOrderInv, PTL DEF Spec

(* As long as the feed is regular, every bar in history or handed out is   *)
(* the f candles of one period, and no period is skipped (CTF.py:61-134),  *)
(* for any timeframes that divide the day, and the week.                   *)
THEOREM SpecBarsMatchTheClock == Spec /\ FramesFit => []BarsMatchTheClock
<1>1. ClockInv => BarsMatchTheClock
  <2> SUFFICES ASSUME ClockInv, Regular, NEW f \in Frames
               PROVE  LET h == History(f)
                      IN  /\ \A bar \in ToSet(h) \cup UNION {ToSet(got[f][k]) : k \in Keys} :
                               IsBarOpen(bar[1], f) /\ bar = [i \in 1..f |-> bar[1] + i - 1]
                          /\ \A i \in 1..(Len(h) - 1) : Head(h[i + 1]) = Last(h[i]) + 1
    BY DEF BarsMatchTheClock
  <2>1. /\ TypeOK /\ BucketOK(f) /\ CountOK(f) /\ BarsOK(f) /\ f \in AllFrames
        /\ \A k \in Keys : GotWhole(f, k)
    BY DEF ClockInv, OrderInv, Undisturbed, AllFrames
  <2>2. f \in Nat \ {0, 1}
    BY FramesAssumption
  <2>3. PICK h : h = History(f)
    OBVIOUS
  <2>4. /\ h \in Seq(Bars) /\ \A i \in 1..Len(h) : Whole(h[i], f)
        /\ \A i \in 1..Len(h) : i + 1 \in 1..Len(h) => h[i + 1][1] = h[i][1] + f
    BY <2>1, <2>3, WholeHistory, HistoryInOrder
  <2>5. ASSUME NEW bar \in Bars, Whole(bar, f)
        PROVE  IsBarOpen(bar[1], f) /\ bar = [i \in 1..f |-> bar[1] + i - 1]
    <3>1. bar \in Seq(Nat) /\ Len(bar) = f
      BY <2>5 DEF Whole, Bars
    <3>2. bar = [i \in 1..f |-> bar[i]] /\ \A i \in 1..f : bar[i] \in Nat
      BY <2>2, <3>1, LenProperties, ElementOfSeq
    <3>3. \A i \in 1..f : bar[i] = bar[1] + i - 1
      <4> SUFFICES ASSUME NEW i \in 1..f
                   PROVE  bar[i] = bar[1] + i - 1
        OBVIOUS
      <4>1. PICK m \in Nat, n \in Nat : m = bar[1] /\ n = bar[i]
        BY <2>2, <3>2
      <4>2. n + 1 = m + i
        BY <2>5, <3>1, <4>1 DEF Whole, InRow
      <4> QED BY <4>1, <4>2
    <3> QED BY <2>5, <3>2, <3>3 DEF Whole
  <2>6. ASSUME NEW bar \in ToSet(h) \cup UNION {ToSet(got[f][k]) : k \in Keys}
        PROVE  bar \in Bars /\ Whole(bar, f)
    <3>1. CASE bar \in ToSet(h)
      <4>1. PICK i \in DOMAIN h : bar = h[i]
        BY <3>1 DEF ToSet
      <4>2. DOMAIN h = 1..Len(h)
        BY <2>4, LenProperties
      <4> QED BY <2>4, <4>1, <4>2, ElementOfSeq
    <3>2. ASSUME NEW k \in Keys, bar \in ToSet(got[f][k])
          PROVE  bar \in Bars /\ Whole(bar, f)
      <4>1. PICK i \in DOMAIN got[f][k] : bar = got[f][k][i]
        BY <3>2 DEF ToSet
      <4> QED BY <2>1, <4>1, KeyTypes DEF GotWhole
    <3> QED BY <3>1, <3>2
  <2>7. ASSUME NEW i \in 1..(Len(h) - 1)
        PROVE  Head(h[i + 1]) = Last(h[i]) + 1
    <3>1. i \in 1..Len(h) /\ i + 1 \in 1..Len(h)
      BY <2>4, LenProperties
    <3>2. PICK one \in Bars, two \in Bars : one = h[i] /\ two = h[i + 1]
      BY <2>4, <3>1, ElementOfSeq
    <3>3. Head(two) = two[1] /\ Last(one) = one[f] /\ Last(one) \in Nat
      <4>1. Len(one) = f
        BY <2>4, <3>1, <3>2 DEF Whole
      <4> QED BY <3>2, <4>1, BarFacts
    <3>5. one[f] + 1 = one[1] + f
      <4>1. Len(one) = f /\ InRow(one)
        BY <2>4, <3>1, <3>2 DEF Whole
      <4> QED BY <2>2, <4>1 DEF InRow
    <3>4. two[1] = one[1] + f
      BY <2>4, <3>1, <3>2
    <3> QED BY <3>2, <3>3, <3>4, <3>5
  <2> QED BY <2>3, <2>5, <2>6, <2>7
<1> QED BY <1>1, SpecClockInv, PTL

-----------------------------------------------------------------------------
(* Telling.  In a regular feed nobody joins in the middle of a candle, and *)
(* a subscriber of whom the walk has still to tell the bar just filled     *)
(* lacks that bar and no other.                                            *)

SinceOK ==
  \A f \in Frames, k \in Keys :
    since[f][k] <= now /\ (feed.at # "idle" => since[f][k] < now)

Owed(f, k) == IF Uncalled(f, k) THEN 1 ELSE 0

Told(f, k, h, n) ==
  /\ n + Len(got[f][k]) + Owed(f, k) = Len(h)
  /\ \A i \in 1..Len(got[f][k]) : got[f][k][i] = h[n + i]
  /\ \A i \in 1..Len(h) : i > n <=> Last(h[i]) > since[f][k]

ToldOK(f, k) == Contains(subs[f], k) => \E n \in Nat : Told(f, k, History(f), n)

TellInv ==
  /\ OrderInv
  /\ Regular =>
       /\ Undisturbed /\ SinceOK
       /\ \A f \in Frames, k \in Keys : ToldOK(f, k)

(* Who is told nothing by a step that adds no bar knows what it knew.      *)
LEMMA ToldKept ==
  ASSUME NEW f \in Frames, NEW k \in Keys, ToldOK(f, k), History(f)' = History(f),
         got'[f][k] = got[f][k], since'[f][k] = since[f][k],
         Contains(subs[f], k)' => Contains(subs[f], k),
         Uncalled(f, k)' <=> Uncalled(f, k)
  PROVE  ToldOK(f, k)'
<1>1. Owed(f, k)' = Owed(f, k)
  BY DEF Owed
<1>2. \A n \in Nat : Told(f, k, History(f), n) => Told(f, k, History(f), n)'
  BY <1>1 DEF Told
<1> QED BY <1>2 DEF ToldOK

LEMMA SinceKept ==
  ASSUME OrderInv, SinceOK, since' = since, now' = now,
         feed.at = "idle" => feed'.at = "idle"
  PROVE  SinceOK'
BY DEF SinceOK

LEMMA ProvideTells ==
  ASSUME OrderInv, OrderInv', Undisturbed, SinceOK, Provide, faults' = 0,
         \A f \in Frames, k \in Keys : ToldOK(f, k)
  PROVE  SinceOK' /\ \A f \in Frames, k \in Keys : ToldOK(f, k)'
<1>1. TypeOK /\ TypeOK' /\ now \in Nat /\ since \in [AllFrames -> [Keys -> Nat]]
  BY DEF OrderInv, TypeOK
<1>2. /\ now' = now + 1 /\ feed.at = "idle"
      /\ feed' = (IF booted THEN Calling(0, 0) ELSE Idle)
      /\ UNCHANGED <<order, subs, step, current, past, since, got>>
  BY <1>1, MinuteByMinute DEF Provide
<1>3. SinceOK'
  <2>1. \A f \in Frames, k \in Keys : since[f][k] \in Nat /\ since[f][k] <= now
    BY <1>1 DEF SinceOK, AllFrames
  <2>2. \A f \in Frames, k \in Keys : since[f][k] <= now' /\ since[f][k] < now'
    BY <1>1, <1>2, <2>1
  <2> QED BY <1>2, <2>2 DEF SinceOK
<1>4. \A f \in Frames : ~ CallsFor(f)'
  BY <1>2, FramesAssumption DEF CallsFor, FrameAt, Calling, Idle
<1>5. \A f \in Frames, k \in Keys : ~ Uncalled(f, k) /\ ~ Uncalled(f, k)'
  BY <1>1, <1>2, <1>4, IdleBound DEF Uncalled
<1>6. \A f \in Frames, k \in Keys : ToldOK(f, k)'
  BY <1>2, <1>5, ToldKept DEF History, Contains
<1> QED BY <1>3, <1>6

LEMMA CallbackTells ==
  ASSUME OrderInv, OrderInv', Undisturbed, SinceOK, Callback,
         \A f \in Frames, k \in Keys : ToldOK(f, k)
  PROVE  SinceOK' /\ \A f \in Frames, k \in Keys : ToldOK(f, k)'
<1>1. TypeOK /\ WalkOK
  BY DEF OrderInv
<1>2. PICK F : F = FrameAt(feed.b)
  OBVIOUS
<1>3. /\ feed.at = "call" /\ feed' = [feed EXCEPT !.i = @ + 1]
      /\ Len(subs[F]) = feed.keys /\ feed.i <= feed.keys
      /\ UNCHANGED <<booted, now, order, subs, step, current, past, since, faults>>
  BY <1>2 DEF Callback
<1>4. /\ feed \in [at : {"call"}, b : Nat, i : Nat \ {0}, keys : Nat, frames : Nat]
      /\ F \in AllFrames
  BY <1>1, <1>2, <1>3, FrameAtFacts, PlaceTypes
<1>5. feed'.at = "call" /\ feed'.b = feed.b /\ feed'.i = feed.i + 1
  BY <1>3, <1>4
<1>6. /\ subs[F] \in Seq(Keys) /\ DOMAIN subs[F] = 1..Len(subs[F]) /\ Len(subs[F]) \in Nat
      /\ Distinct(subs[F]) /\ feed.i \in DOMAIN subs[F]
  <2>1. /\ subs[F] \in Seq(Keys) /\ DOMAIN subs[F] = 1..Len(subs[F]) /\ Len(subs[F]) \in Nat
        /\ Distinct(subs[F])
    BY <1>1, <1>4, KeyTypes DEF WalkOK
  <2> QED BY <1>3, <1>4, <2>1
<1>7. PICK K : K = subs[F][feed.i]
  OBVIOUS
<1>8. SinceOK'
  BY <1>3, SinceKept
<1>9. \A f : CallsFor(f)' <=> CallsFor(f)
  BY <1>3, <1>5 DEF CallsFor, FrameAt
<1>10. Uncalled(F, K) /\ ~ Uncalled(F, K)'
  <2>1. feed.i >= feed.i
    BY <1>4
  <2>2. Uncalled(F, K)
    BY <1>2, <1>3, <1>6, <1>7, <2>1 DEF Uncalled, CallsFor
  <2>3. \A j \in DOMAIN subs[F] : j >= feed.i + 1 => subs[F][j] # K
    <3> SUFFICES ASSUME NEW j \in DOMAIN subs[F], j >= feed.i + 1, subs[F][j] = K
                 PROVE  FALSE
      OBVIOUS
    <3>1. j = feed.i
      BY <1>6, <1>7 DEF Distinct
    <3> QED BY <1>4, <3>1
  <2> QED BY <1>3, <1>5, <2>2, <2>3 DEF Uncalled
<1>11. \A f \in AllFrames, k \in Keys : f # F \/ k # K => (Uncalled(f, k)' <=> Uncalled(f, k))
  <2> SUFFICES ASSUME NEW f \in AllFrames, NEW k \in Keys, f # F \/ k # K
               PROVE  Uncalled(f, k)' <=> Uncalled(f, k)
    OBVIOUS
  <2>1. CASE f # F
    BY <1>2, <1>9, <2>1 DEF Uncalled, CallsFor
  <2>2. CASE f = F
    <3>1. \A j \in DOMAIN subs[F] : subs[F][j] = k => (j >= feed.i + 1 <=> j >= feed.i)
      <4> SUFFICES ASSUME NEW j \in DOMAIN subs[F], subs[F][j] = k
                   PROVE  j >= feed.i + 1 <=> j >= feed.i
        OBVIOUS
      <4>1. j # feed.i
        BY <1>7, <2>2
      <4> QED BY <1>4, <1>6, <4>1
    <3> QED BY <1>3, <1>5, <1>9, <2>2, <3>1 DEF Uncalled
  <2> QED BY <2>1, <2>2
<1>12. ASSUME NEW f \in Frames, NEW k \in Keys
       PROVE  ToldOK(f, k)'
  <2>1. f \in AllFrames /\ History(f)' = History(f)
    BY <1>3 DEF AllFrames, History
  <2>2. CASE got'[f][k] = got[f][k] /\ (f # F \/ k # K)
    BY <1>3, <1>11, <2>1, <2>2, ToldKept DEF Contains
  <2>3. CASE f = F /\ k = K
    <3>1. /\ got'[f][k] = Append(got[f][k], current[f]) /\ Len(current[f]) = f
      <4>1. got \in [AllFrames -> [Keys -> Seq(Bars)]] /\ f # 1
        BY <1>1, FramesAssumption DEF TypeOK
      <4>2. got'[f][k] = Append(got[f][k], current[f])
        BY <1>2, <1>7, <2>1, <2>3, <4>1 DEF Callback
      <4>3. feed.b > 0 /\ f = order[feed.b]
        BY <1>1, <1>2, <1>3, <2>3, <4>1, FrameAtFacts
      <4> QED BY <1>1, <1>3, <4>2, <4>3 DEF WalkOK
    <3>2. PICK told : told = got[f][k]
      OBVIOUS
    <3>3. told \in Seq(Bars) /\ Len(told) \in Nat
      BY <1>1, <2>1, <3>2, KeyTypes
    <3>4. f \in Nat \ {0, 1} /\ past[f] \in Seq(Bars) /\ Len(past[f]) \in Nat
      BY <1>1, FrameTypes
    <3>5. current[f] \in Bars /\ History(f) = Append(past[f], current[f])
      BY <1>1, <3>1, <3>4, HistoryFacts
    <3>6. PICK tells : tells = Append(told, current[f])
      OBVIOUS
    <3>7. /\ Len(tells) = Len(told) + 1 /\ \A i \in 1..Len(told) : tells[i] = told[i]
          /\ tells[Len(told) + 1] = current[f] /\ got'[f][k] = tells
      BY <3>1, <3>2, <3>3, <3>5, <3>6, AppendProperties
    <3>8. PICK h : h = History(f)
      OBVIOUS
    <3>9. Len(h) = Len(past[f]) + 1 /\ h[Len(h)] = current[f]
      BY <3>4, <3>5, <3>8, AppendProperties
    <3>10. Contains(subs[f], k)
      BY <1>6, <1>7, <2>3 DEF Contains
    <3>11. PICK n \in Nat : Told(f, k, h, n)
      BY <3>8, <3>10 DEF ToldOK
    <3>12. Owed(f, k) = 1 /\ Owed(f, k)' = 0
      BY <1>10, <2>3 DEF Owed
    <3>13. n + Len(tells) = Len(h)
      BY <3>2, <3>3, <3>7, <3>11, <3>12 DEF Told
    <3>14. \A i \in 1..Len(tells) : tells[i] = h[n + i]
      <4> SUFFICES ASSUME NEW i \in 1..Len(tells)
                   PROVE  tells[i] = h[n + i]
        OBVIOUS
      <4>1. CASE i = Len(told) + 1
        <5>1. n + i = Len(h)
          BY <3>3, <3>7, <3>13, <4>1
        <5> QED BY <3>7, <3>9, <4>1, <5>1
      <4>2. CASE i # Len(told) + 1
        <5>1. i \in 1..Len(told)
          BY <3>3, <3>7, <4>2
        <5> QED BY <3>2, <3>7, <3>11, <5>1 DEF Told
      <4> QED BY <4>1, <4>2
    <3>15. \A i \in 1..Len(h) : i > n <=> Last(h[i]) > since'[f][k]
      BY <1>3, <3>11 DEF Told
    <3>16. Told(f, k, h, n)'
      <4>1. n + Len(got'[f][k]) + Owed(f, k)' = Len(h)
        BY <3>3, <3>7, <3>12, <3>13
      <4> QED BY <3>7, <3>14, <3>15, <4>1 DEF Told
    <3> QED BY <2>1, <3>8, <3>16 DEF ToldOK
  <2>4. f # F \/ k # K => got'[f][k] = got[f][k]
    <3>1. got \in [AllFrames -> [Keys -> Seq(Bars)]]
      BY <1>1 DEF TypeOK
    <3> QED BY <1>2, <1>7, <2>1, <3>1 DEF Callback
  <2> QED BY <2>2, <2>3, <2>4
<1> QED BY <1>8, <1>12

LEMMA CallbacksDoneTells ==
  ASSUME OrderInv, OrderInv', Undisturbed, SinceOK, CallbacksDone,
         \A f \in Frames, k \in Keys : ToldOK(f, k)
  PROVE  SinceOK' /\ \A f \in Frames, k \in Keys : ToldOK(f, k)'
<1>1. TypeOK /\ TypeOK' /\ WalkOK
  BY DEF OrderInv
<1>2. /\ feed.at = "call" /\ feed'.at = "bucket"
      /\ Len(subs[FrameAt(feed.b)]) = feed.keys /\ feed.i > feed.keys
      /\ UNCHANGED <<booted, now, order, subs, current, past, since, got, faults>>
  BY DEF CallbacksDone, Visiting
<1>3. \A f, k : ~ Uncalled(f, k)
  <2>1. PICK F : F = FrameAt(feed.b)
    OBVIOUS
  <2>2. F \in AllFrames /\ feed.i \in Nat
    BY <1>1, <1>2, <2>1, FrameAtFacts
  <2>3. DOMAIN subs[F] = 1..Len(subs[F]) /\ Len(subs[F]) \in Nat
    BY <1>1, <2>2, KeyTypes
  <2>4. \A j \in DOMAIN subs[F] : ~ (j >= feed.i)
    BY <1>2, <2>1, <2>2, <2>3
  <2> QED BY <2>1, <2>4 DEF Uncalled, CallsFor
<1>4. \A f, k : ~ Uncalled(f, k)'
  BY <1>1, <1>2, IdleBoundNext
<1>5. SinceOK'
  BY <1>2, SinceKept
<1>6. \A f \in Frames, k \in Keys : ToldOK(f, k)'
  BY <1>2, <1>3, <1>4, ToldKept DEF History, Contains
<1> QED BY <1>5, <1>6

LEMMA BucketsDoneTells ==
  ASSUME OrderInv, OrderInv', Undisturbed, SinceOK, BucketsDone,
         \A f \in Frames, k \in Keys : ToldOK(f, k)
  PROVE  SinceOK' /\ \A f \in Frames, k \in Keys : ToldOK(f, k)'
<1>1. TypeOK /\ TypeOK'
  BY DEF OrderInv
<1>2. /\ feed.at = "bucket" /\ feed'.at = "idle"
      /\ UNCHANGED <<booted, now, order, subs, step, current, past, since, got, faults>>
  BY DEF BucketsDone, Idle
<1>3. \A f, k : ~ Uncalled(f, k) /\ ~ Uncalled(f, k)'
  BY <1>1, <1>2, IdleBound, IdleBoundNext
<1>4. SinceOK'
  BY <1>2, SinceKept
<1>5. \A f \in Frames, k \in Keys : ToldOK(f, k)'
  BY <1>2, <1>3, ToldKept DEF History, Contains
<1> QED BY <1>4, <1>5

LEMMA AddTells ==
  ASSUME OrderInv, OrderInv', SinceOK, faults' = 0,
         NEW F \in AllFrames, NEW K \in Keys, AddTimeframe(F, K),
         \A f \in Frames, k \in Keys : ToldOK(f, k)
  PROVE  SinceOK' /\ \A f \in Frames, k \in Keys : ToldOK(f, k)'
<1>1. /\ TypeOK /\ TypeOK' /\ now \in Nat
      /\ since \in [AllFrames -> [Keys -> Nat]] /\ subs \in [AllFrames -> Seq(Keys)]
  BY DEF OrderInv, TypeOK
<1>2. /\ feed.at = "idle" /\ feed'.at = "idle" /\ ~ Contains(subs[F], K)
      /\ subs' = [subs EXCEPT ![F] = Append(@, K)]
      /\ since' = [since EXCEPT ![F][K] = now]
      /\ UNCHANGED <<booted, now, step, current, past, feed, got>>
  BY <1>1, JoinsBetween DEF AddTimeframe
<1>3. \A f, k : ~ Uncalled(f, k) /\ ~ Uncalled(f, k)'
  BY <1>1, <1>2, IdleBound, IdleBoundNext
<1>4. SinceOK'
  <2>1. \A f \in Frames, k \in Keys : since'[f][k] = now \/ since'[f][k] = since[f][k]
    BY <1>1, <1>2 DEF AllFrames
  <2> QED BY <1>1, <1>2, <2>1 DEF SinceOK
<1>5. ASSUME NEW f \in Frames, NEW k \in Keys
      PROVE  ToldOK(f, k)'
  <2>1. f \in AllFrames /\ History(f)' = History(f)
    BY <1>2 DEF AllFrames, History
  <2>2. CASE f # F \/ k # K
    <3>1. since'[f][k] = since[f][k]
      BY <1>1, <1>2, <2>1, <2>2
    <3>2. Contains(subs[f], k)' => Contains(subs[f], k)
      <4>1. CASE f # F
        <5>1. subs'[f] = subs[f]
          BY <1>1, <1>2, <2>1, <4>1
        <5> QED BY <5>1 DEF Contains
      <4>2. CASE f = F
        <5>1. PICK keys : keys = Append(subs[F], K)
          OBVIOUS
        <5>2. subs[F] \in Seq(Keys) /\ Len(subs[F]) \in Nat
          BY <1>1, KeyTypes
        <5>3. /\ Len(keys) = Len(subs[F]) + 1 /\ keys[Len(subs[F]) + 1] = K
              /\ \A i \in 1..Len(subs[F]) : keys[i] = subs[F][i]
          BY <5>1, <5>2, AppendProperties
        <5>4. subs'[F] = keys
          BY <1>1, <1>2, <5>1
        <5>5. ASSUME NEW i \in 1..Len(keys), keys[i] = k
              PROVE  i \in 1..Len(subs[F]) /\ subs[F][i] = k
          <6>1. i # Len(subs[F]) + 1
            BY <2>2, <4>2, <5>3, <5>5
          <6>2. i \in 1..Len(subs[F])
            BY <5>2, <5>3, <6>1
          <6> QED BY <5>3, <5>5, <6>2
        <5> QED BY <4>2, <5>4, <5>5 DEF Contains
      <4> QED BY <4>1, <4>2
    <3> QED BY <1>2, <1>3, <2>1, <3>1, <3>2, ToldKept
  <2>3. CASE f = F /\ k = K
    <3>1. PICK h : h = History(f)
      OBVIOUS
    <3>2. /\ h \in Seq(Bars) /\ Len(h) \in Nat
          /\ \A i \in 1..Len(h) : Last(h[i]) < now + 1 /\ Last(h[i]) \in Nat
      <4>1. /\ h \in Seq(Bars) /\ \A i \in 1..Len(h) : Last(h[i]) < Bound(f)
        BY <1>1, <3>1, HistoryInOrder DEF OrderInv
      <4>2. Bound(f) = now + 1
        BY <1>1, <1>2, IdleBound
      <4>3. Len(h) \in Nat /\ \A i \in 1..Len(h) : Last(h[i]) \in Nat
        BY <4>1, LenProperties, ElementOfSeq, BarFacts
      <4> QED BY <4>1, <4>2, <4>3
    <3>3. got'[f][k] = << >>
      BY <1>2, <2>3 DEF OrderInv, SubscriberOK
    <3>4. PICK told : told = got'[f][k]
      OBVIOUS
    <3>5. Len(told) = 0 /\ 1..Len(told) = {}
      BY <3>3, <3>4
    <3>6. since'[f][k] = now
      BY <1>1, <1>2, <2>1, <2>3
    <3>7. Owed(f, k)' = 0
      BY <1>3 DEF Owed
    <3>8. \A i \in 1..Len(h) : i > Len(h) <=> Last(h[i]) > since'[f][k]
      BY <1>1, <3>2, <3>6
    <3>9. Told(f, k, h, Len(h))'
      <4>1. h' = h /\ Len(h) + Len(got'[f][k]) + Owed(f, k)' = Len(h)
        BY <2>1, <3>1, <3>2, <3>4, <3>5, <3>7
      <4> QED BY <3>4, <3>5, <3>8, <4>1 DEF Told
    <3> QED BY <2>1, <3>1, <3>2, <3>9 DEF ToldOK
  <2> QED BY <2>2, <2>3
<1> QED BY <1>4, <1>5

LEMMA TickTells ==
  ASSUME OrderInv, OrderInv', Undisturbed, SinceOK, OnTick, faults = 0,
         \A f \in Frames, k \in Keys : ToldOK(f, k)
  PROVE  SinceOK' /\ \A f \in Frames, k \in Keys : ToldOK(f, k)'
<1>1. /\ TypeOK /\ WalkOK /\ TypeOK' /\ now \in Nat
      /\ since \in [AllFrames -> [Keys -> Nat]]
  BY DEF OrderInv, TypeOK
<1>2. PICK F : F = order[feed.b]
  OBVIOUS
<1>3. /\ F \in Frames /\ feed.at = "bucket"
      /\ \A f \in Frames : f # F => Stays(f)
      /\ \/ Opens(F) /\ feed' = Visiting(feed.b + 1, feed.frames)
         \/ Passes(F) /\ feed' = Visiting(feed.b + 1, feed.frames)
         \/ /\ Counts(F)
            /\ feed' = IF Len(current[F]) + 1 = F
                       THEN Calling(feed.b, feed.frames)
                       ELSE Visiting(feed.b + 1, feed.frames)
  BY <1>1, <1>2, TickEffect DEF RegularInv
<1>4. UNCHANGED <<booted, now, order, subs, since, got, faults>> /\ feed.b \in Nat \ {0}
  <2>1. UNCHANGED <<booted, now, order, subs, since, got, faults>>
    BY DEF OnTick
  <2> QED BY <1>1, <1>3, <2>1, PlaceTypes
<1>5. SinceOK'
  BY <1>3, <1>4, SinceKept
<1>6. \A f, k : ~ Uncalled(f, k)
  BY <1>1, <1>3, IdleBound
<1>7. feed' = Visiting(feed.b + 1, feed.frames) => \A f, k : ~ Uncalled(f, k)'
  BY DEF Uncalled, CallsFor, Visiting
<1>8. feed' = Calling(feed.b, feed.frames) => \A f : CallsFor(f)' <=> f = F
  BY <1>2, <1>4 DEF CallsFor, FrameAt, Calling
<1>9. /\ F \in Nat \ {0, 1} /\ F \in AllFrames
      /\ current[F] \in Seq(Nat) /\ Len(current[F]) \in Nat
      /\ past[F] \in Seq(Bars) /\ Len(past[F]) \in Nat
  BY <1>1, <1>3, FrameTypes
(* A bar that is not full yet is no bar of the history. *)
<1>10. ASSUME NEW k \in Keys,
              History(F)' = History(F), feed' = Visiting(feed.b + 1, feed.frames)
       PROVE  ToldOK(F, k)'
  BY <1>3, <1>4, <1>6, <1>7, <1>10, ToldKept DEF Contains
<1>11. ASSUME NEW f \in Frames, NEW k \in Keys, f # F
       PROVE  ToldOK(f, k)'
  <2>1. History(f)' = History(f)
    BY <1>3, <1>11 DEF Stays, History
  <2>2. ~ Uncalled(f, k)'
    BY <1>3, <1>7, <1>8, <1>11 DEF Uncalled
  <2> QED BY <1>4, <1>6, <2>1, <2>2, ToldKept DEF Contains
<1>12. ASSUME NEW k \in Keys
       PROVE  ToldOK(F, k)'
  <2>1. CASE Opens(F) /\ feed' = Visiting(feed.b + 1, feed.frames)
    <3>1. PICK bar : bar = <<now>>
      OBVIOUS
    <3>2. current'[F] = bar /\ past'[F] = History(F)
      BY <2>1, <3>1 DEF Opens
    <3>3. ~ (Len(current'[F]) >= F)
      <4>1. Len(bar) = 1
        BY ONLY <3>1
      <4>2. PICK m : m = Len(bar)
        OBVIOUS
      <4>3. ~ (m >= F)
        BY ONLY <1>9, <4>1, <4>2
      <4> QED BY ONLY <3>2, <4>2, <4>3
    <3>4. History(F)' = past'[F]
      BY <1>1, <1>3, <3>3, HistoryFactsNext
    <3> QED BY <1>10, <2>1, <3>2, <3>4
  <2>2. CASE Passes(F) /\ feed' = Visiting(feed.b + 1, feed.frames)
    <3>1. History(F)' = History(F)
      BY <2>2 DEF Passes, History
    <3> QED BY <1>10, <2>2, <3>1
  <2>3. CASE Counts(F)
    <3>1. PICK bar : bar = Append(current[F], now)
      OBVIOUS
    <3>2. bar \in Seq(Nat) /\ Len(bar) = Len(current[F]) + 1 /\ bar[Len(bar)] = now
      BY <1>1, <1>9, <3>1, AppendProperties
    <3>3. current'[F] = bar /\ past'[F] = past[F] /\ Len(current[F]) < F
      BY <2>3, <3>1 DEF Counts
    <3>4. History(F) = past[F]
      <4>1. ~ (Len(current[F]) >= F)
        BY <1>9, <3>3
      <4> QED BY <1>1, <1>3, <4>1, HistoryFacts
    <3>5. CASE Len(bar) # F
      <4>1. ~ (Len(current'[F]) >= F)
        BY <1>9, <3>2, <3>3, <3>5
      <4>2. History(F)' = History(F)
        BY <1>1, <1>3, <3>3, <3>4, <4>1, HistoryFactsNext
      <4>3. feed' = Visiting(feed.b + 1, feed.frames)
        BY <1>3, <2>3, <3>2, <3>5 DEF Opens, Passes, Counts
      <4> QED BY <1>10, <4>2, <4>3
    <3>6. CASE Len(bar) = F
      <4>1. feed' = Calling(feed.b, feed.frames)
        BY <1>3, <2>3, <3>2, <3>6 DEF Opens, Passes, Counts
      <4>2. PICK h : h = past[F]
        OBVIOUS
      <4>3. PICK g : g = Append(h, bar)
        OBVIOUS
      <4>4. bar \in Bars /\ Last(bar) = now
        <5>1. Len(bar) # 0 /\ (bar = << >> <=> Len(bar) = 0)
          BY <1>9, <3>2, <3>6, EmptySeq
        <5>2. bar \in Bars
          BY <3>2, <5>1 DEF Bars
        <5> QED BY <3>2, <5>2, BarFacts
      <4>5. /\ Len(h) \in Nat /\ Len(g) = Len(h) + 1 /\ g[Len(h) + 1] = bar
            /\ \A i \in 1..Len(h) : g[i] = h[i]
        BY <1>9, <4>2, <4>3, <4>4, AppendProperties
      <4>6. History(F)' = g
        <5>1. Len(current'[F]) >= F
          BY <1>9, <3>3, <3>6
        <5> QED BY <1>1, <1>3, <3>3, <4>2, <4>3, <5>1, HistoryFactsNext
      <4> SUFFICES ASSUME Contains(subs[F], k)
                   PROVE  \E n \in Nat : Told(F, k, g, n)'
        BY <1>4, <4>6 DEF ToldOK, Contains
      <4>7. PICK n \in Nat : Told(F, k, h, n)
        BY <1>3, <3>4, <4>2 DEF ToldOK
      <4>8. Owed(F, k) = 0 /\ Owed(F, k)' = 1
        <5>1. PICK i \in 1..Len(subs[F]) : subs[F][i] = k
          BY DEF Contains
        <5>2. i \in DOMAIN subs[F] /\ i >= 1
          BY <1>1, <1>9, KeyTypes
        <5>3. feed'.i = 1
          BY <4>1 DEF Calling
        <5>4. Uncalled(F, k)'
          BY <1>4, <1>8, <4>1, <5>1, <5>2, <5>3 DEF Uncalled
        <5> QED BY <1>6, <5>4 DEF Owed
      <4>9. Len(got[F][k]) \in Nat
        BY <1>1, <1>9, KeyTypes
      <4>10. n + Len(got'[F][k]) + Owed(F, k)' = Len(g)
        <5>1. n + Len(got[F][k]) = Len(h)
          BY <4>7, <4>8, <4>9 DEF Told
        <5>2. PICK m \in Nat : m = Len(got[F][k])
          BY <4>9
        <5>3. n + m + 1 = Len(g)
          BY <4>5, <5>1, <5>2
        <5>4. Len(got'[F][k]) = m
          BY <1>4, <5>2
        <5> QED BY ONLY <4>8, <5>3, <5>4
      <4>11. \A i \in 1..Len(got'[F][k]) : got'[F][k][i] = g[n + i]
        <5> SUFFICES ASSUME NEW i \in 1..Len(got[F][k])
                     PROVE  got[F][k][i] = g[n + i]
          BY <1>4
        <5>1. n + i \in 1..Len(h)
          BY <4>5, <4>7, <4>8, <4>9 DEF Told
        <5> QED BY <4>5, <4>7, <5>1 DEF Told
      <4>12. \A i \in 1..Len(g) : i > n <=> Last(g[i]) > since'[F][k]
        <5> SUFFICES ASSUME NEW i \in 1..Len(g)
                     PROVE  i > n <=> Last(g[i]) > since[F][k]
          BY <1>4
        <5>1. CASE i = Len(h) + 1
          <6>1. i > n
            BY <4>5, <4>7, <4>8, <4>9, <5>1 DEF Told
          <6>2. now > since[F][k]
            <7>1. since[F][k] \in Nat /\ since[F][k] < now
              BY <1>1, <1>3, <1>9 DEF SinceOK
            <7> QED BY <1>1, <7>1
          <6> QED BY <4>4, <4>5, <5>1, <6>1, <6>2
        <5>2. CASE i # Len(h) + 1
          <6>1. i \in 1..Len(h) /\ g[i] = h[i]
            BY <4>5, <5>2
          <6> QED BY <4>7, <6>1 DEF Told
        <5> QED BY <5>1, <5>2
      <4>13. Told(F, k, g, n)'
        BY <4>10, <4>11, <4>12 DEF Told
      <4> QED BY <4>13
    <3> QED BY <3>5, <3>6
  <2> QED BY <1>3, <2>1, <2>2, <2>3
<1> QED BY <1>5, <1>11, <1>12

LEMMA TellNext ==
  ASSUME TellInv, OrderInv', [Next]_vars
  PROVE  TellInv'
<1>1. OrderInv /\ TypeOK
  BY DEF TellInv, OrderInv
<1> SUFFICES ASSUME faults' = 0
             PROVE  /\ Undisturbed' /\ SinceOK'
                    /\ \A f \in Frames, k \in Keys : ToldOK(f, k)'
  BY DEF TellInv, Regular
<1>2. faults = 0
  BY <1>1, RegularIsKept DEF vars
<1>3. Undisturbed /\ SinceOK /\ \A f \in Frames, k \in Keys : ToldOK(f, k)
  BY <1>2 DEF TellInv, Regular
<1>4. CASE Next
  <2>1. Undisturbed'
    BY <1>1, <1>3, <1>4, RegularNext
  <2>2. RegularInv
    BY <1>3 DEF RegularInv
  <2>3. SinceOK' /\ \A f \in Frames, k \in Keys : ToldOK(f, k)'
    BY <1>1, <1>2, <1>3, <1>4, <2>2, ProvideTells, CallbackTells, CallbacksDoneTells,
       NothingRaises, TickTells, BucketsDoneTells, AddTells DEF Next
  <2> QED BY <2>1, <2>3
<1>5. CASE UNCHANGED vars
  <2>1. Undisturbed'
    BY <1>3, <1>5, StutterUndisturbed
  <2>2. SinceOK'
    BY <1>3, <1>5 DEF vars, SinceOK
  <2>3. \A f \in Frames, k \in Keys : ToldOK(f, k)'
    BY <1>3, <1>5, ToldKept DEF vars, History, Contains, Uncalled, CallsFor, FrameAt
  <2> QED BY <2>1, <2>2, <2>3
<1> QED BY <1>4, <1>5

(* Inside the candle as well as between candles, what a subscriber has     *)
(* been told and the one bar still owed to it are all it was to be told.   *)
THEOREM SpecTellInv == Spec => []TellInv
<1>1. Init => TellInv
  <2> SUFFICES ASSUME Init
               PROVE  TellInv
    OBVIOUS
  <2>1. OrderInv /\ Undisturbed
    BY InitOrdered, InitUndisturbed
  <2>2. feed.at = "idle" /\ now \in Nat /\ \A f \in Frames, k \in Keys : since[f][k] = 0
    BY DEF Init, Idle, AllFrames
  <2>3. SinceOK
    BY <2>2 DEF SinceOK
  <2>4. \A f \in Frames, k \in Keys : ~ Contains(subs[f], k)
    <3>1. PICK none : none = << >>
      OBVIOUS
    <3>2. 1..Len(none) = {} /\ \A f \in Frames : subs[f] = none
      BY <3>1 DEF Init, AllFrames
    <3> QED BY <3>2 DEF Contains
  <2> QED BY <2>1, <2>3, <2>4 DEF TellInv, ToldOK
<1>2. TellInv /\ OrderInv' /\ [Next]_vars => TellInv'
  BY TellNext
<1> QED BY <1>1, <1>2, SpecOrderInv, PTL DEF Spec

(* As long as the feed is regular, between two candles a subscriber has    *)
(* been told what was closed since it subscribed, and nothing else         *)
(* (CTF.py:85-134), for any timeframes, keys and calendar.                 *)
THEOREM SpecEveryBarIsTold == Spec => []EveryBarIsTold
<1>1. TellInv => EveryBarIsTold
  <2> SUFFICES ASSUME TellInv, Regular, feed.at = "idle", NEW f \in Frames, NEW k \in Keys,
                      Contains(subs[f], k)
               PROVE  \E n \in 0..Len(History(f)) :
                        /\ got[f][k] = SubSeq(History(f), n + 1, Len(History(f)))
                        /\ \A i \in 1..Len(History(f)) :
                             i > n <=> Last(History(f)[i]) > since[f][k]
    BY DEF EveryBarIsTold
  <2>1. TypeOK /\ BucketOK(f) /\ ToldOK(f, k) /\ f \in AllFrames
    BY DEF TellInv, OrderInv, AllFrames
  <2>2. PICK h : h = History(f)
    OBVIOUS
  <2>3. h \in Seq(Bars) /\ Len(h) \in Nat /\ \A i \in 1..Len(h) : h[i] \in Bars
    BY <2>1, <2>2, HistoryInOrder, LenProperties, ElementOfSeq
  <2>4. PICK told : told = got[f][k]
    OBVIOUS
  <2>5. told \in Seq(Bars) /\ Len(told) \in Nat
    BY <2>1, <2>4, KeyTypes
  <2>6. Owed(f, k) = 0
    BY <2>1, IdleBound DEF Owed
  <2>7. PICK n \in Nat : Told(f, k, h, n)
    BY <2>1, <2>2 DEF ToldOK
  <2>8. /\ n + Len(told) = Len(h) /\ \A i \in 1..Len(told) : told[i] = h[n + i]
        /\ \A i \in 1..Len(h) : i > n <=> Last(h[i]) > since[f][k]
    BY <2>4, <2>5, <2>6, <2>7 DEF Told
  <2>9. PICK s : s = SubSeq(h, n + 1, Len(h))
    OBVIOUS
  <2>10. s \in Seq(Bars) /\ Len(s) = Len(told) /\ \A i \in 1..Len(told) : s[i] = told[i]
    <3>1. n + 1 \in Int /\ Len(h) \in Int /\ \A i \in (n + 1)..Len(h) : h[i] \in Bars
      BY <2>3
    <3>2. /\ SubSeq(h, n + 1, Len(h)) \in Seq(Bars)
          /\ Len(SubSeq(h, n + 1, Len(h)))
               = IF n + 1 <= Len(h) THEN Len(h) - (n + 1) + 1 ELSE 0
          /\ \A i \in 1..(Len(h) - (n + 1) + 1) :
               SubSeq(h, n + 1, Len(h))[i] = h[(n + 1) + i - 1]
      BY <3>1, SubSeqProperties
    <3>3. s \in Seq(Bars) /\ Len(s) = IF n + 1 <= Len(h) THEN Len(h) - (n + 1) + 1 ELSE 0
      BY <2>9, <3>2
    <3>4. Len(s) = Len(told)
      BY <2>3, <2>5, <2>8, <3>3
    <3>5. ASSUME NEW i \in 1..Len(told)
          PROVE  s[i] = told[i]
      <4>1. i \in 1..(Len(h) - (n + 1) + 1) /\ (n + 1) + i - 1 = n + i
        BY <2>3, <2>5, <2>8
      <4> QED BY <2>8, <2>9, <3>2, <4>1
    <3> QED BY <3>3, <3>4, <3>5
  <2>11. s = told
    BY <2>5, <2>10, SeqEqual
  <2>12. n \in 0..Len(h)
    BY <2>3, <2>5, <2>8
  <2> QED BY <2>2, <2>4, <2>8, <2>9, <2>11, <2>12
<1> QED BY <1>1, SpecTellInv, PTL
=============================================================================
