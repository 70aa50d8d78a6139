------------------------ MODULE ChartHistory_proofs ------------------------
(***************************************************************************)
(* Proofs about ChartHistory, for any symbols, depth of their stores, size *)
(* of pages and of the cache, and number of requests: the cache ascends    *)
(* strictly, whatever crosses on the way; without a new snapshot and short *)
(* of the cache's limit it has no hole; and if no answer was late, either, *)
(* the terminal stops asking at the end of history only.                   *)
(***************************************************************************)
EXTENDS ChartHistory, SequenceTheorems, FiniteSetTheorems, WellFoundedInduction, TLAPS

Requests == [before : 1..MaxTime, no : 1..MaxRequests]

Questions ==
  [type : {"history"}, before : 1..MaxTime, no : 1..MaxRequests]
    \cup [type : {"symbol"}, symbol : Symbols]

Answers ==
  [type : {"snapshot"}, bars : Seq(Candles)]
    \cup [type : {"history"}, bars : Seq(Candles), no : 1..MaxRequests]
    \cup [type : {"bar"}, bar : Candles]

TypeInv ==
  /\ candles \in Seq(Candles)
  /\ noMoreHistory \in BOOLEAN /\ historyPending \in BOOLEAN
  /\ historyTimeout \in 0..MaxRequests /\ timers \subseteq 1..MaxRequests
  /\ requests \in 0..MaxRequests /\ switches \in 0..MaxSwitches
  /\ serving \in Symbols /\ newest \in [Symbols -> Start..MaxTime]
  /\ frames \in Seq(Requests) /\ inbox \in Seq(Questions) /\ wire \in Seq(Answers)
  /\ late \in BOOLEAN /\ trimmed \in BOOLEAN
  /\ Len(frames) <= requests /\ Outstanding \subseteq 1..requests

Ordered(cs) == \A i, j \in DOMAIN cs : i < j => cs[i].time < cs[j].time

(* The cache ascends, and so does every page that is on its way.           *)
OrderInv ==
  /\ TypeInv /\ Ordered(candles)
  /\ \A m \in Range(wire) : m.type # "bar" => Ordered(m.bars)

-----------------------------------------------------------------------------
(* Sequences.                                                              *)

(* What a sequence has, when an element is added, or the first is taken.   *)
LEMMA RangeAppend ==
  ASSUME NEW S, NEW s \in Seq(S), NEW e \in S
  PROVE  Range(Append(s, e)) = Range(s) \cup {e}
<1>1. PICK t : t = Append(s, e)
  OBVIOUS
<1>2. /\ Len(s) \in Nat /\ DOMAIN s = 1..Len(s) /\ DOMAIN t = 1..Len(t)
      /\ Len(t) = Len(s) + 1 /\ t[Len(s) + 1] = e
      /\ \A i \in 1..Len(s) : t[i] = s[i]
  BY <1>1, AppendProperties, LenProperties
<1>3. \A i \in DOMAIN s : i \in DOMAIN t /\ t[i] = s[i]
  BY <1>2
<1>4. \A i \in DOMAIN t : i \in DOMAIN s \/ i = Len(s) + 1
  BY <1>2
<1>5. Len(s) + 1 \in DOMAIN t
  BY <1>2
<1>6. Range(t) = Range(s) \cup {e}
  BY <1>2, <1>3, <1>4, <1>5 DEF Range
<1> QED BY <1>1, <1>6

(* The first of a sequence is taken off.                                   *)
LEMMA RangeTail ==
  ASSUME NEW S, NEW s \in Seq(S), s # << >>
  PROVE  Range(s) = {Head(s)} \cup Range(Tail(s))
<1>1. PICK t : t = Tail(s)
  OBVIOUS
<1>2. /\ Len(s) \in Nat \ {0} /\ DOMAIN s = 1..Len(s) /\ DOMAIN t = 1..Len(t)
      /\ Len(t) = Len(s) - 1 /\ Head(s) = s[1]
      /\ \A i \in 1..Len(t) : t[i] = s[i + 1]
  BY <1>1, HeadTailProperties, LenProperties, EmptySeq
<1>3. \A i \in DOMAIN t : i + 1 \in DOMAIN s /\ t[i] = s[i + 1]
  BY <1>2
<1>4. \A i \in DOMAIN s : i = 1 \/ (i - 1 \in DOMAIN t /\ t[i - 1] = s[i])
  BY <1>2
<1>5. 1 \in DOMAIN s
  BY <1>2
<1>6. Range(s) = {s[1]} \cup Range(t)
  BY <1>3, <1>4, <1>5 DEF Range
<1> QED BY <1>1, <1>2, <1>6

(* Outstanding, by what the three queues have.                             *)
Asked(fs, qs, as) ==
  {f.no : f \in fs}
    \cup {m.no : m \in {x \in qs : x.type = "history"}}
    \cup {m.no : m \in {x \in as : x.type = "history"}}

LEMMA OutstandingIsAsked ==
  /\ Outstanding = Asked(Range(frames), Range(inbox), Range(wire))
  /\ Outstanding' = Asked(Range(frames'), Range(inbox'), Range(wire'))
BY DEF Outstanding, Asked, Range

LEMMA CandleTime ==
  ASSUME NEW c \in Candles
  PROVE  c.of \in Symbols /\ c.time \in 1..MaxTime /\ c.time \in Nat /\ c.time \in Int
<1>1. c.of \in Symbols /\ c.time \in 1..MaxTime
  BY DEF Candles
<1> QED BY <1>1, TimesAssumption

(* Sets of candles that ascend, end to end.                                *)
LEMMA OrderedConcat ==
  ASSUME NEW a \in Seq(Candles), NEW b \in Seq(Candles), Ordered(a), Ordered(b),
         \A i \in 1..Len(a) : b # << >> => a[i].time < b[1].time
  PROVE  a \o b \in Seq(Candles) /\ Ordered(a \o b)
<1>1. PICK c : c = a \o b
  OBVIOUS
<1>2. /\ Len(a) \in Nat /\ Len(b) \in Nat /\ Len(c) = Len(a) + Len(b)
      /\ DOMAIN a = 1..Len(a) /\ DOMAIN b = 1..Len(b) /\ DOMAIN c = 1..Len(c)
      /\ c \in Seq(Candles)
      /\ \A i \in 1..(Len(a) + Len(b)) : c[i] = IF i <= Len(a) THEN a[i] ELSE b[i - Len(a)]
  BY <1>1, ConcatProperties, LenProperties
<1>3. /\ \A i \in 1..Len(a) : a[i].time \in Nat
      /\ \A i \in 1..Len(b) : b[i].time \in Nat
  BY ElementOfSeq, CandleTime
<1>4. ASSUME NEW i \in 1..Len(c), NEW j \in 1..Len(c), i < j
      PROVE  c[i].time < c[j].time
  <2>1. CASE j <= Len(a)
    <3>1. i \in DOMAIN a /\ j \in DOMAIN a /\ c[i] = a[i] /\ c[j] = a[j]
      BY <1>2, <1>4, <2>1
    <3> QED BY <1>4, <3>1 DEF Ordered
  <2>2. CASE i > Len(a)
    <3>1. /\ i - Len(a) \in DOMAIN b /\ j - Len(a) \in DOMAIN b /\ i - Len(a) < j - Len(a)
          /\ c[i] = b[i - Len(a)] /\ c[j] = b[j - Len(a)]
      BY <1>2, <1>4, <2>2
    <3> QED BY <3>1 DEF Ordered
  <2>3. CASE i <= Len(a) /\ j > Len(a)
    <3>1. /\ i \in 1..Len(a) /\ j - Len(a) \in 1..Len(b) /\ 1 \in 1..Len(b)
          /\ c[i] = a[i] /\ c[j] = b[j - Len(a)]
      BY <1>2, <1>4, <2>3
    <3>2. b # << >> /\ a[i].time < b[1].time
      BY <3>1, <1>2, EmptySeq
    <3>3. PICK l : l = j - Len(a)
      OBVIOUS
    <3>4. l \in 1..Len(b) /\ 1 \in 1..Len(b) /\ l \in DOMAIN b /\ 1 \in DOMAIN b
      BY <1>2, <3>1, <3>3
    <3>5. l = 1 \/ 1 < l
      BY <3>4
    <3>6. l = 1 \/ b[1].time < b[l].time
      BY <3>4, <3>5 DEF Ordered
    <3>7. a[i].time \in Nat /\ b[1].time \in Nat /\ b[l].time \in Nat
      BY <1>3, <3>1, <3>4
    <3>8. a[i].time < b[l].time
      BY <3>2, <3>6, <3>7
    <3> QED BY <3>1, <3>3, <3>8
  <2> QED BY <1>2, <1>4, <2>1, <2>2, <2>3
<1> QED BY <1>1, <1>2, <1>4 DEF Ordered


-----------------------------------------------------------------------------
(* What the server answers.                                                *)

LEMMA ConstantFacts ==
  ASSUME NEW s \in Symbols
  PROVE  /\ First[s] \in Nat \ {0} /\ First[s] <= Start
         /\ Start \in Nat \ {0} /\ MaxTime \in Nat /\ Start <= MaxTime /\ Page \in Nat \ {0}
BY FirstAssumption, TimesAssumption, PageAssumption

LEMMA StoreBetweenFacts ==
  ASSUME NEW s \in Symbols, NEW from \in Nat \ {0}, NEW to \in 0..MaxTime, NEW bars,
         bars = StoreBetween(s, from, to)
  PROVE  /\ bars \in Seq(Candles) /\ Ordered(bars)
         /\ Len(bars) = IF from > to THEN 0 ELSE to - from + 1
<1>1. MaxTime \in Nat
  BY TimesAssumption
<1>2. PICK n : n = IF from > to THEN 0 ELSE to - from + 1
  OBVIOUS
<1>3. n \in Nat /\ \A i \in 1..n : from + i - 1 \in 1..MaxTime
  BY <1>1, <1>2
<1>4. bars = [i \in 1..n |-> [of |-> s, time |-> from + i - 1]]
  BY <1>2 DEF StoreBetween
<1>5. \A i \in 1..n : [of |-> s, time |-> from + i - 1] \in Candles
  BY <1>3 DEF Candles
<1>6. bars \in Seq(Candles) /\ Len(bars) = n
  <2>1. bars \in [1..n -> Candles]
    BY <1>4, <1>5
  <2>2. bars \in Seq(Candles)
    BY ONLY <1>3, <2>1, SeqDef
  <2>3. DOMAIN bars = 1..n /\ DOMAIN bars = 1..Len(bars) /\ Len(bars) \in Nat
    BY <1>4, <2>2, LenProperties
  <2>4. Len(bars) = n
    BY ONLY <1>3, <2>3
  <2> QED BY <2>2, <2>4
<1>7. \A i \in 1..n : bars[i].time = from + i - 1
  BY <1>4
<1>8. Ordered(bars)
  <2>1. DOMAIN bars = 1..n
    BY <1>4
  <2>2. \A i, j \in 1..n : i < j => from + i - 1 < from + j - 1
    BY <1>3
  <2> QED BY <1>7, <2>1, <2>2 DEF Ordered
<1> QED BY <1>2, <1>6, <1>8

LEMMA StoreBetweenAt ==
  ASSUME NEW s \in Symbols, NEW from \in Nat \ {0}, NEW to \in 0..MaxTime, NEW bars,
         bars = StoreBetween(s, from, to), NEW i \in 1..Len(bars)
  PROVE  bars[i].time = from + i - 1 /\ bars[i].of = s
<1>1. PICK n : n = IF from > to THEN 0 ELSE to - from + 1
  OBVIOUS
<1>2. Len(bars) = n
  BY <1>1, StoreBetweenFacts
<1>3. bars = [j \in 1..n |-> [of |-> s, time |-> from + j - 1]]
  BY <1>1 DEF StoreBetween
<1> QED BY <1>2, <1>3

(* A page ends where it was asked to, and begins in the store.             *)
LEMMA FromFacts ==
  ASSUME NEW s \in Symbols, NEW last \in Nat
  PROVE  /\ From(s, last) \in Nat \ {0} /\ From(s, last) >= First[s]
         /\ First[s] <= last => From(s, last) <= last
         /\ From(s, last) > last => First[s] > last
<1>1. First[s] \in Nat \ {0} /\ Page \in Nat \ {0}
  BY ConstantFacts
<1> QED BY <1>1 DEF From

LEMMA SnapshotFacts ==
  ASSUME NEW s \in Symbols, newest[s] \in Start..MaxTime
  PROVE  Snapshot(s) \in Answers /\ Ordered(Snapshot(s).bars)
<1>1. newest[s] \in Nat /\ newest[s] \in 0..MaxTime
  BY ConstantFacts
<1>2. PICK to, from, bars :
        to = newest[s] /\ from = From(s, to) /\ bars = StoreBetween(s, from, to)
  OBVIOUS
<1>3. bars \in Seq(Candles) /\ Ordered(bars)
  <2>1. to \in Nat /\ to \in 0..MaxTime
    BY <1>1, <1>2
  <2>2. from \in Nat \ {0}
    BY <1>2, <2>1, FromFacts
  <2>3. bars = StoreBetween(s, from, to)
    BY <1>2
  <2> QED BY ONLY s \in Symbols, <2>1, <2>2, <2>3, StoreBetweenFacts
<1>4. Snapshot(s) = [type |-> "snapshot", bars |-> bars]
  BY <1>2 DEF Snapshot
<1> QED BY <1>3, <1>4 DEF Answers

-----------------------------------------------------------------------------
(* What the engine makes of an answer.                                     *)

(* The older part of a page that ascends is its beginning.                 *)
LEMMA OlderFacts ==
  ASSUME candles \in Seq(Candles), NEW page \in Seq(Candles), Ordered(page)
  PROVE  \E n \in 0..Len(page) :
           /\ OlderOf(page) = SubSeq(page, 1, n)
           /\ \A i \in 1..Len(page) :
                i <= n <=> (candles = << >> \/ page[i].time < candles[1].time)
<1> DEFINE Kept(i) == candles = << >> \/ page[i].time < candles[1].time
           D == {i \in DOMAIN page : Kept(i)}
           N == {i \in 1..(Len(page) + 1) : i = Len(page) + 1 \/ ~ Kept(i)}
<1>1. Len(page) \in Nat /\ DOMAIN page = 1..Len(page)
  BY LenProperties
<1>2. N \subseteq Nat /\ Len(page) + 1 \in N
  BY <1>1
<1>3. PICK k \in N : \A i \in N : ~ (i < k)
  <2> HIDE DEF N
  <2>1. PICK R : R = OpToRel(<, Nat)
    OBVIOUS
  <2>2. IsWellFoundedOn(R, Nat)
    BY <2>1, NatLessThanWellFounded
  <2>3. \E m \in N : \A i \in N : ~ (<<i, m>> \in R)
    BY <1>2, <2>2, WFMin, Zenon
  <2>4. PICK m \in N : \A i \in N : ~ (<<i, m>> \in R)
    BY <2>3
  <2>5. \A i \in N : ~ (i < m)
    BY <1>2, <2>1, <2>4 DEF OpToRel
  <2> QED BY <2>5
<1>4. PICK n : n = k - 1
  OBVIOUS
<1>5. n \in 0..Len(page)
  BY <1>1, <1>4
<1>6. ASSUME NEW i \in 1..Len(page), i <= n
      PROVE  Kept(i)
  <2>1. i < k /\ i \in 1..(Len(page) + 1) /\ i # Len(page) + 1
    BY <1>1, <1>4, <1>5, <1>6
  <2> QED BY <1>3, <2>1
<1>7. ASSUME NEW i \in 1..Len(page), ~ (i <= n)
      PROVE  ~ Kept(i)
  <2>1. k \in 1..Len(page) /\ i >= k
    BY <1>1, <1>4, <1>5, <1>7
  <2>2. ~ Kept(k)
    BY <1>1, <2>1
  <2>3. candles # << >> /\ ~ (page[k].time < candles[1].time)
    BY <2>2
  <2>4. candles[1].time \in Nat /\ page[i].time \in Nat /\ page[k].time \in Nat
    <3>1. Len(candles) \in Nat \ {0}
      BY <2>3, EmptySeq
    <3>2. candles[1] \in Candles /\ page[i] \in Candles /\ page[k] \in Candles
      BY <1>7, <2>1, <3>1, ElementOfSeq
    <3> QED BY <3>2, CandleTime
  <2>5. i = k \/ page[k].time < page[i].time
    BY <1>1, <1>7, <2>1 DEF Ordered
  <2> QED BY <2>3, <2>4, <2>5
<1>8. D = 1..n
  <2> HIDE DEF Kept
  <2> QED BY <1>1, <1>5, <1>6, <1>7
<1>9. Cardinality(D) = n
  <2>1. n \in Int /\ 1 \in Int
    BY <1>1, <1>5
  <2>2. Cardinality(1..n) = IF 1 > n THEN 0 ELSE n - 1 + 1
    BY ONLY <2>1, FS_Interval
  <2>3. n >= 0
    BY <1>1, <1>5
  <2>4. Cardinality(1..n) = n
    BY ONLY <2>1, <2>2, <2>3
  <2> QED BY <1>8, <2>4
<1>10. OlderOf(page) = SubSeq(page, 1, n)
  BY <1>9 DEF OlderOf
<1> QED BY <1>5, <1>6, <1>7, <1>10

(* Trimming cuts the oldest off, down to TrimTo, if there are too many.    *)
LEMMA TrimmedFacts ==
  ASSUME NEW cs \in Seq(Candles), NEW t, \E near \in BOOLEAN : t = Trimmed(cs, near)
  PROVE  \E d \in 0..Len(cs) :
           /\ t \in Seq(Candles) /\ Len(t) = Len(cs) - d
           /\ \A i \in 1..Len(t) : t[i] = cs[i + d]
           /\ d > 0 => Len(t) + 1 < Len(cs)
           /\ d = 0 => t = cs
<1>1. Len(cs) \in Nat /\ \A i \in 1..Len(cs) : cs[i] \in Candles
  BY LenProperties, ElementOfSeq
<1>2. MaxCache \in Nat /\ TrimTo \in 1..(MaxCache - 1)
  BY TrimAssumption
<1>3. CASE Len(cs) > MaxCache /\ t = SubSeq(cs, Len(cs) - TrimTo + 1, Len(cs))
  <2>1. PICK d : d = Len(cs) - TrimTo
    OBVIOUS
  <2>2. d \in 0..Len(cs) /\ d + 1 \in Int /\ Len(cs) \in Int /\ TrimTo + 1 < Len(cs) /\ d > 0
    BY <1>1, <1>2, <1>3, <2>1
  <2>3. \A i \in (d + 1)..Len(cs) : cs[i] \in Candles
    BY <1>1, <2>2
  <2>4. t = SubSeq(cs, d + 1, Len(cs))
    BY <1>3, <2>1
  <2>5. /\ t \in Seq(Candles)
        /\ Len(t) = IF d + 1 <= Len(cs) THEN Len(cs) - (d + 1) + 1 ELSE 0
        /\ \A i \in 1..(Len(cs) - (d + 1) + 1) : t[i] = cs[(d + 1) + i - 1]
    BY <2>2, <2>3, <2>4, SubSeqProperties
  <2>6. Len(t) = Len(cs) - d /\ Len(t) = TrimTo
    BY <1>1, <1>2, <2>1, <2>2, <2>5
  <2>7. ASSUME NEW i \in 1..Len(t)
        PROVE  t[i] = cs[i + d]
    <3>1. i \in 1..(Len(cs) - (d + 1) + 1) /\ (d + 1) + i - 1 = i + d
      BY <1>1, <2>2, <2>6
    <3> QED BY <2>5, <3>1
  <2> QED BY <2>2, <2>5, <2>6, <2>7
<1>4. CASE t = cs
  BY <1>1, <1>4
<1>5. \/ t = cs
      \/ Len(cs) > MaxCache /\ t = SubSeq(cs, Len(cs) - TrimTo + 1, Len(cs))
  BY DEF Trimmed
<1> QED BY <1>3, <1>4, <1>5


-----------------------------------------------------------------------------
(* The types, and the order of what is in the cache and on its way.        *)

(* The first of the cache, and of each queue, has its type.                *)
LEMMA QueueFacts ==
  ASSUME TypeInv
  PROVE  /\ candles # << >> => candles[1] \in Candles /\ candles[1].time \in 1..MaxTime
         /\ frames # << >> => Head(frames) \in Requests /\ Tail(frames) \in Seq(Requests)
         /\ inbox # << >> => Head(inbox) \in Questions /\ Tail(inbox) \in Seq(Questions)
         /\ wire # << >> => Head(wire) \in Answers /\ Tail(wire) \in Seq(Answers)
         /\ Len(frames) \in Nat
         /\ \A m \in Range(wire) : m \in Answers
<1>1. candles # << >> => candles[1] \in Candles
  BY ElementOfSeq, EmptySeq DEF TypeInv
<1>2. candles[1] \in Candles => candles[1].time \in 1..MaxTime
  BY DEF Candles
<1>3. /\ frames # << >> => Head(frames) \in Requests /\ Tail(frames) \in Seq(Requests)
      /\ inbox # << >> => Head(inbox) \in Questions /\ Tail(inbox) \in Seq(Questions)
      /\ wire # << >> => Head(wire) \in Answers /\ Tail(wire) \in Seq(Answers)
  BY HeadTailProperties DEF TypeInv
<1>4. Len(frames) \in Nat
  BY LenProperties DEF TypeInv
<1>5. \A m \in Range(wire) : m \in Answers
  <2>1. wire \in Seq(Answers) /\ DOMAIN wire = 1..Len(wire)
    BY LenProperties DEF TypeInv
  <2>2. \A i \in 1..Len(wire) : wire[i] \in Answers
    BY <2>1, ElementOfSeq
  <2> QED BY <2>1, <2>2 DEF Range
<1> QED BY <1>1, <1>2, <1>3, <1>4, <1>5

(* A question of the user is on its way with the next frame.               *)
LEMMA ScrollLeftOrder ==
  ASSUME OrderInv, ScrollLeft
  PROVE  OrderInv' /\ Outstanding' = Outstanding \cup {requests'}
<1>1. /\ TypeInv /\ Ordered(candles)
      /\ \A m \in Range(wire) : m.type # "bar" => Ordered(m.bars)
  BY DEF OrderInv
<1>2. PICK f : f = [before |-> candles[1].time, no |-> requests']
  OBVIOUS
<1>3. /\ ~ historyPending /\ ~ noMoreHistory /\ candles # << >>
      /\ requests < MaxRequests /\ requests' = requests + 1
      /\ historyPending' = TRUE
      /\ frames' = Append(frames, f)
      /\ timers' = timers \cup {requests'} /\ historyTimeout' = requests'
      /\ UNCHANGED <<candles, noMoreHistory, switches, inbox, serving, newest, wire, history>>
  BY <1>2 DEF ScrollLeft
<1>4. requests' \in 1..MaxRequests /\ requests' \in Nat /\ requests \in Nat
  BY <1>1, <1>3, BoundsAssumption DEF TypeInv
<1>5. f \in Requests /\ f.no = requests'
  BY <1>1, <1>2, <1>3, <1>4, QueueFacts DEF Requests
<1>6. frames \in Seq(Requests) /\ Len(frames) \in Nat
  BY <1>1, QueueFacts DEF TypeInv
<1>7. /\ frames' \in Seq(Requests) /\ Len(frames') = Len(frames) + 1
      /\ Range(frames') = Range(frames) \cup {f}
  BY <1>3, <1>5, <1>6, AppendProperties, RangeAppend
<1>8. Outstanding' = Outstanding \cup {requests'}
  BY <1>3, <1>5, <1>7, OutstandingIsAsked DEF Asked
<1>9. Outstanding' \subseteq 1..requests'
  BY <1>1, <1>3, <1>4, <1>8 DEF TypeInv
<1>10. TypeInv'
  BY <1>1, <1>3, <1>4, <1>6, <1>7, <1>9 DEF TypeInv, history
<1> QED BY <1>1, <1>3, <1>8, <1>10 DEF OrderInv

(* The question goes out.                                                  *)
LEMMA AnimationFrameOrder ==
  ASSUME OrderInv, AnimationFrame
  PROVE  OrderInv' /\ Outstanding' = Outstanding
<1>1. /\ TypeInv /\ Ordered(candles)
      /\ \A m \in Range(wire) : m.type # "bar" => Ordered(m.bars)
  BY DEF OrderInv
<1>2. PICK f, q : f = Head(frames) /\ q = [type |-> "history", before |-> f.before, no |-> f.no]
  OBVIOUS
<1>3. /\ frames # << >> /\ frames' = Tail(frames) /\ inbox' = Append(inbox, q)
      /\ UNCHANGED <<engine, requests, switches, serving, newest, wire, history>>
  BY <1>2 DEF AnimationFrame
<1>4. frames \in Seq(Requests) /\ inbox \in Seq(Questions) /\ f \in Requests
  BY <1>1, <1>2, <1>3, QueueFacts DEF TypeInv
<1>5. q \in Questions /\ q.type = "history" /\ q.no = f.no
  BY <1>2, <1>4 DEF Questions, Requests
<1>6. /\ frames' \in Seq(Requests) /\ Len(frames') = Len(frames) - 1
      /\ Range(frames) = {f} \cup Range(frames')
  BY <1>2, <1>3, <1>4, HeadTailProperties, RangeTail
<1>7. inbox' \in Seq(Questions) /\ Range(inbox') = Range(inbox) \cup {q}
  BY <1>3, <1>4, <1>5, AppendProperties, RangeAppend
<1>8. Outstanding' = Outstanding
  <2>1. wire' = wire
    BY <1>3
  <2>2. {x \in Range(inbox') : x.type = "history"} = {x \in Range(inbox) : x.type = "history"} \cup {q}
    BY <1>5, <1>7
  <2> QED BY <1>5, <1>6, <2>1, <2>2, OutstandingIsAsked DEF Asked
<1>9. TypeInv'
  <2>1. Len(frames') <= requests
    BY <1>1, <1>6, QueueFacts DEF TypeInv
  <2> QED BY <1>1, <1>3, <1>6, <1>7, <1>8, <2>1 DEF TypeInv, engine, history
<1> QED BY <1>1, <1>3, <1>8, <1>9 DEF OrderInv, engine

LEMMA SwitchOrder ==
  ASSUME OrderInv, NEW s \in Symbols, Switch(s)
  PROVE  OrderInv'
<1>1. /\ TypeInv /\ Ordered(candles)
      /\ \A m \in Range(wire) : m.type # "bar" => Ordered(m.bars)
  BY DEF OrderInv
<1>2. PICK q : q = [type |-> "symbol", symbol |-> s]
  OBVIOUS
<1>3. /\ switches < MaxSwitches /\ switches' = switches + 1 /\ inbox' = Append(inbox, q)
      /\ UNCHANGED <<engine, frames, requests, serving, newest, wire, history>>
  BY <1>2 DEF Switch
<1>4. q \in Questions /\ q.type = "symbol" /\ inbox \in Seq(Questions)
  BY <1>1, <1>2 DEF Questions, TypeInv
<1>5. inbox' \in Seq(Questions) /\ Range(inbox') = Range(inbox) \cup {q}
  BY <1>3, <1>4, AppendProperties, RangeAppend
<1>6. Outstanding' = Outstanding
  <2>1. wire' = wire /\ frames' = frames
    BY <1>3
  <2>2. {x \in Range(inbox') : x.type = "history"} = {x \in Range(inbox) : x.type = "history"}
    BY <1>4, <1>5
  <2> QED BY <2>1, <2>2, OutstandingIsAsked DEF Asked
<1>7. switches' \in 0..MaxSwitches
  BY <1>1, <1>3, BoundsAssumption DEF TypeInv
<1>8. TypeInv'
  BY <1>1, <1>3, <1>5, <1>6, <1>7 DEF TypeInv, engine, history
<1> QED BY <1>1, <1>3, <1>8 DEF OrderInv, engine

LEMMA TimerFiresOrder ==
  ASSUME OrderInv, NEW no \in 1..MaxRequests, TimerFires(no)
  PROVE  OrderInv' /\ Outstanding' = Outstanding
<1>1. /\ TypeInv /\ Ordered(candles)
      /\ \A m \in Range(wire) : m.type # "bar" => Ordered(m.bars)
  BY DEF OrderInv
<1>2. /\ timers' = timers \ {no} /\ late' \in BOOLEAN /\ historyPending' = FALSE
      /\ UNCHANGED <<candles, noMoreHistory, historyTimeout, frames, requests, switches,
                     inbox, serving, newest, wire, trimmed>>
  BY <1>1 DEF TimerFires, TypeInv
<1>3. Outstanding' = Outstanding
  BY <1>2, OutstandingIsAsked
<1>4. TypeInv'
  BY <1>1, <1>2, <1>3 DEF TypeInv
<1> QED BY <1>1, <1>2, <1>3, <1>4 DEF OrderInv

(* A live bar of the store.                                                *)
LEMMA PushOrder ==
  ASSUME OrderInv, Push
  PROVE  OrderInv' /\ Outstanding' = Outstanding
<1>1. /\ TypeInv /\ Ordered(candles)
      /\ \A m \in Range(wire) : m.type # "bar" => Ordered(m.bars)
  BY DEF OrderInv
<1>2. PICK b, m : /\ b = [of |-> serving, time |-> newest'[serving]]
                  /\ m = [type |-> "bar", bar |-> b]
  OBVIOUS
<1>3. /\ newest[serving] < MaxTime
      /\ newest' = [newest EXCEPT ![serving] = @ + 1]
      /\ wire' = Append(wire, m)
      /\ UNCHANGED <<engine, frames, requests, switches, inbox, serving, history>>
  BY <1>2 DEF Push
<1>4. /\ serving \in Symbols /\ newest \in [Symbols -> Start..MaxTime]
      /\ Start \in Nat \ {0} /\ MaxTime \in Nat
  BY <1>1, ConstantFacts DEF TypeInv
<1>5. newest' \in [Symbols -> Start..MaxTime] /\ newest'[serving] \in 1..MaxTime
  BY <1>3, <1>4
<1>6. m \in Answers /\ m.type = "bar" /\ wire \in Seq(Answers)
  BY <1>1, <1>2, <1>4, <1>5 DEF Answers, Candles, TypeInv
<1>7. wire' \in Seq(Answers) /\ Range(wire') = Range(wire) \cup {m}
  BY <1>3, <1>6, AppendProperties, RangeAppend
<1>8. Outstanding' = Outstanding
  <2>1. inbox' = inbox /\ frames' = frames
    BY <1>3
  <2>2. {x \in Range(wire') : x.type = "history"} = {x \in Range(wire) : x.type = "history"}
    BY <1>6, <1>7
  <2> QED BY <2>1, <2>2, OutstandingIsAsked DEF Asked
<1>9. TypeInv'
  BY <1>1, <1>3, <1>5, <1>7, <1>8 DEF TypeInv, engine, history
<1> QED BY <1>1, <1>3, <1>6, <1>7, <1>8, <1>9 DEF OrderInv, engine


(* A page ascends, wherever it was asked to end.                           *)
LEMMA PageFacts ==
  ASSUME NEW s \in Symbols, NEW before \in 1..MaxTime, NEW bars,
         bars = StoreBetween(s, From(s, before - 1), before - 1)
  PROVE  /\ bars \in Seq(Candles) /\ Ordered(bars) /\ Len(bars) \in Nat
         /\ \A i \in 1..Len(bars) :
              /\ bars[i].of = s /\ bars[i].time = bars[1].time + i - 1
              /\ bars[i].time >= First[s] /\ bars[i].time < before
         /\ Len(bars) > 0 => bars[Len(bars)].time = before - 1
         /\ Len(bars) = 0 => before <= First[s]
<1>1. PICK last : last = before - 1
  OBVIOUS
<1>2. PICK from : from = From(s, last)
  OBVIOUS
<1>3. last \in Nat /\ last \in 0..MaxTime /\ MaxTime \in Nat
  BY <1>1, ConstantFacts
<1>4. /\ from \in Nat \ {0} /\ from >= First[s] /\ First[s] \in Nat
      /\ from > last => First[s] > last
  BY <1>2, <1>3, FromFacts, ConstantFacts
<1>5. /\ bars \in Seq(Candles) /\ Ordered(bars)
      /\ Len(bars) = IF from > last THEN 0 ELSE last - from + 1
      /\ \A i \in 1..Len(bars) : bars[i].time = from + i - 1 /\ bars[i].of = s
  <2>1. bars = StoreBetween(s, from, last)
    BY <1>1, <1>2
  <2>2. bars \in Seq(Candles) /\ Ordered(bars)
    BY ONLY s \in Symbols, <1>3, <1>4, <2>1, StoreBetweenFacts
  <2>3. Len(bars) = IF from > last THEN 0 ELSE last - from + 1
    BY ONLY s \in Symbols, <1>3, <1>4, <2>1, StoreBetweenFacts
  <2>4. ASSUME NEW i \in 1..Len(bars)
        PROVE  bars[i].time = from + i - 1 /\ bars[i].of = s
    BY ONLY s \in Symbols, <1>3, <1>4, <2>1, <2>4, StoreBetweenAt
  <2> QED BY <2>2, <2>3, <2>4
<1>6. Len(bars) \in Nat
  BY <1>5, LenProperties
<1>7. PICK n : n = Len(bars)
  OBVIOUS
<1>8. n \in Nat /\ n = IF from > last THEN 0 ELSE last - from + 1
  BY <1>5, <1>6, <1>7
<1>9. ASSUME NEW i \in 1..n
      PROVE  /\ bars[i].of = s /\ bars[i].time = bars[1].time + i - 1
             /\ bars[i].time >= First[s] /\ bars[i].time < before
  <2>1. 1 \in 1..n /\ from + 1 - 1 = from
    BY <1>4, <1>8
  <2>2. bars[1].time = from /\ bars[i].time = from + i - 1 /\ bars[i].of = s
    BY <1>5, <1>7, <2>1
  <2>3. from + i - 1 >= First[s] /\ from + i - 1 < before
    BY <1>1, <1>3, <1>4, <1>8
  <2> QED BY <2>2, <2>3
<1>10. n > 0 => bars[n].time = before - 1
  <2>1. n > 0 => n \in 1..n /\ from + n - 1 = before - 1
    BY <1>1, <1>3, <1>4, <1>8
  <2> QED BY <1>5, <1>7, <2>1
<1>11. n = 0 => before <= First[s]
  BY <1>1, <1>3, <1>4, <1>8
<1> QED BY <1>5, <1>6, <1>7, <1>9, <1>10, <1>11

(* What the server says to the first question in its queue.                *)
Answer ==
  LET m == Head(inbox)
  IN  IF m.type = "symbol"
      THEN Snapshot(m.symbol)
      ELSE [type |-> "history", no |-> m.no,
            bars |-> StoreBetween(serving, From(serving, m.before - 1), m.before - 1)]

LEMMA ServeFacts ==
  ASSUME TypeInv, Serve
  PROVE  /\ inbox # << >> /\ inbox' = Tail(inbox) /\ wire' = Append(wire, Answer)
         /\ Answer \in Answers /\ Answer.type # "bar" /\ Ordered(Answer.bars)
         /\ \/ /\ Head(inbox).type = "symbol" /\ Answer.type = "snapshot"
               /\ serving' \in Symbols
            \/ /\ Head(inbox).type = "history" /\ Answer.type = "history"
               /\ Answer.no = Head(inbox).no /\ serving' = serving
               /\ Head(inbox).before \in 1..MaxTime
               /\ Answer.bars = StoreBetween(serving, From(serving, Head(inbox).before - 1),
                                              Head(inbox).before - 1)
         /\ UNCHANGED <<engine, frames, requests, switches, newest, history>>
<1>1. PICK m : m = Head(inbox)
  OBVIOUS
<1>2. inbox # << >> /\ m \in Questions
  BY <1>1, QueueFacts DEF Serve
<1>3. serving \in Symbols /\ newest \in [Symbols -> Start..MaxTime]
  BY DEF TypeInv
<1>4. CASE m.type = "symbol"
  <2>1. m.symbol \in Symbols
    BY <1>2, <1>4 DEF Questions
  <2>2. serving' = m.symbol /\ wire' = Append(wire, Answer) /\ Answer = Snapshot(m.symbol)
    BY <1>1, <1>4 DEF Serve, Answer
  <2>3. newest[m.symbol] \in Start..MaxTime
    BY <1>3, <2>1
  <2>4. Answer \in Answers /\ Ordered(Answer.bars)
    BY <2>1, <2>2, <2>3, SnapshotFacts
  <2>5. Answer.type = "snapshot"
    BY <2>2 DEF Snapshot
  <2> QED BY <1>1, <1>2, <1>4, <2>1, <2>2, <2>4, <2>5 DEF Serve
<1>5. CASE m.type # "symbol"
  <2>1. m.type = "history" /\ m.before \in 1..MaxTime /\ m.no \in 1..MaxRequests
    BY <1>2, <1>5 DEF Questions
  <2>2. PICK bars : bars = StoreBetween(serving, From(serving, m.before - 1), m.before - 1)
    OBVIOUS
  <2>3. /\ serving' = serving /\ wire' = Append(wire, Answer)
        /\ Answer = [type |-> "history", no |-> m.no, bars |-> bars]
    BY <1>1, <1>5, <2>2 DEF Serve, Answer
  <2>4. bars \in Seq(Candles) /\ Ordered(bars)
    BY <1>3, <2>1, <2>2, PageFacts
  <2>5. Answer \in Answers /\ Answer.type = "history" /\ Answer.no = m.no /\ Answer.bars = bars
    BY <2>1, <2>3, <2>4 DEF Answers
  <2> QED BY <1>1, <1>2, <2>1, <2>3, <2>4, <2>5 DEF Serve
<1> QED BY <1>4, <1>5

LEMMA ServeOrder ==
  ASSUME OrderInv, Serve
  PROVE  OrderInv' /\ Outstanding' = Outstanding
<1>1. /\ TypeInv /\ Ordered(candles)
      /\ \A m \in Range(wire) : m.type # "bar" => Ordered(m.bars)
  BY DEF OrderInv
<1>2. PICK m, a : m = Head(inbox) /\ a = Answer
  OBVIOUS
<1>3. /\ inbox # << >> /\ inbox' = Tail(inbox) /\ wire' = Append(wire, a)
      /\ a \in Answers /\ a.type # "bar" /\ Ordered(a.bars) /\ serving' \in Symbols
      /\ \/ m.type = "symbol" /\ a.type = "snapshot"
         \/ m.type = "history" /\ a.type = "history" /\ a.no = m.no
      /\ UNCHANGED <<engine, frames, requests, switches, newest, history>>
  BY <1>1, <1>2, ServeFacts DEF TypeInv
<1>4. inbox \in Seq(Questions) /\ wire \in Seq(Answers) /\ inbox' \in Seq(Questions)
  BY <1>1, <1>3, QueueFacts DEF TypeInv
<1>5. wire' \in Seq(Answers) /\ Range(wire') = Range(wire) \cup {a}
  BY <1>3, <1>4, AppendProperties, RangeAppend
<1>6. Range(inbox) = Range(inbox') \cup {m}
  BY <1>2, <1>3, <1>4, RangeTail
<1>7. Outstanding' = Outstanding
  <2>1. frames' = frames
    BY <1>3
  <2>2. CASE m.type = "symbol" /\ a.type = "snapshot"
    <3>1. /\ {x \in Range(wire') : x.type = "history"} = {x \in Range(wire) : x.type = "history"}
          /\ {x \in Range(inbox') : x.type = "history"} = {x \in Range(inbox) : x.type = "history"}
      BY <1>5, <1>6, <2>2
    <3> QED BY <2>1, <3>1, OutstandingIsAsked DEF Asked
  <2>3. CASE m.type = "history" /\ a.type = "history" /\ a.no = m.no
    <3>1. /\ {x \in Range(wire') : x.type = "history"}
               = {x \in Range(wire) : x.type = "history"} \cup {a}
          /\ {x \in Range(inbox) : x.type = "history"}
               = {x \in Range(inbox') : x.type = "history"} \cup {m}
      BY <1>5, <1>6, <2>3
    <3> QED BY <2>1, <2>3, <3>1, OutstandingIsAsked DEF Asked
  <2> QED BY <1>3, <2>2, <2>3
<1>8. TypeInv'
  BY <1>1, <1>3, <1>4, <1>5, <1>7 DEF TypeInv, engine, history
<1> QED BY <1>1, <1>3, <1>5, <1>7, <1>8 DEF OrderInv, engine

(* A page goes before the cache, as far as it is older.                    *)
LEMMA PrependFacts ==
  ASSUME candles \in Seq(Candles), Ordered(candles),
         NEW page \in Seq(Candles), Ordered(page), PrependHistory(page)
  PROVE  \E n \in 0..Len(page) :
           /\ candles' \in Seq(Candles) /\ Ordered(candles')
           /\ Len(candles') = n + Len(candles)
           /\ \A i \in 1..n : candles'[i] = page[i]
           /\ \A i \in 1..Len(candles) : candles'[n + i] = candles[i]
           /\ \A i \in 1..Len(page) :
                i <= n <=> (candles = << >> \/ page[i].time < candles[1].time)
           /\ noMoreHistory' = (noMoreHistory \/ n = 0)
<1>1. /\ historyPending' = FALSE
      /\ timers' = timers \ {historyTimeout} /\ historyTimeout' = 0
      /\ candles' = OlderOf(page) \o candles
      /\ noMoreHistory' = (noMoreHistory \/ OlderOf(page) = << >>)
      /\ UNCHANGED trimmed
  BY DEF PrependHistory
<1>2. PICK n \in 0..Len(page) :
        /\ OlderOf(page) = SubSeq(page, 1, n)
        /\ \A i \in 1..Len(page) :
             i <= n <=> (candles = << >> \/ page[i].time < candles[1].time)
  BY OlderFacts
<1>3. PICK add : add = OlderOf(page)
  OBVIOUS
<1>4. Len(page) \in Nat /\ DOMAIN page = 1..Len(page) /\ \A i \in 1..n : page[i] \in Candles
  BY LenProperties, ElementOfSeq
<1>5. /\ add \in Seq(Candles)
      /\ Len(add) = n
      /\ \A i \in 1..n : add[i] = page[i]
  <2>1. /\ SubSeq(page, 1, n) \in Seq(Candles)
        /\ Len(SubSeq(page, 1, n)) = IF 1 <= n THEN n - 1 + 1 ELSE 0
        /\ \A i \in 1..(n - 1 + 1) : SubSeq(page, 1, n)[i] = page[1 + i - 1]
    BY <1>4, SubSeqProperties
  <2>2. n - 1 + 1 = n /\ (~ (1 <= n) => n = 0) /\ \A i \in 1..n : 1 + i - 1 = i
    BY <1>4
  <2>3. add = SubSeq(page, 1, n)
    BY <1>2, <1>3
  <2> QED BY <2>1, <2>2, <2>3
<1>6. DOMAIN add = 1..n
  BY <1>5, LenProperties
<1>7. Ordered(add)
  <2>1. \A i \in 1..n : i \in DOMAIN page
    BY <1>4
  <2> QED BY <1>5, <1>6, <2>1 DEF Ordered
<1>8. \A i \in 1..Len(add) : candles # << >> => add[i].time < candles[1].time
  <2>1. \A i \in 1..n : i \in 1..Len(page) /\ i <= n
    BY <1>4
  <2> QED BY <1>2, <1>5, <2>1
<1>9. candles' = add \o candles
  BY <1>1, <1>3
<1>10. candles' \in Seq(Candles) /\ Ordered(candles')
  BY <1>5, <1>7, <1>8, <1>9, OrderedConcat
<1>11. Len(candles) \in Nat
  BY LenProperties
<1>12. /\ Len(candles') = n + Len(candles)
       /\ \A i \in 1..(n + Len(candles)) :
            candles'[i] = IF i <= n THEN add[i] ELSE candles[i - n]
  BY <1>5, <1>9, ConcatProperties
<1>13. \A i \in 1..n : candles'[i] = page[i]
  <2>1. \A i \in 1..n : i \in 1..(n + Len(candles)) /\ i <= n
    BY <1>11
  <2> QED BY <1>5, <1>12, <2>1
<1>14. \A i \in 1..Len(candles) : candles'[n + i] = candles[i]
  <2>1. \A i \in 1..Len(candles) : /\ n + i \in 1..(n + Len(candles))
                                    /\ ~ (n + i <= n) /\ (n + i) - n = i
    BY <1>4, <1>11
  <2> QED BY <1>12, <2>1
<1>15. add = << >> <=> n = 0
  BY <1>5, EmptySeq
<1>16. noMoreHistory' = (noMoreHistory \/ n = 0)
  BY <1>1, <1>3, <1>15
<1> QED BY <1>2, <1>10, <1>12, <1>13, <1>14, <1>16


Applies(b) == \E near \in BOOLEAN : ApplyBar(b, near)

(* A live bar goes behind the cache, or in the place of one of its time.   *)
LEMMA ApplyBarFacts ==
  ASSUME candles \in Seq(Candles), Ordered(candles),
         NEW b \in Candles, Applies(b)
  PROVE  /\ candles' \in Seq(Candles) /\ Ordered(candles')
         /\ trimmed' \in BOOLEAN /\ (trimmed => trimmed')
         /\ (candles = << >> \/ b.time > candles[Len(candles)].time) /\ ~ trimmed' =>
              candles' = Append(candles, b)
<1>1. PICK n : n = Len(candles)
  OBVIOUS
<1>2. /\ n \in Nat /\ DOMAIN candles = 1..n /\ \A i \in 1..n : candles[i] \in Candles
      /\ (candles = << >> <=> n = 0) /\ Last(candles) = candles[n]
  BY <1>1, LenProperties, ElementOfSeq, EmptySeq DEF Last
<1>3. b.time \in Nat /\ \A i \in 1..n : candles[i].time \in Nat
  BY <1>2, TimesAssumption DEF Candles
<1>4. /\ trimmed' = (trimmed \/ Len(candles') < n)
      /\ IF candles = << >> \/ b.time > candles[n].time
         THEN \E near \in BOOLEAN : candles' = Trimmed(Append(candles, b), near)
         ELSE candles' = [i \in DOMAIN candles |->
                           IF candles[i].time = b.time THEN b ELSE candles[i]]
  BY <1>1, <1>2 DEF Applies, ApplyBar
<1>5. CASE candles = << >> \/ b.time > candles[n].time
  <2>1. PICK cs : cs = Append(candles, b)
    OBVIOUS
  <2>2. /\ cs \in Seq(Candles) /\ Len(cs) = n + 1 /\ cs[n + 1] = b
        /\ \A i \in 1..n : cs[i] = candles[i]
    BY <1>1, <2>1, AppendProperties
  <2>3. ASSUME NEW i \in 1..(n + 1), NEW j \in 1..(n + 1), i < j
        PROVE  cs[i].time < cs[j].time
    <3>1. i \in 1..n
      BY <1>2, <2>3
    <3>2. CASE j \in 1..n
      BY <1>2, <2>2, <2>3, <3>1, <3>2 DEF Ordered
    <3>3. CASE j = n + 1
      <4>1. n \in 1..n /\ n # 0
        BY <1>2, <3>1
      <4>2. b.time > candles[n].time
        BY <1>2, <1>5, <4>1
      <4>3. i = n \/ candles[i].time < candles[n].time
        BY <1>2, <3>1, <4>1 DEF Ordered
      <4> QED BY <1>3, <2>2, <3>1, <3>3, <4>1, <4>2, <4>3
    <3> QED BY <1>2, <3>2, <3>3
  <2>4. \E near \in BOOLEAN : candles' = Trimmed(cs, near)
    BY <1>4, <1>5, <2>1
  <2>5. PICK d \in 0..Len(cs) :
          /\ candles' \in Seq(Candles) /\ Len(candles') = Len(cs) - d
          /\ \A i \in 1..Len(candles') : candles'[i] = cs[i + d]
          /\ d > 0 => Len(candles') + 1 < Len(cs)
          /\ d = 0 => candles' = cs
    <3>1. PICK t : t = candles'
      OBVIOUS
    <3>2. \E near \in BOOLEAN : t = Trimmed(cs, near)
      BY <2>4, <3>1
    <3>3. \E d \in 0..Len(cs) :
            /\ t \in Seq(Candles) /\ Len(t) = Len(cs) - d
            /\ \A i \in 1..Len(t) : t[i] = cs[i + d]
            /\ d > 0 => Len(t) + 1 < Len(cs)
            /\ d = 0 => t = cs
      BY ONLY <2>2, <3>2, TrimmedFacts
    <3> QED BY <3>1, <3>3
  <2>6. Ordered(candles')
    <3>1. DOMAIN candles' = 1..Len(candles') /\ Len(candles') \in Nat
      BY <2>5, LenProperties
    <3>2. ASSUME NEW i \in 1..Len(candles'), NEW j \in 1..Len(candles'), i < j
          PROVE  candles'[i].time < candles'[j].time
      <4>1. i + d \in 1..(n + 1) /\ j + d \in 1..(n + 1) /\ i + d < j + d
        BY <1>2, <2>2, <2>5, <3>1, <3>2
      <4> QED BY <2>3, <2>5, <4>1
    <3> QED BY <3>1, <3>2 DEF Ordered
  <2>7. ~ trimmed' => candles' = cs
    <3>1. PICK l : l = Len(candles')
      OBVIOUS
    <3>2. l = (n + 1) - d /\ (d > 0 => l + 1 < n + 1) /\ d \in 0..(n + 1)
      BY <2>2, <2>5, <3>1
    <3>3. d > 0 => l < n
      BY ONLY <1>2, <3>2
    <3>4. ~ trimmed' => ~ (l < n)
      BY <1>4, <3>1
    <3> QED BY <1>2, <2>5, <3>2, <3>3, <3>4
  <2>8. trimmed' \in BOOLEAN /\ (trimmed => trimmed')
    BY <1>4
  <2> QED BY <2>1, <2>5, <2>6, <2>7, <2>8
<1>6. CASE ~ (candles = << >> \/ b.time > candles[n].time)
  <2>1. candles' = [i \in 1..n |-> IF candles[i].time = b.time THEN b ELSE candles[i]]
    BY <1>2, <1>4, <1>6
  <2>2. \A i \in 1..n : candles'[i] \in Candles /\ candles'[i].time = candles[i].time
    BY <1>2, <2>1
  <2>3. candles' \in Seq(Candles) /\ DOMAIN candles' = 1..n
    <3>1. candles' \in [1..n -> Candles]
      BY <2>1, <2>2
    <3> QED BY <1>2, <3>1
  <2>4. Ordered(candles')
    BY <1>2, <2>2, <2>3 DEF Ordered
  <2>5. trimmed' \in BOOLEAN /\ (trimmed => trimmed')
    BY <1>4
  <2> QED BY <1>1, <1>6, <2>3, <2>4, <2>5
<1> QED BY <1>5, <1>6

(* An answer is taken off the wire, and goes into the cache.               *)
LEMMA ReceiveFacts ==
  ASSUME TypeInv, Receive, NEW m, m = Head(wire)
  PROVE  /\ wire # << >> /\ wire' = Tail(wire) /\ m \in Answers
         /\ wire' \in Seq(Answers) /\ Range(wire) = {m} \cup Range(wire')
         /\ \/ m.type = "snapshot" /\ m.bars \in Seq(Candles) /\ SetCandles(m.bars)
            \/ m.type = "history" /\ m.bars \in Seq(Candles) /\ PrependHistory(m.bars)
            \/ m.type = "bar" /\ m.bar \in Candles /\ Applies(m.bar)
         /\ UNCHANGED <<frames, requests, switches, inbox, serving, newest, late>>
<1>1. /\ wire # << >> /\ wire' = Tail(wire)
      /\ \/ m.type = "snapshot" /\ SetCandles(m.bars)
         \/ m.type = "history" /\ PrependHistory(m.bars)
         \/ m.type = "bar" /\ \E near \in BOOLEAN : ApplyBar(m.bar, near)
      /\ UNCHANGED <<frames, requests, switches, inbox, serving, newest, late>>
  BY DEF Receive
<1>0. (\E near \in BOOLEAN : ApplyBar(m.bar, near)) => Applies(m.bar)
  BY DEF Applies
<1>2. wire \in Seq(Answers) /\ m \in Answers /\ wire' \in Seq(Answers)
  BY <1>1, QueueFacts DEF TypeInv
<1>3. Range(wire) = {m} \cup Range(wire')
  BY <1>1, <1>2, RangeTail
<1>4. /\ m.type \in {"snapshot", "history"} => m.bars \in Seq(Candles)
      /\ m.type = "bar" => m.bar \in Candles
  BY <1>2 DEF Answers
<1> QED BY <1>0, <1>1, <1>2, <1>3, <1>4

LEMMA ReceiveOrder ==
  ASSUME OrderInv, Receive
  PROVE  OrderInv'
<1>1. /\ TypeInv /\ Ordered(candles)
      /\ \A m \in Range(wire) : m.type # "bar" => Ordered(m.bars)
  BY DEF OrderInv
<1>2. PICK m : m = Head(wire)
  OBVIOUS
<1>3. /\ wire # << >> /\ wire' = Tail(wire) /\ m \in Answers
      /\ wire' \in Seq(Answers) /\ Range(wire) = {m} \cup Range(wire')
      /\ \/ m.type = "snapshot" /\ m.bars \in Seq(Candles) /\ SetCandles(m.bars)
         \/ m.type = "history" /\ m.bars \in Seq(Candles) /\ PrependHistory(m.bars)
         \/ m.type = "bar" /\ m.bar \in Candles /\ Applies(m.bar)
      /\ UNCHANGED <<frames, requests, switches, inbox, serving, newest, late>>
  BY <1>1, <1>2, ReceiveFacts
<1>4. Outstanding' \subseteq Outstanding
  <2>1. frames' = frames /\ inbox' = inbox
    BY <1>3
  <2>2. {x \in Range(wire') : x.type = "history"} \subseteq {x \in Range(wire) : x.type = "history"}
    BY <1>3
  <2> QED BY <2>1, <2>2, OutstandingIsAsked DEF Asked
<1>5. /\ candles' \in Seq(Candles) /\ Ordered(candles')
      /\ noMoreHistory' \in BOOLEAN /\ historyPending' \in BOOLEAN
      /\ historyTimeout' \in 0..MaxRequests /\ timers' \subseteq 1..MaxRequests
      /\ trimmed' \in BOOLEAN
  <2>0. /\ candles \in Seq(Candles) /\ trimmed \in BOOLEAN
        /\ noMoreHistory \in BOOLEAN /\ historyPending \in BOOLEAN
        /\ historyTimeout \in 0..MaxRequests /\ timers \subseteq 1..MaxRequests
        /\ 0 \in 0..MaxRequests
    BY <1>1, BoundsAssumption DEF TypeInv
  <2>1. CASE m.type = "snapshot"
    <3>1. Ordered(m.bars)
      BY <1>1, <1>3, <2>1
    <3> QED BY <1>3, <2>0, <2>1, <3>1 DEF SetCandles
  <2>2. CASE m.type = "history"
    <3>1. m.bars \in Seq(Candles) /\ Ordered(m.bars) /\ PrependHistory(m.bars)
      BY <1>1, <1>3, <2>2
    <3>2. candles' \in Seq(Candles) /\ Ordered(candles')
      BY <1>1, <2>0, <3>1, PrependFacts
    <3>3. /\ historyPending' = FALSE /\ timers' = timers \ {historyTimeout}
          /\ historyTimeout' = 0 /\ trimmed' = trimmed
          /\ noMoreHistory' = (noMoreHistory \/ OlderOf(m.bars) = << >>)
      BY <3>1 DEF PrependHistory
    <3> QED BY <2>0, <3>2, <3>3
  <2>3. CASE m.type = "bar"
    <3>0. PICK b : b = m.bar
      OBVIOUS
    <3>1. Applies(b)
      BY <1>3, <2>3, <3>0
    <3>2. b \in Candles
      BY <1>3, <2>3, <3>0
    <3>3. candles' \in Seq(Candles) /\ Ordered(candles') /\ trimmed' \in BOOLEAN
      <4>1. candles \in Seq(Candles) /\ Ordered(candles)
        BY <1>1, <2>0
      <4> QED BY ONLY <4>1, <3>1, <3>2, ApplyBarFacts
    <3>4. UNCHANGED <<noMoreHistory, historyPending, historyTimeout, timers>>
      BY <3>1 DEF Applies, ApplyBar
    <3> QED BY <2>0, <3>3, <3>4
  <2> QED BY <1>3, <2>1, <2>2, <2>3
<1>6. TypeInv'
  BY <1>1, <1>3, <1>4, <1>5 DEF TypeInv
<1> QED BY <1>1, <1>3, <1>5, <1>6 DEF OrderInv

LEMMA InitOrder == Init => OrderInv
<1> SUFFICES ASSUME Init PROVE OrderInv
  OBVIOUS
<1>1. serving \in Symbols /\ newest = [s \in Symbols |-> Start]
  BY DEF Init
<1>2. Start \in Nat \ {0} /\ MaxTime \in Nat /\ Start <= MaxTime
  BY <1>1, ConstantFacts
<1>3. PICK m : m = Snapshot(serving)
  OBVIOUS
<1>4. m \in Answers /\ Ordered(m.bars) /\ m.type = "snapshot"
  <2>1. newest[serving] \in Start..MaxTime
    BY <1>1, <1>2
  <2> QED BY <1>1, <1>3, <2>1, SnapshotFacts DEF Snapshot
<1>5. wire = <<m>>
  BY <1>3 DEF Init
<1>6. wire \in Seq(Answers) /\ Range(wire) = {m}
  BY <1>4, <1>5 DEF Range
<1>7. Outstanding = {}
  <2>1. Range(frames) = {} /\ Range(inbox) = {}
    BY DEF Init, Range
  <2> QED BY <1>4, <1>6, <2>1, OutstandingIsAsked DEF Asked
<1>8. TypeInv
  <2>1. newest \in [Symbols -> Start..MaxTime]
    BY <1>1, <1>2
  <2>2. frames = << >> /\ Len(frames) = 0 /\ frames \in Seq(Requests)
    BY DEF Init
  <2>3. inbox \in Seq(Questions) /\ candles \in Seq(Candles)
    BY DEF Init
  <2>4. requests = 0 /\ switches = 0 /\ historyTimeout = 0
        /\ 0 \in 0..MaxRequests /\ 0 \in 0..MaxSwitches
    BY BoundsAssumption DEF Init
  <2>5. /\ noMoreHistory \in BOOLEAN /\ historyPending \in BOOLEAN /\ timers \subseteq 1..MaxRequests
        /\ late \in BOOLEAN /\ trimmed \in BOOLEAN /\ serving \in Symbols
    BY DEF Init
  <2>6. Len(frames) <= requests /\ Outstanding \subseteq 1..requests
    BY <1>7, <2>2, <2>4
  <2> QED BY <1>6, <2>1, <2>2, <2>3, <2>4, <2>5, <2>6 DEF TypeInv
<1> QED BY <1>4, <1>6, <1>8 DEF OrderInv, Init, Ordered

LEMMA NextOrder == OrderInv /\ [Next]_vars => OrderInv'
<1> SUFFICES ASSUME OrderInv, [Next]_vars PROVE OrderInv'
  OBVIOUS
<1>1. CASE ScrollLeft \/ AnimationFrame \/ Serve \/ Push \/ Receive
  BY <1>1, ScrollLeftOrder, AnimationFrameOrder, ServeOrder, PushOrder, ReceiveOrder
<1>2. ASSUME NEW s \in Symbols, Switch(s) PROVE OrderInv'
  BY <1>2, SwitchOrder
<1>3. ASSUME NEW no \in 1..MaxRequests, TimerFires(no) PROVE OrderInv'
  BY <1>3, TimerFiresOrder
<1>4. CASE UNCHANGED vars
  <2>1. Outstanding' = Outstanding
    BY <1>4, OutstandingIsAsked DEF vars
  <2> QED BY <1>4, <2>1 DEF OrderInv, TypeInv, vars, engine, history, Ordered, Range
<1> QED BY <1>1, <1>2, <1>3, <1>4 DEF Next

(* The types hold, and cache and pages ascend, in every reachable state.   *)
THEOREM SpecOrderInv == Spec => []OrderInv
<1> QED BY InitOrder, NextOrder, PTL DEF Spec

(* The engine's fields have their types, and no more requests are on their *)
(* way than were made.                                                     *)
THEOREM SpecTypeOK == Spec => []TypeOK
<1>1. OrderInv => TypeOK
  <2> SUFFICES ASSUME TypeInv PROVE TypeOK
    BY DEF OrderInv
  <2>1. serving \in Symbols /\ newest \in [Symbols -> Start..MaxTime]
    BY DEF TypeInv
  <2>2. Start \in Nat \ {0} /\ MaxTime \in Nat
    BY <2>1, ConstantFacts
  <2>3. newest \in [Symbols -> 1..MaxTime]
    BY <2>1, <2>2
  <2>4. Cardinality(Outstanding) <= requests
    <3>1. requests \in Nat /\ Outstanding \subseteq 1..requests
      BY BoundsAssumption DEF TypeInv
    <3>2. IsFiniteSet(1..requests) /\ Cardinality(1..requests) = requests
      BY <3>1, FS_Interval
    <3> QED BY <3>1, <3>2, FS_Subset
  <2> QED BY <2>3, <2>4 DEF TypeInv, TypeOK
<1> QED BY <1>1, SpecOrderInv, PTL

(* "The engine can then assume a clean, strictly-increasing time domain"   *)
(* (App.tsx:2746-2747): the cache ascends strictly, whatever snapshots,    *)
(* pages and bars cross on the way, however often a page comes, and when   *)
(* the cache is trimmed, for any depth of the stores and any sizes.        *)
THEOREM SpecStrictlyIncreasing == Spec => []StrictlyIncreasing
<1>1. OrderInv => StrictlyIncreasing
  BY DEF OrderInv, Ordered, StrictlyIncreasing
<1> QED BY <1>1, SpecOrderInv, PTL

-----------------------------------------------------------------------------
(* No holes.  Until the user asks for a new snapshot, and short of the     *)
(* cache's limit, the cache is a stretch of the store, and what is on its  *)
(* way fits it.                                                            *)

Quiet == switches = 0 /\ ~ trimmed

(* A stretch of a symbol's store.                                          *)
Run(bars, s) ==
  \A i \in 1..Len(bars) :
    /\ bars[i].of = s /\ bars[i].time >= First[s]
    /\ bars[i].time = bars[1].time + i - 1

(* The bars on the wire are those from one time to another, each once, in  *)
(* order.                                                                  *)
Live(edge, w, s, last) ==
  /\ edge <= last
  /\ \A i \in 1..Len(w) : w[i].type = "bar" =>
       w[i].bar.of = s /\ edge < w[i].bar.time /\ w[i].bar.time <= last
  /\ \A i, j \in 1..Len(w) :
       i < j /\ w[i].type = "bar" /\ w[j].type = "bar" => w[i].bar.time < w[j].bar.time
  /\ \A t \in (edge + 1)..last : \E i \in 1..Len(w) : w[i].type = "bar" /\ w[i].bar.time = t

(* The newest time the cache has, or will have by the first snapshot.      *)
Edge == IF candles = << >> THEN Start ELSE candles[Len(candles)].time

(* The first snapshot is the first thing to come.                          *)
Booting ==
  /\ candles = << >> /\ frames = << >> /\ inbox = << >>
  /\ wire # << >> /\ wire[1].type = "snapshot"
  /\ \A i \in 2..Len(wire) : wire[i].type = "bar"
  /\ wire[1].bars # << >> /\ Run(wire[1].bars, serving)
  /\ wire[1].bars[Len(wire[1].bars)].time = Start

(* An answer that follows, to a cache from some time on.                   *)
Fits(m, s, oldest) ==
  /\ m.type # "snapshot"
  /\ m.type = "history" =>
       Run(m.bars, s) /\ (m.bars # << >> => m.bars[Len(m.bars)].time + 1 >= oldest)

(* Afterwards, a page is asked for from the cache's oldest candle or from  *)
(* one that was its oldest, and so ends at that candle or behind it.       *)
Filled ==
  /\ candles # << >> /\ Run(candles, serving)
  /\ \A f \in Range(frames) : f.before >= candles[1].time
  /\ \A q \in Range(inbox) : q.type = "history" /\ q.before >= candles[1].time
  /\ \A m \in Range(wire) : Fits(m, serving, candles[1].time)

NoHole == (Booting \/ Filled) /\ Live(Edge, wire, serving, newest[serving])

HoleInv == OrderInv /\ (Quiet => NoHole)

(* While no answer is late, one request at most is on its way, the one     *)
(* whose timer runs, and it is about the cache's oldest candle: an empty   *)
(* page says that this is the oldest of the store.                         *)
Pages(w) == {i \in 1..Len(w) : w[i].type = "history"}

OneAtATime ==
  /\ Outstanding \subseteq {historyTimeout} /\ timers \subseteq Outstanding
  /\ ~ historyPending => frames = << >> /\ inbox = << >> /\ Pages(wire) = {}
  /\ Len(frames) <= 1 /\ Len(inbox) <= 1 /\ (\A i, j \in Pages(wire) : i = j)
  /\ frames # << >> => inbox = << >> /\ Pages(wire) = {}
  /\ inbox # << >> => Pages(wire) = {}

AboutTheOldest ==
  /\ \A f \in Range(frames) : f.before = candles[1].time
  /\ \A q \in Range(inbox) : q.before = candles[1].time
  /\ \A i \in Pages(wire) :
       IF wire[i].bars = << >> THEN candles[1].time = First[serving]
       ELSE wire[i].bars[1].time < candles[1].time
  /\ noMoreHistory => candles # << >> /\ candles[1].time = First[serving]

EndInv == HoleInv /\ (Quiet /\ ~ late => OneAtATime /\ AboutTheOldest)

-----------------------------------------------------------------------------
(* What is on the wire.                                                    *)

LEMMA AnswerFacts ==
  ASSUME NEW m \in Answers
  PROVE  /\ m.type \in {"snapshot", "history", "bar"}
         /\ m.type # "bar" => m.bars \in Seq(Candles)
         /\ m.type = "bar" => m.bar \in Candles /\ m.bar.time \in Nat
<1>1. m.type \in {"snapshot", "history", "bar"}
  BY DEF Answers
<1>2. m.type # "bar" => m.bars \in Seq(Candles)
  BY DEF Answers
<1>3. m.type = "bar" => m.bar \in Candles
  BY DEF Answers
<1> QED BY <1>1, <1>2, <1>3, CandleTime

(* Another answer is put behind them.                                      *)
LEMMA LiveAppendOther ==
  ASSUME NEW w \in Seq(Answers), NEW m \in Answers, m.type # "bar",
         NEW e \in Nat, NEW n \in Nat, NEW s, Live(e, w, s, n),
         NEW v, v = Append(w, m)
  PROVE  Live(e, v, s, n)
<1>1. /\ Len(w) \in Nat /\ Len(v) = Len(w) + 1 /\ v[Len(w) + 1] = m
      /\ \A i \in 1..Len(w) : v[i] = w[i] /\ i \in 1..Len(v)
  BY AppendProperties, LenProperties
<1>2. \A i \in 1..Len(v) : v[i].type = "bar" => i \in 1..Len(w) /\ v[i] = w[i]
  BY <1>1
<1> QED BY <1>1, <1>2 DEF Live

(* The store's next bar is put behind them.                                *)
LEMMA LiveAppendBar ==
  ASSUME NEW w \in Seq(Answers), NEW m \in Answers, m.type = "bar",
         NEW e \in Nat, NEW n \in Nat, NEW s, Live(e, w, s, n),
         m.bar.of = s, m.bar.time = n + 1,
         NEW v, v = Append(w, m)
  PROVE  Live(e, v, s, n + 1)
<1>1. /\ Len(w) \in Nat /\ Len(v) = Len(w) + 1 /\ v[Len(w) + 1] = m
      /\ \A i \in 1..Len(w) : v[i] = w[i] /\ i \in 1..Len(v)
  BY AppendProperties, LenProperties
<1>2. \A i \in 1..Len(v) : i \in 1..Len(w) \/ i = Len(w) + 1
  BY <1>1
<1>3. \A i \in 1..Len(w) : w[i].type = "bar" => w[i].bar.time \in Nat
  BY ElementOfSeq, AnswerFacts
<1>4. e <= n /\ e <= n + 1 /\ e < n + 1
  BY DEF Live
<1>5. ASSUME NEW i \in 1..Len(v), v[i].type = "bar"
      PROVE  v[i].bar.of = s /\ e < v[i].bar.time /\ v[i].bar.time <= n + 1
  <2>1. CASE i = Len(w) + 1
    BY <1>1, <1>4, <2>1
  <2>2. CASE i \in 1..Len(w)
    <3>1. w[i].bar.of = s /\ e < w[i].bar.time /\ w[i].bar.time <= n
      BY <1>1, <1>5, <2>2 DEF Live
    <3> QED BY <1>1, <1>3, <1>5, <2>2, <3>1
  <2> QED BY <1>2, <2>1, <2>2
<1>6. ASSUME NEW i \in 1..Len(v), NEW j \in 1..Len(v), i < j,
             v[i].type = "bar", v[j].type = "bar"
      PROVE  v[i].bar.time < v[j].bar.time
  <2>1. i \in 1..Len(w) /\ w[i] = v[i]
    BY <1>1, <1>6
  <2>2. CASE j = Len(w) + 1
    <3>1. w[i].bar.time <= n /\ w[i].bar.time \in Nat
      BY <1>3, <1>6, <2>1 DEF Live
    <3> QED BY <1>1, <2>1, <2>2, <3>1
  <2>3. CASE j \in 1..Len(w)
    BY <1>1, <1>6, <2>1, <2>3 DEF Live
  <2> QED BY <1>2, <2>2, <2>3
<1>7. ASSUME NEW t \in (e + 1)..(n + 1)
      PROVE  \E i \in 1..Len(v) : v[i].type = "bar" /\ v[i].bar.time = t
  <2>1. CASE t = n + 1
    BY <1>1, <2>1
  <2>2. CASE t # n + 1
    <3>1. t \in (e + 1)..n
      BY <1>7, <2>2
    <3>2. PICK i \in 1..Len(w) : w[i].type = "bar" /\ w[i].bar.time = t
      BY <3>1 DEF Live
    <3> QED BY <1>1, <3>2
  <2> QED BY <2>1, <2>2
<1> QED BY <1>4, <1>5, <1>6, <1>7 DEF Live

(* One that is not a bar is taken off.                                     *)
LEMMA LiveTailOther ==
  ASSUME NEW w \in Seq(Answers), w # << >>, w[1].type # "bar",
         NEW e \in Nat, NEW n \in Nat, NEW s, Live(e, w, s, n),
         NEW v, v = Tail(w)
  PROVE  Live(e, v, s, n)
<1>1. /\ Len(w) \in Nat /\ Len(v) = Len(w) - 1
      /\ \A i \in 1..Len(v) : v[i] = w[i + 1]
  BY HeadTailProperties, LenProperties, EmptySeq
<1>2. \A i \in 1..Len(v) : i + 1 \in 1..Len(w)
  BY <1>1
<1>3. \A i, j \in 1..Len(v) : i < j => i + 1 < j + 1
  BY <1>1
<1>4. \A i \in 1..Len(w) : w[i].type = "bar" => i - 1 \in 1..Len(v) /\ (i - 1) + 1 = i
  BY <1>1
<1>5. e <= n
  BY DEF Live
<1>6. \A i \in 1..Len(v) : v[i].type = "bar" =>
        v[i].bar.of = s /\ e < v[i].bar.time /\ v[i].bar.time <= n
  BY <1>1, <1>2 DEF Live
<1>7. \A i, j \in 1..Len(v) :
        i < j /\ v[i].type = "bar" /\ v[j].type = "bar" => v[i].bar.time < v[j].bar.time
  BY <1>1, <1>2, <1>3 DEF Live
<1>8. ASSUME NEW t \in (e + 1)..n
      PROVE  \E i \in 1..Len(v) : v[i].type = "bar" /\ v[i].bar.time = t
  <2>1. PICK i \in 1..Len(w) : w[i].type = "bar" /\ w[i].bar.time = t
    BY DEF Live
  <2>2. PICK j : j = i - 1
    OBVIOUS
  <2>3. j \in 1..Len(v) /\ v[j] = w[i]
    BY <1>1, <1>4, <2>1, <2>2
  <2> QED BY <2>1, <2>3
<1> QED BY <1>5, <1>6, <1>7, <1>8 DEF Live

(* The first bar that comes is the next after the cache's newest.          *)
LEMMA LiveTailBar ==
  ASSUME NEW w \in Seq(Answers), w # << >>, w[1].type = "bar",
         NEW e \in Nat, NEW n \in Nat, NEW s, Live(e, w, s, n),
         NEW v, v = Tail(w)
  PROVE  w[1].bar.time = e + 1 /\ w[1].bar.of = s /\ Live(e + 1, v, s, n)
<1>1. /\ Len(w) \in Nat \ {0} /\ Len(v) = Len(w) - 1
      /\ \A i \in 1..Len(v) : v[i] = w[i + 1]
  BY HeadTailProperties, LenProperties, EmptySeq
<1>2. \A i \in 1..Len(v) : i + 1 \in 1..Len(w) /\ 1 < i + 1
  BY <1>1
<1>3. \A i, j \in 1..Len(v) : i < j => i + 1 < j + 1
  BY <1>1
<1>4. \A i \in 1..Len(w) : w[i].type = "bar" => w[i].bar.time \in Nat
  BY ElementOfSeq, AnswerFacts
<1>5. 1 \in 1..Len(w)
  BY <1>1
<1>6. w[1].bar.of = s /\ e < w[1].bar.time /\ w[1].bar.time <= n /\ w[1].bar.time \in Nat
  BY <1>4, <1>5 DEF Live
<1>7. w[1].bar.time = e + 1
  <2>1. e + 1 \in (e + 1)..n
    BY <1>6
  <2>2. PICK i \in 1..Len(w) : w[i].type = "bar" /\ w[i].bar.time = e + 1
    BY <2>1 DEF Live
  <2>3. i = 1 \/ 1 < i
    BY <1>1
  <2>4. i = 1 \/ w[1].bar.time < w[i].bar.time
    BY <1>5, <2>2, <2>3 DEF Live
  <2> QED BY <1>6, <2>2, <2>4
<1>8. ASSUME NEW i \in 1..Len(v), v[i].type = "bar"
      PROVE  v[i].bar.of = s /\ e + 1 < v[i].bar.time /\ v[i].bar.time <= n
  <2>1. PICK j : j = i + 1
    OBVIOUS
  <2>2. j \in 1..Len(w) /\ 1 < j /\ v[i] = w[j] /\ w[j].type = "bar"
    BY <1>1, <1>2, <1>8, <2>1
  <2>3. w[j].bar.of = s /\ w[1].bar.time < w[j].bar.time /\ w[j].bar.time <= n
    BY <1>5, <2>2 DEF Live
  <2> QED BY <1>7, <2>2, <2>3
<1>9. \A i, j \in 1..Len(v) :
        i < j /\ v[i].type = "bar" /\ v[j].type = "bar" => v[i].bar.time < v[j].bar.time
  BY <1>1, <1>2, <1>3 DEF Live
<1>10. ASSUME NEW t \in (e + 1 + 1)..n
       PROVE  \E i \in 1..Len(v) : v[i].type = "bar" /\ v[i].bar.time = t
  <2>1. t \in (e + 1)..n /\ t # e + 1
    BY <1>10
  <2>2. PICK i \in 1..Len(w) : w[i].type = "bar" /\ w[i].bar.time = t
    BY <2>1 DEF Live
  <2>3. i # 1
    BY <1>7, <2>1, <2>2
  <2>4. PICK j : j = i - 1
    OBVIOUS
  <2>5. j \in 1..Len(v) /\ j + 1 = i
    BY <1>1, <2>3, <2>4
  <2>6. v[j] = w[i]
    BY <1>1, <2>5
  <2> QED BY <2>2, <2>5, <2>6
<1>11. e + 1 <= n
  BY <1>6, <1>7
<1>12. Live(e + 1, v, s, n)
  BY <1>8, <1>9, <1>10, <1>11 DEF Live
<1> QED BY <1>6, <1>7, <1>12

-----------------------------------------------------------------------------
(* What goes into the cache leaves no hole.                                *)

(* A page that ends at the cache's oldest candle, or behind it, and of     *)
(* which the older part is put before the cache.                           *)
LEMMA PrependRun ==
  ASSUME NEW s \in Symbols, NEW c \in Seq(Candles), c # << >>, Run(c, s),
         NEW p \in Seq(Candles), Run(p, s),
         p # << >> => p[Len(p)].time + 1 >= c[1].time,
         NEW n \in 0..Len(p), NEW d \in Seq(Candles), Len(d) = n + Len(c),
         \A i \in 1..n : d[i] = p[i], \A i \in 1..Len(c) : d[n + i] = c[i],
         \A i \in 1..Len(p) : i <= n <=> p[i].time < c[1].time
  PROVE  /\ d # << >> /\ Run(d, s) /\ d[Len(d)].time = c[Len(c)].time
         /\ d[1].time <= c[1].time /\ (n = 0 => d[1] = c[1])
<1>1. Len(c) \in Nat \ {0} /\ Len(p) \in Nat /\ Len(d) \in Nat \ {0} /\ n \in Nat
  BY LenProperties, EmptySeq
<1>2. /\ \A i \in 1..Len(c) : c[i].time \in Nat
      /\ \A i \in 1..Len(p) : p[i].time \in Nat
  BY ElementOfSeq, CandleTime
<1>3. /\ \A i \in 1..Len(c) : c[i].of = s /\ c[i].time >= First[s] /\ c[i].time = c[1].time + i - 1
      /\ \A i \in 1..Len(p) : p[i].of = s /\ p[i].time >= First[s] /\ p[i].time = p[1].time + i - 1
  BY DEF Run
<1>4. PICK c1, p1 : c1 = c[1].time /\ p1 = p[1].time
  OBVIOUS
<1>5. c1 \in Nat /\ (n > 0 => p1 \in Nat)
  <2>1. 1 \in 1..Len(c) /\ (n > 0 => 1 \in 1..Len(p))
    BY <1>1
  <2> QED BY <1>2, <1>4, <2>1
<1>6. n > 0 => p1 + n = c1
  <2> SUFFICES ASSUME n > 0 PROVE p1 + n = c1
    OBVIOUS
  <2>1. n \in 1..Len(p)
    BY <1>1
  <2>2. p[n].time = p1 + n - 1 /\ p[n].time < c1
    BY <1>3, <1>4, <2>1
  <2>3. CASE n = Len(p)
    <3>1. p # << >>
      BY <1>1, <2>1, EmptySeq
    <3>2. p[n].time + 1 >= c1
      BY <1>4, <2>3, <3>1
    <3>3. PICK x : x = p[n].time
      OBVIOUS
    <3>4. x = p1 + n - 1 /\ x < c1 /\ x + 1 >= c1
      BY <2>2, <2>3, <3>2, <3>3
    <3>5. p1 \in Nat /\ c1 \in Nat /\ n \in Nat
      BY <1>1, <1>5
    <3> QED BY ONLY <3>4, <3>5
  <2>4. CASE n # Len(p)
    <3>1. PICK k : k = n + 1
      OBVIOUS
    <3>2. k \in 1..Len(p) /\ ~ (k <= n)
      BY <1>1, <2>1, <2>4, <3>1
    <3>3. p[k].time = p1 + k - 1 /\ ~ (p[k].time < c1)
      BY <1>3, <1>4, <3>2
    <3> QED BY <1>1, <1>5, <2>2, <3>1, <3>3
  <2> QED BY <2>3, <2>4
<1>7. PICK d1 : d1 = IF n > 0 THEN p1 ELSE c1
  OBVIOUS
<1>8. d1 \in Nat /\ d1 + n = c1
  BY <1>1, <1>5, <1>6, <1>7
<1>9. ASSUME NEW i \in 1..Len(d)
      PROVE  d[i].of = s /\ d[i].time >= First[s] /\ d[i].time = d1 + i - 1
  <2>1. CASE i <= n
    <3>1. i \in 1..n /\ i \in 1..Len(p) /\ n > 0
      BY <1>1, <2>1
    <3> QED BY <1>3, <1>4, <1>7, <3>1
  <2>2. CASE ~ (i <= n)
    <3>1. PICK k : k = i - n
      OBVIOUS
    <3>2. k \in 1..Len(c) /\ i = n + k
      BY <1>1, <2>2, <3>1
    <3>3. d[i] = c[k] /\ c[k].time = c1 + k - 1 /\ c[k].of = s /\ c[k].time >= First[s]
      BY <1>3, <1>4, <3>2
    <3> QED BY <1>1, <1>8, <3>2, <3>3
  <2> QED BY <2>1, <2>2
<1>10. 1 \in 1..Len(d) /\ d[1].time = d1
  <2>1. 1 \in 1..Len(d)
    BY <1>1
  <2>2. d[1].time = d1 + 1 - 1
    BY <1>9, <2>1
  <2> QED BY <1>8, <2>1, <2>2
<1>11. Run(d, s)
  BY <1>9, <1>10 DEF Run
<1>12. d[Len(d)].time = c[Len(c)].time
  <2>1. Len(c) \in 1..Len(c)
    BY <1>1
  <2>2. d[n + Len(c)] = c[Len(c)]
    BY <2>1
  <2> QED BY <2>2
<1>13. d[1].time <= c[1].time
  BY <1>1, <1>4, <1>8, <1>10
<1>14. n = 0 => d[1] = c[1]
  <2>1. 1 \in 1..Len(c) /\ (n = 0 => n + 1 = 1)
    BY <1>1
  <2> QED BY <2>1
<1>15. d # << >>
  BY <1>1, EmptySeq
<1> QED BY <1>11, <1>12, <1>13, <1>14, <1>15

(* A bar of the next time.                                                 *)
LEMMA AppendRun ==
  ASSUME NEW s \in Symbols, NEW c \in Seq(Candles), c # << >>, Run(c, s),
         NEW b \in Candles, b.of = s, b.time = c[Len(c)].time + 1,
         NEW d, d = Append(c, b)
  PROVE  d # << >> /\ Run(d, s) /\ d[Len(d)] = b /\ d[1] = c[1]
<1>1. /\ Len(c) \in Nat \ {0} /\ Len(d) = Len(c) + 1 /\ d \in Seq(Candles)
      /\ d[Len(c) + 1] = b /\ \A i \in 1..Len(c) : d[i] = c[i]
  BY LenProperties, EmptySeq, AppendProperties
<1>2. 1 \in 1..Len(c) /\ Len(c) \in 1..Len(c)
  BY <1>1
<1>3. c[1].time \in Nat /\ c[Len(c)].time \in Nat /\ First[s] \in Nat
  BY <1>2, ElementOfSeq, CandleTime, ConstantFacts
<1>4. c[Len(c)].time = c[1].time + Len(c) - 1 /\ c[Len(c)].time >= First[s]
  BY <1>2 DEF Run
<1>5. d[1] = c[1] /\ d[Len(d)] = b
  BY <1>1, <1>2
<1>6. ASSUME NEW i \in 1..Len(d)
      PROVE  d[i].of = s /\ d[i].time >= First[s] /\ d[i].time = d[1].time + i - 1
  <2>1. CASE i \in 1..Len(c)
    BY <1>1, <1>5, <2>1 DEF Run
  <2>2. CASE i = Len(c) + 1
    <3>1. d[i] = b
      BY <1>1, <2>2
    <3>2. b.time >= First[s] /\ b.time = c[1].time + i - 1
      BY <1>1, <1>3, <1>4, <2>2
    <3> QED BY <1>5, <3>1, <3>2
  <2> QED BY <1>1, <2>1, <2>2
<1>7. d # << >>
  BY <1>1, EmptySeq
<1> QED BY <1>5, <1>6, <1>7 DEF Run

(* A page that fits a cache fits one that has become longer.               *)
LEMMA FitsLonger ==
  ASSUME NEW m \in Answers, NEW s, NEW c \in Nat, NEW d \in Nat, d <= c, Fits(m, s, c)
  PROVE  Fits(m, s, d)
<1>1. CASE m.type = "history" /\ m.bars # << >>
  <2>1. PICK t : t = m.bars[Len(m.bars)].time
    OBVIOUS
  <2>2. t \in Nat
    <3>1. m.bars \in Seq(Candles)
      BY <1>1, AnswerFacts
    <3>2. Len(m.bars) \in Nat \ {0}
      BY <1>1, <3>1, EmptySeq
    <3>3. m.bars[Len(m.bars)] \in Candles
      BY <3>1, <3>2, ElementOfSeq
    <3> QED BY <2>1, <3>3, CandleTime
  <2>3. t + 1 >= c
    BY <1>1, <2>1 DEF Fits
  <2>4. t + 1 >= d
    BY <2>2, <2>3
  <2> QED BY <1>1, <2>1, <2>4 DEF Fits
<1>2. CASE ~ (m.type = "history" /\ m.bars # << >>)
  BY <1>2 DEF Fits
<1> QED BY <1>1, <1>2

-----------------------------------------------------------------------------
(* Each step leaves no hole.                                               *)

LEMMA QuietFacts ==
  ASSUME HoleInv, Quiet
  PROVE  /\ OrderInv /\ TypeInv /\ NoHole
         /\ serving \in Symbols /\ newest[serving] \in Nat /\ newest[serving] >= Start
         /\ Start \in Nat /\ Edge \in Nat
         /\ candles \in Seq(Candles) /\ wire \in Seq(Answers) /\ inbox \in Seq(Questions)
         /\ Booting \/ Filled
         /\ Live(Edge, wire, serving, newest[serving])
<1>1. OrderInv /\ TypeInv /\ NoHole
  BY DEF HoleInv, OrderInv
<1>2. /\ serving \in Symbols /\ newest \in [Symbols -> Start..MaxTime]
      /\ candles \in Seq(Candles) /\ wire \in Seq(Answers) /\ inbox \in Seq(Questions)
  BY <1>1 DEF TypeInv
<1>3. Start \in Nat /\ MaxTime \in Nat
  BY TimesAssumption
<1>4. newest[serving] \in Nat /\ newest[serving] >= Start
  BY <1>2, <1>3
<1>5. Edge \in Nat
  <2>1. CASE candles = << >>
    BY <1>3, <2>1 DEF Edge
  <2>2. CASE candles # << >>
    <3>1. Len(candles) \in Nat \ {0}
      BY <1>2, <2>2, EmptySeq
    <3>2. candles[Len(candles)] \in Candles
      BY <1>2, <3>1, ElementOfSeq
    <3> QED BY <2>2, <3>2, CandleTime DEF Edge
  <2> QED BY <2>1, <2>2
<1>6. (Booting \/ Filled) /\ Live(Edge, wire, serving, newest[serving])
  BY <1>1 DEF NoHole
<1> QED BY <1>1, <1>2, <1>3, <1>4, <1>5, <1>6

LEMMA ScrollLeftHoles ==
  ASSUME HoleInv, ScrollLeft, Quiet'
  PROVE  Quiet /\ NoHole'
<1>1. PICK f : f = [before |-> candles[1].time, no |-> requests']
  OBVIOUS
<1>2. /\ candles # << >> /\ requests < MaxRequests /\ requests' = requests + 1
      /\ frames' = Append(frames, f)
      /\ candles' = candles /\ switches' = switches /\ inbox' = inbox
      /\ serving' = serving /\ newest' = newest /\ wire' = wire /\ trimmed' = trimmed
  BY <1>1 DEF ScrollLeft, history
<1>3. Quiet
  BY <1>2 DEF Quiet
<1>4. TypeInv /\ (Booting \/ Filled) /\ Live(Edge, wire, serving, newest[serving])
  BY <1>3, QuietFacts
<1>5. Filled
  BY <1>2, <1>4 DEF Booting
<1>6. frames \in Seq(Requests) /\ f \in Requests /\ f.before = candles[1].time
  <2>1. candles[1].time \in 1..MaxTime /\ requests' \in 1..MaxRequests
    BY <1>2, <1>4, QueueFacts, BoundsAssumption DEF TypeInv
  <2> QED BY <1>1, <1>4, <2>1 DEF Requests, TypeInv
<1>7. Range(frames') = Range(frames) \cup {f}
  BY <1>2, <1>6, RangeAppend
<1>8. candles[1].time >= candles[1].time
  BY <1>2, <1>4, QueueFacts, TimesAssumption
<1>9. Filled'
  BY <1>2, <1>5, <1>6, <1>7, <1>8 DEF Filled
<1>10. Edge' = Edge
  BY <1>2 DEF Edge
<1> QED BY <1>2, <1>3, <1>4, <1>9, <1>10 DEF NoHole

LEMMA AnimationFrameHoles ==
  ASSUME HoleInv, AnimationFrame, Quiet'
  PROVE  Quiet /\ NoHole'
<1>1. PICK f, q : f = Head(frames) /\ q = [type |-> "history", before |-> f.before, no |-> f.no]
  OBVIOUS
<1>2. /\ frames # << >> /\ frames' = Tail(frames) /\ inbox' = Append(inbox, q)
      /\ candles' = candles /\ switches' = switches
      /\ serving' = serving /\ newest' = newest /\ wire' = wire /\ trimmed' = trimmed
  BY <1>1 DEF AnimationFrame, engine, history
<1>3. Quiet
  BY <1>2 DEF Quiet
<1>4. TypeInv /\ (Booting \/ Filled) /\ Live(Edge, wire, serving, newest[serving])
  BY <1>3, QuietFacts
<1>5. Filled
  BY <1>2, <1>4 DEF Booting
<1>6. frames \in Seq(Requests) /\ inbox \in Seq(Questions) /\ f \in Requests
  BY <1>1, <1>2, <1>4, QueueFacts DEF TypeInv
<1>7. q \in Questions /\ q.type = "history" /\ q.before = f.before
  BY <1>1, <1>6 DEF Questions, Requests
<1>8. Range(frames) = {f} \cup Range(frames') /\ Range(inbox') = Range(inbox) \cup {q}
  BY <1>1, <1>2, <1>6, <1>7, RangeTail, RangeAppend
<1>9. Filled'
  BY <1>2, <1>5, <1>7, <1>8 DEF Filled
<1>10. Edge' = Edge
  BY <1>2 DEF Edge
<1> QED BY <1>2, <1>3, <1>4, <1>9, <1>10 DEF NoHole

LEMMA TimerFiresHoles ==
  ASSUME HoleInv, NEW no \in 1..MaxRequests, TimerFires(no), Quiet'
  PROVE  Quiet /\ NoHole'
<1>1. /\ candles' = candles /\ switches' = switches /\ frames' = frames /\ inbox' = inbox
      /\ serving' = serving /\ newest' = newest /\ wire' = wire /\ trimmed' = trimmed
  BY DEF TimerFires
<1>2. Quiet
  BY <1>1 DEF Quiet
<1>3. NoHole
  BY <1>2, QuietFacts
<1> QED BY <1>1, <1>2, <1>3 DEF NoHole, Booting, Filled, Edge

LEMMA ServeHoles ==
  ASSUME HoleInv, Serve, Quiet'
  PROVE  Quiet /\ NoHole'
<1>1. TypeInv
  BY DEF HoleInv, OrderInv
<1>2. PICK m, a : m = Head(inbox) /\ a = Answer
  OBVIOUS
<1>3. /\ inbox # << >> /\ inbox' = Tail(inbox) /\ wire' = Append(wire, a)
      /\ a \in Answers
      /\ m.type = "history" =>
           /\ a.type = "history" /\ serving' = serving /\ m.before \in 1..MaxTime
           /\ a.bars = StoreBetween(serving, From(serving, m.before - 1), m.before - 1)
      /\ candles' = candles /\ switches' = switches /\ frames' = frames
      /\ newest' = newest /\ trimmed' = trimmed
  BY <1>1, <1>2, ServeFacts DEF engine, history
<1>4. Quiet
  BY <1>3 DEF Quiet
<1>5. /\ Booting \/ Filled
      /\ Live(Edge, wire, serving, newest[serving])
      /\ serving \in Symbols /\ newest[serving] \in Nat /\ Edge \in Nat
      /\ candles \in Seq(Candles) /\ wire \in Seq(Answers) /\ inbox \in Seq(Questions)
  BY <1>4, QuietFacts
<1>6. Filled
  BY <1>3, <1>5 DEF Booting
<1>7. Range(inbox) = {m} \cup Range(inbox') /\ Range(wire') = Range(wire) \cup {a}
  BY <1>2, <1>3, <1>5, RangeTail, RangeAppend
<1>8. m.type = "history" /\ m.before >= candles[1].time
  BY <1>6, <1>7 DEF Filled
<1>9. /\ a.type = "history" /\ serving' = serving /\ m.before \in 1..MaxTime
      /\ a.bars = StoreBetween(serving, From(serving, m.before - 1), m.before - 1)
  BY <1>3, <1>8
<1>10. PICK before, bars : before = m.before /\ bars = a.bars
  OBVIOUS
<1>11. bars = StoreBetween(serving, From(serving, before - 1), before - 1) /\ before \in 1..MaxTime
  BY <1>9, <1>10
<1>12. /\ bars \in Seq(Candles) /\ Len(bars) \in Nat
       /\ \A i \in 1..Len(bars) :
            /\ bars[i].of = serving /\ bars[i].time = bars[1].time + i - 1
            /\ bars[i].time >= First[serving] /\ bars[i].time < before
       /\ Len(bars) > 0 => bars[Len(bars)].time = before - 1
  BY <1>5, <1>11, PageFacts
<1>13. Run(bars, serving)
  BY <1>12 DEF Run
<1>14. bars # << >> => bars[Len(bars)].time + 1 >= candles[1].time
  <2>1. before \in Nat /\ before >= candles[1].time
    BY <1>8, <1>10, <1>11
  <2>2. bars # << >> => bars[Len(bars)].time = before - 1
    BY <1>12, EmptySeq
  <2>3. before - 1 + 1 = before
    BY <2>1
  <2> QED BY <2>1, <2>2, <2>3
<1>15. Fits(a, serving, candles[1].time)
  BY <1>9, <1>10, <1>13, <1>14 DEF Fits
<1>16. Filled'
  BY <1>3, <1>6, <1>7, <1>9, <1>15 DEF Filled
<1>17. Live(Edge, wire', serving, newest[serving])
  <2>1. a.type # "bar"
    BY <1>9
  <2>2. PICK v, e, n : v = wire' /\ e = Edge /\ n = newest[serving]
    OBVIOUS
  <2>3. v = Append(wire, a) /\ Live(e, wire, serving, n) /\ e \in Nat /\ n \in Nat
    BY <1>3, <1>5, <2>2
  <2>4. Live(e, v, serving, n)
    BY ONLY <1>3, <1>5, <2>1, <2>3, LiveAppendOther
  <2> QED BY <2>2, <2>4
<1>18. Edge' = Edge
  BY <1>3 DEF Edge
<1> QED BY <1>3, <1>4, <1>9, <1>16, <1>17, <1>18 DEF NoHole

LEMMA PushHoles ==
  ASSUME HoleInv, Push, Quiet'
  PROVE  Quiet /\ NoHole'
<1>1. PICK n, b, m : /\ n = newest[serving]
                     /\ b = [of |-> serving, time |-> newest'[serving]]
                     /\ m = [type |-> "bar", bar |-> b]
  OBVIOUS
<1>2. /\ n < MaxTime /\ newest' = [newest EXCEPT ![serving] = @ + 1]
      /\ wire' = Append(wire, m)
      /\ candles' = candles /\ switches' = switches /\ frames' = frames /\ inbox' = inbox
      /\ serving' = serving /\ trimmed' = trimmed
  BY <1>1 DEF Push, engine, history
<1>3. Quiet
  BY <1>2 DEF Quiet
<1>4. /\ TypeInv
      /\ Booting \/ Filled
      /\ Live(Edge, wire, serving, n)
      /\ serving \in Symbols /\ n \in Nat /\ Edge \in Nat /\ wire \in Seq(Answers)
  BY <1>1, <1>3, QuietFacts
<1>5. newest'[serving] = n + 1
  BY <1>1, <1>2, <1>4 DEF TypeInv
<1>6. /\ m \in Answers /\ m.type = "bar" /\ m.bar.of = serving /\ m.bar.time = n + 1
  <2>1. n + 1 \in 1..MaxTime
    BY <1>2, <1>4, TimesAssumption
  <2> QED BY <1>1, <1>4, <1>5, <2>1 DEF Answers, Candles
<1>7. /\ Len(wire) \in Nat /\ Len(wire') = Len(wire) + 1 /\ wire'[Len(wire) + 1] = m
      /\ \A i \in 1..Len(wire) : wire'[i] = wire[i]
      /\ Range(wire') = Range(wire) \cup {m}
  BY <1>2, <1>4, <1>6, AppendProperties, LenProperties, RangeAppend
<1>8. ASSUME Booting PROVE Booting'
  <2>1. Len(wire) \in Nat \ {0}
    BY <1>4, <1>8, EmptySeq DEF Booting
  <2>2. wire'[1] = wire[1] /\ wire' # << >>
    <3>1. Len(wire') # 0 /\ 1 \in 1..Len(wire)
      BY <1>7, <2>1
    <3> QED BY <1>7, <3>1, EmptySeq
  <2>3. \A i \in 2..Len(wire') : wire'[i].type = "bar"
    <3>1. \A i \in 2..Len(wire') : (i \in 1..Len(wire) /\ i \in 2..Len(wire)) \/ i = Len(wire) + 1
      BY <1>7, <2>1
    <3> QED BY <1>6, <1>7, <1>8, <3>1 DEF Booting
  <2> QED BY <1>2, <1>8, <2>2, <2>3 DEF Booting
<1>9. ASSUME Filled PROVE Filled'
  <2>1. Fits(m, serving, candles[1].time)
    BY <1>6 DEF Fits
  <2> QED BY <1>2, <1>7, <1>9, <2>1 DEF Filled
<1>10. Live(Edge, wire', serving, newest'[serving])
  <2>1. PICK v, e : v = wire' /\ e = Edge
    OBVIOUS
  <2>2. v = Append(wire, m) /\ Live(e, wire, serving, n) /\ e \in Nat /\ n \in Nat
    BY <1>2, <1>4, <2>1
  <2>3. Live(e, v, serving, n + 1)
    BY ONLY <1>4, <1>6, <2>2, LiveAppendBar
  <2> QED BY <1>5, <2>1, <2>3
<1>11. Edge' = Edge
  BY <1>2 DEF Edge
<1> QED BY <1>2, <1>3, <1>4, <1>8, <1>9, <1>10, <1>11 DEF NoHole

(* The first snapshot fills the cache.                                     *)
LEMMA SnapshotHoles ==
  ASSUME HoleInv, Receive, Quiet, wire[1].type = "snapshot"
  PROVE  NoHole'
<1>1. /\ TypeInv
      /\ Booting \/ Filled
      /\ Live(Edge, wire, serving, newest[serving])
      /\ serving \in Symbols /\ newest[serving] \in Nat /\ Edge \in Nat /\ Start \in Nat
      /\ wire \in Seq(Answers)
  BY QuietFacts
<1>2. PICK m, bars : m = Head(wire) /\ bars = m.bars
  OBVIOUS
<1>3. /\ wire # << >> /\ wire' = Tail(wire) /\ m \in Answers /\ Range(wire) = {m} \cup Range(wire')
      /\ m.type = "snapshot" => bars \in Seq(Candles) /\ SetCandles(bars)
      /\ frames' = frames /\ inbox' = inbox /\ serving' = serving /\ newest' = newest
  BY <1>1, <1>2, ReceiveFacts
<1>4. /\ Len(wire) \in Nat \ {0} /\ Len(wire') = Len(wire) - 1 /\ m = wire[1]
      /\ \A i \in 1..Len(wire') : wire'[i] = wire[i + 1]
      /\ DOMAIN wire' = 1..Len(wire')
  <2>1. PICK v : v = wire'
    OBVIOUS
  <2>2. v = Tail(wire) /\ v \in Seq(Answers)
    BY <1>1, <1>2, <1>3, <2>1, HeadTailProperties
  <2> QED BY <1>1, <1>2, <1>3, <2>1, <2>2, HeadTailProperties, LenProperties, EmptySeq
<1>5. m.type = "snapshot" /\ candles' = bars /\ bars \in Seq(Candles)
  BY <1>3, <1>4 DEF SetCandles
<1>6. Booting
  <2>1. m \in Range(wire)
    BY <1>3
  <2> QED BY <1>1, <1>5, <2>1 DEF Filled, Fits
<1>7. /\ candles = << >> /\ frames = << >> /\ inbox = << >>
      /\ \A i \in 2..Len(wire) : wire[i].type = "bar"
      /\ bars # << >> /\ Run(bars, serving) /\ bars[Len(bars)].time = Start
  BY <1>2, <1>4, <1>6 DEF Booting
<1>8. \A x \in Range(wire') : Fits(x, serving, bars[1].time)
  <2>1. \A i \in 1..Len(wire') : i + 1 \in 2..Len(wire)
    BY <1>4
  <2>2. \A i \in 1..Len(wire') : wire'[i].type = "bar"
    BY <1>4, <1>7, <2>1
  <2>3. \A x \in Range(wire') : x.type = "bar"
    BY <1>4, <2>2 DEF Range
  <2> QED BY <2>3 DEF Fits
<1>9. Range(frames') = {} /\ Range(inbox') = {}
  BY <1>3, <1>7 DEF Range
<1>10. Filled'
  BY <1>3, <1>5, <1>7, <1>8, <1>9 DEF Filled
<1>11. Edge = Start /\ Edge' = Start
  BY <1>5, <1>7 DEF Edge
<1>12. Live(Start, wire', serving, newest[serving])
  <2>1. PICK v, n : v = wire' /\ n = newest[serving]
    OBVIOUS
  <2>2. /\ v = Tail(wire) /\ Live(Start, wire, serving, n) /\ n \in Nat
        /\ wire # << >> /\ wire[1].type # "bar"
    BY <1>1, <1>3, <1>4, <1>5, <1>11, <2>1
  <2>3. Live(Start, v, serving, n)
    BY ONLY <1>1, <2>2, LiveTailOther
  <2> QED BY <2>1, <2>3
<1> QED BY <1>3, <1>10, <1>11, <1>12 DEF NoHole

(* A page is put before it.                                                *)
LEMMA HistoryHoles ==
  ASSUME HoleInv, Receive, Quiet, wire[1].type = "history"
  PROVE  /\ NoHole' /\ Filled /\ candles' # << >>
         /\ wire[1].bars = << >> => candles'[1] = candles[1]
         /\ wire[1].bars # << >> /\ wire[1].bars[1].time < candles[1].time =>
              (noMoreHistory' => noMoreHistory) /\ wire[1].bars[1].time >= First[serving]
<1>1. /\ TypeInv /\ Ordered(candles)
      /\ \A x \in Range(wire) : x.type # "bar" => Ordered(x.bars)
      /\ Booting \/ Filled
      /\ Live(Edge, wire, serving, newest[serving])
      /\ serving \in Symbols /\ newest[serving] \in Nat /\ Edge \in Nat
      /\ wire \in Seq(Answers) /\ candles \in Seq(Candles)
  BY QuietFacts DEF OrderInv
<1>2. PICK m, page : m = Head(wire) /\ page = m.bars
  OBVIOUS
<1>3. /\ wire # << >> /\ wire' = Tail(wire) /\ m \in Answers /\ Range(wire) = {m} \cup Range(wire')
      /\ m.type = "history" => page \in Seq(Candles) /\ PrependHistory(page)
      /\ frames' = frames /\ inbox' = inbox /\ serving' = serving /\ newest' = newest
  BY <1>1, <1>2, ReceiveFacts
<1>4. m = wire[1] /\ m.type = "history" /\ page = wire[1].bars
  BY <1>1, <1>2, <1>3, HeadTailProperties
<1>5. Filled
  <2>1. ~ Booting
    BY <1>4 DEF Booting
  <2> QED BY <1>1, <2>1
<1>6. page \in Seq(Candles) /\ PrependHistory(page) /\ Ordered(page)
  BY <1>1, <1>3, <1>4
<1>7. PICK n \in 0..Len(page) :
        /\ candles' \in Seq(Candles)
        /\ Len(candles') = n + Len(candles)
        /\ \A i \in 1..n : candles'[i] = page[i]
        /\ \A i \in 1..Len(candles) : candles'[n + i] = candles[i]
        /\ \A i \in 1..Len(page) :
             i <= n <=> (candles = << >> \/ page[i].time < candles[1].time)
        /\ noMoreHistory' = (noMoreHistory \/ n = 0)
  BY <1>1, <1>6, PrependFacts
<1>8. /\ candles # << >> /\ Run(candles, serving)
      /\ Run(page, serving)
      /\ page # << >> => page[Len(page)].time + 1 >= candles[1].time
  BY <1>3, <1>4, <1>5 DEF Filled, Fits
<1>9. PICK c, d : c = candles /\ d = candles'
  OBVIOUS
<1>10. /\ c \in Seq(Candles) /\ c # << >> /\ Run(c, serving)
       /\ d \in Seq(Candles) /\ Len(d) = n + Len(c)
       /\ Run(page, serving) /\ (page # << >> => page[Len(page)].time + 1 >= c[1].time)
       /\ \A i \in 1..n : d[i] = page[i]
       /\ \A i \in 1..Len(c) : d[n + i] = c[i]
       /\ \A i \in 1..Len(page) : i <= n <=> page[i].time < c[1].time
  BY <1>1, <1>7, <1>8, <1>9
<1>11. /\ d # << >> /\ Run(d, serving) /\ d[Len(d)].time = c[Len(c)].time
       /\ d[1].time <= c[1].time /\ (n = 0 => d[1] = c[1])
  <2>1. PICK s : s = serving
    OBVIOUS
  <2>2. s \in Symbols /\ page \in Seq(Candles) /\ n \in 0..Len(page)
    BY <1>1, <1>6, <2>1
  <2>3. /\ c \in Seq(Candles) /\ c # << >> /\ Run(c, s)
        /\ d \in Seq(Candles) /\ Len(d) = n + Len(c)
        /\ Run(page, s) /\ (page # << >> => page[Len(page)].time + 1 >= c[1].time)
        /\ \A i \in 1..n : d[i] = page[i]
        /\ \A i \in 1..Len(c) : d[n + i] = c[i]
        /\ \A i \in 1..Len(page) : i <= n <=> page[i].time < c[1].time
    BY <1>10, <2>1
  <2>4. /\ d # << >> /\ Run(d, s) /\ d[Len(d)].time = c[Len(c)].time
        /\ d[1].time <= c[1].time /\ (n = 0 => d[1] = c[1])
    <3>1. d # << >>
      BY ONLY <2>2, <2>3, PrependRun
    <3>2. Run(d, s)
      BY ONLY <2>2, <2>3, PrependRun
    <3>3. d[Len(d)].time = c[Len(c)].time
      BY ONLY <2>2, <2>3, PrependRun
    <3>4. n = 0 => d[1] = c[1]
      BY ONLY <2>2, <2>3, PrependRun
    <3>5. d[1].time <= c[1].time
      <4>1. c[1] \in Candles /\ c[1].time \in Nat
        <5>1. Len(c) \in Nat \ {0}
          BY <2>3, EmptySeq
        <5> QED BY <2>3, <5>1, ElementOfSeq, CandleTime
      <4>2. n # 0 => 1 \in 1..n /\ 1 \in 1..Len(page) /\ 1 <= n
        BY <2>2, LenProperties
      <4>3. n # 0 => d[1] = page[1] /\ page[1].time < c[1].time
        BY <2>3, <4>2
      <4>4. n # 0 => page[1] \in Candles /\ page[1].time \in Nat
        BY <2>2, <4>2, ElementOfSeq, CandleTime
      <4> QED BY <3>4, <4>1, <4>3, <4>4
    <3> QED BY <3>1, <3>2, <3>3, <3>4, <3>5
  <2> QED BY <2>1, <2>4
<1>12. c[1].time \in Nat /\ d[1].time \in Nat
  <2>1. Len(c) \in Nat \ {0} /\ Len(d) \in Nat \ {0}
    BY <1>10, <1>11, EmptySeq
  <2>2. c[1] \in Candles /\ d[1] \in Candles
    BY <1>10, <2>1, ElementOfSeq
  <2> QED BY <2>2, CandleTime
<1>13. \A x \in Range(wire') : Fits(x, serving, d[1].time)
  <2> TAKE x \in Range(wire')
  <2>1. x \in Range(wire)
    BY <1>3
  <2>2. x \in Answers /\ Fits(x, serving, c[1].time)
    BY <1>1, <1>5, <1>9, <2>1, QueueFacts DEF Filled
  <2> QED BY <1>11, <1>12, <2>2, FitsLonger
<1>14. \A f \in Range(frames) : f.before >= d[1].time
  <2> TAKE f \in Range(frames)
  <2>1. f.before >= c[1].time
    BY <1>5, <1>9 DEF Filled
  <2>2. f.before \in Nat
    <3>1. frames \in Seq(Requests) /\ DOMAIN frames = 1..Len(frames)
      BY <1>1, LenProperties DEF TypeInv
    <3>2. f \in Requests
      BY <3>1, ElementOfSeq DEF Range
    <3> QED BY <3>2, TimesAssumption DEF Requests
  <2> QED BY <1>11, <1>12, <2>1, <2>2
<1>15. \A q \in Range(inbox) : q.type = "history" /\ q.before >= d[1].time
  <2> TAKE q \in Range(inbox)
  <2>1. q.type = "history" /\ q.before >= c[1].time
    BY <1>5, <1>9 DEF Filled
  <2>2. q.before \in Nat
    <3>1. inbox \in Seq(Questions) /\ DOMAIN inbox = 1..Len(inbox)
      BY <1>1, LenProperties DEF TypeInv
    <3>2. q \in Questions
      BY <3>1, ElementOfSeq DEF Range
    <3> QED BY <2>1, <3>2, TimesAssumption DEF Questions
  <2> QED BY <1>11, <1>12, <2>1, <2>2
<1>16. Filled'
  BY <1>3, <1>9, <1>11, <1>13, <1>14, <1>15 DEF Filled
<1>17. Edge' = Edge
  BY <1>9, <1>10, <1>11 DEF Edge
<1>18. Live(Edge, wire', serving, newest[serving])
  <2>1. PICK v, e, k : v = wire' /\ e = Edge /\ k = newest[serving]
    OBVIOUS
  <2>2. /\ v = Tail(wire) /\ Live(e, wire, serving, k) /\ k \in Nat /\ e \in Nat
        /\ wire # << >> /\ wire[1].type # "bar"
    BY <1>1, <1>3, <1>4, <2>1
  <2>3. Live(e, v, serving, k)
    BY ONLY <1>1, <2>2, LiveTailOther
  <2> QED BY <2>1, <2>3
<1>19. NoHole'
  BY <1>3, <1>16, <1>17, <1>18 DEF NoHole
<1>20. page = << >> => d[1] = c[1]
  BY <1>11, EmptySeq
<1>21. ASSUME page # << >>, page[1].time < c[1].time
       PROVE  (noMoreHistory' => noMoreHistory) /\ page[1].time >= First[serving]
  <2>1. Len(page) \in Nat \ {0}
    BY <1>6, <1>21, EmptySeq
  <2>2. 1 \in 1..Len(page)
    BY <2>1
  <2>3. 1 <= n
    BY <1>10, <1>21, <2>2
  <2>4. n # 0
    BY <2>3
  <2>5. noMoreHistory' => noMoreHistory
    BY <1>7, <2>4
  <2>6. page[1].time >= First[serving]
    BY <1>10, <2>2 DEF Run
  <2> QED BY <2>5, <2>6
<1> QED BY <1>4, <1>5, <1>9, <1>11, <1>19, <1>20, <1>21

(* A bar is put behind it.                                                 *)
LEMMA BarHoles ==
  ASSUME HoleInv, Receive, Quiet, ~ trimmed', wire[1].type = "bar"
  PROVE  NoHole' /\ Filled /\ candles'[1] = candles[1] /\ candles' # << >>
<1>1. /\ TypeInv /\ Ordered(candles)
      /\ Booting \/ Filled
      /\ Live(Edge, wire, serving, newest[serving])
      /\ serving \in Symbols /\ newest[serving] \in Nat /\ Edge \in Nat
      /\ wire \in Seq(Answers) /\ candles \in Seq(Candles)
  BY QuietFacts DEF OrderInv
<1>2. PICK m, b : m = Head(wire) /\ b = m.bar
  OBVIOUS
<1>3. /\ wire # << >> /\ wire' = Tail(wire) /\ m \in Answers /\ Range(wire) = {m} \cup Range(wire')
      /\ m.type = "bar" => b \in Candles /\ Applies(b)
      /\ frames' = frames /\ inbox' = inbox /\ serving' = serving /\ newest' = newest
  BY <1>1, <1>2, ReceiveFacts
<1>4. m = wire[1] /\ m.type = "bar" /\ b = wire[1].bar
  BY <1>1, <1>2, <1>3, HeadTailProperties
<1>5. Filled
  <2>1. ~ Booting
    BY <1>4 DEF Booting
  <2> QED BY <1>1, <2>1
<1>6. candles # << >> /\ Run(candles, serving) /\ Edge = candles[Len(candles)].time
  BY <1>5 DEF Filled, Edge
<1>7. PICK v, e, k : v = wire' /\ e = Edge /\ k = newest[serving]
  OBVIOUS
<1>8. b.time = e + 1 /\ b.of = serving /\ Live(e + 1, v, serving, k)
  <2>1. /\ v = Tail(wire) /\ Live(e, wire, serving, k) /\ k \in Nat /\ e \in Nat
        /\ wire # << >> /\ wire[1].type = "bar"
    BY <1>1, <1>3, <1>4, <1>7
  <2>2. wire[1].bar.time = e + 1 /\ wire[1].bar.of = serving /\ Live(e + 1, v, serving, k)
    BY ONLY <1>1, <2>1, LiveTailBar
  <2> QED BY <1>4, <2>2
<1>9. candles' = Append(candles, b)
  <2>1. b \in Candles /\ Applies(b)
    BY <1>3, <1>4
  <2>2. b.time > candles[Len(candles)].time
    BY <1>1, <1>6, <1>7, <1>8
  <2> QED BY <1>1, <2>1, <2>2, ApplyBarFacts
<1>10. PICK c, d : c = candles /\ d = candles'
  OBVIOUS
<1>11. d # << >> /\ Run(d, serving) /\ d[Len(d)] = b /\ d[1] = c[1]
  <2>1. PICK s : s = serving
    OBVIOUS
  <2>2. /\ c \in Seq(Candles) /\ c # << >> /\ Run(c, s) /\ b \in Candles /\ s \in Symbols
        /\ b.of = s /\ b.time = c[Len(c)].time + 1 /\ d = Append(c, b)
    BY <1>1, <1>3, <1>4, <1>6, <1>7, <1>8, <1>9, <1>10, <2>1
  <2>3. d # << >> /\ Run(d, s) /\ d[Len(d)] = b /\ d[1] = c[1]
    <3>1. d # << >>
      BY ONLY <2>2, AppendRun
    <3>2. Run(d, s)
      BY ONLY <2>2, AppendRun
    <3>3. d[Len(d)] = b
      BY ONLY <2>2, AppendRun
    <3>4. d[1] = c[1]
      BY ONLY <2>2, AppendRun
    <3> QED BY <3>1, <3>2, <3>3, <3>4
  <2> QED BY <2>1, <2>3
<1>12. \A x \in Range(wire') : x \in Range(wire)
  BY <1>3
<1>13. Filled'
  BY <1>3, <1>5, <1>10, <1>11, <1>12 DEF Filled
<1>14. Edge' = e + 1
  BY <1>8, <1>10, <1>11 DEF Edge
<1>15. NoHole'
  BY <1>3, <1>7, <1>8, <1>13, <1>14 DEF NoHole
<1> QED BY <1>5, <1>10, <1>11, <1>15

LEMMA ReceiveHoles ==
  ASSUME HoleInv, Receive, Quiet'
  PROVE  Quiet /\ NoHole'
<1>1. TypeInv
  BY DEF HoleInv, OrderInv
<1>2. PICK m : m = Head(wire)
  OBVIOUS
<1>3. /\ wire # << >> /\ wire \in Seq(Answers)
      /\ \/ m.type = "snapshot" /\ m.bars \in Seq(Candles) /\ SetCandles(m.bars)
         \/ m.type = "history" /\ m.bars \in Seq(Candles) /\ PrependHistory(m.bars)
         \/ m.type = "bar" /\ m.bar \in Candles /\ Applies(m.bar)
      /\ switches' = switches
  BY <1>1, <1>2, ReceiveFacts DEF TypeInv
<1>4. m = wire[1]
  BY <1>2, <1>3, HeadTailProperties
<1>5. ~ trimmed' /\ switches = 0
  BY <1>3 DEF Quiet
<1>6. ~ trimmed
  <2>1. CASE m.type = "snapshot" /\ SetCandles(m.bars)
    BY <1>5, <2>1 DEF SetCandles
  <2>2. CASE m.type = "history" /\ PrependHistory(m.bars)
    BY <1>5, <2>2 DEF PrependHistory
  <2>3. CASE m.type = "bar" /\ Applies(m.bar)
    BY <1>5, <2>3 DEF Applies, ApplyBar
  <2> QED BY <1>3, <2>1, <2>2, <2>3
<1>7. Quiet
  BY <1>5, <1>6 DEF Quiet
<1>8. wire[1].type \in {"snapshot", "history", "bar"}
  BY <1>3, <1>4
<1>9. NoHole'
  <2>1. CASE wire[1].type = "snapshot"
    BY <1>7, <2>1, SnapshotHoles
  <2>2. CASE wire[1].type = "history"
    BY <1>7, <2>2, HistoryHoles
  <2>3. CASE wire[1].type = "bar"
    BY <1>5, <1>7, <2>3, BarHoles
  <2> QED BY <1>8, <2>1, <2>2, <2>3
<1> QED BY <1>7, <1>9

LEMMA InitHoles == Init => NoHole
<1> SUFFICES ASSUME Init PROVE NoHole
  OBVIOUS
<1>1. /\ serving \in Symbols /\ newest[serving] = Start
      /\ candles = << >> /\ frames = << >> /\ inbox = << >> /\ wire = <<Snapshot(serving)>>
  BY DEF Init
<1>2. First[serving] \in Nat \ {0} /\ First[serving] <= Start /\ Start \in Nat \ {0}
      /\ MaxTime \in Nat /\ Start <= MaxTime
  BY <1>1, ConstantFacts
<1>3. PICK from, bars : from = From(serving, Start) /\ bars = StoreBetween(serving, from, Start)
  OBVIOUS
<1>4. from \in Nat \ {0} /\ from >= First[serving] /\ from <= Start
  <2>1. Start \in Nat
    BY <1>2
  <2> QED BY <1>1, <1>2, <1>3, <2>1, FromFacts
<1>5. /\ bars \in Seq(Candles) /\ Len(bars) = Start - from + 1
      /\ \A i \in 1..Len(bars) : bars[i].time = from + i - 1 /\ bars[i].of = serving
  <2>1. PICK s, to : s = serving /\ to = Start
    OBVIOUS
  <2>2. /\ s \in Symbols /\ to \in 0..MaxTime /\ from \in Nat \ {0}
        /\ bars = StoreBetween(s, from, to)
    BY <1>1, <1>2, <1>3, <1>4, <2>1
  <2>3. bars \in Seq(Candles)
    BY ONLY <2>2, StoreBetweenFacts
  <2>4. Len(bars) = IF from > to THEN 0 ELSE to - from + 1
    BY ONLY <2>2, StoreBetweenFacts
  <2>5. ASSUME NEW i \in 1..Len(bars)
        PROVE  bars[i].time = from + i - 1 /\ bars[i].of = s
    BY ONLY <2>2, <2>5, StoreBetweenAt
  <2>6. Len(bars) = Start - from + 1
    BY <1>2, <1>4, <2>1, <2>4
  <2> QED BY <2>1, <2>3, <2>5, <2>6
<1>6. Len(bars) \in Nat /\ Len(bars) > 0 /\ 1 \in 1..Len(bars) /\ Len(bars) \in 1..Len(bars)
  BY <1>2, <1>4, <1>5
<1>7. bars # << >> /\ bars[Len(bars)].time = Start /\ bars[1].time = from
  <2>1. from + Len(bars) - 1 = Start /\ from + 1 - 1 = from /\ Len(bars) # 0
    BY <1>2, <1>4, <1>5
  <2> QED BY <1>5, <1>6, <2>1, EmptySeq
<1>8. Run(bars, serving)
  <2>1. \A i \in 1..Len(bars) : from + i - 1 >= First[serving]
    BY <1>2, <1>4
  <2> QED BY <1>5, <1>7, <2>1 DEF Run
<1>9. wire[1].type = "snapshot" /\ wire[1].bars = bars /\ Len(wire) = 1 /\ wire # << >>
  BY <1>1, <1>3 DEF Snapshot
<1>10. Booting
  BY <1>1, <1>7, <1>8, <1>9 DEF Booting
<1>11. Edge = Start
  BY <1>1 DEF Edge
<1>12. Live(Start, wire, serving, Start)
  <2>1. /\ \A i \in 1..Len(wire) : i = 1 /\ wire[i].type # "bar"
        /\ Start <= Start /\ (Start + 1)..Start = {}
    BY <1>2, <1>9
  <2> QED BY <2>1 DEF Live
<1> QED BY <1>1, <1>10, <1>11, <1>12 DEF NoHole

LEMMA NextHoles == HoleInv /\ [Next]_vars => HoleInv'
<1> SUFFICES ASSUME HoleInv, [Next]_vars PROVE HoleInv'
  OBVIOUS
<1>1. OrderInv'
  BY NextOrder DEF HoleInv
<1>2. ASSUME Quiet' PROVE NoHole'
  <2>1. CASE ScrollLeft \/ AnimationFrame \/ Serve \/ Push \/ Receive
    BY <1>2, <2>1, ScrollLeftHoles, AnimationFrameHoles, ServeHoles, PushHoles, ReceiveHoles
  <2>2. ASSUME NEW s \in Symbols, Switch(s) PROVE NoHole'
    <3>1. switches' = switches + 1 /\ switches \in Nat
      BY <2>2, BoundsAssumption DEF Switch, HoleInv, OrderInv, TypeInv
    <3>2. switches' # 0
      BY <3>1
    <3> QED BY <1>2, <3>2 DEF Quiet
  <2>3. ASSUME NEW no \in 1..MaxRequests, TimerFires(no) PROVE NoHole'
    BY <1>2, <2>3, TimerFiresHoles
  <2>4. CASE UNCHANGED vars
    <3>1. Quiet
      BY <1>2, <2>4 DEF Quiet, vars, history
    <3>2. NoHole
      BY <3>1, QuietFacts
    <3> QED BY <2>4, <3>2 DEF NoHole, Booting, Filled, Edge, vars, engine
  <2> QED BY <2>1, <2>2, <2>3, <2>4 DEF Next
<1> QED BY <1>1, <1>2 DEF HoleInv

(* Without a new snapshot and a trim, the cache is a stretch of the store, *)
(* and the pages and bars on their way fit it.                             *)
THEOREM SpecHoleInv == Spec => []HoleInv
<1>1. Init => HoleInv
  BY InitOrder, InitHoles DEF HoleInv
<1> QED BY <1>1, NextHoles, PTL DEF Spec

(* Without a new snapshot in between and short of the cache's limit, pages *)
(* that come late or twice, and live bars between them, leave no hole.     *)
THEOREM SpecContiguous == Spec => []Contiguous
<1>1. HoleInv => Contiguous
  <2> SUFFICES ASSUME HoleInv, switches = 0, ~ trimmed, NEW i \in 1..(Len(candles) - 1)
               PROVE  candles[i + 1].time = candles[i].time + 1
    BY DEF Contiguous
  <2>1. Quiet
    BY DEF Quiet
  <2>2. candles \in Seq(Candles) /\ (Booting \/ Filled)
    BY <2>1, QuietFacts
  <2>3. Len(candles) \in Nat
    BY <2>2, LenProperties
  <2>4. i \in 1..Len(candles) /\ i + 1 \in 1..Len(candles) /\ 1 \in 1..Len(candles)
    BY <2>3
  <2>5. candles # << >>
    BY <2>3, <2>4, EmptySeq
  <2>6. Run(candles, serving)
    BY <2>2, <2>5 DEF Booting, Filled
  <2>7. PICK c1, x, y : c1 = candles[1].time /\ x = candles[i].time /\ y = candles[i + 1].time
    OBVIOUS
  <2>8. x = c1 + i - 1 /\ y = c1 + (i + 1) - 1
    BY <2>4, <2>6, <2>7 DEF Run
  <2>9. c1 \in Nat /\ i \in Nat
    BY <2>2, <2>4, <2>7, ElementOfSeq, CandleTime
  <2>10. y = x + 1
    BY ONLY <2>8, <2>9
  <2> QED BY <2>7, <2>10
<1> QED BY <1>1, SpecHoleInv, PTL

-----------------------------------------------------------------------------
(* The end of history.                                                     *)

LEMMA EndFacts ==
  ASSUME EndInv, Quiet, ~ late
  PROVE  /\ HoleInv /\ OrderInv /\ TypeInv
         /\ OneAtATime /\ AboutTheOldest
         /\ candles \in Seq(Candles) /\ wire \in Seq(Answers) /\ inbox \in Seq(Questions)
         /\ frames \in Seq(Requests) /\ serving \in Symbols
BY DEF EndInv, HoleInv, OrderInv, TypeInv

(* Nothing is on its way.                                                  *)
LEMMA NothingAsked ==
  ASSUME NEW w \in Seq(Answers), Pages(w) = {}, NEW fs, fs = << >>, NEW qs, qs = << >>
  PROVE  Asked(Range(fs), Range(qs), Range(w)) = {}
<1>1. Range(fs) = {} /\ Range(qs) = {}
  BY DEF Range
<1>2. DOMAIN w = 1..Len(w)
  BY LenProperties
<1>3. {x \in Range(w) : x.type = "history"} = {}
  BY <1>2 DEF Range, Pages
<1> QED BY <1>1, <1>3 DEF Asked

LEMMA PagesAppend ==
  ASSUME NEW w \in Seq(Answers), NEW m \in Answers, NEW v, v = Append(w, m), NEW i \in Pages(v)
  PROVE  \/ i \in Pages(w) /\ v[i] = w[i]
         \/ i = Len(w) + 1 /\ v[i] = m /\ m.type = "history"
<1>1. /\ Len(w) \in Nat /\ Len(v) = Len(w) + 1 /\ v[Len(w) + 1] = m
      /\ \A j \in 1..Len(w) : v[j] = w[j]
  BY AppendProperties, LenProperties
<1>2. i \in 1..Len(v) /\ v[i].type = "history"
  BY DEF Pages
<1>3. i \in 1..Len(w) \/ i = Len(w) + 1
  BY <1>1, <1>2
<1> QED BY <1>1, <1>2, <1>3 DEF Pages

LEMMA PagesTail ==
  ASSUME NEW w \in Seq(Answers), w # << >>, NEW v, v = Tail(w), NEW i \in Pages(v)
  PROVE  i \in Nat \ {0} /\ i + 1 \in Pages(w) /\ v[i] = w[i + 1]
<1>1. /\ Len(w) \in Nat \ {0} /\ Len(v) = Len(w) - 1
      /\ \A j \in 1..Len(v) : v[j] = w[j + 1]
  BY HeadTailProperties, LenProperties, EmptySeq
<1>2. i \in 1..Len(v) /\ v[i].type = "history"
  BY DEF Pages
<1>3. i \in Nat \ {0} /\ i + 1 \in 1..Len(w)
  BY <1>1, <1>2
<1> QED BY <1>1, <1>2, <1>3 DEF Pages

LEMMA ScrollLeftEnds ==
  ASSUME EndInv, ScrollLeft, Quiet, ~ late
  PROVE  OneAtATime' /\ AboutTheOldest'
<1>1. PICK f : f = [before |-> candles[1].time, no |-> requests']
  OBVIOUS
<1>2. /\ ~ historyPending /\ ~ noMoreHistory /\ candles # << >>
      /\ requests < MaxRequests /\ requests' = requests + 1
      /\ historyPending' = TRUE
      /\ frames' = Append(frames, f)
      /\ timers' = timers \cup {requests'} /\ historyTimeout' = requests'
      /\ candles' = candles /\ noMoreHistory' = noMoreHistory /\ inbox' = inbox
      /\ serving' = serving /\ wire' = wire
  BY <1>1 DEF ScrollLeft
<1>3. /\ HoleInv /\ OrderInv /\ TypeInv /\ OneAtATime /\ AboutTheOldest
      /\ wire \in Seq(Answers) /\ frames \in Seq(Requests)
  BY EndFacts
<1>4. frames = << >> /\ inbox = << >> /\ Pages(wire) = {} /\ timers \subseteq Outstanding
  BY <1>2, <1>3 DEF OneAtATime
<1>5. Outstanding = {}
  BY <1>3, <1>4, OutstandingIsAsked, NothingAsked
<1>6. Outstanding' = {requests'} /\ timers' \subseteq {requests'}
  BY <1>2, <1>3, <1>4, <1>5, ScrollLeftOrder
<1>7. f.before = candles[1].time /\ f \in Requests
  <2>1. candles[1].time \in 1..MaxTime /\ requests' \in 1..MaxRequests
    BY <1>2, <1>3, QueueFacts, BoundsAssumption DEF TypeInv
  <2> QED BY <1>1, <2>1 DEF Requests
<1>8. Len(frames') = 1 /\ Range(frames') = {f}
  <2>1. Len(frames) = 0 /\ Range(frames) = {}
    BY <1>4 DEF Range
  <2>2. Len(frames') = Len(frames) + 1 /\ Range(frames') = Range(frames) \cup {f}
    BY <1>2, <1>3, <1>7, AppendProperties, RangeAppend
  <2> QED BY <2>1, <2>2
<1>9. OneAtATime'
  <2>1. Len(inbox) <= 1 /\ (\A i, j \in Pages(wire) : i = j)
    BY <1>3 DEF OneAtATime
  <2> QED BY <1>2, <1>4, <1>6, <1>8, <2>1 DEF OneAtATime
<1>10. AboutTheOldest'
  BY <1>2, <1>3, <1>7, <1>8 DEF AboutTheOldest
<1> QED BY <1>9, <1>10

LEMMA AnimationFrameEnds ==
  ASSUME EndInv, AnimationFrame, Quiet, ~ late
  PROVE  OneAtATime' /\ AboutTheOldest'
<1>1. PICK f, q : f = Head(frames) /\ q = [type |-> "history", before |-> f.before, no |-> f.no]
  OBVIOUS
<1>2. /\ frames # << >> /\ frames' = Tail(frames) /\ inbox' = Append(inbox, q)
      /\ candles' = candles /\ noMoreHistory' = noMoreHistory
      /\ historyPending' = historyPending /\ historyTimeout' = historyTimeout
      /\ timers' = timers /\ serving' = serving /\ wire' = wire
  BY <1>1 DEF AnimationFrame, engine
<1>3. /\ HoleInv /\ OrderInv /\ TypeInv /\ OneAtATime /\ AboutTheOldest
      /\ frames \in Seq(Requests) /\ inbox \in Seq(Questions)
  BY EndFacts
<1>4. /\ historyPending /\ inbox = << >> /\ Pages(wire) = {} /\ Len(frames) <= 1
      /\ Outstanding \subseteq {historyTimeout} /\ timers \subseteq Outstanding
  BY <1>2, <1>3 DEF OneAtATime
<1>5. Outstanding' = Outstanding
  BY <1>3, AnimationFrameOrder
<1>6. f \in Requests /\ q \in Questions /\ q.before = f.before
  <2>1. f \in Requests
    BY <1>1, <1>2, <1>3, QueueFacts
  <2> QED BY <1>1, <2>1 DEF Questions, Requests
<1>7. frames' = << >> /\ Range(frames') = {} /\ Len(frames') = 0
  <2>1. PICK t : t = frames'
    OBVIOUS
  <2>2. t \in Seq(Requests) /\ Len(t) = Len(frames) - 1 /\ Len(frames) \in Nat
    BY <1>2, <1>3, <2>1, HeadTailProperties, LenProperties
  <2>3. Len(t) \in Nat /\ ~ (Len(t) > 0)
    BY <1>4, <2>2, LenProperties
  <2>4. t = << >>
    BY <2>2, <2>3, EmptySeq
  <2> QED BY <2>1, <2>4 DEF Range
<1>8. Len(inbox') = 1 /\ Range(inbox') = {q}
  <2>1. Len(inbox) = 0 /\ Range(inbox) = {}
    BY <1>4 DEF Range
  <2>2. Len(inbox') = Len(inbox) + 1 /\ Range(inbox') = Range(inbox) \cup {q}
    BY <1>2, <1>3, <1>6, AppendProperties, RangeAppend
  <2> QED BY <2>1, <2>2
<1>9. OneAtATime'
  BY <1>2, <1>4, <1>5, <1>7, <1>8 DEF OneAtATime
<1>10. f.before = candles[1].time
  <2>1. f \in Range(frames)
    BY <1>1, <1>2, <1>3, RangeTail
  <2> QED BY <1>3, <2>1 DEF AboutTheOldest
<1>11. AboutTheOldest'
  BY <1>2, <1>3, <1>4, <1>6, <1>7, <1>8, <1>10 DEF AboutTheOldest
<1> QED BY <1>9, <1>11

LEMMA TimerFiresEnds ==
  ASSUME EndInv, NEW no \in 1..MaxRequests, TimerFires(no), Quiet, ~ late
  PROVE  late'
<1>1. no \in timers /\ late' = (late \/ no \in Outstanding)
  BY DEF TimerFires
<1>2. timers \subseteq Outstanding
  BY EndFacts DEF OneAtATime
<1> QED BY <1>1, <1>2

LEMMA ServeEnds ==
  ASSUME EndInv, Serve, Quiet, ~ late
  PROVE  OneAtATime' /\ AboutTheOldest'
<1>1. /\ HoleInv /\ OrderInv /\ TypeInv /\ OneAtATime /\ AboutTheOldest
      /\ wire \in Seq(Answers) /\ inbox \in Seq(Questions) /\ serving \in Symbols
      /\ candles \in Seq(Candles)
  BY EndFacts
<1>2. PICK m, a : m = Head(inbox) /\ a = Answer
  OBVIOUS
<1>3. /\ inbox # << >> /\ inbox' = Tail(inbox) /\ wire' = Append(wire, a)
      /\ a \in Answers
      /\ m.type = "history" =>
           /\ serving' = serving /\ m.before \in 1..MaxTime
           /\ a.bars = StoreBetween(serving, From(serving, m.before - 1), m.before - 1)
      /\ candles' = candles /\ noMoreHistory' = noMoreHistory
      /\ historyPending' = historyPending /\ historyTimeout' = historyTimeout
      /\ timers' = timers /\ frames' = frames
  BY <1>1, <1>2, ServeFacts DEF engine
<1>4. /\ historyPending /\ frames = << >> /\ Pages(wire) = {} /\ Len(inbox) <= 1
      /\ Outstanding \subseteq {historyTimeout} /\ timers \subseteq Outstanding
  BY <1>1, <1>3 DEF OneAtATime
<1>5. Outstanding' = Outstanding
  BY <1>1, ServeOrder
<1>6. m \in Range(inbox)
  BY <1>1, <1>2, <1>3, RangeTail
<1>7. inbox' = << >> /\ Range(inbox') = {} /\ Len(inbox') = 0
  <2>1. PICK t : t = inbox'
    OBVIOUS
  <2>2. t \in Seq(Questions) /\ Len(t) = Len(inbox) - 1 /\ Len(inbox) \in Nat
    BY <1>1, <1>3, <2>1, HeadTailProperties, LenProperties
  <2>3. Len(t) \in Nat /\ ~ (Len(t) > 0)
    BY <1>4, <2>2, LenProperties
  <2>4. t = << >>
    BY <2>2, <2>3, EmptySeq
  <2> QED BY <2>1, <2>4 DEF Range
<1>8. Filled
  BY <1>1, <1>3, QuietFacts DEF Booting
<1>9. /\ m.type = "history" /\ m.before = candles[1].time
      /\ candles # << >> /\ Run(candles, serving)
  BY <1>1, <1>6, <1>8 DEF Filled, AboutTheOldest
<1>10. PICK before, bars, oldest : before = m.before /\ bars = a.bars /\ oldest = candles[1].time
  OBVIOUS
<1>11. /\ before \in 1..MaxTime /\ before = oldest /\ serving' = serving
       /\ bars = StoreBetween(serving, From(serving, before - 1), before - 1)
  BY <1>3, <1>9, <1>10
<1>12. oldest >= First[serving] /\ First[serving] \in Nat /\ oldest \in Nat
  <2>1. 1 \in 1..Len(candles)
    <3>1. Len(candles) \in Nat \ {0}
      BY <1>1, <1>9, EmptySeq
    <3> QED BY <3>1
  <2> QED BY <1>1, <1>9, <1>10, <1>11, <2>1, ConstantFacts, TimesAssumption DEF Run
<1>13. bars \in Seq(Candles) /\ (Len(bars) = 0 => before <= First[serving])
  BY <1>1, <1>11, PageFacts
<1>14. bars = << >> => oldest = First[serving]
  <2>1. bars = << >> => Len(bars) = 0
    BY EmptySeq
  <2> QED BY <1>11, <1>12, <1>13, <2>1
<1>15. bars # << >> => bars[1].time < oldest
  <2>1. bars # << >> => 1 \in 1..Len(bars)
    <3>1. bars # << >> => Len(bars) \in Nat \ {0}
      BY <1>13, EmptySeq
    <3> QED BY <3>1
  <2>2. \A i \in 1..Len(bars) : bars[i].time < before
    BY <1>1, <1>11, PageFacts
  <2> QED BY <1>11, <2>1, <2>2
<1>16. \A i \in Pages(wire') : i = Len(wire) + 1 /\ wire'[i] = a
  <2>1. PICK v : v = wire'
    OBVIOUS
  <2>2. \A i \in Pages(v) : i = Len(wire) + 1 /\ v[i] = a
    <3> TAKE i \in Pages(v)
    <3>1. wire \in Seq(Answers) /\ a \in Answers /\ v = Append(wire, a)
      BY <1>1, <1>3, <2>1
    <3>2. i \notin Pages(wire)
      BY <1>4
    <3>3. i = Len(wire) + 1
      BY ONLY <3>1, <3>2, i \in Pages(v), PagesAppend
    <3>4. v[i] = a
      BY <3>1, <3>3, AppendProperties
    <3> QED BY <3>3, <3>4
  <2> QED BY <2>1, <2>2
<1>17. OneAtATime'
  <2>1. \A i, j \in Pages(wire') : i = j
    BY <1>16
  <2>2. Len(frames) <= 1
    BY <1>1 DEF OneAtATime
  <2> QED BY <1>3, <1>4, <1>5, <1>7, <2>1, <2>2 DEF OneAtATime
<1>18. AboutTheOldest'
  <2>1. \A i \in Pages(wire') :
          IF wire'[i].bars = << >> THEN oldest = First[serving]
          ELSE wire'[i].bars[1].time < oldest
    BY <1>10, <1>14, <1>15, <1>16
  <2> QED BY <1>1, <1>3, <1>7, <1>10, <1>11, <2>1 DEF AboutTheOldest
<1> QED BY <1>17, <1>18

LEMMA PushEnds ==
  ASSUME EndInv, Push, Quiet, ~ late
  PROVE  OneAtATime' /\ AboutTheOldest'
<1>1. /\ HoleInv /\ OrderInv /\ TypeInv /\ OneAtATime /\ AboutTheOldest
      /\ wire \in Seq(Answers) /\ serving \in Symbols
  BY EndFacts
<1>2. PICK b, m : /\ b = [of |-> serving, time |-> newest'[serving]]
                  /\ m = [type |-> "bar", bar |-> b]
  OBVIOUS
<1>3. /\ newest[serving] < MaxTime /\ newest' = [newest EXCEPT ![serving] = @ + 1]
      /\ wire' = Append(wire, m)
      /\ candles' = candles /\ noMoreHistory' = noMoreHistory
      /\ historyPending' = historyPending /\ historyTimeout' = historyTimeout
      /\ timers' = timers /\ frames' = frames /\ inbox' = inbox /\ serving' = serving
  BY <1>2 DEF Push, engine
<1>4. m \in Answers /\ m.type = "bar"
  <2>1. newest'[serving] \in 1..MaxTime
    <3>1. newest[serving] \in Nat /\ newest'[serving] = newest[serving] + 1
      BY <1>1, <1>3, QuietFacts DEF TypeInv
    <3> QED BY <1>3, <3>1, TimesAssumption
  <2> QED BY <1>1, <1>2, <2>1 DEF Answers, Candles
<1>5. \A i \in Pages(wire') : i \in Pages(wire) /\ wire'[i] = wire[i]
  <2>1. PICK v : v = wire'
    OBVIOUS
  <2>2. \A i \in Pages(v) : i \in Pages(wire) /\ v[i] = wire[i]
    BY <1>1, <1>3, <1>4, <2>1, PagesAppend
  <2> QED BY <2>1, <2>2
<1>6. Outstanding' = Outstanding
  BY <1>1, PushOrder
<1>7. Pages(wire) = {} => Pages(wire') = {}
  BY <1>5
<1>8. OneAtATime'
  BY <1>1, <1>3, <1>5, <1>6, <1>7 DEF OneAtATime
<1>9. AboutTheOldest'
  BY <1>1, <1>3, <1>5 DEF AboutTheOldest
<1> QED BY <1>8, <1>9

(* Whatever comes, what is on the wire behind it moves up.                 *)
LEMMA ReceivePages ==
  ASSUME TypeInv, Receive
  PROVE  /\ wire # << >> /\ wire' \in Seq(Answers)
         /\ \A i \in Pages(wire') : i + 1 \in Pages(wire) /\ i + 1 # 1 /\ wire'[i] = wire[i + 1]
         /\ wire[1].type # "history" => Outstanding' = Outstanding
<1>1. PICK m, w, v : m = Head(wire) /\ w = wire /\ v = wire'
  OBVIOUS
<1>2. /\ w # << >> /\ v = Tail(w) /\ m \in Answers /\ w \in Seq(Answers)
      /\ v \in Seq(Answers) /\ Range(w) = {m} \cup Range(v)
      /\ UNCHANGED <<frames, inbox>>
  BY <1>1, ReceiveFacts DEF TypeInv
<1>3. m = w[1]
  BY <1>1, <1>2, HeadTailProperties
<1>4. \A i \in Pages(v) : i \in Nat \ {0} /\ i + 1 \in Pages(w) /\ v[i] = w[i + 1]
  <2> TAKE i \in Pages(v)
  <2>1. w \in Seq(Answers) /\ w # << >> /\ v = Tail(w)
    BY <1>2
  <2>2. i \in Nat \ {0}
    BY ONLY <2>1, i \in Pages(v), PagesTail
  <2>3. i + 1 \in Pages(w)
    BY ONLY <2>1, i \in Pages(v), PagesTail
  <2>4. v[i] = w[i + 1]
    BY ONLY <2>1, i \in Pages(v), PagesTail
  <2> QED BY <2>2, <2>3, <2>4
<1>5. \A i \in Pages(v) : i + 1 # 1
  BY <1>4
<1>6. ASSUME m.type # "history" PROVE Outstanding' = Outstanding
  <2>1. {x \in Range(v) : x.type = "history"} = {x \in Range(w) : x.type = "history"}
    BY <1>2, <1>6
  <2> QED BY <1>1, <1>2, <2>1, OutstandingIsAsked DEF Asked
<1> QED BY <1>1, <1>2, <1>3, <1>4, <1>5, <1>6

LEMMA ReceiveEnds ==
  ASSUME EndInv, Receive, Quiet, ~ trimmed', ~ late
  PROVE  OneAtATime' /\ AboutTheOldest'
<1>1. /\ HoleInv /\ OrderInv /\ TypeInv /\ OneAtATime /\ AboutTheOldest
      /\ wire \in Seq(Answers) /\ serving \in Symbols
  BY EndFacts
<1>2. PICK m : m = Head(wire)
  OBVIOUS
<1>3. /\ wire # << >> /\ wire' \in Seq(Answers)
      /\ \A i \in Pages(wire') : i + 1 \in Pages(wire) /\ i + 1 # 1 /\ wire'[i] = wire[i + 1]
      /\ wire[1].type # "history" => Outstanding' = Outstanding
  BY <1>1, ReceivePages
<1>4. m = wire[1]
  BY <1>1, <1>2, <1>3, HeadTailProperties
<1>5. /\ \/ m.type = "snapshot" /\ SetCandles(m.bars)
         \/ m.type = "history" /\ PrependHistory(m.bars)
         \/ m.type = "bar" /\ Applies(m.bar)
      /\ frames' = frames /\ inbox' = inbox /\ serving' = serving
  BY <1>1, <1>2, ReceiveFacts
<1>6. /\ Outstanding \subseteq {historyTimeout} /\ timers \subseteq Outstanding
      /\ ~ historyPending => frames = << >> /\ inbox = << >> /\ Pages(wire) = {}
      /\ Len(frames) <= 1 /\ Len(inbox) <= 1 /\ (\A i, j \in Pages(wire) : i = j)
      /\ frames # << >> => inbox = << >> /\ Pages(wire) = {}
      /\ inbox # << >> => Pages(wire) = {}
  BY <1>1 DEF OneAtATime
<1>7. CASE m.type = "snapshot"
  <2>1. SetCandles(m.bars) /\ Outstanding' = Outstanding
    BY <1>3, <1>4, <1>5, <1>7
  <2>2. Booting
    <3>1. m \in Range(wire)
      BY <1>1, <1>2, <1>3, RangeTail
    <3> QED BY <1>1, <1>7, <3>1, QuietFacts DEF Filled, Fits
  <2>3. frames = << >> /\ inbox = << >>
    BY <2>2 DEF Booting
  <2>4. Pages(wire) = {}
    <3>1. \A i \in 1..Len(wire) : i = 1 \/ i \in 2..Len(wire)
      BY <1>1, LenProperties
    <3>2. \A i \in 1..Len(wire) : wire[i].type # "history"
      BY <2>2, <3>1 DEF Booting
    <3> QED BY <3>2 DEF Pages
  <2>5. Pages(wire') = {}
    BY <1>3, <2>4
  <2>6. historyTimeout' = historyTimeout /\ timers' = timers /\ ~ noMoreHistory'
    BY <2>1 DEF SetCandles
  <2>7. OneAtATime'
    BY <1>5, <1>6, <2>1, <2>3, <2>5, <2>6 DEF OneAtATime
  <2>8. Range(frames') = {} /\ Range(inbox') = {}
    BY <1>5, <2>3 DEF Range
  <2>9. AboutTheOldest'
    BY <2>5, <2>6, <2>8 DEF AboutTheOldest
  <2> QED BY <2>7, <2>9
<1>8. CASE m.type = "history"
  <2>1. 1 \in Pages(wire)
    <3>1. Len(wire) \in Nat \ {0}
      BY <1>1, <1>3, EmptySeq
    <3> QED BY <1>4, <1>8, <3>1 DEF Pages
  <2>2. frames = << >> /\ inbox = << >> /\ Pages(wire') = {}
    BY <1>3, <1>6, <2>1
  <2>3. /\ timers' = timers \ {historyTimeout} /\ historyTimeout' = 0 /\ ~ historyPending'
    BY <1>5, <1>8 DEF PrependHistory
  <2>4. Outstanding' = {}
    <3>1. PICK v, fs, qs : v = wire' /\ fs = frames' /\ qs = inbox'
      OBVIOUS
    <3>2. v \in Seq(Answers) /\ Pages(v) = {} /\ fs = << >> /\ qs = << >>
      BY <1>3, <1>5, <2>2, <3>1
    <3>3. Asked(Range(fs), Range(qs), Range(v)) = {}
      BY <3>2, NothingAsked
    <3> QED BY <3>1, <3>3, OutstandingIsAsked
  <2>5. timers' = {}
    BY <1>6, <2>3
  <2>6. OneAtATime'
    BY <1>5, <1>6, <2>2, <2>3, <2>4, <2>5 DEF OneAtATime
  <2>7. /\ candles' # << >>
        /\ wire[1].bars = << >> => candles'[1] = candles[1]
        /\ wire[1].bars # << >> /\ wire[1].bars[1].time < candles[1].time =>
             (noMoreHistory' => noMoreHistory) /\ wire[1].bars[1].time >= First[serving]
    BY <1>1, <1>4, <1>8, HistoryHoles
  <2>8. /\ IF wire[1].bars = << >> THEN candles[1].time = First[serving]
           ELSE wire[1].bars[1].time < candles[1].time
        /\ noMoreHistory => candles[1].time = First[serving]
    BY <1>1, <2>1 DEF AboutTheOldest
  <2>9. noMoreHistory' => candles'[1].time = First[serving]
    <3>1. CASE wire[1].bars = << >>
      BY <2>7, <2>8, <3>1
    <3>2. CASE wire[1].bars # << >>
      <4>1. PICK t, o : t = wire[1].bars[1].time /\ o = candles[1].time
        OBVIOUS
      <4>2. t < o /\ t >= First[serving] /\ (noMoreHistory' => o = First[serving])
        BY <2>7, <2>8, <3>2, <4>1
      <4>3. t \in Nat /\ First[serving] \in Nat
        <5>1. wire[1].bars \in Seq(Candles)
          <6>1. m \in Answers
            BY <1>1, <1>2, ReceiveFacts
          <6> QED BY <1>4, <1>8, <6>1, AnswerFacts
        <5>2. Len(wire[1].bars) \in Nat \ {0}
          BY <3>2, <5>1, EmptySeq
        <5>3. 1 \in 1..Len(wire[1].bars)
          BY <5>2
        <5>4. wire[1].bars[1] \in Candles
          BY <5>1, <5>3, ElementOfSeq
        <5> QED BY <1>1, <4>1, <5>4, CandleTime, ConstantFacts
      <4>4. ~ noMoreHistory'
        BY <4>2, <4>3
      <4> QED BY <4>4
    <3> QED BY <3>1, <3>2
  <2>10. Range(frames') = {} /\ Range(inbox') = {}
    BY <1>5, <2>2 DEF Range
  <2>11. AboutTheOldest'
    BY <1>5, <2>2, <2>7, <2>9, <2>10 DEF AboutTheOldest
  <2> QED BY <2>6, <2>11
<1>9. CASE m.type = "bar"
  <2>1. candles # << >> /\ candles' # << >> /\ candles'[1] = candles[1]
    <3>1. Filled /\ candles'[1] = candles[1] /\ candles' # << >>
      BY <1>1, <1>4, <1>9, BarHoles
    <3> QED BY <3>1 DEF Filled
  <2>2. /\ noMoreHistory' = noMoreHistory /\ historyPending' = historyPending
        /\ historyTimeout' = historyTimeout /\ timers' = timers
    BY <1>5, <1>9 DEF Applies, ApplyBar
  <2>3. Outstanding' = Outstanding
    BY <1>3, <1>4, <1>9
  <2>4. Pages(wire) = {} => Pages(wire') = {}
    BY <1>3
  <2>5. \A i, j \in Pages(wire') : i = j
    <3> TAKE i, j \in Pages(wire')
    <3>1. i + 1 = j + 1
      BY <1>3, <1>6
    <3>2. i \in Nat /\ j \in Nat
      BY DEF Pages
    <3> QED BY <3>1, <3>2
  <2>6. OneAtATime'
    BY <1>5, <1>6, <2>2, <2>3, <2>4, <2>5 DEF OneAtATime
  <2>7. AboutTheOldest'
    BY <1>1, <1>3, <1>5, <2>1, <2>2 DEF AboutTheOldest
  <2> QED BY <2>6, <2>7
<1> QED BY <1>5, <1>7, <1>8, <1>9

LEMMA NextEnds == EndInv /\ [Next]_vars => EndInv'
<1> SUFFICES ASSUME EndInv, [Next]_vars PROVE EndInv'
  OBVIOUS
<1>1. HoleInv /\ HoleInv'
  BY NextHoles DEF EndInv
<1>2. ASSUME Quiet', ~ late' PROVE OneAtATime' /\ AboutTheOldest'
  <2>1. CASE ScrollLeft
    <3>1. Quiet /\ ~ late
      BY <1>1, <1>2, <2>1, ScrollLeftHoles DEF ScrollLeft, history
    <3> QED BY <2>1, <3>1, ScrollLeftEnds
  <2>2. CASE AnimationFrame
    <3>1. Quiet /\ ~ late
      BY <1>1, <1>2, <2>2, AnimationFrameHoles DEF AnimationFrame, history
    <3> QED BY <2>2, <3>1, AnimationFrameEnds
  <2>3. CASE Serve
    <3>1. Quiet /\ ~ late
      BY <1>1, <1>2, <2>3, ServeHoles DEF Serve, history
    <3> QED BY <2>3, <3>1, ServeEnds
  <2>4. CASE Push
    <3>1. Quiet /\ ~ late
      BY <1>1, <1>2, <2>4, PushHoles DEF Push, history
    <3> QED BY <2>4, <3>1, PushEnds
  <2>5. CASE Receive
    <3>1. Quiet /\ ~ late /\ ~ trimmed'
      BY <1>1, <1>2, <2>5, ReceiveHoles DEF Receive, Quiet
    <3> QED BY <2>5, <3>1, ReceiveEnds
  <2>6. ASSUME NEW s \in Symbols, Switch(s) PROVE FALSE
    <3>1. switches' = switches + 1 /\ switches \in Nat
      BY <1>1, <2>6, BoundsAssumption DEF Switch, HoleInv, OrderInv, TypeInv
    <3>2. switches' # 0
      BY <3>1
    <3> QED BY <1>2, <3>2 DEF Quiet
  <2>7. ASSUME NEW no \in 1..MaxRequests, TimerFires(no) PROVE FALSE
    <3>1. Quiet /\ ~ late
      BY <1>1, <1>2, <2>7, TimerFiresHoles DEF TimerFires
    <3> QED BY <1>2, <2>7, <3>1, TimerFiresEnds
  <2>8. CASE UNCHANGED vars
    <3>1. Quiet /\ ~ late
      BY <1>2, <2>8 DEF Quiet, vars, history
    <3>2. OneAtATime /\ AboutTheOldest /\ Outstanding' = Outstanding
      BY <2>8, <3>1, EndFacts, OutstandingIsAsked DEF vars
    <3> QED BY <2>8, <3>2 DEF OneAtATime, AboutTheOldest, vars, engine
  <2> QED BY <2>1, <2>2, <2>3, <2>4, <2>5, <2>6, <2>7, <2>8 DEF Next
<1> QED BY <1>1, <1>2 DEF EndInv

LEMMA InitEnds == Init => EndInv
<1> SUFFICES ASSUME Init PROVE EndInv
  OBVIOUS
<1>1. OrderInv /\ NoHole
  BY InitOrder, InitHoles
<1>2. /\ wire \in Seq(Answers) /\ frames = << >> /\ inbox = << >>
      /\ timers = {} /\ ~ noMoreHistory
  BY <1>1 DEF Init, OrderInv, TypeInv
<1>3. Pages(wire) = {}
  BY DEF Init, Snapshot, Pages
<1>4. Outstanding = {}
  BY <1>2, <1>3, OutstandingIsAsked, NothingAsked
<1>5. Len(frames) = 0 /\ Len(inbox) = 0 /\ Range(frames) = {} /\ Range(inbox) = {}
  BY <1>2 DEF Range
<1>6. OneAtATime
  BY <1>2, <1>3, <1>4, <1>5 DEF OneAtATime
<1>7. AboutTheOldest
  BY <1>2, <1>3, <1>5 DEF AboutTheOldest
<1> QED BY <1>1, <1>6, <1>7 DEF EndInv, HoleInv

(* While no answer is late, one request at most is on its way, and the     *)
(* page that answers it is about the cache's oldest candle.                *)
THEOREM SpecEndInv == Spec => []EndInv
<1> QED BY InitEnds, NextEnds, PTL DEF Spec

(* "[...] a definitive end-of-history flag (empty reply => nothing older   *)
(* exists)" (App.tsx:2796-2797): without a new snapshot or a trim, and if  *)
(* no answer took more than eight seconds, the terminal stops asking only  *)
(* when it has the oldest candle of the store.                             *)
THEOREM SpecEndIsTrue == Spec => []EndIsTrue
<1>1. EndInv => EndIsTrue
  <2> SUFFICES ASSUME EndInv, noMoreHistory, switches = 0, ~ trimmed, ~ late
               PROVE  candles # << >> /\ candles[1].time = First[candles[1].of]
    BY DEF EndIsTrue
  <2>1. Quiet
    BY DEF Quiet
  <2>2. /\ HoleInv /\ candles \in Seq(Candles)
        /\ candles # << >> /\ candles[1].time = First[serving]
    BY <2>1, EndFacts DEF AboutTheOldest
  <2>3. Run(candles, serving)
    BY <2>1, <2>2, QuietFacts DEF Booting, Filled
  <2>4. 1 \in 1..Len(candles)
    <3>1. Len(candles) \in Nat \ {0}
      BY <2>2, EmptySeq
    <3> QED BY <3>1
  <2>5. candles[1].of = serving
    BY <2>3, <2>4 DEF Run
  <2> QED BY <2>2, <2>5
<1> QED BY <1>1, SpecEndInv, PTL
=============================================================================
