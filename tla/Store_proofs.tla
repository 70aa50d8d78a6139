---------------------------- MODULE Store_proofs ----------------------------
(***************************************************************************)
(* Proofs about src/src/trex/server/store.py: CandleStore, for every set   *)
(* of times, every capacity and any number of feeders: the arrays stay in  *)
(* step and sorted, so that the binary search is sound, history pages are  *)
(* contiguous, and the store is the map of TimeSeries; and                 *)
(* MultiSymbolStore, for any threads, symbols and timeframes: no pair ever *)
(* gets a second store, and no write is lost in one that nobody can find.  *)
(***************************************************************************)
EXTENDS CandleStore, MultiSymbolStore,
        SequenceTheorems, FiniteSetTheorems, WellFoundedInduction, TLAPS

(* _evict keeps a suffix of at most MaxBars elements. *)
LEMMA EvictProperties ==
  ASSUME NEW S, NEW s \in Seq(S)
  PROVE  /\ Drop(s) \in Nat
         /\ Evict(s) \in Seq(S)
         /\ Len(Evict(s)) = Len(s) - Drop(s)
         /\ Len(Evict(s)) <= MaxBars
         /\ \A i \in 1..(Len(s) - Drop(s)) : /\ Evict(s)[i] = s[i + Drop(s)]
                                             /\ i + Drop(s) \in 1..Len(s)
<1>1. /\ Len(s) \in Nat /\ Drop(s) \in Nat /\ Drop(s) <= Len(s)
      /\ MaxBars \in Nat /\ Len(s) - Drop(s) <= MaxBars
  BY LenProperties, MaxBarsAssumption DEF Drop
<1>2. \A i \in (1 + Drop(s))..Len(s) : s[i] \in S
  BY <1>1, ElementOfSeq
<1>3. /\ Evict(s) \in Seq(S)
      /\ Len(Evict(s))
           = IF 1 + Drop(s) <= Len(s) THEN Len(s) - (1 + Drop(s)) + 1 ELSE 0
      /\ \A i \in 1..(Len(s) - (1 + Drop(s)) + 1) :
           Evict(s)[i] = s[(1 + Drop(s)) + i - 1]
  BY <1>1, <1>2, SubSeqProperties DEF Evict
<1>4. Len(Evict(s)) = Len(s) - Drop(s)
  BY <1>1, <1>3
<1>5. ASSUME NEW i \in 1..(Len(s) - Drop(s))
      PROVE  /\ Evict(s)[i] = s[i + Drop(s)]
             /\ i + Drop(s) \in 1..Len(s)
  <2>1. /\ i \in 1..(Len(s) - (1 + Drop(s)) + 1)
        /\ (1 + Drop(s)) + i - 1 = i + Drop(s)
    BY <1>1
  <2> QED BY <2>1, <1>1, <1>3
<1> QED BY <1>1, <1>3, <1>4, <1>5

(* insert(i - 1, e) of Python: everything from i on moves one place. *)
LEMMA InsertAtProperties ==
  ASSUME NEW S, NEW s \in Seq(S), NEW e \in S, NEW i \in 1..(Len(s) + 1)
  PROVE  /\ InsertAt(s, i, e) \in Seq(S)
         /\ Len(InsertAt(s, i, e)) = Len(s) + 1
         /\ \A k \in 1..(Len(s) + 1) :
              InsertAt(s, i, e)[k] = IF k < i THEN s[k]
                                     ELSE IF k = i THEN e ELSE s[k - 1]
<1>1. Len(s) \in Nat /\ \A k \in 1..Len(s) : s[k] \in S
  BY LenProperties, ElementOfSeq
<1>2. PICK l : l = SubSeq(s, 1, i - 1)
  OBVIOUS
<1>3. PICK r : r = SubSeq(s, i, Len(s))
  OBVIOUS
<1>4. /\ l \in Seq(S) /\ Len(l) = i - 1
      /\ \A k \in 1..(i - 1) : l[k] = s[k]
  BY <1>1, <1>2, SubSeqProperties
<1>5. /\ r \in Seq(S) /\ Len(r) = Len(s) - i + 1
      /\ \A k \in 1..(Len(s) - i + 1) : r[k] = s[i + k - 1]
  <2>1. i \in Int /\ Len(s) \in Int /\ \A k \in i..Len(s) : s[k] \in S
    BY <1>1
  <2>2. /\ r \in Seq(S)
        /\ Len(r) = IF i <= Len(s) THEN Len(s) - i + 1 ELSE 0
        /\ \A k \in 1..(Len(s) - i + 1) : r[k] = s[i + k - 1]
    BY <2>1, <1>3, SubSeqProperties
  <2> QED BY <2>2, <1>1
<1>6. <<e>> \in Seq(S) /\ Len(<<e>>) = 1 /\ <<e>>[1] = e
  OBVIOUS
<1>7. PICK m : m = l \o <<e>>
  OBVIOUS
<1>8. /\ m \in Seq(S) /\ Len(m) = i
      /\ \A k \in 1..i : m[k] = IF k <= i - 1 THEN s[k] ELSE e
  <2>1. /\ m \in Seq(S) /\ Len(m) = Len(l) + 1
        /\ \A k \in 1..(Len(l) + 1) : m[k] = IF k <= Len(l) THEN l[k] ELSE <<e>>[k - Len(l)]
    BY <1>4, <1>6, <1>7, ConcatProperties
  <2>2. \A k \in 1..(Len(l) + 1) : m[k] = IF k <= Len(l) THEN l[k] ELSE e
    BY <2>1, <1>4, <1>6
  <2> QED BY <2>1, <2>2, <1>1, <1>4
<1>9. PICK w : w = m \o r
  OBVIOUS
<1>10. /\ w \in Seq(S) /\ Len(w) = Len(m) + Len(r)
       /\ \A k \in 1..(Len(m) + Len(r)) : w[k] = IF k <= Len(m) THEN m[k] ELSE r[k - Len(m)]
  BY <1>5, <1>8, <1>9, ConcatProperties
<1>11. ASSUME NEW k \in 1..(Len(s) + 1)
       PROVE  w[k] = IF k < i THEN s[k] ELSE IF k = i THEN e ELSE s[k - 1]
  <2>1. k \in 1..(Len(m) + Len(r))
    BY <1>1, <1>5, <1>8
  <2>2. CASE k <= i
    BY <2>1, <2>2, <1>1, <1>8, <1>10
  <2>3. CASE k > i
    <3>1. k - i \in 1..(Len(s) - i + 1) /\ i + (k - i) - 1 = k - 1
      BY <2>3, <1>1
    <3>2. w[k] = r[k - i]
      BY <2>1, <2>3, <1>1, <1>8, <1>10
    <3> QED BY <3>1, <3>2, <2>3, <1>1, <1>5
  <2> QED BY <2>2, <2>3, <1>1
<1>12. w = InsertAt(s, i, e)
  BY <1>2, <1>3, <1>7, <1>9 DEF InsertAt
<1> QED BY <1>1, <1>5, <1>8, <1>10, <1>11, <1>12

(* On an ascending sequence the binary search has its one answer. *)
LEMMA BisectLeftProperties ==
  ASSUME NEW s \in Seq(Nat), Ascending(s), NEW x \in Nat
  PROVE  /\ BisectLeft(s, x) \in 0..Len(s)
         /\ \A j \in 1..BisectLeft(s, x) : s[j] < x
         /\ \A j \in (BisectLeft(s, x) + 1)..Len(s) : s[j] >= x
<1>1. Len(s) \in Nat /\ DOMAIN s = 1..Len(s) /\ \A i \in 1..Len(s) : s[i] \in Nat
  BY LenProperties, ElementOfSeq
<1> DEFINE T == {i \in 1..(Len(s) + 1) : i = Len(s) + 1 \/ s[i] >= x}
<1>2. T \subseteq Nat /\ T # {}
  BY <1>1
<1>3. PICK m \in T : \A y \in T : ~ (<<y, m>> \in OpToRel(<, Nat))
  <2> HIDE DEF T
  <2>1. PICK R : R = OpToRel(<, Nat)
    OBVIOUS
  <2>2. IsWellFoundedOn(R, Nat)
    BY <2>1, NatLessThanWellFounded
  <2>3. \E m \in T : \A y \in T : ~ (<<y, m>> \in R)
    BY <1>2, <2>2, WFMin, Zenon
  <2> QED BY <2>1, <2>3
<1>4. \A y \in T : ~ (y < m)
  BY <1>2, <1>3 DEF OpToRel
<1>5. m - 1 \in 0..Len(s)
  BY <1>1
<1>6. \A j \in 1..(m - 1) : s[j] < x
  BY <1>1, <1>4
<1>7. \A j \in ((m - 1) + 1)..Len(s) : s[j] >= x
  <2> SUFFICES ASSUME NEW j \in m..Len(s) PROVE s[j] >= x
    BY <1>1
  <2>1. s[m] >= x /\ m \in 1..Len(s)
    BY <1>1
  <2>2. j = m \/ s[m] < s[j]
    BY <2>1, <1>1 DEF Ascending
  <2> QED BY <2>1, <2>2, <1>1
<1>8. \E i \in 0..Len(s) : /\ \A j \in 1..i : s[j] < x
                           /\ \A j \in (i+1)..Len(s) : s[j] >= x
  <2> HIDE DEF T
  <2> QED BY <1>5, <1>6, <1>7
<1> QED BY <1>8 DEF BisectLeft

-----------------------------------------------------------------------------
(***************************************************************************)
(* The inductive invariant.  Sortedness of times is what makes the result  *)
(* of the search meaningful, and the search is what keeps times sorted, so *)
(* neither stands alone; a closed time stays below the newest one.         *)
(***************************************************************************)
ClosedBelowLast == \A t \in closedTimes : times # << >> /\ t < times[Len(times)]

IInv == TypeOK /\ InSync /\ ClosedBelowLast

LEMMA InitIInv == Init => IInv
<1> SUFFICES ASSUME Init PROVE IInv
  OBVIOUS
<1>1. TypeOK
  BY NoBarAssumption DEF Init, TypeOK
<1>2. InSync
  BY DEF Init, InSync, Ascending
<1>3. ClosedBelowLast
  BY DEF Init, ClosedBelowLast
<1> QED BY <1>1, <1>2, <1>3 DEF IInv

(* What IInv says of the arrays in the words the proofs below use. *)
LEMMA ArrayFacts ==
  ASSUME IInv
  PROVE  /\ bars \in Seq(Bar) /\ times \in Seq(Time) /\ times \in Seq(Nat)
         /\ Len(bars) \in Nat /\ Len(times) = Len(bars)
         /\ \A i \in 1..Len(bars) : /\ times[i] = bars[i].time /\ times[i] \in Nat
                                    /\ times[i] \in Time /\ bars[i] \in Bar
         /\ \A i, j \in 1..Len(bars) : i < j => times[i] < times[j]
         /\ times # << >> <=> Len(bars) > 0
         /\ bars # << >> <=> Len(bars) > 0
<1>1. bars \in Seq(Bar) /\ times \in Seq(Time) /\ times \in Seq(Nat)
  BY SeqMonotonic, TimeAssumption DEF IInv, TypeOK
<1>2. Len(bars) \in Nat /\ Len(times) = Len(bars)
  BY <1>1, LenProperties DEF IInv, InSync
<1>3. \A i \in 1..Len(bars) : /\ times[i] = bars[i].time /\ times[i] \in Nat
                              /\ times[i] \in Time /\ bars[i] \in Bar
  BY <1>1, <1>2, ElementOfSeq DEF IInv, InSync
<1>4. \A i, j \in 1..Len(bars) : i < j => times[i] < times[j]
  BY <1>1, <1>2, LenProperties DEF IInv, InSync, Ascending
<1>5. (times # << >> <=> Len(bars) > 0) /\ (bars # << >> <=> Len(bars) > 0)
  BY <1>1, <1>2, EmptySeq
<1> QED BY <1>1, <1>2, <1>3, <1>4, <1>5

(* seed() installs a sorted pair of arrays and forgets what had closed. *)
LEMMA SeedIInv == IInv /\ Seed => IInv'
<1> SUFFICES ASSUME IInv, NEW batch \in Batches, NEW n \in 0..Len(batch),
                    NEW s \in [1..n -> {batch[i] : i \in DOMAIN batch}],
                    IsSeedOf(s, batch),
                    bars' = Evict(s), times' = Evict(TimesOf(s)),
                    closedTimes' = {}, UNCHANGED closing
             PROVE  IInv'
  BY DEF Seed
<1>1. batch \in Seq(Bar) /\ DOMAIN batch = 1..Len(batch) /\ Len(batch) \in Nat
      /\ \A i \in DOMAIN batch : batch[i] \in Bar
  BY BatchesAssumption, LenProperties, ElementOfSeq
<1>2. s \in Seq(Bar) /\ Len(s) = n /\ DOMAIN s = 1..n
  BY <1>1
<1>3. \A i \in 1..n : s[i] \in Bar /\ s[i].time \in Time
  <2>1. \A i \in 1..n : s[i] \in Bar
    BY <1>2, ElementOfSeq
  <2> QED BY <2>1 DEF Bar
<1>4. PICK u : u = TimesOf(s)
  OBVIOUS
<1>5. /\ u \in Seq(Time) /\ Len(u) = n /\ DOMAIN u = 1..n
      /\ \A i \in 1..n : u[i] = s[i].time
  BY <1>2, <1>3, <1>4 DEF TimesOf
<1>6. \A i, j \in 1..n : i < j => u[i] < u[j]
  BY <1>4, <1>5 DEF IsSeedOf, Ascending
<1> DEFINE drop == Drop(s)
<1>7. /\ drop \in Nat
      /\ bars' \in Seq(Bar) /\ Len(bars') = n - drop
      /\ times' \in Seq(Time) /\ Len(times') = n - drop
      /\ \A i \in 1..(n - drop) : /\ bars'[i] = s[i + drop]
                                  /\ times'[i] = u[i + drop]
                                  /\ i + drop \in 1..n
  <2>1. Drop(u) = Drop(s)
    BY <1>2, <1>5 DEF Drop
  <2>2. /\ Drop(s) \in Nat /\ bars' \in Seq(Bar) /\ Len(bars') = n - Drop(s)
        /\ \A i \in 1..(n - Drop(s)) : bars'[i] = s[i + Drop(s)] /\ i + Drop(s) \in 1..n
    BY <1>2, EvictProperties
  <2>3. times' = Evict(u)
    BY <1>4
  <2>4. /\ times' \in Seq(Time) /\ Len(times') = n - Drop(u)
        /\ \A i \in 1..(n - Drop(u)) : times'[i] = u[i + Drop(u)]
    BY <1>5, <2>3, EvictProperties
  <2> QED BY <2>1, <2>2, <2>4
<1> HIDE DEF drop
<1>8. TypeOK'
  BY <1>7 DEF IInv, TypeOK
<1>9. InSync'
  <2>1. \A i \in 1..(n - drop) : times'[i] = bars'[i].time
    BY <1>5, <1>7
  <2>2. DOMAIN times' = 1..(n - drop)
    BY <1>7, LenProperties
  <2>3. \A i, j \in 1..(n - drop) : i < j => times'[i] < times'[j]
    <3> SUFFICES ASSUME NEW i \in 1..(n - drop), NEW j \in 1..(n - drop), i < j
                 PROVE  times'[i] < times'[j]
      OBVIOUS
    <3>1. i + drop < j + drop /\ i + drop \in 1..n /\ j + drop \in 1..n
      BY <1>7
    <3>2. u[i + drop] < u[j + drop]
      BY <3>1, <1>6
    <3> QED BY <3>2, <1>7
  <2> QED BY <2>1, <2>2, <2>3, <1>7 DEF InSync, Ascending
<1>10. ClosedBelowLast'
  BY DEF ClosedBelowLast
<1> QED BY <1>8, <1>9, <1>10 DEF IInv

(* A tick writes the last bar only, and with the time it had. *)
LEMMA UpdateTickIInv ==
  ASSUME IInv, NEW f \in Feeders, NEW bar \in Bar, UpdateTick(f, bar)
  PROVE  IInv'
<1>1. /\ Len(bars) > 0 /\ bar.time = times[Len(bars)]
      /\ bars' = [bars EXCEPT ![Len(bars)] = bar]
      /\ times' = times /\ closing' = closing /\ closedTimes' = closedTimes
  BY ArrayFacts DEF UpdateTick, Last
<1>2. Len(bars) \in 1..Len(bars)
  BY <1>1, ArrayFacts
<1>3. /\ bars' \in Seq(Bar) /\ Len(bars') = Len(bars)
      /\ \A j \in 1..Len(bars) : bars'[j] = IF j = Len(bars) THEN bar ELSE bars[j]
  BY <1>1, <1>2, ArrayFacts, ExceptSeq
<1>4. TypeOK'
  BY <1>1, <1>3 DEF IInv, TypeOK
<1>5. InSync'
  <2>1. Len(times') = Len(bars') /\ Ascending(times')
    BY <1>1, <1>3 DEF IInv, InSync
  <2>2. \A i \in 1..Len(bars') : times'[i] = bars'[i].time
    BY <1>1, <1>3, ArrayFacts
  <2> QED BY <2>1, <2>2 DEF InSync
<1>6. ClosedBelowLast'
  BY <1>1 DEF IInv, ClosedBelowLast
<1> QED BY <1>4, <1>5, <1>6 DEF IInv

(* A late bar lands on its time, or between the times around it; the last  *)
(* bar stays the last.                                                     *)
LEMMA UpdateLateIInv ==
  ASSUME IInv, NEW f \in Feeders, NEW bar \in Bar, UpdateLate(f, bar)
  PROVE  IInv'
<1>1. PICK idx : idx = BisectLeft(times, bar.time)
  OBVIOUS
<1>2. bar.time \in Time /\ bar.time \in Nat
  BY TimeAssumption DEF Bar
<1>3. /\ Len(bars) > 0 /\ bar.time < times[Len(bars)]
      /\ closing' = closing /\ closedTimes' = closedTimes
      /\ IF idx < Len(times) /\ times[idx + 1] = bar.time
         THEN bars' = [bars EXCEPT ![idx + 1] = bar] /\ times' = times
         ELSE /\ bars' = InsertAt(bars, idx + 1, bar)
              /\ times' = InsertAt(times, idx + 1, bar.time)
  BY <1>1, ArrayFacts DEF UpdateLate, Last
<1>4. /\ idx \in 0..Len(bars)
      /\ \A j \in 1..idx : times[j] < bar.time
      /\ \A j \in (idx + 1)..Len(bars) : times[j] >= bar.time
  BY <1>1, <1>2, ArrayFacts, BisectLeftProperties DEF IInv, InSync
<1>5. idx < Len(bars)
  BY <1>2, <1>3, <1>4, ArrayFacts
<1>6. CASE times[idx + 1] = bar.time
  <2>1. bars' = [bars EXCEPT ![idx + 1] = bar] /\ times' = times
    BY <1>3, <1>5, <1>6, ArrayFacts
  <2>2. idx + 1 \in 1..Len(bars)
    BY <1>4, <1>5, ArrayFacts
  <2>3. /\ bars' \in Seq(Bar) /\ Len(bars') = Len(bars)
        /\ \A j \in 1..Len(bars) : bars'[j] = IF j = idx + 1 THEN bar ELSE bars[j]
    BY <2>1, <2>2, ArrayFacts, ExceptSeq
  <2>4. TypeOK'
    BY <1>3, <2>1, <2>3 DEF IInv, TypeOK
  <2>5. InSync'
    <3>1. \A j \in 1..Len(bars') : times'[j] = bars'[j].time
      BY <1>6, <2>1, <2>3, ArrayFacts
    <3>2. Len(times') = Len(bars') /\ Ascending(times')
      BY <2>1, <2>3 DEF IInv, InSync
    <3> QED BY <3>1, <3>2 DEF InSync
  <2>6. ClosedBelowLast'
    BY <1>3, <2>1 DEF IInv, ClosedBelowLast
  <2> QED BY <2>4, <2>5, <2>6 DEF IInv
<1>7. CASE times[idx + 1] # bar.time
  <2>1. bars' = InsertAt(bars, idx + 1, bar) /\ times' = InsertAt(times, idx + 1, bar.time)
    BY <1>3, <1>7
  <2>2. idx + 1 \in 1..(Len(bars) + 1) /\ bars \in Seq(Bar)
    BY <1>4, ArrayFacts
  <2>3. /\ bars' \in Seq(Bar) /\ Len(bars') = Len(bars) + 1
        /\ \A k \in 1..(Len(bars) + 1) :
             bars'[k] = IF k < idx + 1 THEN bars[k]
                        ELSE IF k = idx + 1 THEN bar ELSE bars[k - 1]
    <3>1. PICK n, s, w : n = idx + 1 /\ s = bars /\ w = InsertAt(s, n, bar)
      OBVIOUS
    <3>2. n \in 1..(Len(s) + 1) /\ s \in Seq(Bar)
      BY <2>2, <3>1
    <3>3. /\ InsertAt(s, n, bar) \in Seq(Bar) /\ Len(InsertAt(s, n, bar)) = Len(s) + 1
          /\ \A k \in 1..(Len(s) + 1) :
               InsertAt(s, n, bar)[k]
                 = IF k < n THEN s[k] ELSE IF k = n THEN bar ELSE s[k - 1]
      BY <3>2, InsertAtProperties
    <3>4. bars' = w
      BY <2>1, <3>1
    <3>5. /\ w \in Seq(Bar) /\ Len(w) = Len(s) + 1
          /\ \A k \in 1..(Len(s) + 1) :
               w[k] = IF k < n THEN s[k] ELSE IF k = n THEN bar ELSE s[k - 1]
      BY <3>1, <3>3
    <3> QED BY <3>1, <3>4, <3>5
  <2>4. idx + 1 \in 1..(Len(times) + 1) /\ times \in Seq(Time)
    BY <2>2, ArrayFacts
  <2>5. /\ times' \in Seq(Time) /\ Len(times') = Len(bars) + 1
        /\ \A k \in 1..(Len(bars) + 1) :
             times'[k] = IF k < idx + 1 THEN times[k]
                         ELSE IF k = idx + 1 THEN bar.time ELSE times[k - 1]
    <3>1. PICK n : n = idx + 1
      OBVIOUS
    <3>2. PICK t : t = bar.time
      OBVIOUS
    <3>3. PICK s : s = times
      OBVIOUS
    <3>4. n \in 1..(Len(s) + 1) /\ t \in Time /\ s \in Seq(Time)
      BY <3>1, <3>2, <3>3, <1>2, <2>4
    <3>5. PICK w : w = InsertAt(s, n, t)
      OBVIOUS
    <3>6. times' = w
      BY <3>1, <3>2, <3>3, <3>5, <2>1
    <3>7. /\ w \in Seq(Time) /\ Len(w) = Len(s) + 1
          /\ \A k \in 1..(Len(s) + 1) :
               w[k] = IF k < n THEN s[k] ELSE IF k = n THEN t ELSE s[k - 1]
      <4>1. /\ InsertAt(s, n, t) \in Seq(Time) /\ Len(InsertAt(s, n, t)) = Len(s) + 1
            /\ \A k \in 1..(Len(s) + 1) :
                 InsertAt(s, n, t)[k]
                   = IF k < n THEN s[k] ELSE IF k = n THEN t ELSE s[k - 1]
        BY <3>4, InsertAtProperties
      <4> QED BY <3>5, <4>1
    <3> QED BY <3>1, <3>2, <3>3, <3>6, <3>7, ArrayFacts
  <2>6. TypeOK'
    BY <1>3, <2>3, <2>5 DEF IInv, TypeOK
  <2>7. Len(times') = Len(bars') /\ DOMAIN times' = 1..(Len(bars) + 1)
    BY <2>3, <2>5, ArrayFacts, LenProperties
  <2>8. \A k \in 1..(Len(bars) + 1) : times'[k] = bars'[k].time
    <3> SUFFICES ASSUME NEW k \in 1..(Len(bars) + 1) PROVE times'[k] = bars'[k].time
      OBVIOUS
    <3>1. CASE k < idx + 1
      <4>1. k \in 1..Len(bars) /\ times'[k] = times[k] /\ bars'[k] = bars[k]
        BY <3>1, <1>4, <1>5, <2>3, <2>5
      <4> QED BY <4>1, ArrayFacts
    <3>2. CASE k = idx + 1
      BY <3>2, <2>3, <2>5
    <3>3. CASE k > idx + 1
      <4>1. k - 1 \in 1..Len(bars)
        BY <3>3, <1>4, ArrayFacts
      <4>2. ~ (k < idx + 1) /\ k # idx + 1
        BY <3>3, <1>4
      <4>3. times'[k] = times[k - 1] /\ bars'[k] = bars[k - 1]
        BY <4>2, <2>3, <2>5
      <4> QED BY <4>1, <4>3, ArrayFacts
    <3> QED BY <3>1, <3>2, <3>3, <1>4, ArrayFacts
  <2>9. \A k \in (idx + 1)..Len(bars) : times[k] > bar.time
    <3> SUFFICES ASSUME NEW k \in (idx + 1)..Len(bars) PROVE times[k] > bar.time
      OBVIOUS
    <3>1. k \in 1..Len(bars) /\ idx + 1 \in 1..Len(bars)
      BY <1>4, <1>5, ArrayFacts
    <3>2. times[idx + 1] > bar.time
      BY <3>1, <1>2, <1>4, <1>5, <1>7, ArrayFacts
    <3>3. k = idx + 1 \/ times[idx + 1] < times[k]
      BY <3>1, ArrayFacts
    <3> QED BY <3>1, <3>2, <3>3, <1>2, ArrayFacts
  <2>10. ASSUME NEW i \in 1..(Len(bars) + 1), NEW j \in 1..(Len(bars) + 1), i < j
         PROVE  times'[i] < times'[j]
    <3>1. CASE j < idx + 1
      <4>1. /\ i \in 1..Len(bars) /\ j \in 1..Len(bars)
            /\ times'[i] = times[i] /\ times'[j] = times[j]
        BY <3>1, <2>10, <1>4, <1>5, <2>5
      <4> QED BY <4>1, <2>10, ArrayFacts
    <3>2. CASE j = idx + 1
      <4>1. i \in 1..idx /\ times'[i] = times[i] /\ times'[j] = bar.time
        BY <3>2, <2>10, <1>4, <2>5
      <4> QED BY <4>1, <1>4
    <3>3. CASE j > idx + 1
      <4>1. j - 1 \in 1..Len(bars) /\ times'[j] = times[j - 1]
        BY <3>3, <1>4, <2>5, ArrayFacts
      <4>2. CASE i < idx + 1
        <5>1. i \in 1..Len(bars) /\ i < j - 1 /\ times'[i] = times[i]
          BY <4>2, <3>3, <1>4, <2>5, ArrayFacts
        <5> QED BY <4>1, <5>1, ArrayFacts
      <4>3. CASE i = idx + 1
        BY <4>1, <4>3, <3>3, <1>4, <2>5, <2>9, <1>2, ArrayFacts
      <4>4. CASE i > idx + 1
        <5>1. i - 1 \in 1..Len(bars) /\ i - 1 < j - 1 /\ times'[i] = times[i - 1]
          BY <4>4, <2>10, <1>4, <2>5, ArrayFacts
        <5> QED BY <4>1, <5>1, ArrayFacts
      <4> QED BY <4>2, <4>3, <4>4, <1>4
    <3> QED BY <3>1, <3>2, <3>3, <1>4
  <2>11. InSync'
    BY <2>3, <2>7, <2>8, <2>10 DEF InSync, Ascending
  <2>12. times'[Len(times')] = times[Len(times)] /\ times' # << >>
    <3>1. Len(times') = Len(bars) + 1 /\ Len(bars) + 1 > idx + 1
      BY <1>5, <1>4, <2>5, ArrayFacts
    <3> QED BY <3>1, <1>4, <2>5, ArrayFacts, EmptySeq
  <2>13. ClosedBelowLast'
    BY <1>3, <2>12 DEF IInv, ClosedBelowLast
  <2> QED BY <2>6, <2>11, <2>13 DEF IInv
<1> QED BY <1>6, <1>7

(* A newer bar goes last; what closes is below it. *)
LEMMA UpdateAppendIInv ==
  ASSUME IInv, NEW f \in Feeders, NEW bar \in Bar, UpdateAppend(f, bar)
  PROVE  IInv'
<1>1. bar.time \in Time /\ bar.time \in Nat
  BY TimeAssumption DEF Bar
<1>2. /\ Len(bars) > 0 => bar.time > times[Len(bars)]
      /\ bars' = Evict(Append(bars, bar))
      /\ times' = Evict(Append(times, bar.time))
  BY ArrayFacts DEF UpdateAppend, Last
<1>3. PICK s : s = Append(bars, bar)
  OBVIOUS
<1>4. PICK u : u = Append(times, bar.time)
  OBVIOUS
<1>5. /\ s \in Seq(Bar) /\ Len(s) = Len(bars) + 1
      /\ \A i \in 1..(Len(bars) + 1) : s[i] = IF i = Len(bars) + 1 THEN bar ELSE bars[i]
  BY <1>3, ArrayFacts
<1>6. /\ u \in Seq(Time) /\ Len(u) = Len(bars) + 1
      /\ \A i \in 1..(Len(bars) + 1) : u[i] = IF i = Len(bars) + 1 THEN bar.time ELSE times[i]
  BY <1>1, <1>4, ArrayFacts
<1>7. \A i \in 1..(Len(bars) + 1) : u[i] = s[i].time
  <2> SUFFICES ASSUME NEW i \in 1..(Len(bars) + 1) PROVE u[i] = s[i].time
    OBVIOUS
  <2>1. CASE i = Len(bars) + 1
    BY <2>1, <1>5, <1>6
  <2>2. CASE i # Len(bars) + 1
    <3>1. Len(bars) \in Nat /\ \A k \in 1..Len(bars) : times[k] = bars[k].time
      BY ArrayFacts
    <3>2. i \in 1..Len(bars)
      BY <2>2, <3>1
    <3> QED BY <2>2, <3>1, <3>2, <1>5, <1>6
  <2> QED BY <2>1, <2>2
<1>8. ASSUME NEW i \in 1..(Len(bars) + 1), NEW j \in 1..(Len(bars) + 1), i < j
      PROVE  u[i] < u[j]
  <2>1. i \in 1..Len(bars) /\ u[i] = times[i]
    BY <1>6, <1>8, ArrayFacts
  <2>2. CASE j = Len(bars) + 1
    <3>1. Len(bars) \in 1..Len(bars) /\ times[Len(bars)] < bar.time
      BY <2>1, <1>1, <1>2, ArrayFacts
    <3>2. i = Len(bars) \/ times[i] < times[Len(bars)]
      BY <2>1, <3>1, ArrayFacts
    <3> QED BY <2>1, <2>2, <3>1, <3>2, <1>1, <1>6, ArrayFacts
  <2>3. CASE j # Len(bars) + 1
    <3>1. j \in 1..Len(bars)
      <4>1. Len(bars) \in Nat
        BY ArrayFacts
      <4> QED BY <2>3, <1>8, <4>1
    <3>2. u[j] = times[j]
      BY <2>3, <1>6, <1>8
    <3>3. times[i] < times[j]
      BY <2>1, <3>1, <1>8, ArrayFacts
    <3> QED BY <2>1, <3>2, <3>3
  <2> QED BY <2>2, <2>3
<1>9. PICK d : d = Drop(s)
  OBVIOUS
<1>10. Drop(u) = d
  BY <1>5, <1>6, <1>9 DEF Drop
<1>11. PICK n : n = (Len(bars) + 1) - d
  OBVIOUS
<1>lengths. Len(s) - Drop(s) = n /\ Len(u) - Drop(u) = n
  <2>1. Len(s) = Len(bars) + 1 /\ Len(u) = Len(bars) + 1
    BY <1>5, <1>6
  <2>2. Drop(s) = d /\ Drop(u) = d
    BY <1>9, <1>10
  <2> QED BY <2>1, <2>2, <1>11
<1>12. /\ d \in Nat /\ bars' \in Seq(Bar) /\ Len(bars') = n
       /\ \A i \in 1..n : bars'[i] = s[i + d] /\ i + d \in 1..(Len(bars) + 1)
  <2>1. /\ Drop(s) \in Nat /\ Evict(s) \in Seq(Bar) /\ Len(Evict(s)) = Len(s) - Drop(s)
        /\ \A i \in 1..(Len(s) - Drop(s)) : /\ Evict(s)[i] = s[i + Drop(s)]
                                            /\ i + Drop(s) \in 1..Len(s)
    BY <1>5, EvictProperties
  <2> QED BY <2>1, <1>2, <1>3, <1>5, <1>9, <1>lengths
<1>13. /\ times' \in Seq(Time) /\ Len(times') = n /\ DOMAIN times' = 1..n
       /\ \A i \in 1..n : times'[i] = u[i + d]
  <2>1. /\ Evict(u) \in Seq(Time) /\ Len(Evict(u)) = Len(u) - Drop(u)
        /\ \A i \in 1..(Len(u) - Drop(u)) : Evict(u)[i] = u[i + Drop(u)]
    BY <1>6, EvictProperties
  <2>2. times' = Evict(u)
    BY <1>2, <1>4
  <2>3. DOMAIN times' = 1..Len(times')
    BY <2>1, <2>2, LenProperties
  <2> QED BY <2>1, <2>2, <2>3, <1>10, <1>lengths
<1>14. n \in Nat \ {0} /\ n + d = Len(bars) + 1
  BY <1>5, <1>9, <1>11, ArrayFacts, MaxBarsAssumption DEF Drop
<1>15. times'[n] = bar.time /\ times' # << >>
  BY <1>6, <1>12, <1>13, <1>14, EmptySeq, ArrayFacts
<1>16. \/ bars = << >> /\ closing' = closing /\ closedTimes' = closedTimes
       \/ /\ Len(bars) > 0
          /\ closing' = [closing EXCEPT ![f] = bars[Len(bars)]]
          /\ closedTimes' = closedTimes \cup {bars[Len(bars)].time}
  BY ArrayFacts DEF UpdateAppend, Last
<1>17. TypeOK'
  <2>1. Len(bars) > 0 => bars[Len(bars)] \in Bar /\ bars[Len(bars)].time \in Time
    BY ArrayFacts
  <2>2. closing' \in [Feeders -> Bar \cup {NoBar}] /\ closedTimes' \subseteq Time
    BY <2>1, <1>16 DEF IInv, TypeOK
  <2> QED BY <2>2, <1>12, <1>13 DEF TypeOK
<1>18. InSync'
  <2>1. \A i \in 1..n : times'[i] = bars'[i].time
    BY <1>7, <1>12, <1>13
  <2>2. \A i, j \in 1..n : i < j => times'[i] < times'[j]
    <3> SUFFICES ASSUME NEW i \in 1..n, NEW j \in 1..n, i < j PROVE times'[i] < times'[j]
      OBVIOUS
    <3>1. i + d < j + d /\ i + d \in 1..(Len(bars) + 1) /\ j + d \in 1..(Len(bars) + 1)
      BY <1>12, <1>14
    <3> QED BY <3>1, <1>8, <1>13
  <2> QED BY <2>1, <2>2, <1>12, <1>13 DEF InSync, Ascending
<1>19. ClosedBelowLast'
  <2>1. ASSUME NEW t \in closedTimes' PROVE t < bar.time
    <3>1. CASE t \in closedTimes
      <4>1. t < times[Len(times)] /\ Len(bars) > 0 /\ t \in Nat
        BY <3>1, ArrayFacts, TimeAssumption DEF IInv, ClosedBelowLast, TypeOK
      <4>2. times[Len(bars)] < bar.time /\ times[Len(bars)] \in Nat
        BY <4>1, <1>2, ArrayFacts
      <4> QED BY <4>1, <4>2, <1>1, ArrayFacts
    <3>2. CASE t \notin closedTimes
      <4>1. Len(bars) > 0 /\ t = bars[Len(bars)].time
        BY <3>2, <2>1, <1>16
      <4>2. Len(bars) \in 1..Len(bars) /\ t = times[Len(bars)]
        BY <4>1, ArrayFacts
      <4> QED BY <4>1, <4>2, <1>1, <1>2, ArrayFacts
    <3> QED BY <3>1, <3>2
  <2> QED BY <2>1, <1>13, <1>15 DEF ClosedBelowLast
<1> QED BY <1>17, <1>18, <1>19 DEF IInv

(* The callback touches nothing but what the feeder owed. *)
LEMMA FireCloseIInv ==
  ASSUME IInv, NEW f \in Feeders, FireClose(f)
  PROVE  IInv'
<1>1. TypeOK'
  BY DEF IInv, TypeOK, FireClose
<1>2. InSync' /\ ClosedBelowLast'
  BY DEF IInv, FireClose, InSync, ClosedBelowLast
<1> QED BY <1>1, <1>2 DEF IInv

LEMMA NextIInv == IInv /\ [Next]_vars => IInv'
<1> SUFFICES ASSUME IInv, [Next]_vars PROVE IInv'
  OBVIOUS
<1>1. CASE Seed
  BY <1>1, SeedIInv
<1>2. ASSUME NEW f \in Feeders, FireClose(f) PROVE IInv'
  BY <1>2, FireCloseIInv
<1>3. ASSUME NEW f \in Feeders, NEW bar \in Bar, Update(f, bar) PROVE IInv'
  BY <1>3, UpdateTickIInv, UpdateLateIInv, UpdateAppendIInv DEF Update
<1>4. CASE UNCHANGED vars
  BY <1>4 DEF vars, IInv, TypeOK, InSync, ClosedBelowLast
<1> QED BY <1>1, <1>2, <1>3, <1>4 DEF Next

(* In every reachable state of the store the arrays are typed, in step and *)
(* ascending, and what has closed is older than the newest bar.            *)
THEOREM SpecIInv == Spec => []IInv
<1> QED BY InitIInv, NextIInv, PTL DEF Spec

(* The store's arrays always hold bars and times. *)
THEOREM SpecTypeOK == Spec => []TypeOK
<1>1. IInv => TypeOK
  BY DEF IInv
<1> QED BY <1>1, SpecIInv, PTL

(* The bisect mirror is always in sync with the bars and sorted.           *)
THEOREM SpecInSync == Spec => []InSync
<1>1. IInv => InSync
  BY DEF IInv
<1> QED BY <1>1, SpecIInv, PTL

-----------------------------------------------------------------------------
(* The slice history_page() cuts, element by element. *)
LEMMA HistoryPageProperties ==
  ASSUME IInv, NEW before \in Time, NEW count \in Sizes,
         NEW idx, idx = BisectLeft(times, before),
         NEW start, start = IF idx - count > 0 THEN idx - count ELSE 0
  PROVE  /\ idx \in 0..Len(bars)
         /\ \A j \in 1..idx : times[j] < before
         /\ \A j \in (idx + 1)..Len(bars) : times[j] >= before
         /\ start \in 0..idx
         /\ HistoryPage(before, count) \in Seq(Bar)
         /\ Len(HistoryPage(before, count)) = idx - start
         /\ \A k \in 1..(idx - start) : HistoryPage(before, count)[k] = bars[start + k]
<1>1. before \in Nat /\ count \in Nat \ {0}
  BY TimeAssumption, SizesAssumption
<1>2. /\ idx \in 0..Len(bars)
      /\ \A j \in 1..idx : times[j] < before
      /\ \A j \in (idx + 1)..Len(bars) : times[j] >= before
  BY <1>1, ArrayFacts, BisectLeftProperties DEF IInv, InSync
<1>3. start \in 0..idx /\ start \in Int /\ idx \in Int
  BY <1>1, <1>2
<1>4. HistoryPage(before, count) = SubSeq(bars, start + 1, idx)
  BY DEF HistoryPage
<1>5. \A k \in (start + 1)..idx : bars[k] \in Bar
  BY <1>2, <1>3, ArrayFacts
<1>6. PICK page : page = SubSeq(bars, start + 1, idx)
  OBVIOUS
<1>7. /\ page \in Seq(Bar)
      /\ Len(page) = IF start + 1 <= idx THEN (idx - (start + 1)) + 1 ELSE 0
      /\ \A k \in 1..((idx - (start + 1)) + 1) : page[k] = bars[((start + 1) + k) - 1]
  <2>1. PICK m : m = start + 1
    OBVIOUS
  <2>2. m \in Int /\ idx \in Int /\ \A k \in m..idx : bars[k] \in Bar
    BY <2>1, <1>3, <1>5
  <2>3. /\ SubSeq(bars, m, idx) \in Seq(Bar)
        /\ Len(SubSeq(bars, m, idx)) = IF m <= idx THEN (idx - m) + 1 ELSE 0
        /\ \A k \in 1..((idx - m) + 1) : SubSeq(bars, m, idx)[k] = bars[(m + k) - 1]
    BY <2>2, SubSeqProperties
  <2> QED BY <1>6, <2>1, <2>3
<1>8. Len(page) = idx - start
  BY <1>3, <1>7
<1>9. ASSUME NEW k \in 1..(idx - start) PROVE page[k] = bars[start + k]
  <2>1. k \in 1..((idx - (start + 1)) + 1) /\ ((start + 1) + k) - 1 = start + k
    BY <1>3
  <2> QED BY <2>1, <1>7
<1>10. HistoryPage(before, count) = page
  BY <1>4, <1>6
<1>11. page \in Seq(Bar)
  BY <1>7
<1> QED BY <1>2, <1>3, <1>8, <1>9, <1>10, <1>11

(* Paging backwards skips no bar and never stops early.                    *)
THEOREM SpecPagesAreContiguous == Spec => []PagesAreContiguous
<1>1. ASSUME IInv, NEW before \in Time, NEW count \in Sizes
      PROVE  LET page  == HistoryPage(before, count)
                 older == {i \in 1..Len(bars) : bars[i].time < before}
             IN  /\ \A k \in 1..Len(page) : page[k].time < before
                 /\ older # {} => page # << >>
                 /\ \A i \in older :
                      \/ \E k \in 1..Len(page) : page[k] = bars[i]
                      \/ Len(page) = count /\ bars[i].time < page[1].time
  <2>1. PICK idx : idx = BisectLeft(times, before)
    OBVIOUS
  <2>2. PICK start : start = IF idx - count > 0 THEN idx - count ELSE 0
    OBVIOUS
  <2>3. PICK page : page = HistoryPage(before, count)
    OBVIOUS
  <2>4. before \in Nat /\ count \in Nat \ {0}
    BY TimeAssumption, SizesAssumption
  <2>5. /\ idx \in 0..Len(bars)
        /\ \A j \in 1..idx : times[j] < before
        /\ \A j \in (idx + 1)..Len(bars) : times[j] >= before
        /\ start \in 0..idx
        /\ page \in Seq(Bar) /\ Len(page) = idx - start
        /\ \A k \in 1..(idx - start) : page[k] = bars[start + k]
    BY <1>1, <2>1, <2>2, <2>3, HistoryPageProperties
  <2>6. ASSUME NEW k \in 1..Len(page) PROVE page[k].time < before
    <3>1. k \in 1..(idx - start) /\ start + k \in 1..idx /\ start + k \in 1..Len(bars)
      BY <2>5, <1>1, ArrayFacts
    <3> QED BY <3>1, <2>5, <1>1, ArrayFacts
  <2>7. ASSUME NEW i \in 1..Len(bars), bars[i].time < before
        PROVE  /\ page # << >>
               /\ \/ \E k \in 1..Len(page) : page[k] = bars[i]
                  \/ Len(page) = count /\ bars[i].time < page[1].time
    <3>1. i \in 1..idx
      <4>1. times[i] < before /\ times[i] \in Nat
        BY <2>7, <1>1, ArrayFacts
      <4>2. ~ (i \in (idx + 1)..Len(bars))
        BY <4>1, <2>4, <2>5
      <4> QED BY <4>2, <2>5, <1>1, ArrayFacts
    <3>2. start < idx
      BY <3>1, <2>2, <2>4, <2>5
    <3>3. page # << >>
      BY <3>2, <2>5, EmptySeq
    <3>4. CASE i > start
      <4>1. i - start \in 1..(idx - start) /\ start + (i - start) = i
        BY <3>1, <3>4, <2>5
      <4> QED BY <4>1, <3>3, <2>5
    <3>5. CASE i <= start
      <4>1. Len(page) = count
        BY <3>1, <3>5, <2>2, <2>4, <2>5
      <4>2. page[1] = bars[start + 1] /\ start + 1 \in 1..Len(bars)
        BY <3>2, <2>5, <1>1, ArrayFacts
      <4>3. times[i] < times[start + 1]
        BY <4>2, <3>5, <1>1, <2>5, <3>1, ArrayFacts
      <4> QED BY <4>1, <4>2, <4>3, <3>3, <1>1, ArrayFacts
    <3> QED BY <3>1, <3>4, <3>5, <2>5
  <2> QED BY <2>3, <2>6, <2>7
<1>2. IInv => PagesAreContiguous
  BY <1>1 DEF PagesAreContiguous
<1> QED BY <1>2, SpecIInv, PTL

(* No time closes twice between two seeds.                                 *)
THEOREM SpecCloseOnce == Spec => CloseOnce
<1>1. ASSUME IInv, [Next]_vars, NEW f \in Feeders,
             closing[f] = NoBar, closing'[f] # NoBar
      PROVE  closing'[f].time \notin closedTimes
  <2>1. PICK g \in Feeders, bar \in Bar : UpdateAppend(g, bar) /\ bars # << >>
    BY <1>1 DEF Next, vars, Seed, FireClose, Update, UpdateTick, UpdateLate,
                UpdateAppend, IInv, TypeOK
  <2>2. closing'[f] = bars[Len(bars)]
    BY <1>1, <2>1, ArrayFacts DEF UpdateAppend, Last, IInv, TypeOK
  <2>3. Len(bars) \in 1..Len(bars) /\ closing'[f].time = times[Len(times)]
    BY <1>1, <2>1, <2>2, ArrayFacts
  <2>4. ASSUME times[Len(times)] \in closedTimes PROVE FALSE
    BY <1>1, <2>3, <2>4, ArrayFacts DEF IInv, ClosedBelowLast
  <2> QED BY <2>3, <2>4
<1>2. IInv /\ [Next]_vars =>
        [\A f \in Feeders : closing[f] = NoBar /\ closing'[f] # NoBar
                              => closing'[f].time \notin closedTimes]_vars
  BY <1>1
<1> QED BY <1>2, SpecIInv, PTL DEF Spec, CloseOnce

-----------------------------------------------------------------------------
(* The refinement: sorted arrays stand for a map from times to revisions.  *)

Sorted(s) == \A i, j \in 1..Len(s) : i < j => s[i].time < s[j].time

MapOf(s) ==
  [t \in {s[i].time : i \in DOMAIN s} |-> s[CHOOSE i \in DOMAIN s : s[i].time = t].rev]

LEMMA MapProperties ==
  ASSUME NEW s \in Seq(Bar), Sorted(s)
  PROVE  /\ DOMAIN s = 1..Len(s) /\ Len(s) \in Nat
         /\ \A i \in 1..Len(s) : s[i] \in Bar /\ s[i].time \in Time /\ s[i].time \in Nat
         /\ \A i, j \in 1..Len(s) : s[i].time = s[j].time => i = j
         /\ DOMAIN MapOf(s) = {s[i].time : i \in 1..Len(s)}
         /\ \A i \in 1..Len(s) : MapOf(s)[s[i].time] = s[i].rev
<1>1. DOMAIN s = 1..Len(s) /\ Len(s) \in Nat
  BY LenProperties
<1>2. \A i \in 1..Len(s) : s[i] \in Bar
  BY ElementOfSeq
<1>3. \A i \in 1..Len(s) : s[i].time \in Time /\ s[i].time \in Nat
  BY <1>2, TimeAssumption DEF Bar
<1>4. \A i, j \in 1..Len(s) : s[i].time = s[j].time => i = j
  BY <1>1, <1>3 DEF Sorted
<1>5. DOMAIN MapOf(s) = {s[i].time : i \in 1..Len(s)}
  BY <1>1 DEF MapOf
<1>6. ASSUME NEW i \in 1..Len(s)
      PROVE  MapOf(s)[s[i].time] = s[i].rev
  <2>1. MapOf(s)[s[i].time] = s[CHOOSE j \in DOMAIN s : s[j].time = s[i].time].rev
    BY <1>1 DEF MapOf
  <2>2. (CHOOSE j \in DOMAIN s : s[j].time = s[i].time) = i
    BY <1>1, <1>4
  <2> QED BY <2>1, <2>2
<1> QED BY <1>1, <1>2, <1>3, <1>4, <1>5, <1>6

(* Putting a bar on its time, or into its place, is a write of the map.    *)
LEMMA MapWith ==
  ASSUME NEW s \in Seq(Bar), Sorted(s), NEW u \in Seq(Bar), Sorted(u), NEW bar \in Bar,
         \E k \in 1..Len(u) : u[k] = bar,
         \A k \in 1..Len(u) : u[k] = bar \/ \E i \in 1..Len(s) : u[k] = s[i],
         \A i \in 1..Len(s) : s[i].time = bar.time \/ \E k \in 1..Len(u) : u[k] = s[i]
  PROVE  MapOf(u) = Abstract!With(MapOf(s), bar.time, bar.rev)
<1>1. /\ DOMAIN MapOf(s) = {s[i].time : i \in 1..Len(s)}
      /\ \A i \in 1..Len(s) : MapOf(s)[s[i].time] = s[i].rev
  BY MapProperties
<1>2. /\ DOMAIN MapOf(u) = {u[k].time : k \in 1..Len(u)}
      /\ \A k \in 1..Len(u) : MapOf(u)[u[k].time] = u[k].rev
      /\ \A k, l \in 1..Len(u) : u[k].time = u[l].time => k = l
  BY MapProperties
<1> DEFINE w == Abstract!With(MapOf(s), bar.time, bar.rev)
<1>3. /\ DOMAIN w = DOMAIN MapOf(s) \cup {bar.time}
      /\ \A t \in DOMAIN w : w[t] = IF t = bar.time THEN bar.rev ELSE MapOf(s)[t]
  BY DEF Abstract!With
<1>4. DOMAIN MapOf(u) = DOMAIN w
  <2>1. \A t \in DOMAIN MapOf(u) : t \in DOMAIN MapOf(s) \/ t = bar.time
    BY <1>1, <1>2
  <2>2. bar.time \in DOMAIN MapOf(u)
    BY <1>2
  <2>3. \A t \in DOMAIN MapOf(s) : t \in DOMAIN MapOf(u)
    <3>1. \A i \in 1..Len(s) : s[i].time \in DOMAIN MapOf(u)
      BY <1>2, <2>2
    <3> QED BY <1>1, <3>1
  <2> HIDE DEF w
  <2> QED BY <1>3, <2>1, <2>2, <2>3
<1>5. ASSUME NEW t \in DOMAIN MapOf(u)
      PROVE  MapOf(u)[t] = w[t]
  <2>1. PICK k \in 1..Len(u) : u[k].time = t
    BY <1>2
  <2>2. MapOf(u)[t] = u[k].rev
    BY <1>2, <2>1
  <2>3. CASE t = bar.time
    <3>1. u[k] = bar
      BY <1>2, <2>1, <2>3
    <3> QED BY <1>3, <1>4, <2>2, <2>3, <3>1
  <2>4. CASE t # bar.time
    <3>1. PICK i \in 1..Len(s) : u[k] = s[i]
      BY <2>1, <2>4
    <3>2. MapOf(s)[t] = s[i].rev
      BY <1>1, <2>1, <3>1
    <3> QED BY <1>3, <1>4, <2>2, <2>4, <3>1, <3>2
  <2> QED BY <2>3, <2>4
<1>6. MapOf(u) = [t \in DOMAIN MapOf(u) |-> MapOf(u)[t]] /\ w = [t \in DOMAIN w |-> w[t]]
  BY DEF MapOf, Abstract!With
<1> HIDE DEF w
<1>7. MapOf(u) = w
  BY <1>4, <1>5, <1>6
<1> QED BY <1>7 DEF w

LEMMA SameCardinality == \A S : Abstract!Cardinality(S) = Cardinality(S)
BY DEF Abstract!Cardinality, Cardinality, Abstract!IsFiniteSet, IsFiniteSet

(* Evicting is keeping the newest MaxBars times of the map.                *)
LEMMA MapEvict ==
  ASSUME NEW s \in Seq(Bar), Sorted(s)
  PROVE  /\ Sorted(Evict(s))
         /\ MapOf(Evict(s)) = Abstract!Keep(MapOf(s), Abstract!Newest(MapOf(s), MaxBars))
<1> DEFINE n == Len(s)
           d == Drop(s)
           e == Evict(s)
           N == Abstract!Newest(MapOf(s), MaxBars)
           w == Abstract!Keep(MapOf(s), N)
<1>1. /\ n \in Nat /\ \A i \in 1..n : s[i].time \in Nat
      /\ \A i, j \in 1..n : s[i].time = s[j].time => i = j
      /\ DOMAIN MapOf(s) = {s[i].time : i \in 1..n}
      /\ \A i \in 1..n : MapOf(s)[s[i].time] = s[i].rev
  BY MapProperties
<1>2. /\ d \in Nat /\ e \in Seq(Bar) /\ Len(e) = n - d
      /\ \A i \in 1..(n - d) : e[i] = s[i + d] /\ i + d \in 1..n
  BY EvictProperties
<1>3. MaxBars \in Nat \ {0} /\ d = IF n > MaxBars THEN n - MaxBars ELSE 0
  BY MaxBarsAssumption DEF Drop
<1>4. ASSUME NEW i \in 1..n
      PROVE  s[i].time \in N <=> i > d
  <2> DEFINE U == {u \in DOMAIN MapOf(s) : u > s[i].time}
             g == [j \in (i + 1)..n |-> s[j].time]
  <2>1. \A j \in 1..n : s[j].time > s[i].time <=> j > i
    BY <1>1 DEF Sorted
  <2>2. U = {s[j].time : j \in (i + 1)..n}
    BY <1>1, <2>1
  <2>3. g \in Bijection((i + 1)..n, U)
    <3>1. \A j \in (i + 1)..n : j \in 1..n /\ s[j].time \in U
      BY <1>1, <2>2
    <3>2. \A t \in U : \E j \in (i + 1)..n : t = s[j].time
      BY <2>2
    <3> HIDE DEF n, U
    <3>3. g \in [(i + 1)..n -> U]
      BY <3>1
    <3>4. \A j, k \in (i + 1)..n : g[j] = g[k] => j = k
      BY <1>1, <3>1
    <3>5. \A t \in U : \E j \in (i + 1)..n : g[j] = t
      BY <3>2
    <3>6. DOMAIN g = (i + 1)..n
      OBVIOUS
    <3> HIDE DEF g
    <3> QED BY <3>3, <3>4, <3>5, <3>6 DEF Bijection, Injection, Surjection, IsInjective
  <2>4. ExistsBijection((i + 1)..n, U)
    BY <2>3 DEF ExistsBijection
  <2>5. /\ IsFiniteSet((i + 1)..n)
        /\ Cardinality((i + 1)..n) = IF i + 1 > n THEN 0 ELSE n - (i + 1) + 1
    <3>1. i + 1 \in Int /\ n \in Int
      BY <1>1
    <3> QED BY ONLY <3>1, FS_Interval
  <2>6. Cardinality(U) = n - i
    <3> HIDE DEF U
    <3>1. Cardinality(U) = Cardinality((i + 1)..n)
      BY <2>4, <2>5, FS_Bijection
    <3> QED BY <1>1, <2>5, <3>1
  <2>7. s[i].time \in N <=> Cardinality(U) < MaxBars
    <3>1. s[i].time \in DOMAIN MapOf(s)
      BY <1>1
    <3> QED BY <3>1, SameCardinality DEF Abstract!Newest
  <2> QED BY <1>1, <1>3, <2>6, <2>7
<1>5. Sorted(e)
  <2> HIDE DEF n, d, e
  <2>1. ASSUME NEW i \in 1..Len(e), NEW j \in 1..Len(e), i < j
        PROVE  e[i].time < e[j].time
    <3>1. /\ i + d \in 1..n /\ j + d \in 1..n /\ i + d < j + d
          /\ e[i] = s[i + d] /\ e[j] = s[j + d]
      BY <1>1, <1>2, <2>1
    <3>2. s[i + d].time < s[j + d].time
      BY <3>1 DEF Sorted, n
    <3> QED BY <3>1, <3>2
  <2> QED BY <2>1 DEF Sorted
<1>6. /\ DOMAIN MapOf(e) = {e[i].time : i \in 1..(n - d)}
      /\ \A i \in 1..(n - d) : MapOf(e)[e[i].time] = e[i].rev
  <2>1. /\ DOMAIN MapOf(Evict(s)) = {Evict(s)[i].time : i \in 1..Len(Evict(s))}
        /\ \A i \in 1..Len(Evict(s)) : MapOf(Evict(s))[Evict(s)[i].time] = Evict(s)[i].rev
    BY <1>2, <1>5, MapProperties
  <2> QED BY <1>2, <2>1
<1>7. N \subseteq DOMAIN MapOf(s)
  BY DEF Abstract!Newest
<1>8. DOMAIN w = N /\ \A t \in N : w[t] = MapOf(s)[t]
  BY DEF Abstract!Keep
<1>9. MapOf(e) = [t \in DOMAIN MapOf(e) |-> MapOf(e)[t]] /\ w = [t \in DOMAIN w |-> w[t]]
  BY DEF MapOf, Abstract!Keep
<1> HIDE DEF n, d, e, N, w
<1>10. DOMAIN MapOf(e) = N
  <2>1. ASSUME NEW t \in N PROVE t \in DOMAIN MapOf(e)
    <3>1. PICK i \in 1..n : t = s[i].time
      BY <1>1, <1>7
    <3>2. i - d \in 1..(n - d) /\ (i - d) + d = i
      BY <1>1, <1>2, <1>4, <3>1
    <3>3. e[i - d] = s[i]
      BY <1>2, <3>2
    <3> QED BY <1>6, <3>1, <3>2, <3>3
  <2>2. ASSUME NEW t \in DOMAIN MapOf(e) PROVE t \in N
    <3>1. PICK i \in 1..(n - d) : t = e[i].time
      BY <1>6
    <3>2. i + d \in 1..n /\ t = s[i + d].time /\ i + d > d
      BY <1>1, <1>2, <3>1
    <3> QED BY <1>4, <3>2
  <2> QED BY <2>1, <2>2
<1>11. ASSUME NEW t \in N PROVE MapOf(e)[t] = w[t]
  <2>1. PICK i \in 1..(n - d) : t = e[i].time
    BY <1>6, <1>10
  <2>2. i + d \in 1..n /\ e[i] = s[i + d]
    BY <1>2
  <2>3. MapOf(e)[t] = e[i].rev /\ MapOf(s)[t] = s[i + d].rev
    BY <1>1, <1>6, <2>1, <2>2
  <2> QED BY <1>8, <2>2, <2>3
<1>12. MapOf(e) = w
  BY <1>8, <1>9, <1>10, <1>11
<1> QED BY <1>5, <1>12 DEF e, w, N

LEMMA HeldIsMap == heldBars = MapOf(bars) /\ heldBars' = MapOf(bars')
BY DEF heldBars, MapOf

LEMMA HeldTimes ==
  ASSUME bars \in Seq(Bar)
  PROVE  \A t : t \in DOMAIN heldBars <=> \E i \in 1..Len(bars) : t = bars[i].time
<1>1. DOMAIN bars = 1..Len(bars)
  BY LenProperties
<1> QED BY <1>1 DEF heldBars

LEMMA BarsSorted ==
  ASSUME IInv
  PROVE  bars \in Seq(Bar) /\ Sorted(bars)
<1>1. /\ bars \in Seq(Bar)
      /\ \A i \in 1..Len(bars) : times[i] = bars[i].time
      /\ \A i, j \in 1..Len(bars) : i < j => times[i] < times[j]
  BY ArrayFacts
<1> QED BY <1>1 DEF Sorted

LEMMA BarsSortedNext ==
  ASSUME IInv'
  PROVE  bars' \in Seq(Bar) /\ Sorted(bars')
<1>1. bars' \in Seq(Bar) /\ times' \in Seq(Time)
  BY DEF IInv, TypeOK
<1>2. /\ Len(times') = Len(bars') /\ DOMAIN times' = 1..Len(bars')
      /\ \A i \in 1..Len(bars') : times'[i] = bars'[i].time
      /\ \A i, j \in 1..Len(bars') : i < j => times'[i] < times'[j]
  BY <1>1, LenProperties DEF IInv, InSync, Ascending
<1> QED BY <1>1, <1>2 DEF Sorted

LEMMA InitRefines == Init => Abstract!Init
<1> SUFFICES ASSUME Init PROVE heldBars = << >>
  BY DEF Abstract!Init
<1>1. bars = << >>
  BY DEF Init
<1>2. {bars[i].time : i \in DOMAIN bars} = {}
  BY <1>1
<1>3. heldBars \in [{} -> Nat]
  BY <1>2 DEF heldBars
<1>4. << >> \in [{} -> Nat]
  <2>1. << >> \in Seq(Nat) /\ Len(<< >>) = 0 /\ 1..0 = {}
    BY EmptySeq
  <2>2. PICK n \in Nat : << >> \in [1..n -> Nat]
    BY ONLY <2>1, SeqDef
  <2>3. 1..n = {}
    BY <2>1, <2>2
  <2> QED BY <2>2, <2>3
<1> QED BY <1>3, <1>4

(* A list that seed() sorts and thins out is the map of the list.          *)
LEMMA SeedRefines == IInv /\ Seed => \E batch \in Batches : Abstract!Load(batch)
<1> SUFFICES ASSUME NEW batch \in Batches, NEW n \in 0..Len(batch),
                    NEW s \in [1..n -> {batch[i] : i \in DOMAIN batch}],
                    IsSeedOf(s, batch), bars' = Evict(s)
             PROVE  Abstract!Load(batch)
  BY DEF Seed
<1>1. /\ DOMAIN batch = 1..Len(batch) /\ Len(batch) \in Nat
      /\ \A i \in DOMAIN batch : batch[i] \in Bar
  BY BatchesAssumption, LenProperties, ElementOfSeq
<1>2. s \in Seq(Bar) /\ Len(s) = n /\ DOMAIN s = 1..n
  BY <1>1
<1>3. Sorted(s)
  BY <1>2 DEF IsSeedOf, Ascending, TimesOf, Sorted
<1>4. /\ DOMAIN MapOf(s) = {s[i].time : i \in 1..n}
      /\ \A i \in 1..n : MapOf(s)[s[i].time] = s[i].rev
  BY <1>2, <1>3, MapProperties
<1> DEFINE m == Abstract!AsMap(batch)
           at(t) == {i \in DOMAIN batch : batch[i].time = t}
<1>5. /\ DOMAIN m = {batch[i].time : i \in DOMAIN batch}
      /\ \A t \in DOMAIN m : m[t] = batch[CHOOSE i \in at(t) : \A j \in at(t) : j <= i].rev
  BY DEF Abstract!AsMap
<1>6. DOMAIN MapOf(s) = DOMAIN m
  BY <1>2, <1>4, <1>5 DEF IsSeedOf
<1>7. ASSUME NEW t \in DOMAIN m
      PROVE  MapOf(s)[t] = m[t]
  <2>1. PICK i \in 1..n : s[i].time = t
    BY <1>4, <1>6
  <2>2. PICK j \in DOMAIN batch :
          /\ s[i] = batch[j]
          /\ \A k \in DOMAIN batch : k > j => batch[k].time # batch[j].time
    BY <1>2, <2>1 DEF IsSeedOf
  <2>3. j \in at(t) /\ \A k \in at(t) : k <= j
    BY <1>1, <2>1, <2>2
  <2>4. at(t) \subseteq Nat
    BY <1>1
  <2>5. (CHOOSE k \in at(t) : \A l \in at(t) : l <= k) = j
    <3> HIDE DEF at
    <3>1. \A k \in at(t) : (\A l \in at(t) : l <= k) => k = j
      BY <2>3, <2>4
    <3> QED BY <2>3, <3>1
  <2>6. m[t] = batch[j].rev
    BY <1>5, <2>5
  <2> QED BY <1>4, <2>1, <2>2, <2>6
<1>8. MapOf(s) = [t \in DOMAIN MapOf(s) |-> MapOf(s)[t]] /\ m = [t \in DOMAIN m |-> m[t]]
  BY DEF MapOf, Abstract!AsMap
<1> HIDE DEF m
<1>9. MapOf(s) = m
  BY <1>6, <1>7, <1>8
<1>10. MapOf(bars') = Abstract!Keep(m, Abstract!Newest(m, MaxBars))
  BY <1>2, <1>3, <1>9, MapEvict
<1> QED BY <1>10, HeldIsMap DEF Abstract!Load, m

LEMMA TickRefines ==
  ASSUME IInv, IInv', NEW f \in Feeders, NEW bar \in Bar, UpdateTick(f, bar)
  PROVE  Abstract!Amend(bar.time, bar.rev)
<1>1. /\ Len(bars) > 0 /\ bar.time = times[Len(bars)]
      /\ bars' = [bars EXCEPT ![Len(bars)] = bar]
  BY ArrayFacts DEF UpdateTick, Last
<1>2. Len(bars) \in 1..Len(bars) /\ times[Len(bars)] = bars[Len(bars)].time /\ bar.time \in Nat
  BY <1>1, ArrayFacts
<1>3. /\ Len(bars') = Len(bars)
      /\ \A j \in 1..Len(bars) : bars'[j] = IF j = Len(bars) THEN bar ELSE bars[j]
  BY <1>1, <1>2, ArrayFacts, ExceptSeq
<1>4. MapOf(bars') = Abstract!With(MapOf(bars), bar.time, bar.rev)
  <2>1. \E k \in 1..Len(bars') : bars'[k] = bar
    BY <1>2, <1>3
  <2>2. \A k \in 1..Len(bars') : bars'[k] = bar \/ \E i \in 1..Len(bars) : bars'[k] = bars[i]
    BY <1>3
  <2>3. \A i \in 1..Len(bars) : bars[i].time = bar.time \/ \E k \in 1..Len(bars') : bars'[k] = bars[i]
    BY <1>1, <1>2, <1>3
  <2> QED BY <2>1, <2>2, <2>3, BarsSorted, BarsSortedNext, MapWith
<1>5. \E u \in DOMAIN heldBars : bar.time <= u
  <2>1. bar.time \in DOMAIN heldBars
    BY <1>1, <1>2, HeldTimes, BarsSorted
  <2> QED BY <1>2, <2>1
<1> QED BY <1>4, <1>5, HeldIsMap DEF Abstract!Amend

LEMMA LateRefines ==
  ASSUME IInv, IInv', NEW f \in Feeders, NEW bar \in Bar, UpdateLate(f, bar)
  PROVE  Abstract!Amend(bar.time, bar.rev)
<1>1. PICK idx : idx = BisectLeft(times, bar.time)
  OBVIOUS
<1>2. bar.time \in Time /\ bar.time \in Nat
  BY TimeAssumption DEF Bar
<1>3. /\ Len(bars) > 0 /\ bar.time < times[Len(bars)]
      /\ IF idx < Len(times) /\ times[idx + 1] = bar.time
         THEN bars' = [bars EXCEPT ![idx + 1] = bar]
         ELSE bars' = InsertAt(bars, idx + 1, bar)
  BY <1>1, ArrayFacts DEF UpdateLate, Last
<1>4. idx \in 0..Len(bars)
  BY <1>1, <1>2, ArrayFacts, BisectLeftProperties DEF IInv, InSync
<1>5. /\ Len(bars) \in Nat /\ Len(times) = Len(bars)
      /\ \A i \in 1..Len(bars) : times[i] = bars[i].time
  BY ArrayFacts
<1>6. /\ \E k \in 1..Len(bars') : bars'[k] = bar
      /\ \A k \in 1..Len(bars') : bars'[k] = bar \/ \E i \in 1..Len(bars) : bars'[k] = bars[i]
      /\ \A i \in 1..Len(bars) : bars[i].time = bar.time
                                   \/ \E k \in 1..Len(bars') : bars'[k] = bars[i]
  <2>1. CASE idx < Len(times) /\ times[idx + 1] = bar.time
    <3>1. idx + 1 \in 1..Len(bars) /\ bars[idx + 1].time = bar.time
      BY <1>4, <1>5, <2>1
    <3>2. /\ Len(bars') = Len(bars)
          /\ \A j \in 1..Len(bars) : bars'[j] = IF j = idx + 1 THEN bar ELSE bars[j]
      BY <1>3, <2>1, <3>1, BarsSorted, ExceptSeq
    <3> QED BY <3>1, <3>2
  <2>2. CASE ~ (idx < Len(times) /\ times[idx + 1] = bar.time)
    <3>1. idx + 1 \in 1..(Len(bars) + 1) /\ bars \in Seq(Bar)
      BY <1>4, <1>5, BarsSorted
    <3>2. /\ Len(bars') = Len(bars) + 1
          /\ \A k \in 1..(Len(bars) + 1) :
               bars'[k] = IF k < idx + 1 THEN bars[k]
                          ELSE IF k = idx + 1 THEN bar ELSE bars[k - 1]
      <4>1. PICK n, s, w : n = idx + 1 /\ s = bars /\ w = InsertAt(s, n, bar)
        OBVIOUS
      <4>2. n \in 1..(Len(s) + 1) /\ s \in Seq(Bar)
        BY <3>1, <4>1
      <4>3. /\ Len(InsertAt(s, n, bar)) = Len(s) + 1
            /\ \A k \in 1..(Len(s) + 1) :
                 InsertAt(s, n, bar)[k]
                   = IF k < n THEN s[k] ELSE IF k = n THEN bar ELSE s[k - 1]
        BY <4>2, InsertAtProperties
      <4>4. bars' = w
        BY <1>3, <2>2, <4>1
      <4>5. /\ Len(w) = Len(s) + 1
            /\ \A k \in 1..(Len(s) + 1) :
                 w[k] = IF k < n THEN s[k] ELSE IF k = n THEN bar ELSE s[k - 1]
        BY <4>1, <4>3
      <4> QED BY <4>1, <4>4, <4>5
    <3>3. bars'[idx + 1] = bar
      BY <3>1, <3>2
    <3>4. ASSUME NEW k \in 1..Len(bars')
          PROVE  bars'[k] = bar \/ \E i \in 1..Len(bars) : bars'[k] = bars[i]
      <4>1. CASE k < idx + 1
        <5>1. k \in 1..Len(bars) /\ bars'[k] = bars[k]
          BY <1>4, <1>5, <3>2, <4>1
        <5> QED BY <5>1
      <4>2. CASE k = idx + 1
        BY <3>3, <4>2
      <4>3. CASE k > idx + 1
        <5>1. k - 1 \in 1..Len(bars) /\ bars'[k] = bars[k - 1]
          BY <1>4, <1>5, <3>2, <4>3
        <5> QED BY <5>1
      <4> QED BY <1>4, <1>5, <3>2, <4>1, <4>2, <4>3
    <3>5. ASSUME NEW i \in 1..Len(bars)
          PROVE  \E k \in 1..Len(bars') : bars'[k] = bars[i]
      <4>1. CASE i < idx + 1
        <5>1. i \in 1..Len(bars') /\ bars'[i] = bars[i]
          BY <1>4, <1>5, <3>2, <4>1
        <5> QED BY <5>1
      <4>2. CASE i >= idx + 1
        <5>1. i + 1 \in 1..Len(bars') /\ bars'[i + 1] = bars[i]
          BY <1>4, <1>5, <3>2, <4>2
        <5> QED BY <5>1
      <4> QED BY <1>4, <4>1, <4>2
    <3> QED BY <3>1, <3>2, <3>3, <3>4, <3>5
  <2> QED BY <2>1, <2>2
<1>7. MapOf(bars') = Abstract!With(MapOf(bars), bar.time, bar.rev)
  BY <1>6, BarsSorted, BarsSortedNext, MapWith
<1>8. \E u \in DOMAIN heldBars : bar.time <= u
  <2>1. Len(bars) \in 1..Len(bars) /\ bar.time <= bars[Len(bars)].time
    BY <1>2, <1>3, <1>5, ArrayFacts
  <2> QED BY <2>1, HeldTimes, BarsSorted
<1> QED BY <1>7, <1>8, HeldIsMap DEF Abstract!Amend

LEMMA AppendRefines ==
  ASSUME IInv, NEW f \in Feeders, NEW bar \in Bar, UpdateAppend(f, bar)
  PROVE  Abstract!Append1(bar.time, bar.rev)
<1>1. /\ Len(bars) > 0 => bar.time > times[Len(bars)]
      /\ bars' = Evict(Append(bars, bar))
  BY ArrayFacts DEF UpdateAppend, Last
<1>2. bar.time \in Nat
  BY TimeAssumption DEF Bar
<1>3. \A i \in 1..Len(bars) : bars[i].time \in Nat /\ bars[i].time < bar.time
  <2> SUFFICES ASSUME NEW i \in 1..Len(bars)
               PROVE  bars[i].time \in Nat /\ bars[i].time < bar.time
    OBVIOUS
  <2>1. Len(bars) \in 1..Len(bars) /\ times[i] = bars[i].time
    BY ArrayFacts
  <2>2. i = Len(bars) \/ times[i] < times[Len(bars)]
    BY <2>1, ArrayFacts
  <2>3. times[i] \in Nat /\ times[Len(bars)] \in Nat /\ bar.time > times[Len(bars)]
    BY <1>1, <2>1, ArrayFacts
  <2> QED BY <1>2, <2>1, <2>2, <2>3
<1>4. PICK s : s = Append(bars, bar)
  OBVIOUS
<1>5. /\ s \in Seq(Bar) /\ Len(s) = Len(bars) + 1 /\ Len(bars) \in Nat
      /\ \A i \in 1..(Len(bars) + 1) : s[i] = IF i = Len(bars) + 1 THEN bar ELSE bars[i]
  BY <1>4, ArrayFacts
<1>6. Sorted(s)
  <2>1. ASSUME NEW i \in 1..Len(s), NEW j \in 1..Len(s), i < j
        PROVE  s[i].time < s[j].time
    <3>1. i \in 1..Len(bars) /\ s[i] = bars[i]
      BY <1>5, <2>1
    <3>2. CASE j = Len(bars) + 1
      BY <1>3, <1>5, <3>1, <3>2
    <3>3. CASE j # Len(bars) + 1
      <4>1. j \in 1..Len(bars) /\ s[j] = bars[j]
        BY <1>5, <3>3
      <4> QED BY <2>1, <3>1, <4>1, BarsSorted DEF Sorted
    <3> QED BY <3>2, <3>3
  <2> QED BY <2>1 DEF Sorted
<1>7. MapOf(s) = Abstract!With(MapOf(bars), bar.time, bar.rev)
  <2>1. \E k \in 1..Len(s) : s[k] = bar
    BY <1>5
  <2>2. \A k \in 1..Len(s) : s[k] = bar \/ \E i \in 1..Len(bars) : s[k] = bars[i]
    BY <1>5
  <2>3. \A i \in 1..Len(bars) : \E k \in 1..Len(s) : s[k] = bars[i]
    <3> SUFFICES ASSUME NEW i \in 1..Len(bars) PROVE \E k \in 1..Len(s) : s[k] = bars[i]
      OBVIOUS
    <3>1. i \in 1..Len(s) /\ s[i] = bars[i]
      BY <1>5
    <3> QED BY <3>1
  <2> QED BY <1>5, <1>6, <2>1, <2>2, <2>3, BarsSorted, MapWith
<1>8. MapOf(bars') = Abstract!Keep(MapOf(s), Abstract!Newest(MapOf(s), MaxBars))
  BY <1>1, <1>4, <1>5, <1>6, MapEvict
<1>9. \A u \in DOMAIN heldBars : u < bar.time
  BY <1>3, HeldTimes, BarsSorted
<1> QED BY <1>7, <1>8, <1>9, HeldIsMap DEF Abstract!Append1

LEMMA NextRefines == IInv /\ IInv' /\ [Next]_vars => [Abstract!Next]_heldBars
<1> SUFFICES ASSUME IInv, IInv', [Next]_vars PROVE [Abstract!Next]_heldBars
  OBVIOUS
<1>1. CASE Seed
  BY <1>1, SeedRefines DEF Abstract!Next
<1>2. ASSUME NEW f \in Feeders, FireClose(f) PROVE UNCHANGED heldBars
  BY <1>2, HeldIsMap DEF FireClose
<1>3. ASSUME NEW f \in Feeders, NEW bar \in Bar, Update(f, bar) PROVE Abstract!Next
  <2>1. bar.time \in Time /\ bar.rev \in Rev
    BY DEF Bar
  <2>2. Abstract!Amend(bar.time, bar.rev) \/ Abstract!Append1(bar.time, bar.rev)
    BY <1>3, TickRefines, LateRefines, AppendRefines DEF Update
  <2> QED BY <2>1, <2>2 DEF Abstract!Next
<1>4. CASE UNCHANGED vars
  BY <1>4, HeldIsMap DEF vars
<1> QED BY <1>1, <1>2, <1>3, <1>4 DEF Next

(* The two arrays, with their bisect, insert and evict, do what the map of *)
(* TimeSeries promises: last write wins, only a newer bar makes room, and  *)
(* it is the oldest that go (seed, update).                                *)
THEOREM SpecImplementsTimeSeries == Spec => ImplementsTimeSeries
BY InitRefines, NextRefines, SpecIInv, PTL DEF Spec, ImplementsTimeSeries, Abstract!Spec

-----------------------------------------------------------------------------
(* MultiSymbolStore.                                                       *)

(* A thread about to use an object holds the one registered for its pair:  *)
(* the two looks at the registry agree because an entry is never rebound.  *)
UsesTheRegistered ==
  \A t \in Threads : pc[t] = "use" =>
    /\ Key(arg[t]) \in DOMAIN stores
    /\ found[t] = stores[Key(arg[t])]

RegistryFinite == IsFiniteSet(DOMAIN stores) /\ writes \subseteq Threads \X Pairs

RegistryIInv ==
  /\ RegistryTypeOK /\ UsesTheRegistered
  /\ WritesAreFound /\ OneStorePerPair /\ RegistryFinite

LEMMA KeyType == \A pair \in Pairs : Key(pair) \in Pairs
<1> QED BY UpperAssumption DEF Key, Pairs

LEMMA InitRegistryIInv == RegistryInit => RegistryIInv
<1> SUFFICES ASSUME RegistryInit PROVE RegistryIInv
  OBVIOUS
<1>1. DOMAIN stores = {} /\ DOMAIN contents = {}
  BY DEF RegistryInit
<1>2. IsFiniteSet(DOMAIN stores) /\ Cardinality(DOMAIN stores) = 0
  BY <1>1, FS_EmptySet
<1> QED BY <1>1, <1>2 DEF RegistryInit, RegistryIInv, RegistryTypeOK, UsesTheRegistered,
                          WritesAreFound, OneStorePerPair, RegistryFinite

LEMMA LookupIInv ==
  ASSUME RegistryIInv, NEW t \in Threads, Lookup(t)
  PROVE  RegistryIInv'
<1>1. PICK pair \in Pairs :
        /\ arg' = [arg EXCEPT ![t] = pair]
        /\ \/ /\ Key(pair) \in DOMAIN stores
              /\ found' = [found EXCEPT ![t] = stores[Key(pair)]]
              /\ pc' = [pc EXCEPT ![t] = "use"]
           \/ /\ found' = [found EXCEPT ![t] = NoStore]
              /\ pc' = [pc EXCEPT ![t] = "miss"]
  BY DEF Lookup
<1>2. UNCHANGED <<stores, made, contents, writes>>
  BY DEF Lookup
<1>3. RegistryTypeOK'
  <2>1. Key(pair) \in DOMAIN stores => stores[Key(pair)] \in Nat
    BY DEF RegistryIInv, RegistryTypeOK
  <2> QED BY <1>1, <1>2, <2>1 DEF RegistryIInv, RegistryTypeOK
<1>4. UsesTheRegistered'
  BY <1>1, <1>2 DEF RegistryIInv, RegistryTypeOK, UsesTheRegistered
<1>5. WritesAreFound' /\ OneStorePerPair' /\ RegistryFinite'
  BY <1>2 DEF RegistryIInv, WritesAreFound, OneStorePerPair, RegistryFinite
<1> QED BY <1>3, <1>4, <1>5 DEF RegistryIInv

LEMMA CreateIInv ==
  ASSUME RegistryIInv, NEW t \in Threads, Create(t)
  PROVE  RegistryIInv'
<1> DEFINE k == Key(arg[t])
<1>1. /\ pc' = [pc EXCEPT ![t] = "use"] /\ arg' = arg /\ writes' = writes
      /\ arg[t] \in Pairs /\ k \in Pairs
  BY KeyType DEF Create, RegistryIInv, RegistryTypeOK
<1>2. CASE k \in DOMAIN stores
  <2>1. /\ UNCHANGED <<stores, made, contents>>
        /\ found' = [found EXCEPT ![t] = stores[k]]
    BY <1>2 DEF Create
  <2>2. RegistryTypeOK'
    <3>1. stores[k] \in Nat
      BY <1>2 DEF RegistryIInv, RegistryTypeOK
    <3> QED BY <1>1, <2>1, <3>1 DEF RegistryIInv, RegistryTypeOK
  <2>3. UsesTheRegistered'
    BY <1>1, <1>2, <2>1 DEF RegistryIInv, RegistryTypeOK, UsesTheRegistered
  <2>4. WritesAreFound' /\ OneStorePerPair' /\ RegistryFinite'
    BY <1>1, <2>1 DEF RegistryIInv, WritesAreFound, OneStorePerPair, RegistryFinite
  <2> QED BY <2>2, <2>3, <2>4 DEF RegistryIInv
<1>3. CASE k \notin DOMAIN stores
  <2>1. /\ stores' = [j \in DOMAIN stores \cup {k} |->
                        IF j = k THEN made + 1 ELSE stores[j]]
        /\ made' = made + 1
        /\ contents' = [i \in 1..(made + 1) |->
                          IF i \in DOMAIN contents THEN contents[i] ELSE {}]
        /\ found' = [found EXCEPT ![t] = made + 1]
    BY <1>3 DEF Create
  <2>2. /\ DOMAIN stores' = DOMAIN stores \cup {k}
        /\ stores'[k] = made + 1
        /\ \A j \in DOMAIN stores : stores'[j] = stores[j] /\ stores[j] \in 1..made
        /\ made \in Nat
    BY <1>3, <2>1 DEF RegistryIInv, RegistryTypeOK
  <2>3. RegistryTypeOK'
    <3>1. \A j \in DOMAIN stores' : stores'[j] \in 1..made'
      BY <2>1, <2>2
    <3>2. found' \in [Threads -> Nat \cup {NoStore}]
      BY <2>1, <2>2 DEF RegistryIInv, RegistryTypeOK
    <3> QED BY <1>1, <2>1, <2>2, <3>1, <3>2 DEF RegistryIInv, RegistryTypeOK
  <2>4. UsesTheRegistered'
    <3> SUFFICES ASSUME NEW u \in Threads, pc'[u] = "use"
                 PROVE  Key(arg[u]) \in DOMAIN stores' /\ found'[u] = stores'[Key(arg[u])]
      BY <1>1 DEF UsesTheRegistered, Key
    <3>1. CASE u = t
      BY <3>1, <2>1, <2>2 DEF RegistryIInv, RegistryTypeOK
    <3>2. CASE u # t
      <4>1. pc[u] = "use" /\ found'[u] = found[u]
        BY <3>2, <1>1, <2>1 DEF RegistryIInv, RegistryTypeOK
      <4> QED BY <4>1, <2>2 DEF RegistryIInv, UsesTheRegistered
    <3> QED BY <3>1, <3>2
  <2>5. WritesAreFound'
    <3> SUFFICES ASSUME NEW w \in writes
                 PROVE  /\ Key(w[2]) \in DOMAIN stores'
                        /\ w \in contents'[stores'[Key(w[2])]]
      BY <1>1 DEF WritesAreFound, Key
    <3>1. Key(w[2]) \in DOMAIN stores /\ w \in contents[stores[Key(w[2])]]
      BY DEF RegistryIInv, WritesAreFound
    <3>2. stores[Key(w[2])] \in 1..made /\ DOMAIN contents = 1..made
      BY <3>1 DEF RegistryIInv, RegistryTypeOK
    <3>3. contents'[stores[Key(w[2])]] = contents[stores[Key(w[2])]]
      BY <2>1, <2>2, <3>2
    <3> QED BY <2>2, <3>1, <3>3
  <2>6. OneStorePerPair'
    <3>1. \A i, j \in DOMAIN stores' : stores'[i] = stores'[j] => i = j
      BY <2>2 DEF RegistryIInv, OneStorePerPair
    <3>2. Cardinality(DOMAIN stores \cup {k}) = Cardinality(DOMAIN stores) + 1
      BY <1>3, FS_AddElement DEF RegistryIInv, RegistryFinite
    <3> QED BY <2>1, <2>2, <3>1, <3>2 DEF RegistryIInv, OneStorePerPair
  <2>7. RegistryFinite'
    BY <1>1, <2>2, FS_AddElement DEF RegistryIInv, RegistryFinite
  <2> QED BY <2>3, <2>4, <2>5, <2>6, <2>7 DEF RegistryIInv
<1> QED BY <1>2, <1>3

LEMMA UseIInv ==
  ASSUME RegistryIInv, NEW t \in Threads, Use(t)
  PROVE  RegistryIInv'
<1> DEFINE w == <<t, arg[t]>>
<1>1. /\ pc[t] = "use"
      /\ contents' = [contents EXCEPT ![found[t]] = @ \cup {w}]
      /\ writes' = writes \cup {w}
      /\ pc' = [pc EXCEPT ![t] = "idle"]
      /\ found' = [found EXCEPT ![t] = NoStore]
      /\ UNCHANGED <<stores, made, arg>>
  BY DEF Use
<1>2. /\ Key(arg[t]) \in DOMAIN stores /\ found[t] = stores[Key(arg[t])]
      /\ found[t] \in DOMAIN contents /\ arg[t] \in Pairs
  BY <1>1 DEF RegistryIInv, UsesTheRegistered, RegistryTypeOK
<1>3. RegistryTypeOK'
  BY <1>1, <1>2 DEF RegistryIInv, RegistryTypeOK
<1>4. UsesTheRegistered'
  BY <1>1 DEF RegistryIInv, RegistryTypeOK, UsesTheRegistered
<1>5. WritesAreFound'
  <2> SUFFICES ASSUME NEW v \in writes'
               PROVE  /\ Key(v[2]) \in DOMAIN stores
                      /\ v \in contents'[stores[Key(v[2])]]
    BY <1>1 DEF WritesAreFound, Key
  <2>1. CASE v = w
    BY <2>1, <1>1, <1>2
  <2>2. CASE v \in writes
    <3>1. Key(v[2]) \in DOMAIN stores /\ v \in contents[stores[Key(v[2])]]
      BY <2>2 DEF RegistryIInv, WritesAreFound
    <3>2. stores[Key(v[2])] \in DOMAIN contents
      BY <3>1 DEF RegistryIInv, RegistryTypeOK
    <3> QED BY <3>1, <3>2, <1>1, <1>2
  <2> QED BY <2>1, <2>2, <1>1
<1>6. OneStorePerPair' /\ RegistryFinite'
  BY <1>1, <1>2 DEF RegistryIInv, OneStorePerPair, RegistryFinite
<1> QED BY <1>3, <1>4, <1>5, <1>6 DEF RegistryIInv

LEMMA NextRegistryIInv == RegistryIInv /\ [RegistryNext]_registryVars => RegistryIInv'
<1> SUFFICES ASSUME RegistryIInv, [RegistryNext]_registryVars PROVE RegistryIInv'
  OBVIOUS
<1>1. ASSUME NEW t \in Threads, Lookup(t) \/ Create(t) \/ Use(t) PROVE RegistryIInv'
  BY <1>1, LookupIInv, CreateIInv, UseIInv
<1>2. CASE UNCHANGED registryVars
  BY <1>2 DEF registryVars, RegistryIInv, RegistryTypeOK, UsesTheRegistered, WritesAreFound, OneStorePerPair,
              RegistryFinite, Key
<1> QED BY <1>1, <1>2 DEF RegistryNext

(* The argument that the theorems below rest on: the registry invariant    *)
(* holds in every reachable state.                                         *)
THEOREM SpecRegistryIInv == RegistrySpec => []RegistryIInv
<1> QED BY InitRegistryIInv, NextRegistryIInv, PTL DEF RegistrySpec

(* The registry's types, for any number of threads. *)
THEOREM SpecRegistryTypeOK == RegistrySpec => []RegistryTypeOK
<1>1. RegistryIInv => RegistryTypeOK
  BY DEF RegistryIInv
<1> QED BY <1>1, SpecRegistryIInv, PTL

(* A returned write is always where a reader of the pair looks. *)
THEOREM SpecWritesAreFound == RegistrySpec => []WritesAreFound
<1>1. RegistryIInv => WritesAreFound
  BY DEF RegistryIInv
<1> QED BY <1>1, SpecRegistryIInv, PTL

(* The double-checked locking never makes two stores for a pair. *)
THEOREM SpecOneStorePerPair == RegistrySpec => []OneStorePerPair
<1>1. RegistryIInv => OneStorePerPair
  BY DEF RegistryIInv
<1> QED BY <1>1, SpecRegistryIInv, PTL
=============================================================================
