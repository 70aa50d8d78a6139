----------------------- MODULE IndicatorEngine_proofs -----------------------
(***************************************************************************)
(* Proofs about IndicatorContext, for any number of threads, indicators,   *)
(* listeners and names: what the reference count is, and who has attached  *)
(* a listener has it called.                                               *)
(* Below them, proofs about IndicatorGraph, for any leaves and composites  *)
(* and any order of registering and feeding them: shared leaves are fed a  *)
(* bar once, and composites speak in step.                                 *)
(***************************************************************************)
EXTENDS IndicatorContext, IndicatorGraph, FiniteSetTheorems, SequenceTheorems, TLAPS

AddSteps == [at : {"attach", "add", "added"}, i : 1..made, k : Indicators,
             l : Listeners, seen : Int]

OffSteps == [at : {"find", "drop", "subtract", "subtracted", "check", "pop"},
             i : 1..made, k : Indicators, n : Names \cup {NoListener},
             byKey : BOOLEAN, seen : Int]

(* Who has filed a callback of i and not counted it yet, and who has taken *)
(* one off and not counted that.                                           *)
IsAdding(step, i) == step.at \in {"add", "added"} /\ step.i = i

IsRemoving(step, i) == step.at \in {"subtract", "subtracted"} /\ step.i = i

Adding(i) == {t \in Threads : IsAdding(pc[t], i)}

Removing(i) == {t \in Threads : IsRemoving(pc[t], i)}

(* The count, with what is on its way to it, is that of the callbacks.     *)
Balanced(i) ==
  i \notin torn =>
    reference[i] + Cardinality(Adding(i)) =
      Cardinality(Filed(i)) + again[i] + Cardinality(Removing(i))

(* An instance is only found, and worked on, under its own key.            *)
Keyed ==
  /\ \A k \in Indicators : bucket[k] # 0 => key[bucket[k]] = k
  /\ \A t \in Threads : pc[t] # Idle => key[pc[t].i] = pc[t].k

(* Who is about to attach a listener does so to the registry's instance;   *)
(* who takes one off has found its key.                                    *)
OnItsWay(t) ==
  /\ At(t, "attach") => pc[t].k \in raced \/ bucket[pc[t].k] = pc[t].i
  /\ At(t, "drop") => pc[t].n \in Names

(* A listener that is kept is filed, and nobody is about to take it off.   *)
KeptIsFiled(k, n) ==
  k \notin raced /\ kept[k][n] # NoListener =>
    /\ bucket[k] # 0 /\ callbacks[bucket[k]][n] = kept[k][n]
    /\ ~ Leaving(bucket[k], n)

IInv ==
  /\ TypeOK /\ Keyed
  /\ \A i \in Instances : Balanced(i)
  /\ \A t \in Threads : OnItsWay(t)
  /\ \A k \in Indicators, n \in Names : KeptIsFiled(k, n)

-----------------------------------------------------------------------------
LEMMA PcProperties ==
  ASSUME TypeOK, NEW t \in Threads
  PROVE  /\ pc[t] = Idle <=> At(t, "idle")
         /\ made \in Nat /\ 1..made \subseteq Instances
         /\ pc[t] \in {Idle} \cup AddSteps \cup OffSteps
         /\ pc[t] # Idle => pc[t].i \in 1..made /\ pc[t].k \in Indicators /\ pc[t].seen \in Int
         /\ pc[t].at \in {"attach", "add", "added"} =>
              /\ pc[t] \in AddSteps /\ pc[t].l \in Listeners /\ NameOf[pc[t].l] \in Names
              /\ pc[t].l # NoListener
         /\ pc[t].at \in {"find", "drop", "subtract", "subtracted", "check", "pop"} =>
              pc[t] \in OffSteps /\ pc[t].n \in Names \cup {NoListener} /\ pc[t].byKey \in BOOLEAN
<1>1. made \in 0..MaxCalls /\ made \in Nat /\ 1..made \subseteq Instances
  BY MaxCallsAssumption DEF TypeOK, Instances
<1>2. pc[t] \in {Idle} \cup AddSteps \cup OffSteps
  BY DEF TypeOK, AddSteps, OffSteps
<1>3. CASE pc[t] = Idle
  BY <1>1, <1>3 DEF Idle, At
<1>4. CASE pc[t] \in AddSteps
  <2>1. /\ pc[t].at \in {"attach", "add", "added"} /\ pc[t].i \in 1..made
        /\ pc[t].k \in Indicators /\ pc[t].l \in Listeners /\ pc[t].seen \in Int
    BY <1>4 DEF AddSteps
  <2>2. pc[t] # Idle
    BY <2>1 DEF Idle
  <2> QED BY <1>1, <1>2, <1>4, <2>1, <2>2, NameOfAssumption, NoListenerAssumption DEF At
<1>5. CASE pc[t] \in OffSteps
  <2>1. /\ pc[t].at \in {"find", "drop", "subtract", "subtracted", "check", "pop"}
        /\ pc[t].i \in 1..made /\ pc[t].k \in Indicators /\ pc[t].seen \in Int
        /\ pc[t].n \in Names \cup {NoListener} /\ pc[t].byKey \in BOOLEAN
    BY <1>5 DEF OffSteps
  <2>2. pc[t] # Idle
    BY <2>1 DEF Idle
  <2> QED BY <1>1, <1>2, <1>5, <2>1, <2>2 DEF At
<1> QED BY <1>2, <1>3, <1>4, <1>5

LEMMA StepsFinite ==
  ASSUME NEW i
  PROVE  /\ IsFiniteSet(Adding(i)) /\ Cardinality(Adding(i)) \in Nat
         /\ IsFiniteSet(Removing(i)) /\ Cardinality(Removing(i)) \in Nat
         /\ IsFiniteSet(Filed(i)) /\ Cardinality(Filed(i)) \in Nat
<1>1. Adding(i) \in SUBSET Threads /\ Removing(i) \in SUBSET Threads /\ Filed(i) \in SUBSET Names
  BY DEF Adding, Removing, Filed
<1>2. IsFiniteSet(Adding(i)) /\ IsFiniteSet(Removing(i)) /\ IsFiniteSet(Filed(i))
  BY <1>1, ThreadsAssumption, NamesAssumption, FS_Subset
<1> QED BY <1>2, FS_CardinalityType

One(holds) == IF holds THEN 1 ELSE 0

LEMMA ElementMoves ==
  ASSUME NEW S, IsFiniteSet(S), NEW x, NEW T, NEW b \in BOOLEAN, NEW a \in BOOLEAN,
         a <=> x \in S, T = IF b THEN S \cup {x} ELSE S \ {x}
  PROVE  Cardinality(T) = Cardinality(S) + One(b) - One(a)
<1>1. Cardinality(S) \in Nat
  BY FS_CardinalityType
<1>2. CASE b
  <2>1. Cardinality(T) = IF x \in S THEN Cardinality(S) ELSE Cardinality(S) + 1
    BY <1>2, FS_AddElement
  <2> QED BY <1>1, <1>2, <2>1 DEF One
<1>3. CASE ~ b
  <2>1. Cardinality(T) = IF x \in S THEN Cardinality(S) - 1 ELSE Cardinality(S)
    BY <1>3, FS_RemoveElement
  <2> QED BY <1>1, <1>3, <2>1 DEF One
<1> QED BY <1>2, <1>3

(* A thread that goes from a step to another leaves one set, and joins     *)
(* one.                                                                    *)
LEMMA SetsMove ==
  ASSUME TypeOK, NEW t \in Threads, NEW s, pc' = [pc EXCEPT ![t] = s], NEW i
  PROVE  /\ Cardinality(Adding(i)') =
              Cardinality(Adding(i)) + One(IsAdding(s, i)) - One(IsAdding(pc[t], i))
         /\ Cardinality(Removing(i)') =
              Cardinality(Removing(i)) + One(IsRemoving(s, i)) - One(IsRemoving(pc[t], i))
<1>1. pc'[t] = s /\ \A u \in Threads : u # t => pc'[u] = pc[u]
  BY DEF TypeOK
<1>2. Adding(i)' = IF IsAdding(s, i) THEN Adding(i) \cup {t} ELSE Adding(i) \ {t}
  <2>1. Adding(i)' = {u \in Threads : IsAdding(pc'[u], i)}
    BY DEF Adding, IsAdding
  <2> QED BY <1>1, <2>1 DEF Adding
<1>3. Removing(i)' = IF IsRemoving(s, i) THEN Removing(i) \cup {t} ELSE Removing(i) \ {t}
  <2>1. Removing(i)' = {u \in Threads : IsRemoving(pc'[u], i)}
    BY DEF Removing, IsRemoving
  <2> QED BY <1>1, <2>1 DEF Removing
<1>4. /\ t \in Adding(i) <=> IsAdding(pc[t], i)
      /\ t \in Removing(i) <=> IsRemoving(pc[t], i)
  BY DEF Adding, Removing
<1>5. /\ IsAdding(s, i) \in BOOLEAN /\ IsAdding(pc[t], i) \in BOOLEAN
      /\ IsRemoving(s, i) \in BOOLEAN /\ IsRemoving(pc[t], i) \in BOOLEAN
  BY DEF IsAdding, IsRemoving
<1> HIDE DEF IsAdding, IsRemoving
<1>6. Cardinality(Adding(i)') =
        Cardinality(Adding(i)) + One(IsAdding(s, i)) - One(IsAdding(pc[t], i))
  BY <1>2, <1>4, <1>5, StepsFinite, ElementMoves
<1>7. Cardinality(Removing(i)') =
        Cardinality(Removing(i)) + One(IsRemoving(s, i)) - One(IsRemoving(pc[t], i))
  BY <1>3, <1>4, <1>5, StepsFinite, ElementMoves
<1> QED BY <1>6, <1>7

LEMMA InitIInv == Init => IInv
<1> SUFFICES ASSUME Init PROVE IInv
  OBVIOUS
<1>1. TypeOK
  <2>1. begun \in 0..MaxCalls /\ made \in 0..begun /\ key \in [1..made -> Indicators]
    <3>1. begun = 0 /\ made = 0 /\ key = << >> /\ 1..0 = {}
      BY DEF Init
    <3> QED BY <3>1, MaxCallsAssumption
  <2>2. /\ reference \in [Instances -> Int] /\ again \in [Instances -> Nat]
        /\ bucket \in [Indicators -> 0..made] /\ torn \subseteq Instances
        /\ lowered \in [Instances -> {"none", "byKey", "direct"}]
    BY DEF Init
  <2> QED BY <2>1, <2>2 DEF Init, TypeOK
<1>2. \A t \in Threads : pc[t] = Idle /\ pc[t].at = "idle"
  BY DEF Init, Idle
<1>3. Keyed /\ \A t \in Threads : OnItsWay(t)
  BY <1>2 DEF Init, Keyed, OnItsWay, At
<1>4. ASSUME NEW i \in Instances PROVE Balanced(i)
  <2>1. Adding(i) = {} /\ Removing(i) = {}
    BY <1>2 DEF Adding, Removing, IsAdding, IsRemoving
  <2>2. Filed(i) = {} /\ reference[i] = 0 /\ again[i] = 0
    BY DEF Init, Filed
  <2> QED BY <2>1, <2>2, FS_EmptySet DEF Balanced
<1>5. \A k \in Indicators, n \in Names : KeptIsFiled(k, n)
  BY DEF Init, KeptIsFiled
<1> QED BY <1>1, <1>3, <1>4, <1>5 DEF IInv

(* A step that touches neither the registry nor the callbacks.             *)
LEMMA QuietIInv ==
  ASSUME IInv, NEW t \in Threads, pc[t] # Idle, UNCHANGED <<registered, callbacks, kept, raced>>,
         NEW s \in {Idle} \cup AddSteps \cup OffSteps, pc' = [pc EXCEPT ![t] = s],
         s # Idle => s.i = pc[t].i /\ s.k = pc[t].k /\ s.at # "attach",
         s.at \in {"find", "drop"} => pc[t].at = "find" /\ s.n = pc[t].n,
         s.at = "drop" => s.n \in Names,
         reference' \in [Instances -> Int], again' \in [Instances -> Nat],
         torn' \subseteq Instances, lowered' \in [Instances -> {"none", "byKey", "direct"}],
         issued' \subseteq Indicators \X (Names \cup {NoListener}),
         \A i \in Instances : Balanced(i)'
  PROVE  IInv'
<1>1. pc'[t] = s /\ \A u \in Threads : u # t => pc'[u] = pc[u]
  BY DEF IInv, TypeOK
<1>2. TypeOK'
  <2>1. pc' \in [Threads -> {Idle} \cup AddSteps \cup OffSteps]
    BY DEF IInv, TypeOK, AddSteps, OffSteps
  <2>2. AddSteps' = AddSteps /\ OffSteps' = OffSteps
    BY DEF registered, AddSteps, OffSteps
  <2> QED BY <2>1, <2>2 DEF IInv, TypeOK, registered, AddSteps, OffSteps
<1>3. Keyed'
  BY <1>1 DEF IInv, Keyed, registered
<1>4. ASSUME NEW u \in Threads PROVE OnItsWay(u)'
  <2>1. CASE u = t
    <3>1. s.at # "attach"
      BY DEF Idle
    <3> QED BY <2>1, <3>1, <1>1 DEF OnItsWay, At
  <2>2. CASE u # t
    BY <2>2, <1>1 DEF IInv, OnItsWay, At, registered
  <2> QED BY <2>1, <2>2
<1>5. ASSUME NEW k \in Indicators, NEW n \in Names PROVE KeptIsFiled(k, n)'
  <2>1. ASSUME Leaving(bucket[k], n)' PROVE Leaving(bucket[k], n)
    <3>1. PICK u \in Threads :
            pc'[u].at \in {"find", "drop"} /\ pc'[u].i = bucket[k] /\ pc'[u].n = n
      BY <2>1 DEF Leaving, registered
    <3>2. CASE u = t
      <4>1. s # Idle
        BY <3>1, <3>2, <1>1 DEF Idle
      <4> QED BY <3>1, <3>2, <4>1, <1>1 DEF Leaving
    <3>3. CASE u # t
      BY <3>1, <3>3, <1>1 DEF Leaving
    <3> QED BY <3>2, <3>3
  <2>2. KeptIsFiled(k, n)
    BY DEF IInv
  <2> QED BY <2>1, <2>2 DEF KeptIsFiled, registered
<1> QED BY <1>2, <1>3, <1>4, <1>5 DEF IInv

-----------------------------------------------------------------------------
(* get() finds an instance, or makes one that has no listeners.            *)
LEMMA GetIInv ==
  ASSUME IInv, NEW t \in Threads, NEW k \in Indicators, NEW l \in Listeners \cup {NoListener},
         Get(t, k, l)
  PROVE  IInv'
<1>1. /\ At(t, "idle") /\ pc[t] = Idle /\ begun \in Nat /\ begun < MaxCalls /\ begun' = begun + 1
      /\ made \in Nat /\ made <= begun
      /\ UNCHANGED <<counts, callbacks, kept, raced>>
  BY PcProperties, MaxCallsAssumption DEF Get, IInv, TypeOK
<1>2. PICK i : /\ Registered(t, i, k, l)
               /\ \/ bucket[k] # 0 /\ bucket[k] = i /\ UNCHANGED <<made, key, bucket>>
                  \/ /\ bucket[k] = 0 /\ i = made + 1 /\ made' = i
                     /\ key' = [j \in 1..i |-> IF j = i THEN k ELSE key[j]]
                     /\ bucket' = [bucket EXCEPT ![k] = i]
  BY DEF Get, Made
<1>3. /\ made' \in Nat /\ made <= made' /\ made' <= begun' /\ begun' \in 0..MaxCalls
      /\ i \in 1..made' /\ 1..made \subseteq 1..made'
      /\ key' \in [1..made' -> Indicators] /\ bucket' \in [Indicators -> 0..made']
      /\ bucket'[k] = i /\ key'[i] = k
      /\ \A j \in 1..made : key'[j] = key[j]
      /\ \A x \in Indicators : x # k => bucket'[x] = bucket[x]
  <2>1. CASE bucket[k] # 0 /\ bucket[k] = i /\ UNCHANGED <<made, key, bucket>>
    BY <2>1, <1>1, MaxCallsAssumption DEF IInv, TypeOK, Keyed
  <2>2. CASE /\ bucket[k] = 0 /\ i = made + 1 /\ made' = i
             /\ key' = [j \in 1..i |-> IF j = i THEN k ELSE key[j]]
             /\ bucket' = [bucket EXCEPT ![k] = i]
    <3>1. /\ made' \in Nat /\ made' <= begun' /\ begun' \in 0..MaxCalls
          /\ i \in 1..i /\ 1..made \subseteq 1..i
      BY <2>2, <1>1, MaxCallsAssumption
    <3>2. \A j \in 1..i : j = i \/ j \in 1..made
      BY <2>2, <1>1
    <3>3. key' \in [1..i -> Indicators] /\ \A j \in 1..made : key'[j] = key[j]
      BY <2>2, <3>2, <1>1 DEF IInv, TypeOK
    <3>4. bucket' \in [Indicators -> 0..i] /\ made <= i
      BY <2>2, <1>1 DEF IInv, TypeOK
    <3> QED BY <2>2, <3>1, <3>3, <3>4 DEF IInv, TypeOK
  <2> QED BY <1>2, <2>1, <2>2
<1>4. /\ \A u \in Threads : u # t => pc'[u] = pc[u]
      /\ \/ pc'[t] = Idle
         \/ /\ l \in Listeners /\ issued' = issued
            /\ pc'[t] = [at |-> "attach", i |-> i, k |-> k, l |-> l, seen |-> 0]
      /\ pc' = [pc EXCEPT ![t] = pc'[t]]
      /\ issued' \subseteq Indicators \X (Names \cup {NoListener})
  BY <1>1, <1>2 DEF Registered, Goto, IInv, TypeOK
<1>5. TypeOK'
  <2>1. \A u \in Threads : pc[u] \in {Idle} \cup AddSteps \cup OffSteps
    BY PcProperties DEF IInv
  <2>2. AddSteps \subseteq AddSteps' /\ OffSteps \subseteq OffSteps'
    BY <1>3 DEF AddSteps, OffSteps
  <2>3. pc'[t] \in ({Idle} \cup AddSteps \cup OffSteps)'
    BY <1>3, <1>4 DEF AddSteps
  <2>4. pc' \in [Threads -> ({Idle} \cup AddSteps \cup OffSteps)']
    BY <2>1, <2>2, <2>3, <1>4 DEF IInv, TypeOK
  <2> QED BY <1>1, <1>3, <1>4, <2>4 DEF IInv, TypeOK, counts, AddSteps, OffSteps
<1>6. Keyed'
  <2>1. ASSUME NEW u \in Threads, pc'[u] # Idle PROVE key'[pc'[u].i] = pc'[u].k
    <3>1. CASE u = t
      BY <2>1, <3>1, <1>3, <1>4
    <3>2. CASE u # t
      <4>1. pc'[u] = pc[u] /\ pc[u].i \in 1..made
        BY <2>1, <3>2, <1>4, PcProperties DEF IInv
      <4> QED BY <2>1, <4>1, <1>3 DEF IInv, Keyed
    <3> QED BY <3>1, <3>2
  <2>2. ASSUME NEW x \in Indicators, bucket'[x] # 0 PROVE key'[bucket'[x]] = x
    <3>1. CASE x = k
      BY <3>1, <1>3
    <3>2. CASE x # k
      <4>1. bucket'[x] = bucket[x] /\ bucket[x] \in 1..made
        BY <2>2, <3>2, <1>1, <1>3 DEF IInv, TypeOK
      <4> QED BY <2>2, <4>1, <1>3 DEF IInv, Keyed
    <3> QED BY <3>1, <3>2
  <2> QED BY <2>1, <2>2 DEF Keyed
<1>7. ASSUME NEW j \in Instances PROVE Balanced(j)'
  <2>1. \A u \in Threads : /\ IsAdding(pc'[u], j) <=> IsAdding(pc[u], j)
                           /\ IsRemoving(pc'[u], j) <=> IsRemoving(pc[u], j)
    BY <1>1, <1>4 DEF IsAdding, IsRemoving, Idle
  <2>2. Adding(j)' = Adding(j) /\ Removing(j)' = Removing(j)
    BY <2>1 DEF Adding, Removing, IsAdding, IsRemoving
  <2> QED BY <1>1, <2>2 DEF IInv, Balanced, Filed, counts
<1>8. ASSUME NEW u \in Threads PROVE OnItsWay(u)'
  <2>1. CASE u = t
    BY <2>1, <1>3, <1>4 DEF OnItsWay, At, Idle
  <2>2. CASE u # t
    <3> SUFFICES ASSUME At(u, "attach")
                 PROVE  pc[u].k \in raced \/ bucket'[pc[u].k] = pc[u].i
      BY <2>2, <1>1, <1>4 DEF IInv, OnItsWay, At
    <3>1. pc[u].i \in 1..made /\ pc[u].k \in Indicators
      BY PcProperties DEF IInv, At, Idle
    <3>2. bucket'[pc[u].k] = bucket[pc[u].k] \/ (pc[u].k = k /\ bucket[k] = 0)
      BY <3>1, <1>2, <1>3
    <3> QED BY <3>1, <3>2 DEF IInv, OnItsWay
  <2> QED BY <2>1, <2>2
<1>9. ASSUME NEW x \in Indicators, NEW n \in Names PROVE KeptIsFiled(x, n)'
  <2> SUFFICES ASSUME x \notin raced, kept[x][n] # NoListener
               PROVE  /\ bucket'[x] # 0 /\ callbacks[bucket'[x]][n] = kept[x][n]
                      /\ ~ Leaving(bucket[x], n)'
    BY <1>1 DEF KeptIsFiled, Leaving
  <2>1. /\ bucket[x] # 0 /\ callbacks[bucket[x]][n] = kept[x][n]
        /\ ~ Leaving(bucket[x], n)
    BY DEF IInv, KeptIsFiled
  <2>2. bucket'[x] = bucket[x]
    BY <2>1, <1>2, <1>3
  <2>3. \A u \in Threads : pc'[u].at \in {"find", "drop"} => pc'[u] = pc[u]
    BY <1>4 DEF Idle
  <2>4. ~ Leaving(bucket[x], n)'
    BY <2>1, <2>2, <2>3 DEF Leaving
  <2> QED BY <2>1, <2>2, <2>4
<1> QED BY <1>5, <1>6, <1>7, <1>8, <1>9 DEF IInv

(* add_callback_listener(): the callback is filed, in its key's place.     *)
LEMMA AttachIInv ==
  ASSUME IInv, NEW t \in Threads, Attach(t)
  PROVE  IInv'
<1> DEFINE i == pc[t].i  k == pc[t].k  l == pc[t].l  n == NameOf[l]
           s == [pc[t] EXCEPT !.at = "add"]
<1>1. /\ pc[t] # Idle /\ pc[t] \in AddSteps /\ i \in 1..made /\ i \in Instances /\ k \in Indicators
      /\ l \in Listeners /\ n \in Names /\ l # NoListener
      /\ key[i] = k /\ (k \in raced \/ bucket[k] = i)
  BY PcProperties DEF Attach, At, IInv, Keyed, OnItsWay, Idle
<1>2. s \in AddSteps /\ s.at = "add" /\ s.i = i /\ s.k = k
  BY <1>1 DEF AddSteps
<1>3. /\ pc' = [pc EXCEPT ![t] = s] /\ pc'[t] = s /\ \A u \in Threads : u # t => pc'[u] = pc[u]
  BY DEF Attach, Onward, Goto, IInv, TypeOK
<1>4. /\ callbacks' = [callbacks EXCEPT ![i][n] = l]
      /\ again' = [again EXCEPT ![i] = @ + IF callbacks[i][n] # NoListener THEN 1 ELSE 0]
      /\ kept' = [kept EXCEPT ![k][n] = IF Leaving(i, n) THEN NoListener ELSE l]
      /\ UNCHANGED <<begun, made, key, bucket, reference, torn, lowered, issued, raced>>
  BY DEF Attach, registered
<1>5. /\ callbacks'[i][n] = l /\ \A m \in Names : m # n => callbacks'[i][m] = callbacks[i][m]
      /\ \A j \in Instances : j # i => callbacks'[j] = callbacks[j]
      /\ again' \in [Instances -> Nat] /\ \A j \in Instances : j # i => again'[j] = again[j]
      /\ callbacks' \in [Instances -> [Names -> Listeners \cup {NoListener}]]
      /\ kept' \in [Indicators -> [Names -> Listeners \cup {NoListener}]]
      /\ again'[i] = again[i] + IF callbacks[i][n] # NoListener THEN 1 ELSE 0
  BY <1>1, <1>4 DEF IInv, TypeOK
<1>6. TypeOK'
  <2>1. pc' \in [Threads -> {Idle} \cup AddSteps \cup OffSteps]
    BY <1>2, <1>3 DEF IInv, TypeOK, AddSteps, OffSteps
  <2> QED BY <2>1, <1>4, <1>5 DEF IInv, TypeOK, AddSteps, OffSteps
<1>7. Keyed'
  BY <1>1, <1>2, <1>3, <1>4 DEF IInv, Keyed
<1>8. ASSUME NEW j \in Instances PROVE Balanced(j)'
  <2>1. /\ Cardinality(Adding(j)') =
             Cardinality(Adding(j)) + One(IsAdding(s, j)) - One(IsAdding(pc[t], j))
        /\ Cardinality(Removing(j)') =
             Cardinality(Removing(j)) + One(IsRemoving(s, j)) - One(IsRemoving(pc[t], j))
    BY <1>3, SetsMove DEF IInv
  <2>2. /\ One(IsAdding(pc[t], j)) = 0 /\ One(IsRemoving(pc[t], j)) = 0
        /\ One(IsRemoving(s, j)) = 0 /\ One(IsAdding(s, j)) = IF j = i THEN 1 ELSE 0
    BY <1>2 DEF One, IsAdding, IsRemoving, Attach, At
  <2>3. /\ Cardinality(Adding(j)) \in Nat /\ Cardinality(Removing(j)) \in Nat
        /\ Cardinality(Filed(j)) \in Nat /\ reference[j] \in Int /\ again[j] \in Nat
    BY StepsFinite DEF IInv, TypeOK
  <2>4. CASE j # i
    <3>1. Filed(j)' = Filed(j)
      BY <2>4, <1>5 DEF Filed
    <3>2. again'[j] = again[j] /\ reference'[j] = reference[j] /\ torn' = torn
      BY <2>4, <1>4, <1>5
    <3>3. /\ Cardinality(Adding(j)') = Cardinality(Adding(j))
          /\ Cardinality(Removing(j)') = Cardinality(Removing(j))
      BY <2>1, <2>2, <2>3, <2>4
    <3>4. Balanced(j)
      BY DEF IInv
    <3> QED BY <3>1, <3>2, <3>3, <3>4 DEF Balanced
  <2>5. CASE j = i
    <3> DEFINE m == n
    <3>1. Filed(j)' = Filed(j) \cup {m}
      BY <2>5, <1>1, <1>5 DEF Filed
    <3>2. m \in Filed(j) <=> callbacks[j][m] # NoListener
      BY <1>1 DEF Filed
    <3>3. again'[j] = again[j] + IF callbacks[j][m] # NoListener THEN 1 ELSE 0
      BY <2>5, <1>5
    <3> HIDE DEF m
    <3>4. Cardinality(Filed(j)') = IF m \in Filed(j) THEN Cardinality(Filed(j))
                                   ELSE Cardinality(Filed(j)) + 1
      BY <3>1, StepsFinite, FS_AddElement
    <3>5. /\ Cardinality(Filed(j)') + again'[j] = Cardinality(Filed(j)) + again[j] + 1
          /\ Cardinality(Filed(j)') \in Nat /\ again'[j] \in Nat
      BY <3>2, <3>3, <3>4, <2>3
    <3>6. reference'[j] = reference[j] /\ torn' = torn
      BY <1>4
    <3> QED BY <2>1, <2>2, <2>3, <2>5, <3>5, <3>6 DEF IInv, Balanced
  <2> QED BY <2>4, <2>5
<1>9. ASSUME NEW u \in Threads PROVE OnItsWay(u)'
  <2>1. CASE u = t
    BY <2>1, <1>2, <1>3 DEF OnItsWay, At
  <2>2. CASE u # t
    BY <2>2, <1>3, <1>4 DEF IInv, OnItsWay, At
  <2> QED BY <2>1, <2>2
<1>10. ASSUME NEW x \in Indicators, NEW m \in Names PROVE KeptIsFiled(x, m)'
  <2> SUFFICES ASSUME x \notin raced, kept'[x][m] # NoListener
               PROVE  /\ bucket[x] # 0 /\ callbacks'[bucket[x]][m] = kept'[x][m]
                      /\ ~ Leaving(bucket[x], m)'
    BY <1>4 DEF KeptIsFiled, Leaving
  <2>1. Leaving(bucket[x], m)' => Leaving(bucket[x], m)
    BY <1>2, <1>3, <1>4 DEF Leaving
  <2>2. CASE x = k /\ m = n
    <3>1. kept'[x][m] = l /\ ~ Leaving(i, n) /\ bucket[k] = i
      BY <2>2, <1>1, <1>4 DEF IInv, TypeOK
    <3>2. i # 0
      BY <1>1 DEF Instances
    <3> QED BY <2>1, <2>2, <3>1, <3>2, <1>5
  <2>3. CASE ~ (x = k /\ m = n)
    <3>1. kept'[x][m] = kept[x][m]
      BY <2>3, <1>1, <1>4 DEF IInv, TypeOK
    <3>2. /\ bucket[x] # 0 /\ callbacks[bucket[x]][m] = kept[x][m]
          /\ ~ Leaving(bucket[x], m)
      BY <3>1 DEF IInv, KeptIsFiled
    <3>3. bucket[x] = i => x = k
      BY <1>1, <3>2 DEF IInv, Keyed
    <3>4. bucket[x] \in Instances
      BY <3>2, MaxCallsAssumption DEF IInv, TypeOK, Instances
    <3>5. callbacks'[bucket[x]][m] = callbacks[bucket[x]][m]
      BY <2>3, <3>3, <3>4, <1>5
    <3> QED BY <2>1, <3>1, <3>2, <3>5
  <2> QED BY <2>2, <2>3
<1> QED BY <1>6, <1>7, <1>8, <1>9, <1>10 DEF IInv

(* A step that is none of those between a callback and its count.          *)
LEMMA BalanceStands ==
  ASSUME IInv, NEW t \in Threads, NEW s, pc' = [pc EXCEPT ![t] = s],
         NEW j \in Instances,
         IsAdding(s, j) <=> IsAdding(pc[t], j), IsRemoving(s, j) <=> IsRemoving(pc[t], j),
         UNCHANGED <<counts, callbacks>>
  PROVE  Balanced(j)'
<1>1. \A u \in Threads : pc'[u] = IF u = t THEN s ELSE pc[u]
  BY DEF IInv, TypeOK
<1>2. \A u \in Threads : /\ IsAdding(pc'[u], j) <=> IsAdding(pc[u], j)
                         /\ IsRemoving(pc'[u], j) <=> IsRemoving(pc[u], j)
  BY <1>1
<1>3. Adding(j)' = Adding(j) /\ Removing(j)' = Removing(j)
  BY <1>2 DEF Adding, Removing, IsAdding, IsRemoving
<1>4. Filed(j)' = Filed(j)
  BY DEF Filed
<1> QED BY <1>3, <1>4 DEF IInv, Balanced, counts

LEMMA ReadCountIInv ==
  ASSUME IInv, NEW t \in Threads, ReadCount(t)
  PROVE  IInv'
<1>1. PICK at \in {"added", "subtracted"} :
        /\ \/ at = "added" /\ pc[t].at = "add"
           \/ at = "subtracted" /\ pc[t].at = "subtract"
        /\ pc' = [pc EXCEPT ![t] = [pc[t] EXCEPT !.at = at, !.seen = reference[pc[t].i]]]
  BY DEF ReadCount, At, Goto
<1> DEFINE s == [pc[t] EXCEPT !.at = at, !.seen = reference[pc[t].i]]
<1>2. /\ pc[t] # Idle /\ pc[t].i \in Instances
      /\ at = "added" => pc[t] \in AddSteps
      /\ at = "subtracted" => pc[t] \in OffSteps
  BY <1>1, PcProperties DEF IInv, Idle
<1>3. reference[pc[t].i] \in Int
  BY <1>2 DEF IInv, TypeOK
<1>4. s \in AddSteps \cup OffSteps /\ s.at = at /\ s.i = pc[t].i /\ s.k = pc[t].k
  <2> DEFINE r == [pc[t] EXCEPT !.at = at]
  <2>1. r \in AddSteps \cup OffSteps /\ r.at = at /\ r.i = pc[t].i /\ r.k = pc[t].k
    BY <1>1, <1>2 DEF AddSteps, OffSteps
  <2>2. s = [r EXCEPT !.seen = reference[pc[t].i]]
    OBVIOUS
  <2> HIDE DEF r, s
  <2>3. CASE r \in AddSteps
    BY <2>1, <2>2, <2>3, <1>3 DEF AddSteps
  <2>4. CASE r \in OffSteps
    BY <2>1, <2>2, <2>4, <1>3 DEF OffSteps
  <2> QED BY <2>1, <2>3, <2>4
<1>5. UNCHANGED <<registered, counts, callbacks, issued, kept, raced>>
  BY DEF ReadCount
<1>6. ASSUME NEW j \in Instances PROVE Balanced(j)'
  <2>1. IsAdding(s, j) <=> IsAdding(pc[t], j)
    BY <1>1, <1>4 DEF IsAdding
  <2>2. IsRemoving(s, j) <=> IsRemoving(pc[t], j)
    BY <1>1, <1>4 DEF IsRemoving
  <2> QED BY <2>1, <2>2, <1>1, <1>5, BalanceStands
<1>7. s.at \notin {"attach", "find", "drop"}
  BY <1>4
<1>8. /\ reference' \in [Instances -> Int] /\ again' \in [Instances -> Nat]
      /\ torn' \subseteq Instances /\ lowered' \in [Instances -> {"none", "byKey", "direct"}]
      /\ issued' \subseteq Indicators \X (Names \cup {NoListener})
  BY <1>5 DEF IInv, TypeOK, counts
<1> HIDE DEF s
<1>9. pc' = [pc EXCEPT ![t] = s]
  BY <1>1 DEF s
<1> QED BY <1>2, <1>4, <1>5, <1>6, <1>7, <1>8, <1>9, QuietIInv

(* The written count: it is right, if nobody wrote it since it was read.   *)
LEMMA WriteCountIs ==
  ASSUME IInv, NEW t \in Threads, NEW c \in Int, WriteCount(t, c), pc[t].i \in Instances
  PROVE  /\ reference' \in [Instances -> Int] /\ again' = again
         /\ torn \subseteq torn' /\ torn' \subseteq Instances
         /\ \A j \in Instances : j # pc[t].i => reference'[j] = reference[j]
         /\ reference'[pc[t].i] = c
         /\ pc[t].i \notin torn' => reference[pc[t].i] = pc[t].seen
  BY DEF WriteCount, IInv, TypeOK

LEMMA AddIInv ==
  ASSUME IInv, NEW t \in Threads, Add(t)
  PROVE  IInv'
<1> DEFINE i == pc[t].i
<1>1. /\ pc[t] # Idle /\ pc[t].at = "added" /\ i \in Instances /\ pc[t].seen \in Int
      /\ pc[t].k \in Indicators /\ NameOf[pc[t].l] \in Names
      /\ pc' = [pc EXCEPT ![t] = Idle]
      /\ UNCHANGED <<registered, callbacks, kept, raced, lowered>>
      /\ issued' = issued \cup {<<pc[t].k, NameOf[pc[t].l]>>}
      /\ WriteCount(t, pc[t].seen + 1)
  BY PcProperties DEF Add, At, Goto, IInv, Idle
<1>2. /\ reference' \in [Instances -> Int] /\ again' = again
      /\ torn \subseteq torn' /\ torn' \subseteq Instances
      /\ \A j \in Instances : j # i => reference'[j] = reference[j]
      /\ reference'[i] = pc[t].seen + 1
      /\ i \notin torn' => reference[i] = pc[t].seen
  BY <1>1, WriteCountIs
<1>3. ASSUME NEW j \in Instances PROVE Balanced(j)'
  <2>1. /\ Cardinality(Adding(j)') =
             Cardinality(Adding(j)) + One(IsAdding(Idle, j)) - One(IsAdding(pc[t], j))
        /\ Cardinality(Removing(j)') =
             Cardinality(Removing(j)) + One(IsRemoving(Idle, j)) - One(IsRemoving(pc[t], j))
    BY <1>1, SetsMove DEF IInv
  <2>2. /\ One(IsAdding(Idle, j)) = 0 /\ One(IsRemoving(Idle, j)) = 0
        /\ One(IsRemoving(pc[t], j)) = 0 /\ One(IsAdding(pc[t], j)) = IF j = i THEN 1 ELSE 0
    BY <1>1 DEF One, IsAdding, IsRemoving, Idle
  <2>3. /\ Cardinality(Adding(j)) \in Nat /\ Cardinality(Removing(j)) \in Nat
        /\ Cardinality(Filed(j)) \in Nat /\ reference[j] \in Int /\ again[j] \in Nat
    BY StepsFinite DEF IInv, TypeOK
  <2>4. Filed(j)' = Filed(j)
    BY <1>1 DEF Filed
  <2>5. Balanced(j)
    BY DEF IInv
  <2> SUFFICES ASSUME j \notin torn'
               PROVE  reference'[j] + Cardinality(Adding(j)') =
                        Cardinality(Filed(j)) + again[j] + Cardinality(Removing(j)')
    BY <2>4, <1>2 DEF Balanced
  <2>6. reference[j] + Cardinality(Adding(j)) =
          Cardinality(Filed(j)) + again[j] + Cardinality(Removing(j))
    BY <2>5, <1>2 DEF Balanced
  <2>7. reference'[j] = reference[j] + IF j = i THEN 1 ELSE 0
    BY <1>2, <2>3
  <2> QED BY <2>1, <2>2, <2>3, <2>6, <2>7
<1>4. issued' \subseteq Indicators \X (Names \cup {NoListener})
  BY <1>1 DEF IInv, TypeOK
<1>5. again' \in [Instances -> Nat] /\ lowered' \in [Instances -> {"none", "byKey", "direct"}]
  BY <1>1, <1>2 DEF IInv, TypeOK
<1>6. Idle.at \notin {"find", "drop"}
  BY DEF Idle
<1> QED BY <1>1, <1>2, <1>3, <1>4, <1>5, <1>6, QuietIInv

-----------------------------------------------------------------------------
(* Taking a listener off begins: its key is not kept any more.             *)
LEMMA DetachIInv ==
  ASSUME IInv, NEW t \in Threads, pc[t] = Idle, NEW i \in 1..made,
         NEW n \in Names \cup {NoListener}, NEW byKey \in BOOLEAN,
         Detach(t, i, key[i], n, byKey)
  PROVE  IInv'
<1> DEFINE k == key[i]
           s == [at |-> "find", i |-> i, k |-> k, n |-> n, byKey |-> byKey, seen |-> 0]
<1>1. /\ made \in Nat /\ 1..made \subseteq Instances /\ k \in Indicators
      /\ s \in OffSteps /\ s # Idle
  <2>1. made \in Nat /\ 1..made \subseteq Instances
    BY PcProperties DEF IInv
  <2>2. k \in Indicators
    BY DEF IInv, TypeOK
  <2>3. s \in OffSteps
    BY <2>2 DEF OffSteps
  <2>4. s.at # Idle.at
    BY DEF Idle
  <2> QED BY <2>1, <2>2, <2>3, <2>4
<1>2. /\ pc' = [pc EXCEPT ![t] = s] /\ pc'[t] = s /\ \A u \in Threads : u # t => pc'[u] = pc[u]
      /\ kept' = [kept EXCEPT ![k] = [m \in Names |-> IF m = n THEN NoListener ELSE @[m]]]
      /\ UNCHANGED <<registered, counts, callbacks, issued, raced>>
  BY DEF Detach, Goto, IInv, TypeOK
<1>3. /\ kept' \in [Indicators -> [Names -> Listeners \cup {NoListener}]]
      /\ \A x \in Indicators, m \in Names :
           kept'[x][m] = IF x = k /\ m = n THEN NoListener ELSE kept[x][m]
  BY <1>1, <1>2 DEF IInv, TypeOK
<1>4. TypeOK'
  <2>1. pc' \in [Threads -> {Idle} \cup AddSteps \cup OffSteps]
    BY <1>1, <1>2 DEF IInv, TypeOK, AddSteps, OffSteps
  <2> QED BY <2>1, <1>2, <1>3 DEF IInv, TypeOK, AddSteps, OffSteps, registered, counts
<1>5. Keyed'
  BY <1>2 DEF IInv, Keyed, registered
<1>6. ASSUME NEW j \in Instances PROVE Balanced(j)'
  <2>1. IsAdding(s, j) <=> IsAdding(pc[t], j)
    BY DEF IsAdding, Idle
  <2>2. IsRemoving(s, j) <=> IsRemoving(pc[t], j)
    BY DEF IsRemoving, Idle
  <2> QED BY <2>1, <2>2, <1>2, BalanceStands
<1>7. ASSUME NEW u \in Threads PROVE OnItsWay(u)'
  <2>1. CASE u = t
    BY <2>1, <1>2 DEF OnItsWay, At
  <2>2. CASE u # t
    BY <2>2, <1>2 DEF IInv, OnItsWay, At, registered
  <2> QED BY <2>1, <2>2
<1>8. ASSUME NEW x \in Indicators, NEW m \in Names PROVE KeptIsFiled(x, m)'
  <2> SUFFICES ASSUME x \notin raced, kept'[x][m] # NoListener
               PROVE  /\ bucket[x] # 0 /\ callbacks[bucket[x]][m] = kept'[x][m]
                      /\ ~ Leaving(bucket[x], m)'
    BY <1>2 DEF KeptIsFiled, Leaving, registered
  <2>1. kept'[x][m] = kept[x][m] /\ ~ (x = k /\ m = n)
    BY <1>3
  <2>2. /\ bucket[x] # 0 /\ callbacks[bucket[x]][m] = kept[x][m]
        /\ ~ Leaving(bucket[x], m)
    BY <2>1 DEF IInv, KeptIsFiled
  <2>3. bucket[x] = i => x = k
    BY <2>2 DEF IInv, Keyed
  <2>4. Leaving(bucket[x], m)' => Leaving(bucket[x], m)
    <3>1. ASSUME NEW u \in Threads, pc'[u].at \in {"find", "drop"}, pc'[u].i = bucket[x], pc'[u].n = m
          PROVE  u # t
      BY <3>1, <1>2, <2>1, <2>3
    <3> QED BY <3>1, <1>2 DEF Leaving, registered
  <2> QED BY <2>1, <2>2, <2>4
<1> QED BY <1>4, <1>5, <1>6, <1>7, <1>8 DEF IInv

LEMMA DeAttachIInv ==
  ASSUME IInv, NEW t \in Threads
  PROVE  /\ \A k \in Indicators, n \in Names \cup {NoListener} : DeAttachByKey(t, k, n) => IInv'
         /\ \A i \in Instances, n \in Names : DeAttachFrom(t, i, n) => IInv'
<1>1. ASSUME NEW k \in Indicators, NEW n \in Names \cup {NoListener}, DeAttachByKey(t, k, n)
      PROVE  IInv'
  <2>1. bucket[k] \in 1..made /\ key[bucket[k]] = k /\ pc[t] = Idle
    BY <1>1, PcProperties DEF DeAttachByKey, IInv, TypeOK, Keyed
  <2> QED BY <1>1, <2>1, DetachIInv DEF DeAttachByKey
<1>2. ASSUME NEW i \in Instances, NEW n \in Names, DeAttachFrom(t, i, n) PROVE IInv'
  <2>1. i \in 1..made /\ pc[t] = Idle
    BY <1>2, PcProperties, MaxCallsAssumption DEF DeAttachFrom, IInv, Instances
  <2> QED BY <1>2, <2>1, DetachIInv DEF DeAttachFrom
<1> QED BY <1>1, <1>2

(* After the removal: the count is looked at, or the call is over.         *)
LEMMA FinishIs ==
  ASSUME IInv, NEW t \in Threads, pc[t] \in OffSteps, Finish(t)
  PROVE  \E s \in {Idle} \cup OffSteps :
           /\ pc' = [pc EXCEPT ![t] = s]
           /\ s.at \in {"idle", "check"}
           /\ s # Idle => s.i = pc[t].i /\ s.k = pc[t].k
<1>1. CASE pc[t].byKey
  <2> DEFINE r == [pc[t] EXCEPT !.at = "check"]
             s == [r EXCEPT !.seen = 0]
  <2>1. r \in OffSteps /\ r.at = "check" /\ r.i = pc[t].i /\ r.k = pc[t].k
    BY DEF OffSteps
  <2>2. pc' = [pc EXCEPT ![t] = s]
    BY <1>1 DEF Finish, Goto
  <2> HIDE DEF r
  <2>3. s \in OffSteps /\ s.at = "check" /\ s.i = pc[t].i /\ s.k = pc[t].k
    BY <2>1 DEF OffSteps
  <2> QED BY <2>2, <2>3
<1>2. CASE ~ pc[t].byKey
  BY <1>2 DEF Finish, Goto, Idle
<1> QED BY <1>1, <1>2

LEMMA FindIInv ==
  ASSUME IInv, NEW t \in Threads, Find(t)
  PROVE  IInv'
<1>1. /\ pc[t] # Idle /\ pc[t].at = "find" /\ pc[t] \in OffSteps
      /\ pc[t].n \in Names \cup {NoListener}
      /\ UNCHANGED <<registered, counts, callbacks, issued, kept, raced>>
  BY PcProperties DEF Find, At, IInv, Idle
<1>2. PICK s \in {Idle} \cup OffSteps :
        /\ pc' = [pc EXCEPT ![t] = s] /\ s.at \in {"idle", "check", "drop"}
        /\ s # Idle => s.i = pc[t].i /\ s.k = pc[t].k
        /\ s.at = "drop" => s.n = pc[t].n /\ s.n \in Names
  <2>1. CASE pc[t].n \in Names /\ Onward(t, "drop")
    <3>1. [pc[t] EXCEPT !.at = "drop"] \in OffSteps
      BY <1>1 DEF OffSteps
    <3>2. /\ [pc[t] EXCEPT !.at = "drop"].at = "drop" /\ [pc[t] EXCEPT !.at = "drop"].n = pc[t].n
          /\ [pc[t] EXCEPT !.at = "drop"].i = pc[t].i /\ [pc[t] EXCEPT !.at = "drop"].k = pc[t].k
      BY <1>1 DEF OffSteps
    <3> QED BY <2>1, <3>1, <3>2 DEF Onward, Goto
  <2>2. CASE Finish(t)
    <3>1. PICK s \in {Idle} \cup OffSteps :
            /\ pc' = [pc EXCEPT ![t] = s] /\ s.at \in {"idle", "check"}
            /\ s # Idle => s.i = pc[t].i /\ s.k = pc[t].k
      BY <1>1, <2>2, FinishIs
    <3> QED BY <3>1
  <2> QED BY <2>1, <2>2 DEF Find
<1>3. s # Idle => s.at # "attach"
  BY <1>2
<1>4. s.at \in {"find", "drop"} => s.at = "drop"
  BY <1>2
<1>5. ASSUME NEW j \in Instances PROVE Balanced(j)'
  <2>1. IsAdding(s, j) <=> IsAdding(pc[t], j)
    BY <1>1, <1>2 DEF IsAdding
  <2>2. IsRemoving(s, j) <=> IsRemoving(pc[t], j)
    BY <1>1, <1>2 DEF IsRemoving
  <2> QED BY <2>1, <2>2, <1>1, <1>2, BalanceStands
<1>6. /\ reference' \in [Instances -> Int] /\ again' \in [Instances -> Nat]
      /\ torn' \subseteq Instances /\ lowered' \in [Instances -> {"none", "byKey", "direct"}]
      /\ issued' \subseteq Indicators \X (Names \cup {NoListener})
  BY <1>1 DEF IInv, TypeOK, counts
<1> QED BY <1>1, <1>2, <1>3, <1>4, <1>5, <1>6, QuietIInv

LEMMA CheckReferenceIInv ==
  ASSUME IInv, NEW t \in Threads, CheckReference(t)
  PROVE  IInv'
<1>1. /\ pc[t] # Idle /\ pc[t].at = "check" /\ pc[t] \in OffSteps
      /\ UNCHANGED <<registered, counts, callbacks, issued, kept, raced>>
  BY PcProperties DEF CheckReference, At, IInv, Idle
<1>2. PICK s \in {Idle} \cup OffSteps :
        /\ pc' = [pc EXCEPT ![t] = s] /\ s.at \in {"idle", "pop"}
        /\ s # Idle => s.i = pc[t].i /\ s.k = pc[t].k
  <2>1. CASE Onward(t, "pop")
    <3>1. [pc[t] EXCEPT !.at = "pop"] \in OffSteps
      BY <1>1 DEF OffSteps
    <3>2. /\ [pc[t] EXCEPT !.at = "pop"].at = "pop"
          /\ [pc[t] EXCEPT !.at = "pop"].i = pc[t].i /\ [pc[t] EXCEPT !.at = "pop"].k = pc[t].k
      BY <1>1 DEF OffSteps
    <3> QED BY <2>1, <3>1, <3>2 DEF Onward, Goto
  <2>2. CASE Goto(t, Idle)
    BY <2>2 DEF Goto, Idle
  <2> QED BY <2>1, <2>2 DEF CheckReference
<1>3. ASSUME NEW j \in Instances PROVE Balanced(j)'
  <2>1. IsAdding(s, j) <=> IsAdding(pc[t], j)
    BY <1>1, <1>2 DEF IsAdding
  <2>2. IsRemoving(s, j) <=> IsRemoving(pc[t], j)
    BY <1>1, <1>2 DEF IsRemoving
  <2> QED BY <2>1, <2>2, <1>1, <1>2, BalanceStands
<1>4. s.at \notin {"find", "drop", "attach"}
  BY <1>2
<1>5. /\ reference' \in [Instances -> Int] /\ again' \in [Instances -> Nat]
      /\ torn' \subseteq Instances /\ lowered' \in [Instances -> {"none", "byKey", "direct"}]
      /\ issued' \subseteq Indicators \X (Names \cup {NoListener})
  BY <1>1 DEF IInv, TypeOK, counts
<1> QED BY <1>1, <1>2, <1>3, <1>4, <1>5, QuietIInv

LEMMA SubtractIInv ==
  ASSUME IInv, NEW t \in Threads, Subtract(t)
  PROVE  IInv'
<1> DEFINE i == pc[t].i
<1>1. /\ pc[t] # Idle /\ pc[t].at = "subtracted" /\ i \in Instances /\ pc[t].seen \in Int
      /\ pc[t] \in OffSteps /\ pc[t].byKey \in BOOLEAN
      /\ UNCHANGED <<registered, callbacks, kept, raced, issued>>
      /\ lowered' = [lowered EXCEPT ![i] = IF pc[t].byKey THEN "byKey" ELSE "direct"]
      /\ WriteCount(t, pc[t].seen - 1) /\ Finish(t)
  BY PcProperties DEF Subtract, At, IInv, Idle
<1>2. /\ reference' \in [Instances -> Int] /\ again' = again
      /\ torn \subseteq torn' /\ torn' \subseteq Instances
      /\ \A j \in Instances : j # i => reference'[j] = reference[j]
      /\ reference'[i] = pc[t].seen - 1
      /\ i \notin torn' => reference[i] = pc[t].seen
  BY <1>1, WriteCountIs
<1>3. PICK s \in {Idle} \cup OffSteps :
        /\ pc' = [pc EXCEPT ![t] = s] /\ s.at \in {"idle", "check"}
        /\ s # Idle => s.i = pc[t].i /\ s.k = pc[t].k
  BY <1>1, FinishIs
<1>4. ASSUME NEW j \in Instances PROVE Balanced(j)'
  <2>1. /\ Cardinality(Adding(j)') =
             Cardinality(Adding(j)) + One(IsAdding(s, j)) - One(IsAdding(pc[t], j))
        /\ Cardinality(Removing(j)') =
             Cardinality(Removing(j)) + One(IsRemoving(s, j)) - One(IsRemoving(pc[t], j))
    BY <1>3, SetsMove DEF IInv
  <2>2. /\ One(IsAdding(s, j)) = 0 /\ One(IsRemoving(s, j)) = 0
        /\ One(IsAdding(pc[t], j)) = 0 /\ One(IsRemoving(pc[t], j)) = IF j = i THEN 1 ELSE 0
    BY <1>1, <1>3 DEF One, IsAdding, IsRemoving
  <2>3. /\ Cardinality(Adding(j)) \in Nat /\ Cardinality(Removing(j)) \in Nat
        /\ Cardinality(Filed(j)) \in Nat /\ reference[j] \in Int /\ again[j] \in Nat
    BY StepsFinite DEF IInv, TypeOK
  <2>4. Filed(j)' = Filed(j)
    BY <1>1 DEF Filed
  <2>5. Balanced(j)
    BY DEF IInv
  <2> SUFFICES ASSUME j \notin torn'
               PROVE  reference'[j] + Cardinality(Adding(j)') =
                        Cardinality(Filed(j)) + again[j] + Cardinality(Removing(j)')
    BY <2>4, <1>2 DEF Balanced
  <2>6. reference[j] + Cardinality(Adding(j)) =
          Cardinality(Filed(j)) + again[j] + Cardinality(Removing(j))
    BY <2>5, <1>2 DEF Balanced
  <2>7. reference'[j] = reference[j] - IF j = i THEN 1 ELSE 0
    BY <1>2, <2>3
  <2> QED BY <2>1, <2>2, <2>3, <2>6, <2>7
<1>5. again' \in [Instances -> Nat] /\ lowered' \in [Instances -> {"none", "byKey", "direct"}]
  BY <1>1, <1>2 DEF IInv, TypeOK
<1>6. issued' \subseteq Indicators \X (Names \cup {NoListener})
  BY <1>1 DEF IInv, TypeOK
<1>7. s.at \notin {"find", "drop", "attach"}
  BY <1>3
<1> QED BY <1>1, <1>2, <1>3, <1>4, <1>5, <1>6, <1>7, QuietIInv

(* The callback is taken off: it was not kept any more.                    *)
LEMMA DropIInv ==
  ASSUME IInv, NEW t \in Threads, Drop(t)
  PROVE  IInv'
<1> DEFINE s == [pc[t] EXCEPT !.at = "subtract"]
<1>1. PICK i, n : i = pc[t].i /\ n = pc[t].n
  OBVIOUS
<1>2. /\ pc[t] # Idle /\ pc[t] \in OffSteps /\ i \in Instances /\ n \in Names
      /\ pc[t].at = "drop" /\ key[i] = pc[t].k
  BY <1>1, PcProperties DEF Drop, At, IInv, OnItsWay, Keyed, Idle
<1>3. s \in OffSteps /\ s.at = "subtract" /\ s.i = i /\ s.k = pc[t].k
  BY <1>1, <1>2 DEF OffSteps
<1>4. /\ pc' = [pc EXCEPT ![t] = s] /\ pc'[t] = s /\ \A u \in Threads : u # t => pc'[u] = pc[u]
      /\ callbacks' = [callbacks EXCEPT ![i][n] = NoListener]
      /\ torn' = IF callbacks[i][n] = NoListener THEN torn \cup {i} ELSE torn
      /\ UNCHANGED <<registered, reference, again, lowered, issued, kept, raced>>
  BY <1>1 DEF Drop, Onward, Goto, IInv, TypeOK
<1>5. /\ callbacks' \in [Instances -> [Names -> Listeners \cup {NoListener}]]
      /\ \A j \in Instances, m \in Names :
           callbacks'[j][m] = IF j = i /\ m = n THEN NoListener ELSE callbacks[j][m]
  BY <1>2, <1>4 DEF IInv, TypeOK
<1>6. TypeOK'
  <2>1. pc' \in [Threads -> {Idle} \cup AddSteps \cup OffSteps]
    BY <1>3, <1>4 DEF IInv, TypeOK, AddSteps, OffSteps
  <2>2. torn' \subseteq Instances
    BY <1>2, <1>4 DEF IInv, TypeOK
  <2> QED BY <2>1, <2>2, <1>4, <1>5 DEF IInv, TypeOK, AddSteps, OffSteps, registered
<1>7. Keyed'
  BY <1>1, <1>2, <1>3, <1>4 DEF IInv, Keyed, registered
<1>8. ASSUME NEW j \in Instances PROVE Balanced(j)'
  <2>1. /\ Cardinality(Adding(j)') =
             Cardinality(Adding(j)) + One(IsAdding(s, j)) - One(IsAdding(pc[t], j))
        /\ Cardinality(Removing(j)') =
             Cardinality(Removing(j)) + One(IsRemoving(s, j)) - One(IsRemoving(pc[t], j))
    BY <1>4, SetsMove DEF IInv
  <2>2. /\ One(IsAdding(pc[t], j)) = 0 /\ One(IsRemoving(pc[t], j)) = 0
        /\ One(IsAdding(s, j)) = 0 /\ One(IsRemoving(s, j)) = IF j = i THEN 1 ELSE 0
    BY <1>2, <1>3 DEF One, IsAdding, IsRemoving
  <2>3. /\ Cardinality(Adding(j)) \in Nat /\ Cardinality(Removing(j)) \in Nat
        /\ Cardinality(Filed(j)) \in Nat /\ reference[j] \in Int /\ again[j] \in Nat
    BY StepsFinite DEF IInv, TypeOK
  <2>4. Balanced(j)
    BY DEF IInv
  <2> SUFFICES ASSUME j \notin torn'
               PROVE  reference[j] + Cardinality(Adding(j)') =
                        Cardinality(Filed(j)') + again[j] + Cardinality(Removing(j)')
    BY <1>4 DEF Balanced
  <2>5. reference[j] + Cardinality(Adding(j)) =
          Cardinality(Filed(j)) + again[j] + Cardinality(Removing(j))
    BY <2>4, <1>4 DEF Balanced
  <2>6. CASE j # i
    <3>1. Filed(j)' = Filed(j)
      BY <2>6, <1>5 DEF Filed
    <3> QED BY <2>1, <2>2, <2>3, <2>5, <2>6, <3>1
  <2>7. CASE j = i
    <3>1. Filed(j)' = Filed(j) \ {n}
      BY <2>7, <1>2, <1>5 DEF Filed
    <3>2. n \in Filed(j)
      BY <2>7, <1>2, <1>4 DEF Filed
    <3>3. Cardinality(Filed(j)') = Cardinality(Filed(j)) - 1
      BY <3>1, <3>2, StepsFinite, FS_RemoveElement
    <3> QED BY <2>1, <2>2, <2>3, <2>5, <2>7, <3>3
  <2> QED BY <2>6, <2>7
<1>9. ASSUME NEW u \in Threads PROVE OnItsWay(u)'
  <2>1. CASE u = t
    BY <2>1, <1>3, <1>4 DEF OnItsWay, At
  <2>2. CASE u # t
    BY <2>2, <1>4 DEF IInv, OnItsWay, At, registered
  <2> QED BY <2>1, <2>2
<1>10. ASSUME NEW x \in Indicators, NEW m \in Names PROVE KeptIsFiled(x, m)'
  <2> SUFFICES ASSUME x \notin raced, kept[x][m] # NoListener
               PROVE  /\ bucket[x] # 0 /\ callbacks'[bucket[x]][m] = kept[x][m]
                      /\ ~ Leaving(bucket[x], m)'
    BY <1>4 DEF KeptIsFiled, Leaving, registered
  <2>1. /\ bucket[x] # 0 /\ callbacks[bucket[x]][m] = kept[x][m]
        /\ ~ Leaving(bucket[x], m)
    BY DEF IInv, KeptIsFiled
  <2>2. bucket[x] \in Instances
    BY <2>1, MaxCallsAssumption DEF IInv, TypeOK, Instances
  <2>3. ~ (bucket[x] = i /\ m = n)
    BY <2>1, <1>1, <1>2 DEF Leaving
  <2>4. callbacks'[bucket[x]][m] = callbacks[bucket[x]][m]
    BY <2>2, <2>3, <1>5
  <2>5. Leaving(bucket[x], m)' => Leaving(bucket[x], m)
    BY <1>3, <1>4 DEF Leaving, registered
  <2> QED BY <2>1, <2>4, <2>5
<1> QED BY <1>6, <1>7, <1>8, <1>9, <1>10 DEF IInv

(* The instance is removed: nobody is kept in it, or the removal raced.    *)
LEMMA PopIInv ==
  ASSUME IInv, NEW t \in Threads, Pop(t)
  PROVE  IInv'
<1>1. PICK k : k = pc[t].k
  OBVIOUS
<1>2. k \in Indicators /\ pc[t] # Idle /\ pc[t].at = "pop"
  BY <1>1, PcProperties DEF Pop, At, IInv, Idle
<1>3. /\ pc' = [pc EXCEPT ![t] = Idle] /\ pc'[t] = Idle /\ \A u \in Threads : u # t => pc'[u] = pc[u]
      /\ bucket' = [bucket EXCEPT ![k] = 0]
      /\ bucket'[k] = 0 /\ \A x \in Indicators : x # k => bucket'[x] = bucket[x]
      /\ raced' = IF InUse(bucket[k]) THEN raced \cup {k} ELSE raced
      /\ UNCHANGED <<begun, made, key, counts, callbacks, issued, kept>>
  BY <1>1, <1>2 DEF Pop, Goto, IInv, TypeOK
<1>4. TypeOK'
  <2>1. pc' \in [Threads -> {Idle} \cup AddSteps \cup OffSteps]
    BY <1>3 DEF IInv, TypeOK, AddSteps, OffSteps
  <2>2. bucket' \in [Indicators -> 0..made] /\ raced' \subseteq Indicators
    BY <1>2, <1>3, MaxCallsAssumption DEF IInv, TypeOK
  <2> QED BY <2>1, <2>2, <1>3 DEF IInv, TypeOK, AddSteps, OffSteps, counts
<1>5. Keyed'
  BY <1>3 DEF IInv, Keyed
<1>6. ASSUME NEW j \in Instances PROVE Balanced(j)'
  <2>1. IsAdding(Idle, j) <=> IsAdding(pc[t], j)
    BY <1>2 DEF IsAdding, Idle
  <2>2. IsRemoving(Idle, j) <=> IsRemoving(pc[t], j)
    BY <1>2 DEF IsRemoving, Idle
  <2> QED BY <2>1, <2>2, <1>3, BalanceStands
<1>7. ASSUME NEW u \in Threads PROVE OnItsWay(u)'
  <2>1. CASE u = t
    BY <2>1, <1>3 DEF OnItsWay, At, Idle
  <2>2. CASE u # t
    <3> SUFFICES ASSUME At(u, "attach")
                 PROVE  pc[u].k \in raced' \/ bucket'[pc[u].k] = pc[u].i
      BY <2>2, <1>3 DEF IInv, OnItsWay, At
    <3>1. /\ pc[u].i \in 1..made /\ pc[u].k \in Indicators /\ made \in Nat
          /\ pc[u].k \in raced \/ bucket[pc[u].k] = pc[u].i
      BY PcProperties DEF IInv, At, OnItsWay, Idle
    <3>2. CASE pc[u].k = k /\ bucket[k] = pc[u].i
      <4>1. InUse(bucket[k])
        BY <3>1, <3>2 DEF InUse
      <4> QED BY <3>2, <4>1, <1>3
    <3>3. CASE pc[u].k # k \/ pc[u].k \in raced
      BY <3>1, <3>3, <1>3
    <3> QED BY <3>1, <3>2, <3>3
  <2> QED BY <2>1, <2>2
<1>8. ASSUME NEW x \in Indicators, NEW m \in Names PROVE KeptIsFiled(x, m)'
  <2> SUFFICES ASSUME x \notin raced', kept[x][m] # NoListener
               PROVE  /\ bucket'[x] # 0 /\ callbacks[bucket'[x]][m] = kept[x][m]
                      /\ \A u \in Threads : ~ (/\ pc'[u].at \in {"find", "drop"}
                                               /\ pc'[u].i = bucket'[x] /\ pc'[u].n = m)
    BY <1>3 DEF KeptIsFiled, Leaving
  <2>1. /\ bucket[x] # 0 /\ callbacks[bucket[x]][m] = kept[x][m]
        /\ ~ Leaving(bucket[x], m)
    BY <1>3 DEF IInv, KeptIsFiled
  <2>2. x # k
    <3> SUFFICES ASSUME x = k PROVE FALSE
      OBVIOUS
    <3>1. InUse(bucket[k])
      BY <2>1 DEF InUse
    <3> QED BY <3>1, <1>3
  <2> QED BY <2>1, <2>2, <1>3 DEF Leaving, Idle
<1> QED BY <1>4, <1>5, <1>6, <1>7, <1>8 DEF IInv

LEMMA NextIInv == IInv /\ [Next]_vars => IInv'
<1> SUFFICES ASSUME IInv, [Next]_vars PROVE IInv'
  OBVIOUS
<1>1. ASSUME NEW t \in Threads, Step(t) PROVE IInv'
  BY <1>1, AttachIInv, ReadCountIInv, AddIInv, FindIInv, DropIInv, SubtractIInv,
     CheckReferenceIInv, PopIInv DEF Step
<1>2. ASSUME NEW t \in Threads, NEW k \in Indicators, NEW l \in Listeners \cup {NoListener},
             Get(t, k, l)
      PROVE  IInv'
  BY <1>2, GetIInv
<1>3. CASE UNCHANGED vars
  <2>1. ASSUME NEW j \in Instances PROVE Balanced(j)'
    BY <1>3 DEF vars, counts, IInv, Balanced, Filed, Adding, Removing, IsAdding, IsRemoving
  <2>2. ASSUME NEW t \in Threads PROVE OnItsWay(t)'
    BY <1>3 DEF vars, registered, IInv, OnItsWay, At
  <2>3. ASSUME NEW k \in Indicators, NEW n \in Names PROVE KeptIsFiled(k, n)'
    BY <1>3 DEF vars, registered, IInv, KeptIsFiled, Leaving
  <2>4. Keyed'
    BY <1>3 DEF vars, registered, IInv, Keyed
  <2> QED BY <1>3, <2>1, <2>2, <2>3, <2>4 DEF vars, registered, counts, IInv, TypeOK
<1> QED BY <1>1, <1>2, <1>3, DeAttachIInv DEF Next

(* The registry's threads keep the invariant (_register, de_attach,        *)
(* de_attach_by_key).                                                      *)
THEOREM SpecIInv == Spec => []IInv
<1> QED BY InitIInv, NextIInv, PTL DEF Spec

(* The registry's dictionaries, and the threads' places, have their types. *)
THEOREM SpecTypeOK == Spec => []TypeOK
<1>1. IInv => TypeOK
  BY DEF IInv
<1> QED BY <1>1, SpecIInv, PTL

(* The reference count of an instance at rest is the number of its         *)
(* listeners, and one more for each registration of a listener key that it *)
(* had, unless two threads wrote it at once (indicator.py:165-174).        *)
THEOREM SpecReferencesAreListeners == Spec => []ReferencesAreListeners
<1>1. ASSUME IInv, NEW i \in Instances \ torn, AtRest(i)
      PROVE  reference[i] = Cardinality(Filed(i)) + again[i]
  <2>1. Adding(i) = {} /\ Removing(i) = {}
    BY <1>1 DEF Adding, Removing, IsAdding, IsRemoving, AtRest
  <2>2. /\ reference[i] \in Int /\ again[i] \in Nat /\ Cardinality(Filed(i)) \in Nat
        /\ Balanced(i)
    BY <1>1, StepsFinite DEF IInv, TypeOK
  <2> QED BY <2>1, <2>2, FS_EmptySet DEF Balanced
<1>2. IInv => ReferencesAreListeners
  BY <1>1 DEF ReferencesAreListeners
<1> QED BY <1>2, SpecIInv, PTL

(* Who was registered last under a key, and was not taken off since, is    *)
(* called, by the one instance the key stands for, unless a removal        *)
(* overtook an attachment or went by a torn count (context.py:158).        *)
THEOREM SpecAttachedIsReached == Spec => []AttachedIsReached
<1>1. IInv => AttachedIsReached
  BY DEF IInv, AttachedIsReached, KeptIsFiled
<1> QED BY <1>1, SpecIInv, PTL

-----------------------------------------------------------------------------
(* The leaf that a composite hears on a side, and its callback there.      *)
LeafAt(c, s) == IF s = "fast" THEN Fast[c] ELSE Slow[c]

LeafOf(cb) == LeafAt(cb.to, cb.side)

Attached(cb) == \E i \in DOMAIN told[LeafOf(cb)] : told[LeafOf(cb)][i] = cb

Plain(l) == \A c \in Forwarding \cap live : l \notin Hears(c)

(* Keys are in the converter's dict once, whether their indicators are     *)
(* live or were removed; what a composite hears has a callback.            *)
KeysInv ==
  /\ \A i, j \in DOMAIN order : order[i] = order[j] => i = j
  /\ \A k \in live : \E i \in DOMAIN order : order[i] = k
  /\ \A i \in DOMAIN order : order[i] \in live \cup removed
  /\ \A c \in Composites \cap live : Hears(c) \subseteq live /\ \A l \in Hears(c) : told[l] # << >>

(* A leaf's callbacks are those of live composites that hear it, each      *)
(* listener key once.                                                      *)
ToldInv ==
  /\ \A l \in Leaves \ live : told[l] = << >>
  /\ \A l \in Leaves : \A i \in DOMAIN told[l] :
       /\ told[l][i].to \in live /\ LeafOf(told[l][i]) = l
       /\ \A j \in DOMAIN told[l] : ListenerKey(told[l][i]) = ListenerKey(told[l][j]) => i = j

CallbackOf(c, s) == [to |-> c, side |-> s]

(* Bollinger bands lose both of their callbacks or none.                   *)
PairInv ==
  \A c \in Composites \cap live :
    /\ c \notin Forwarding => (Attached(CallbackOf(c, "fast")) <=> Attached(CallbackOf(c, "slow")))
    /\ Alone(c) => Attached(CallbackOf(c, "fast"))

-----------------------------------------------------------------------------
(* The key in the converter's hands.                                       *)
Current(l) ==
  /\ Len(due) < Len(order)
  /\ order[Len(order) - Len(due)] = l

DueInv ==
  /\ Len(due) <= Len(order)
  /\ \A i \in DOMAIN due : due[i] = order[Len(order) - Len(due) + i]

InputsInv ==
  \A i \in DOMAIN inputs :
    /\ inputs[i] \in live
    /\ Plain(inputs[i]) => Len(inputs) = 1 /\ Current(inputs[i])

CallsInv ==
  \A i \in DOMAIN calls :
    /\ Attached(calls[i])
    /\ Len(fed[LeafOf(calls[i])]) >= Warm[LeafOf(calls[i])]
    /\ Plain(LeafOf(calls[i])) => inputs = << >> /\ Current(LeafOf(calls[i]))
    /\ \A j \in DOMAIN calls : LeafOf(calls[j]) = LeafOf(calls[i])
    /\ \A j \in DOMAIN calls : calls[i] = calls[j] => i = j

Due(l) == (\E i \in DOMAIN due : due[i] = l) \/ (\E i \in DOMAIN inputs : inputs[i] = l)

Pending(c, s) == Due(LeafAt(c, s)) \/ (\E i \in DOMAIN calls : calls[i] = CallbackOf(c, s))

(* What a leaf has consumed are the newest bars, but for the one it is     *)
(* still to be fed.                                                        *)
FedInv ==
  \A l \in Leaves \cap live : Plain(l) =>
    \A i \in DOMAIN fed[l] :
      fed[l][i] = (IF Due(l) THEN bar - 1 ELSE bar) - Len(fed[l]) + i

(* The bars that a leaf will have been fed by the end of this one.         *)
Share(l) == Len(fed[l]) + (IF Due(l) THEN 1 ELSE 0)

(* Of two leaves that were never removed, the one fed first is ahead.      *)
AheadInv ==
  \A i, j \in DOMAIN order :
    i < j /\ {order[i], order[j]} \subseteq (Leaves \cap live) \ removed
    /\ Plain(order[i]) /\ Plain(order[j]) => Share(order[j]) <= Share(order[i])

-----------------------------------------------------------------------------
SlotInv ==
  \A c \in Composites \ Forwarding : \A s \in Sides :
    /\ slot[c][s] <= bar
    /\ Pending(c, s) => slot[c][s] < bar

OutInv ==
  /\ \A c \in Composites \ live : out[c] = << >> /\ ready[c] = {}
  /\ \A c \in Composites \ Forwarding : \A i \in DOMAIN out[c] :
       /\ Regular(c) => out[c][i][1] = out[c][i][2]
       /\ \A j \in DOMAIN out[c] : i < j => out[c][i][2] < out[c][j][2]
       /\ out[c][i][2] <= slot[c]["slow"]
       /\ "slow" \in ready[c] => out[c][i][2] < slot[c]["slow"]

(* The side of a composite that is fed first.                              *)
First(c, s) ==
  \E i, j \in DOMAIN order :
    i < j /\ order[i] = LeafAt(c, s) /\ order[j] = LeafAt(c, Other(s))

IsWarm(l) == Len(fed[l]) >= Warm[l]

Listening(c) == c \in Composites \cap live /\ Regular(c) /\ Attached(CallbackOf(c, "fast"))

(* The side that is fed first waits for the other one, and never the other *)
(* way round.                                                              *)
ToggleInv ==
  \A c \in Composites : \A s \in Sides : Listening(c) /\ First(c, s) =>
    /\ Other(s) \notin ready[c]
    /\ ~ Pending(c, s) /\ Pending(c, Other(s)) /\ IsWarm(LeafAt(c, s)) =>
         s \in ready[c] /\ slot[c][s] = bar

(* Who has been fed the bar has put its value out.                         *)
Spoken(c) ==
  Listening(c) /\ (\A s \in Sides : ~ Pending(c, s) /\ IsWarm(LeafAt(c, s))) =>
    out[c] # << >> /\ Last(out[c]) = <<bar, bar>>

SpokenInv == Feeding => \A c \in Composites : Spoken(c)

GraphInv ==
  /\ GraphTypeOK /\ KeysInv /\ ToldInv /\ PairInv
  /\ DueInv /\ InputsInv /\ CallsInv
  /\ FedInv /\ AheadInv /\ SlotInv /\ OutInv /\ ToggleInv /\ SpokenInv
-----------------------------------------------------------------------------
LEMMA TailOf ==
  ASSUME NEW S, NEW s \in Seq(S), s # << >>
  PROVE  /\ Head(s) \in S /\ Tail(s) \in Seq(S) /\ Len(Tail(s)) = Len(s) - 1
         /\ Len(s) \in Nat \ {0} /\ 1 \in DOMAIN s /\ s[1] = Head(s)
         /\ \A i \in DOMAIN Tail(s) : i + 1 \in DOMAIN s /\ Tail(s)[i] = s[i + 1]
         /\ \A i \in DOMAIN s : i # 1 => i - 1 \in DOMAIN Tail(s) /\ Tail(s)[i - 1] = s[i]
  OBVIOUS

(* The sides of a composite and its callbacks there.                       *)
LEMMA SidesOf ==
  ASSUME NEW c \in Composites, NEW s \in Sides
  PROVE  /\ LeafAt(c, s) \in Leaves /\ LeafAt(c, s) \in Hears(c) /\ Other(s) \in Sides
         /\ Other(s) # s /\ Other(Other(s)) = s /\ LeafAt(c, Other(s)) # LeafAt(c, s)
         /\ Hears(c) = {LeafAt(c, s), LeafAt(c, Other(s))}
         /\ Sides = {s, Other(s)}
         /\ CallbackOf(c, s) \in Callbacks /\ LeafOf(CallbackOf(c, s)) = LeafAt(c, s)
         /\ CallbackOf(c, s).to = c /\ CallbackOf(c, s).side = s
<1>1. c \in Composites /\ Fast[c] \in Leaves /\ Slow[c] \in Leaves /\ Fast[c] # Slow[c]
  BY ListenAssumption
<1>2. s = "fast" \/ s = "slow"
  BY DEF Sides
<1> QED BY <1>1, <1>2 DEF LeafAt, Hears, Other, Sides, CallbackOf, Callbacks, LeafOf

LEMMA CallbackIs ==
  ASSUME NEW cb \in Callbacks
  PROVE  /\ cb.to \in Composites /\ cb.side \in Sides /\ cb = CallbackOf(cb.to, cb.side)
         /\ LeafOf(cb) = LeafAt(cb.to, cb.side) /\ LeafOf(cb) \in Leaves
<1>1. cb.to \in Composites /\ cb.side \in Sides /\ cb = CallbackOf(cb.to, cb.side)
  BY DEF Callbacks, CallbackOf
<1> QED BY <1>1, SidesOf DEF LeafOf

(* What is about Bollinger bands: their leaves are of one warm-up, and     *)
(* nothing that forwards feeds them.                                       *)
LEMMA BandsProperties ==
  ASSUME NEW c \in Composites, c \notin Forwarding, NEW s \in Sides
  PROVE  Plain(LeafAt(c, s)) /\ Warm[LeafAt(c, Other(s))] = Warm[LeafAt(c, s)]
<1>1. LeafAt(c, s) \in Hears(c)
  BY SidesOf
<1>2. Plain(LeafAt(c, s))
  <2> SUFFICES ASSUME NEW d \in Forwarding, LeafAt(c, s) \in Hears(d) PROVE FALSE
    BY DEF Plain
  <2>1. d \in Composites /\ Hears(c) \cap Hears(d) # {}
    BY <1>1, ForwardingAssumption
  <2> QED BY <2>1, BandsAssumption
<1>3. Warm[Fast[c]] = Warm[Slow[c]]
  BY BandsAssumption
<1> QED BY <1>2, <1>3 DEF LeafAt, Other, Sides

LEMMA InitGraphInv == GraphInit => GraphInv
<1> SUFFICES ASSUME GraphInit PROVE GraphInv
  OBVIOUS
<1>1. GraphTypeOK
  <2>1. \A S : << >> \in Seq(S)
    OBVIOUS
  <2>2. told \in [Leaves -> Seq(Callbacks)] /\ fed \in [Leaves -> Seq(Nat)]
    BY <2>1 DEF GraphInit
  <2>3. out \in [Composites -> Seq(Nat \X Nat)]
    BY <2>1 DEF GraphInit
  <2> QED BY <2>1, <2>2, <2>3 DEF GraphInit, GraphTypeOK
<1>2. /\ DOMAIN order = {} /\ DOMAIN due = {} /\ DOMAIN inputs = {} /\ DOMAIN calls = {}
      /\ Len(due) = 0 /\ Len(order) = 0 /\ live = {}
      /\ \A l \in Leaves : told[l] = << >> /\ fed[l] = << >>
  BY DEF GraphInit
<1>3. KeysInv /\ ToldInv /\ PairInv /\ DueInv /\ InputsInv /\ CallsInv /\ AheadInv
  BY <1>2 DEF KeysInv, ToldInv, PairInv, DueInv, InputsInv, CallsInv, AheadInv
<1>4. FedInv /\ ToggleInv /\ SpokenInv
  BY <1>2 DEF GraphInit, FedInv, ToggleInv, SpokenInv, Feeding, Listening
<1>5. SlotInv
  <2> SUFFICES ASSUME NEW c \in Composites, NEW s \in Sides
               PROVE  slot[c][s] <= bar /\ ~ Pending(c, s)
    BY DEF SlotInv
  <2> QED BY <1>2 DEF GraphInit, Pending, Due
<1>6. OutInv
  BY DEF GraphInit, OutInv
<1> QED BY <1>1, <1>3, <1>4, <1>5, <1>6 DEF GraphInv

-----------------------------------------------------------------------------
(* The registry stands while a bar is fed.                                 *)
LEMMA RegistryStands ==
  ASSUME KeysInv, ToldInv, PairInv, UNCHANGED registry
  PROVE  /\ KeysInv' /\ ToldInv' /\ PairInv'
         /\ \A l : Plain(l)' = Plain(l)
         /\ \A cb : Attached(cb)' = Attached(cb)
         /\ \A c : Regular(c)' = Regular(c) /\ Listening(c)' = Listening(c)
         /\ \A c, s : First(c, s)' = First(c, s)
<1> USE DEF registry
<1>1. \A cb : Attached(cb)' = Attached(cb)
  BY DEF Attached
<1>2. KeysInv' /\ ToldInv'
  BY DEF KeysInv, ToldInv
<1>3. PairInv'
  BY <1>1 DEF PairInv
<1>4. \A l : Plain(l)' = Plain(l)
  BY DEF Plain
<1>5. \A c : Regular(c)' = Regular(c) /\ Listening(c)' = Listening(c)
  BY <1>1 DEF Regular, Listening
<1>6. \A c, s : First(c, s)' = First(c, s)
  BY DEF First
<1> QED BY <1>1, <1>2, <1>3, <1>4, <1>5, <1>6

LEMMA ProvideInv == GraphInv /\ Provide => GraphInv'
<1> SUFFICES ASSUME GraphInv, Provide PROVE GraphInv'
  OBVIOUS
<1>1. /\ due = << >> /\ inputs = << >> /\ calls = << >> /\ bar' = bar + 1 /\ due' = order
      /\ inputs' = << >> /\ calls' = << >>
      /\ UNCHANGED <<registry, fed, slot, ready, out>>
  BY DEF Provide, Feeding
<1>2. /\ DOMAIN due = {} /\ DOMAIN inputs = {} /\ DOMAIN calls = {}
      /\ DOMAIN inputs' = {} /\ DOMAIN calls' = {}
  BY <1>1
<1>3. GraphTypeOK' /\ bar \in Nat
  BY <1>1 DEF GraphInv, GraphTypeOK, registry
<1>4. /\ KeysInv' /\ ToldInv' /\ PairInv'
      /\ \A l : Plain(l)' = Plain(l)
      /\ \A cb : Attached(cb)' = Attached(cb)
      /\ \A c : Regular(c)' = Regular(c) /\ Listening(c)' = Listening(c)
      /\ \A c, s : First(c, s)' = First(c, s)
  BY <1>1, RegistryStands DEF GraphInv
<1>5. ASSUME NEW l \in live PROVE ~ Due(l) /\ Due(l)'
  <2>1. \E i \in DOMAIN order : order[i] = l
    BY DEF GraphInv, KeysInv
  <2> QED BY <1>1, <1>2, <2>1 DEF Due
<1>6. \A c, s : ~ Pending(c, s)
  BY <1>2 DEF Pending, Due
<1>7. DueInv' /\ InputsInv' /\ CallsInv'
  <2>1. order \in Seq(Keys) /\ order' = order
    BY <1>1 DEF GraphInv, GraphTypeOK, registry
  <2>2. DueInv'
    BY <1>1, <2>1 DEF DueInv
  <2> QED BY <1>2, <2>2 DEF InputsInv, CallsInv
<1>8. FedInv'
  <2> SUFFICES ASSUME NEW l \in Leaves \cap live, Plain(l), NEW i \in DOMAIN fed[l]
               PROVE  fed[l][i] = bar' - 1 - Len(fed[l]) + i
    BY <1>1, <1>4, <1>5 DEF FedInv, registry
  <2>1. fed[l][i] = bar - Len(fed[l]) + i
    BY <1>5 DEF GraphInv, FedInv
  <2> QED BY <1>1, <1>3, <2>1
<1>9. AheadInv'
  <2> SUFFICES ASSUME NEW i \in DOMAIN order, NEW j \in DOMAIN order, i < j,
                      {order[i], order[j]} \subseteq (Leaves \cap live) \ removed,
                      Plain(order[i]), Plain(order[j])
               PROVE  Share(order[j])' <= Share(order[i])'
    BY <1>1, <1>4 DEF AheadInv, registry, Share, Due
  <2>1. Share(order[j]) <= Share(order[i])
    BY DEF GraphInv, AheadInv
  <2>2. order[i] \in Leaves /\ order[j] \in Leaves /\ order[i] \in live /\ order[j] \in live
    OBVIOUS
  <2>3. Len(fed[order[i]]) \in Nat /\ Len(fed[order[j]]) \in Nat
    BY <2>2 DEF GraphInv, GraphTypeOK
  <2>4. Share(order[i]) = Len(fed[order[i]]) /\ Share(order[j]) = Len(fed[order[j]])
    <3>1. \A n \in live : Len(fed[n]) \in Nat => Share(n) = Len(fed[n])
      <4> SUFFICES ASSUME NEW n \in live, Len(fed[n]) \in Nat PROVE Share(n) = Len(fed[n])
        OBVIOUS
      <4>1. Share(n) = Len(fed[n]) + 0
        BY <1>5 DEF Share
      <4> QED BY <4>1
    <3> QED BY <2>2, <2>3, <3>1
  <2> DEFINE l == order[i]  m == order[j]
  <2>5. \A n \in live : Share(n)' = Len(fed[n]) + 1
    BY <1>1, <1>5 DEF Share
  <2>6. Share(l)' = Len(fed[l]) + 1 /\ Share(m)' = Len(fed[m]) + 1
    <3>1. order' = order
      BY <1>1 DEF registry
    <3> QED BY <2>2, <2>5, <3>1
  <2> QED BY <2>1, <2>3, <2>4, <2>6
<1>10. SlotInv'
  <2> SUFFICES ASSUME NEW c \in Composites \ Forwarding, NEW s \in Sides
               PROVE  slot[c][s] < bar'
    <3>1. slot' = slot /\ \A c \in Composites, s \in Sides : slot[c][s] \in Nat
      BY <1>1 DEF GraphInv, GraphTypeOK
    <3> QED BY <1>1, <1>3, <3>1 DEF SlotInv
  <2>1. slot[c][s] <= bar /\ slot[c][s] \in Nat
    BY DEF GraphInv, GraphTypeOK, SlotInv
  <2> QED BY <1>1, <1>3, <2>1
<1>11. OutInv'
  BY <1>1, <1>4 DEF GraphInv, OutInv, registry
<1>12. \A c \in Composites, s \in Sides : Listening(c) => Pending(c, s)'
  <2> SUFFICES ASSUME NEW c \in Composites, NEW s \in Sides, Listening(c) PROVE Pending(c, s)'
    OBVIOUS
  <2>1. LeafAt(c, s) \in live
    BY SidesOf DEF GraphInv, KeysInv, Listening
  <2> QED BY <1>5, <2>1 DEF Pending
<1>13. ToggleInv'
  <2> SUFFICES ASSUME NEW c \in Composites, NEW s \in Sides, Listening(c), First(c, s)
               PROVE  Other(s) \notin ready[c]
    BY <1>1, <1>4, <1>12 DEF ToggleInv
  <2> QED BY DEF GraphInv, ToggleInv
<1>14. SpokenInv'
  <2> SUFFICES ASSUME NEW c \in Composites PROVE Spoken(c)'
    BY DEF SpokenInv
  <2>1. "fast" \in Sides
    BY DEF Sides
  <2> QED BY <1>4, <1>12, <2>1 DEF Spoken
<1> QED BY <1>3, <1>4, <1>7, <1>8, <1>9, <1>10, <1>11, <1>13, <1>14 DEF GraphInv

LEMMA DispatchInv == GraphInv /\ Dispatch => GraphInv' /\ \A c \in Composites : Spoken(c)'
<1> SUFFICES ASSUME GraphInv, Dispatch
             PROVE  GraphInv' /\ \A c \in Composites : Spoken(c)'
  OBVIOUS
<1> DEFINE k == Head(due)
<1>1. /\ due # << >> /\ inputs = << >> /\ calls = << >>
      /\ due' = Tail(due) /\ inputs' = InputsOf(k) /\ calls' = << >>
      /\ UNCHANGED <<bar, registry, calls, fed, slot, ready, out>>
  BY DEF Dispatch
<1>2. DOMAIN inputs = {} /\ DOMAIN calls = {} /\ DOMAIN calls' = {}
  BY <1>1
<1>3. /\ order \in Seq(Keys) /\ due \in Seq(Keys) /\ k \in Keys /\ due' \in Seq(Keys)
      /\ Len(due') = Len(due) - 1 /\ Len(due) \in Nat \ {0} /\ Len(order) \in Nat
      /\ 1 \in DOMAIN due /\ due[1] = k
      /\ \A i \in DOMAIN due' : i \in Nat \ {0} /\ i + 1 \in DOMAIN due /\ due'[i] = due[i + 1]
      /\ \A i \in DOMAIN due : i # 1 => i - 1 \in DOMAIN due' /\ due'[i - 1] = due[i]
  BY <1>1, TailOf DEF GraphInv, GraphTypeOK
<1> HIDE DEF k
<1>4. /\ KeysInv' /\ ToldInv' /\ PairInv'
      /\ \A l : Plain(l)' = Plain(l)
      /\ \A cb : Attached(cb)' = Attached(cb)
      /\ \A c : Regular(c)' = Regular(c) /\ Listening(c)' = Listening(c)
      /\ \A c, s : First(c, s)' = First(c, s)
  BY <1>1, RegistryStands DEF GraphInv
(* What the key is: a leaf, or a composite that forwards, or nothing.      *)
<1>5. \/ DOMAIN inputs' = {} /\ inputs' = << >> /\ ~ (k \in live /\ k \in Leaves)
      \/ k \in live /\ k \in Leaves /\ inputs' = <<k>>
      \/ /\ k \in live /\ k \in Forwarding /\ k \notin Leaves
         /\ inputs' = <<Fast[k], Slow[k]>> /\ Fast[k] \in Leaves /\ Slow[k] \in Leaves
  BY <1>1, ForwardingAssumption, ListenAssumption DEF InputsOf
<1>6. GraphTypeOK'
  <2>1. << >> \in Seq(Leaves) /\ \A l, m \in Leaves : <<l>> \in Seq(Leaves) /\ <<l, m>> \in Seq(Leaves)
    OBVIOUS
  <2>2. inputs' \in Seq(Leaves)
    BY <1>5, <2>1
  <2> QED BY <1>1, <1>3, <2>2 DEF GraphInv, GraphTypeOK, registry
<1>7. Len(due') < Len(order)' /\ order'[Len(order)' - Len(due')] = k /\ DueInv'
  <2>1. order' = order /\ DueInv
    BY <1>1 DEF registry, GraphInv
  <2>2. order[Len(order) - Len(due) + 1] = k /\ Len(due) <= Len(order)
    BY <1>3, <2>1 DEF DueInv
  <2>3. ASSUME NEW i \in DOMAIN due' PROVE due'[i] = order[Len(order) - Len(due') + i]
    <3>1. due'[i] = order[Len(order) - Len(due) + (i + 1)]
      BY <1>3, <2>1 DEF DueInv
    <3>2. Len(order) - Len(due) + (i + 1) = Len(order) - Len(due') + i
      BY <1>3
    <3> QED BY <3>1, <3>2
  <2>4. Len(order) - Len(due) + 1 = Len(order) - Len(due') /\ Len(due') < Len(order)
    BY <1>3, <2>2
  <2> QED BY <1>3, <2>1, <2>2, <2>3, <2>4 DEF DueInv
<1>8. InputsInv'
  <2>2. ASSUME NEW i \in DOMAIN inputs'
        PROVE  /\ inputs'[i] \in live
               /\ Plain(inputs'[i]) => Len(inputs') = 1 /\ inputs'[i] = k
    <3>1. CASE k \in live /\ k \in Leaves /\ inputs' = <<k>>
      <4>1. DOMAIN inputs' = {1} /\ Len(inputs') = 1 /\ inputs'[1] = k
        BY <3>1
      <4> QED BY <3>1, <4>1
    <3>2. CASE /\ k \in live /\ k \in Forwarding /\ k \notin Leaves
               /\ inputs' = <<Fast[k], Slow[k]>> /\ Fast[k] \in Leaves /\ Slow[k] \in Leaves
      <4>1. inputs'[i] \in Hears(k) /\ k \in Composites
        BY <3>2, ForwardingAssumption DEF Hears
      <4> QED BY <3>2, <4>1 DEF GraphInv, KeysInv, Plain
    <3> QED BY <1>5, <3>1, <3>2
  <2>3. live' = live /\ order' = order
    BY <1>1 DEF registry
  <2> QED BY <1>7, <2>2, <2>3 DEF InputsInv, Plain, Current
<1>9. CallsInv'
  BY <1>2 DEF CallsInv
<1>10. ASSUME NEW l \in Leaves, Plain(l)
       PROVE  (Due(l)' => Due(l)) /\ (l \in live /\ Due(l) => Due(l)')
  <2>1. ASSUME NEW i \in DOMAIN due', due'[i] = l PROVE Due(l)
    BY <1>3, <2>1 DEF Due
  <2>2. ASSUME NEW i \in DOMAIN inputs', inputs'[i] = l PROVE Due(l)
    <3>1. CASE k \in live /\ k \in Leaves /\ inputs' = <<k>>
      BY <1>3, <2>2, <3>1 DEF Due
    <3>2. CASE /\ k \in live /\ k \in Forwarding /\ k \notin Leaves
               /\ inputs' = <<Fast[k], Slow[k]>> /\ Fast[k] \in Leaves /\ Slow[k] \in Leaves
      <4>1. l \in Hears(k)
        BY <2>2, <3>2 DEF Hears
      <4> QED BY <1>10, <3>2, <4>1 DEF Plain
    <3> QED BY <1>5, <2>2, <3>1, <3>2
  <2>3. ASSUME l \in live, NEW i \in DOMAIN due, due[i] = l PROVE Due(l)'
    <3>1. CASE i = 1
      <4>1. inputs' = <<k>> /\ k = l
        BY <1>3, <1>5, <2>3, <3>1
      <4> QED BY <4>1 DEF Due
    <3> QED BY <1>3, <2>3, <3>1 DEF Due
  <2> QED BY <1>2, <2>1, <2>2, <2>3 DEF Due
<1>11. FedInv'
  BY <1>1, <1>4, <1>10 DEF GraphInv, FedInv, registry
<1>12. AheadInv'
  <2>1. \A l \in Leaves \cap live : Plain(l) => Share(l)' = Share(l)
    BY <1>1, <1>10 DEF Share
  <2> SUFFICES ASSUME NEW i \in DOMAIN order, NEW j \in DOMAIN order, i < j,
                      {order[i], order[j]} \subseteq (Leaves \cap live) \ removed,
                      Plain(order[i]), Plain(order[j])
               PROVE  Share(order[j])' <= Share(order[i])'
    BY <1>1, <1>4 DEF AheadInv, registry, Share, Due
  <2>2. Share(order[j]) <= Share(order[i])
    BY DEF GraphInv, AheadInv
  <2>3. order' = order
    BY <1>1 DEF registry
  <2> QED BY <2>1, <2>2, <2>3
<1>13. ASSUME NEW c \in Composites, c \notin Forwarding, NEW s \in Sides
       PROVE  (Pending(c, s)' => Pending(c, s)) /\ (c \in live /\ Pending(c, s) => Pending(c, s)')
  <2>1. Plain(LeafAt(c, s)) /\ LeafAt(c, s) \in Leaves /\ LeafAt(c, s) \in Hears(c)
    BY <1>13, BandsProperties, SidesOf
  <2>2. c \in live => LeafAt(c, s) \in live
    BY <2>1 DEF GraphInv, KeysInv
  <2>3. LeafAt(c, s)' = LeafAt(c, s)
    BY DEF LeafAt
  <2> QED BY <1>2, <1>10, <2>1, <2>2, <2>3 DEF Pending
<1>14. SlotInv'
  BY <1>1, <1>13 DEF GraphInv, SlotInv
<1>15. OutInv'
  BY <1>1, <1>4 DEF GraphInv, OutInv, registry
<1>16. ASSUME NEW c \in Composites, NEW s \in Sides, Listening(c)
       PROVE  Pending(c, s)' = Pending(c, s) /\ IsWarm(LeafAt(c, s))' = IsWarm(LeafAt(c, s))
  BY <1>1, <1>13, <1>16 DEF Listening, Regular, IsWarm, Pending, Due, LeafAt
<1>17. ToggleInv'
  BY <1>1, <1>4, <1>16, SidesOf DEF GraphInv, ToggleInv
<1>18. ASSUME NEW c \in Composites PROVE Spoken(c)'
  <2>1. Spoken(c)
    BY <1>1 DEF GraphInv, SpokenInv, Feeding
  <2> QED BY <1>1, <1>4, <1>16, <2>1 DEF Spoken
<1>19. SpokenInv'
  BY <1>18 DEF SpokenInv
<1> QED BY <1>4, <1>6, <1>7, <1>8, <1>9, <1>11, <1>12, <1>14, <1>15, <1>17, <1>18, <1>19 DEF GraphInv

(* The key the converter has called is not among those it has still to     *)
(* call; those behind it in its dict are.                                  *)
LEMMA CurrentIs ==
  ASSUME GraphTypeOK, KeysInv, DueInv, NEW l, Current(l)
  PROVE  /\ \A i \in DOMAIN due : due[i] # l
         /\ \A i, j \in DOMAIN order : order[i] = l /\ j < i => \A m \in DOMAIN due : due[m] # order[j]
         /\ \A i, j \in DOMAIN order : order[i] = l /\ i < j => \E m \in DOMAIN due : due[m] = order[j]
<1> DEFINE at == Len(order) - Len(due)
<1>1. /\ at \in DOMAIN order /\ at \in Nat /\ order[at] = l /\ Len(order) \in Nat /\ Len(due) \in Nat
      /\ DOMAIN order = 1..Len(order) /\ DOMAIN due = 1..Len(due)
  BY DEF GraphTypeOK, DueInv, Current
<1>2. ASSUME NEW i \in DOMAIN due PROVE at + i \in DOMAIN order /\ due[i] = order[at + i] /\ at < at + i
  <2>1. due[i] = order[at + i]
    BY DEF DueInv
  <2> QED BY <1>1, <2>1
<1>3. \A i, j \in DOMAIN order : order[i] = order[j] => i = j
  BY DEF KeysInv
<1>4. \A i \in DOMAIN order : i > at => i - at \in DOMAIN due /\ at + (i - at) = i
  BY <1>1
<1> HIDE DEF at
<1>5. \A i \in DOMAIN due : due[i] # l
  BY <1>1, <1>2, <1>3
<1>6. ASSUME NEW i \in DOMAIN order, NEW j \in DOMAIN order, order[i] = l, j < i
      PROVE  \A m \in DOMAIN due : due[m] # order[j]
  <2>1. i = at
    BY <1>1, <1>3, <1>6
  <2> SUFFICES ASSUME NEW m \in DOMAIN due, due[m] = order[j] PROVE FALSE
    OBVIOUS
  <2>2. at + m = j
    BY <1>2, <1>3
  <2> QED BY <1>1, <1>6, <2>1, <2>2
<1>7. ASSUME NEW i \in DOMAIN order, NEW j \in DOMAIN order, order[i] = l, i < j
      PROVE  \E m \in DOMAIN due : due[m] = order[j]
  <2>1. i = at
    BY <1>1, <1>3, <1>7
  <2>2. j - at \in DOMAIN due /\ at + (j - at) = j
    BY <1>1, <1>4, <1>7, <2>1
  <2> QED BY <1>2, <2>2
<1> QED BY <1>5, <1>6, <1>7

LEMMA ConsumeInv == GraphInv /\ Consume => GraphInv' /\ \A c \in Composites : Spoken(c)'
<1> SUFFICES ASSUME GraphInv, Consume
             PROVE  GraphInv' /\ \A c \in Composites : Spoken(c)'
  OBVIOUS
<1>0. PICK l : l = Head(inputs)
  OBVIOUS
<1>1. /\ inputs # << >> /\ calls = << >> /\ inputs' = Tail(inputs)
      /\ fed' = [fed EXCEPT ![l] = Append(@, bar)]
      /\ calls' = IF Len(fed'[l]) >= Warm[l] THEN told[l] ELSE << >>
      /\ UNCHANGED <<bar, registry, due, slot, ready, out>>
  BY <1>0 DEF Consume
<1>2. /\ l \in Leaves /\ inputs' \in Seq(Leaves) /\ Len(inputs') = Len(inputs) - 1
      /\ Len(inputs) \in Nat \ {0} /\ 1 \in DOMAIN inputs /\ inputs[1] = l
      /\ \A i \in DOMAIN inputs' : i + 1 \in DOMAIN inputs /\ inputs'[i] = inputs[i + 1]
      /\ \A i \in DOMAIN inputs : i # 1 => i - 1 \in DOMAIN inputs' /\ inputs'[i - 1] = inputs[i]
  BY <1>0, <1>1, TailOf DEF GraphInv, GraphTypeOK
<1>3. DOMAIN calls = {} /\ DOMAIN inputs' = 1..(Len(inputs) - 1)
  BY <1>1, <1>2
<1>4. /\ KeysInv' /\ ToldInv' /\ PairInv'
      /\ \A m : Plain(m)' = Plain(m)
      /\ \A cb : Attached(cb)' = Attached(cb)
      /\ \A c : Regular(c)' = Regular(c) /\ Listening(c)' = Listening(c)
      /\ \A c, s : First(c, s)' = First(c, s)
  BY <1>1, RegistryStands DEF GraphInv
<1>5. /\ fed \in [Leaves -> Seq(Nat)] /\ fed' \in [Leaves -> Seq(Nat)] /\ bar \in Nat
      /\ fed'[l] = Append(fed[l], bar)
      /\ \A m \in Leaves : m # l => fed'[m] = fed[m]
  BY <1>1, <1>2 DEF GraphInv, GraphTypeOK
<1>6. Len(fed'[l]) = Len(fed[l]) + 1 /\ Len(fed[l]) \in Nat
  <2>1. fed[l] \in Seq(Nat)
    BY <1>2, <1>5
  <2> QED BY <1>5, <2>1
<1>7. calls' = << >> \/ (calls' = told[l] /\ Len(fed'[l]) >= Warm[l])
  BY <1>1
<1>8. GraphTypeOK'
  <2>1. calls' \in Seq(Callbacks)
    <3>1. told[l] \in Seq(Callbacks)
      BY <1>2 DEF GraphInv, GraphTypeOK
    <3>2. << >> \in Seq(Callbacks)
      OBVIOUS
    <3> QED BY <1>7, <3>1, <3>2
  <2>2. /\ bar' = bar /\ order' = order /\ live' = live /\ removed' = removed /\ told' = told
        /\ due' = due /\ slot' = slot /\ ready' = ready /\ out' = out
    BY <1>1 DEF registry
  <2>3. GraphTypeOK /\ inputs' \in Seq(Leaves) /\ fed' \in [Leaves -> Seq(Nat)]
    BY <1>2, <1>5 DEF GraphInv
  <2> QED BY ONLY <2>1, <2>2, <2>3 DEF GraphTypeOK
<1>9. DueInv'
  BY <1>1 DEF GraphInv, DueInv, registry
<1>10. l \in live /\ (Plain(l) => inputs' = << >> /\ Current(l) /\ Current(l)')
  <2>1. l \in live /\ (Plain(l) => Len(inputs) = 1 /\ Current(l))
    BY <1>2 DEF GraphInv, InputsInv
  <2>2. Len(inputs) = 1 => inputs' = << >>
    BY <1>2
  <2>3. Current(l)' = Current(l)
    BY <1>1 DEF Current, registry
  <2> QED BY <2>1, <2>2, <2>3
<1>11. InputsInv'
  <2>1. ASSUME NEW i \in DOMAIN inputs' PROVE inputs'[i] \in live /\ ~ Plain(inputs'[i])
    <3>1. i + 1 \in DOMAIN inputs /\ inputs'[i] = inputs[i + 1] /\ Len(inputs) # 1
      BY <1>2, <1>3
    <3> QED BY <3>1 DEF GraphInv, InputsInv
  <2> QED BY <1>1, <2>1 DEF InputsInv, Plain, registry
<1>12. ASSUME NEW i \in DOMAIN calls'
       PROVE  /\ calls' = told[l] /\ Attached(calls'[i]) /\ LeafOf(calls'[i]) = l
              /\ Len(fed'[l]) >= Warm[l]
              /\ \A j \in DOMAIN calls' : calls'[i] = calls'[j] => i = j
  <2>1. calls' = told[l] /\ Len(fed'[l]) >= Warm[l]
    BY <1>7
  <2>2. LeafOf(told[l][i]) = l
    BY <1>2, <2>1 DEF GraphInv, ToldInv
  <2>3. Attached(told[l][i])
    BY <2>1, <2>2 DEF Attached
  <2>4. \A j \in DOMAIN told[l] : ListenerKey(told[l][i]) = ListenerKey(told[l][j]) => i = j
    BY <1>2, <2>1 DEF GraphInv, ToldInv
  <2> QED BY <2>1, <2>2, <2>3, <2>4
<1>13. CallsInv'
  <2> SUFFICES ASSUME NEW i \in DOMAIN calls'
               PROVE  /\ Attached(calls[i])'
                      /\ (Len(fed[LeafOf(calls[i])]) >= Warm[LeafOf(calls[i])])'
                      /\ (Plain(LeafOf(calls[i])) => inputs = << >> /\ Current(LeafOf(calls[i])))'
                      /\ \A j \in DOMAIN calls' : (LeafOf(calls[j]) = LeafOf(calls[i]))'
                      /\ \A j \in DOMAIN calls' : calls'[i] = calls'[j] => i = j
    BY DEF CallsInv
  <2>1. \A j \in DOMAIN calls' : LeafOf(calls[j])' = l
    BY <1>12 DEF LeafOf, LeafAt
  <2>2. LeafOf(calls'[i]) = l /\ Attached(calls'[i])
    BY <1>12
  <2>3. Attached(calls[i])'
    BY <1>1, <2>1, <2>2 DEF Attached, registry
  <2>4. (Len(fed[LeafOf(calls[i])]) >= Warm[LeafOf(calls[i])])'
    BY <1>12, <2>1
  <2>5. (Plain(LeafOf(calls[i])) => inputs = << >> /\ Current(LeafOf(calls[i])))'
    BY <1>1, <1>10, <2>1 DEF Plain, Current, registry
  <2> QED BY <1>12, <2>1, <2>3, <2>4, <2>5
<1>14. ASSUME NEW m \in Leaves, Plain(m), m # l PROVE Due(m)' = Due(m)
  <2>1. (\E i \in DOMAIN inputs' : inputs'[i] = m) <=> (\E i \in DOMAIN inputs : inputs[i] = m)
    BY <1>2, <1>14
  <2>2. due' = due
    BY <1>1
  <2> QED BY <2>1, <2>2, Zenon DEF Due
<1>15. Plain(l) => Due(l) /\ ~ Due(l)'
  <2>1. Due(l)
    BY <1>2 DEF Due
  <2>2. ASSUME Plain(l), Due(l)' PROVE FALSE
    <3>1. DOMAIN inputs' = {} /\ Current(l)
      BY <1>10, <2>2
    <3>2. \A i \in DOMAIN due : due[i] # l
      BY <3>1, CurrentIs DEF GraphInv
    <3> QED BY <1>1, <2>2, <3>1, <3>2 DEF Due
  <2> QED BY <2>1, <2>2
<1>16. FedInv'
  <2> SUFFICES ASSUME NEW m \in Leaves \cap live, Plain(m), NEW i \in DOMAIN fed'[m]
               PROVE  fed'[m][i] = (IF Due(m)' THEN bar - 1 ELSE bar) - Len(fed'[m]) + i
    BY <1>1, <1>4 DEF FedInv, registry, Due
  <2>1. CASE m # l
    BY <1>5, <1>14, <2>1 DEF GraphInv, FedInv
  <2>2. CASE m = l
    <3>0. ~ Due(m)'
      BY <1>15, <2>2
    <3>1. fed[l] \in Seq(Nat) /\ i \in 1..Len(fed[l]) + 1
      BY <1>2, <1>5, <1>15, <2>2
    <3>2. CASE i = Len(fed[l]) + 1
      <4>1. fed'[l][i] = bar
        BY <1>5, <3>1, <3>2
      <4>2. Len(fed'[m]) = i /\ i \in Nat
        BY <1>6, <2>2, <3>2
      <4>3. bar = bar - Len(fed'[m]) + i
        BY <1>5, <4>2
      <4> QED BY <2>2, <3>0, <4>1, <4>3
    <3>3. CASE i # Len(fed[l]) + 1
      <4>0. i \in 1..Len(fed[l]) /\ i \in DOMAIN fed[l]
        BY <3>1, <3>3
      <4>1. i \in DOMAIN fed[l] /\ fed'[l][i] = fed[l][i]
        BY <1>5, <3>1, <4>0, AppendProperties
      <4>2. fed[l][i] = bar - 1 - Len(fed[l]) + i
        BY <1>15, <2>2, <4>1 DEF GraphInv, FedInv
      <4> QED BY <1>5, <1>6, <2>2, <3>0, <3>1, <4>1, <4>2
    <3> QED BY <3>2, <3>3
  <2> QED BY <2>1, <2>2
<1>17. AheadInv'
  <2>1. ASSUME NEW m \in Leaves, Plain(m) PROVE Share(m)' = Share(m)
    <3>1. CASE m # l
      <4>1. fed'[m] = fed[m] /\ Due(m)' = Due(m)
        BY <1>5, <1>14, <2>1, <3>1
      <4> QED BY <4>1 DEF Share
    <3>2. CASE m = l
      <4>1. Share(l) = Len(fed[l]) + 1
        BY <1>15, <2>1, <3>2 DEF Share
      <4>2. Len(fed'[m]) + 0 = Len(fed[m]) + 1 /\ ~ Due(m)'
        BY <1>6, <1>15, <2>1, <3>2
      <4>3. Share(m)' = Len(fed'[m]) + 0
        BY <4>2 DEF Share
      <4> QED BY <3>2, <4>1, <4>2, <4>3
    <3> QED BY <3>1, <3>2
  <2> SUFFICES ASSUME NEW i \in DOMAIN order, NEW j \in DOMAIN order, i < j,
                      {order[i], order[j]} \subseteq (Leaves \cap live) \ removed,
                      Plain(order[i]), Plain(order[j])
               PROVE  Share(order[j])' <= Share(order[i])'
    BY <1>1, <1>4 DEF AheadInv, registry, Share, Due
  <2>2. Share(order[j]) <= Share(order[i])
    BY DEF GraphInv, AheadInv
  <2>3. order' = order
    BY <1>1 DEF registry
  <2> QED BY <2>1, <2>2, <2>3
(* A composite that has both of its callbacks waits for the leaf's value   *)
(* as long as the leaf is to be fed, and then for its call.                *)
<1>18. ASSUME NEW c \in Composites, NEW s \in Sides
       PROVE  (\E i \in DOMAIN calls' : calls'[i] = CallbackOf(c, s)) => LeafAt(c, s) = l
  BY <1>12, SidesOf
<1>19. ASSUME NEW c \in Composites, c \notin Forwarding, NEW s \in Sides
       PROVE  /\ Pending(c, s)' => Pending(c, s)
              /\ LeafAt(c, s) # l => Pending(c, s)' = Pending(c, s)
              /\ LeafAt(c, s) = l => Pending(c, s)
  <2>1. Plain(LeafAt(c, s)) /\ LeafAt(c, s) \in Leaves
    BY <1>19, BandsProperties, SidesOf
  <2>2. LeafAt(c, s)' = LeafAt(c, s)
    BY DEF LeafAt
  <2> QED BY <1>3, <1>14, <1>15, <1>18, <2>1, <2>2 DEF Pending
<1>20. ASSUME NEW c \in Composites, Listening(c), NEW s \in Sides
       PROVE  /\ LeafAt(c, s) # l => IsWarm(LeafAt(c, s))' = IsWarm(LeafAt(c, s))
              /\ LeafAt(c, s) = l /\ IsWarm(LeafAt(c, s))' => Pending(c, s)'
  <2>1. /\ LeafAt(c, s) \in Leaves /\ CallbackOf(c, s) \in Callbacks /\ LeafAt(c, s)' = LeafAt(c, s)
        /\ LeafOf(CallbackOf(c, s)) = LeafAt(c, s)
    BY SidesOf DEF LeafAt
  <2>2. LeafAt(c, s) # l => IsWarm(LeafAt(c, s))' = IsWarm(LeafAt(c, s))
    BY <1>5, <2>1 DEF IsWarm
  <2>3. ASSUME LeafAt(c, s) = l, IsWarm(LeafAt(c, s))' PROVE Pending(c, s)'
    <3>1. Attached(CallbackOf(c, s))
      <4>1. Attached(CallbackOf(c, "fast")) /\ Attached(CallbackOf(c, "slow"))
        BY <1>20 DEF GraphInv, PairInv, Listening, Regular
      <4> QED BY <4>1 DEF Sides
    <3>2. calls' = told[l]
      BY <1>1, <2>1, <2>3 DEF IsWarm
    <3>3. \E i \in DOMAIN told[l] : told[l][i] = CallbackOf(c, s)
      BY <2>1, <2>3, <3>1 DEF Attached
    <3> QED BY <3>2, <3>3 DEF Pending, CallbackOf
  <2> QED BY <2>2, <2>3
<1>21. SlotInv'
  BY <1>1, <1>19 DEF GraphInv, SlotInv
<1>22. OutInv'
  BY <1>1, <1>4 DEF GraphInv, OutInv, registry
<1>23. ToggleInv'
  <2> SUFFICES ASSUME NEW c \in Composites, NEW s \in Sides, Listening(c), First(c, s)
               PROVE  /\ Other(s) \notin ready[c]
                      /\ (~ Pending(c, s) /\ Pending(c, Other(s)) /\ IsWarm(LeafAt(c, s)))' =>
                            s \in ready[c] /\ slot[c][s] = bar
    BY <1>1, <1>4 DEF ToggleInv, Other, Pending, Due, CallbackOf, IsWarm, LeafAt
  <2>1. Other(s) \notin ready[c]
    BY DEF GraphInv, ToggleInv
  <2>2. ASSUME ~ Pending(c, s)', Pending(c, Other(s))', IsWarm(LeafAt(c, s))'
        PROVE  s \in ready[c] /\ slot[c][s] = bar
    <3>1. LeafAt(c, s) # l
      BY <1>20, <2>2
    <3>2. c \notin Forwarding /\ Other(s) \in Sides
      BY SidesOf DEF Listening, Regular
    <3>3. ~ Pending(c, s) /\ IsWarm(LeafAt(c, s))
      BY <1>19, <1>20, <2>2, <3>1, <3>2
    <3>4. Pending(c, Other(s))
      <4>1. Pending(c, Other(s))' => Pending(c, Other(s))
        BY <1>14, <1>15, <1>18, <3>2, BandsProperties, SidesOf, <1>19
      <4> QED BY <2>2, <4>1
    <3> QED BY <3>3, <3>4 DEF GraphInv, ToggleInv
  <2>3. Other(s)' = Other(s)
    BY DEF Other
  <2> QED BY <2>1, <2>2, <2>3
<1>24. ASSUME NEW c \in Composites PROVE Spoken(c)'
  <2>1. Spoken(c)
    BY <1>1 DEF GraphInv, SpokenInv, Feeding
  <2> SUFFICES ASSUME Listening(c), \A s \in Sides : ~ Pending(c, s)' /\ IsWarm(LeafAt(c, s))'
               PROVE  out[c] # << >> /\ Last(out[c]) = <<bar, bar>>
    BY <1>1, <1>4 DEF Spoken
  <2>2. \A s \in Sides : LeafAt(c, s) # l
    BY <1>20
  <2>3. c \notin Forwarding
    BY DEF Listening, Regular
  <2>4. \A s \in Sides : ~ Pending(c, s) /\ IsWarm(LeafAt(c, s))
    BY <1>19, <1>20, <2>2, <2>3
  <2> QED BY <2>1, <2>4 DEF Spoken
<1>25. SpokenInv'
  BY <1>24 DEF SpokenInv
<1> QED BY <1>4, <1>8, <1>9, <1>11, <1>13, <1>16, <1>17, <1>21, <1>22, <1>23, <1>24, <1>25 DEF GraphInv

LEMMA OnValueInv == GraphInv /\ OnValue => GraphInv' /\ \A c \in Composites : Spoken(c)'
<1> SUFFICES ASSUME GraphInv, OnValue
             PROVE  GraphInv' /\ \A c \in Composites : Spoken(c)'
  OBVIOUS
<1>0. PICK c, s, o : c = Head(calls).to /\ s = Head(calls).side /\ o = Other(s)
  OBVIOUS
<1>1. /\ calls # << >> /\ calls' = Tail(calls)
      /\ slot' = [slot EXCEPT ![c][s] = bar]
      /\ \/ /\ o \in ready[c] /\ ready' = [ready EXCEPT ![c] = {}]
            /\ out' = [out EXCEPT ![c] = Append(@, <<slot'[c]["fast"], slot'[c]["slow"]>>)]
         \/ o \notin ready[c] /\ ready' = [ready EXCEPT ![c] = @ \cup {s}] /\ out' = out
      /\ UNCHANGED <<bar, registry, due, inputs, fed>>
  BY <1>0 DEF OnValue
<1>2. /\ Head(calls) \in Callbacks /\ calls' \in Seq(Callbacks) /\ 1 \in DOMAIN calls /\ calls[1] = Head(calls)
      /\ \A i \in DOMAIN calls' : i + 1 \in DOMAIN calls /\ i + 1 # 1 /\ calls'[i] = calls[i + 1]
      /\ \A i \in DOMAIN calls : i # 1 => i - 1 \in DOMAIN calls' /\ calls'[i - 1] = calls[i]
  <2>1. calls \in Seq(Callbacks)
    BY DEF GraphInv, GraphTypeOK
  <2> QED BY <1>1, <2>1, TailOf
<1>3. /\ c \in Composites /\ s \in Sides /\ o \in Sides /\ o # s /\ Sides = {s, o} /\ Other(o) = s /\ Other(s) = o
      /\ calls[1] = CallbackOf(c, s) /\ LeafOf(calls[1]) = LeafAt(c, s)
      /\ LeafAt(c, s) \in Leaves /\ LeafAt(c, o) \in Leaves /\ LeafAt(c, o) # LeafAt(c, s)
      /\ Hears(c) = {LeafAt(c, s), LeafAt(c, o)}
  BY <1>0, <1>2, CallbackIs, SidesOf
<1>4. /\ KeysInv' /\ ToldInv' /\ PairInv'
      /\ \A m : Plain(m)' = Plain(m)
      /\ \A cb : Attached(cb)' = Attached(cb)
      /\ \A d : Regular(d)' = Regular(d) /\ Listening(d)' = Listening(d)
      /\ \A d, t : First(d, t)' = First(d, t)
  BY <1>1, RegistryStands DEF GraphInv
<1>5. /\ bar' = bar /\ order' = order /\ live' = live /\ removed' = removed /\ told' = told
      /\ due' = due /\ inputs' = inputs /\ fed' = fed /\ bar \in Nat
  BY <1>1 DEF registry, GraphInv, GraphTypeOK
<1>6. /\ slot \in [Composites -> [Sides -> Nat]] /\ ready \in [Composites -> SUBSET Sides]
      /\ out \in [Composites -> Seq(Nat \X Nat)] /\ calls \in Seq(Callbacks)
  BY DEF GraphInv, GraphTypeOK
<1>7. /\ slot' \in [Composites -> [Sides -> Nat]]
      /\ slot'[c][s] = bar /\ slot'[c][o] = slot[c][o]
      /\ \A d \in Composites \ {c} : slot'[d] = slot[d]
  BY <1>1, <1>3, <1>5, <1>6
<1>8. /\ ready' \in [Composites -> SUBSET Sides]
      /\ \A d \in Composites \ {c} : ready'[d] = ready[d] /\ out'[d] = out[d]
  <2>1. CASE ready' = [ready EXCEPT ![c] = {}]
              /\ out' = [out EXCEPT ![c] = Append(@, <<slot'[c]["fast"], slot'[c]["slow"]>>)]
    BY <1>3, <1>6, <2>1
  <2>2. CASE ready' = [ready EXCEPT ![c] = @ \cup {s}] /\ out' = out
    <3>1. ready[c] \cup {s} \in SUBSET Sides
      BY <1>3, <1>6
    <3> QED BY <1>3, <1>6, <2>2, <3>1
  <2> QED BY <1>1, <2>1, <2>2
<1>9. PICK new : new = <<slot'[c]["fast"], slot'[c]["slow"]>>
  OBVIOUS
<1>10. /\ new \in Nat \X Nat /\ {new[1], new[2]} = {slot'[c][s], slot'[c][o]} /\ new[2] = slot'[c]["slow"]
       /\ \/ o \in ready[c] /\ ready'[c] = {} /\ out'[c] = Append(out[c], new)
          \/ o \notin ready[c] /\ ready'[c] = ready[c] \cup {s} /\ out'[c] = out[c]
       /\ out[c] \in Seq(Nat \X Nat) /\ ready[c] \subseteq Sides
  <2>1. "fast" \in Sides /\ "slow" \in Sides /\ ((s = "fast" /\ o = "slow") \/ (s = "slow" /\ o = "fast"))
    BY <1>3 DEF Sides
  <2>2. new \in Nat \X Nat /\ {new[1], new[2]} = {slot'[c][s], slot'[c][o]} /\ new[2] = slot'[c]["slow"]
    BY <1>3, <1>7, <1>9, <2>1
  <2>3. \/ o \in ready[c] /\ ready'[c] = {} /\ out'[c] = Append(out[c], new)
        \/ o \notin ready[c] /\ ready'[c] = ready[c] \cup {s} /\ out'[c] = out[c]
    BY <1>1, <1>3, <1>6, <1>9
  <2> QED BY <1>3, <1>6, <2>2, <2>3
<1>11. out' \in [Composites -> Seq(Nat \X Nat)]
  <2>1. out'[c] \in Seq(Nat \X Nat)
    <3>1. new \in Nat \X Nat /\ out[c] \in Seq(Nat \X Nat) /\ (out'[c] = Append(out[c], new) \/ out'[c] = out[c])
      BY <1>10
    <3>2. Append(out[c], new) \in Seq(Nat \X Nat)
      BY <3>1, AppendProperties
    <3> QED BY <3>1, <3>2
  <2>2. DOMAIN out' = Composites /\ out' = [d \in Composites |-> out'[d]]
    BY <1>1, <1>6
  <2> QED BY <1>6, <1>8, <2>1, <2>2
<1>12. GraphTypeOK'
  <2>1. GraphTypeOK
    BY DEF GraphInv
  <2> QED BY ONLY <1>2, <1>5, <1>7, <1>8, <1>11, <2>1 DEF GraphTypeOK
<1>13. DueInv' /\ InputsInv'
  BY <1>5 DEF GraphInv, DueInv, InputsInv, Plain, Current
<1>14. CallsInv'
  <2> SUFFICES ASSUME NEW i \in DOMAIN calls'
               PROVE  /\ Attached(calls[i])'
                      /\ (Len(fed[LeafOf(calls[i])]) >= Warm[LeafOf(calls[i])])'
                      /\ (Plain(LeafOf(calls[i])) => inputs = << >> /\ Current(LeafOf(calls[i])))'
                      /\ \A j \in DOMAIN calls' : (LeafOf(calls[j]) = LeafOf(calls[i]))'
                      /\ \A j \in DOMAIN calls' : calls'[i] = calls'[j] => i = j
    BY DEF CallsInv
  <2>1. \A j \in DOMAIN calls' : j \in Nat
    BY <1>2
  <2> DEFINE cb == calls[i + 1]
  <2>2. i + 1 \in DOMAIN calls /\ calls'[i] = cb
    BY <1>2
  <2>3. /\ Attached(cb) /\ Len(fed[LeafOf(cb)]) >= Warm[LeafOf(cb)]
        /\ Plain(LeafOf(cb)) => inputs = << >> /\ Current(LeafOf(cb))
        /\ \A j \in DOMAIN calls : LeafOf(calls[j]) = LeafOf(cb)
        /\ \A j \in DOMAIN calls : cb = calls[j] => i + 1 = j
    BY <2>2 DEF GraphInv, CallsInv
  <2>4. PICK x : x = cb
    OBVIOUS
  <2>5. \A j \in DOMAIN calls' : LeafOf(calls[j])' = LeafOf(x)
    BY <1>2, <2>3, <2>4 DEF LeafOf, LeafAt
  <2>6. Attached(calls[i])'
    BY <1>5, <2>2, <2>3, <2>4, <2>5 DEF Attached
  <2>7. (Plain(LeafOf(calls[i])) => inputs = << >> /\ Current(LeafOf(calls[i])))'
    BY <1>5, <2>3, <2>4, <2>5 DEF Plain, Current
  <2>8. \A j \in DOMAIN calls' : calls'[i] = calls'[j] => i = j
    BY <1>2, <2>1, <2>2, <2>3
  <2> QED BY <1>5, <2>3, <2>4, <2>5, <2>6, <2>7, <2>8
<1>15. FedInv' /\ AheadInv'
  <2>1. \A m : Due(m)' = Due(m) /\ Share(m)' = Share(m)
    BY <1>5 DEF Due, Share
  <2>2. FedInv'
    BY <1>4, <1>5, <2>1 DEF GraphInv, FedInv
  <2> SUFFICES ASSUME NEW i \in DOMAIN order, NEW j \in DOMAIN order, i < j,
                      {order[i], order[j]} \subseteq (Leaves \cap live) \ removed,
                      Plain(order[i]), Plain(order[j])
               PROVE  Share(order[j])' <= Share(order[i])'
    BY <1>5, <1>4, <2>2 DEF AheadInv, Share, Due
  <2>3. Share(order[j]) <= Share(order[i])
    BY DEF GraphInv, AheadInv
  <2> QED BY <1>5, <2>1, <2>3
<1>16. \A d, t : /\ LeafAt(d, t)' = LeafAt(d, t) /\ Due(LeafAt(d, t))' = Due(LeafAt(d, t))
                 /\ IsWarm(LeafAt(d, t))' = IsWarm(LeafAt(d, t))
  BY <1>5 DEF LeafAt, Due, IsWarm
<1>17. \A d \in Composites, t \in Sides :
         /\ Pending(d, t)' => Pending(d, t)
         /\ CallbackOf(d, t) # CallbackOf(c, s) => Pending(d, t)' = Pending(d, t)
  <2> SUFFICES ASSUME NEW d \in Composites, NEW t \in Sides
               PROVE  /\ Pending(d, t)' => Pending(d, t)
                      /\ CallbackOf(d, t) # CallbackOf(c, s) => Pending(d, t)' = Pending(d, t)
    OBVIOUS
  <2>1. CallbackOf(d, t)' = CallbackOf(d, t)
    BY DEF CallbackOf
  <2> QED BY <1>2, <1>3, <1>16, <2>1 DEF Pending
<1>18. /\ c \in live /\ Pending(c, s) /\ IsWarm(LeafAt(c, s)) /\ Attached(CallbackOf(c, s))
       /\ \A i \in DOMAIN calls : LeafOf(calls[i]) = LeafAt(c, s)
  <2>1. /\ Attached(CallbackOf(c, s)) /\ IsWarm(LeafAt(c, s))
        /\ \A i \in DOMAIN calls : LeafOf(calls[i]) = LeafAt(c, s)
    BY <1>2, <1>3 DEF GraphInv, CallsInv, IsWarm
  <2>2. PICK i \in DOMAIN told[LeafAt(c, s)] : told[LeafAt(c, s)][i] = CallbackOf(c, s)
    BY <1>3, <2>1 DEF Attached
  <2>3. c \in live
    BY <1>3, <2>2, SidesOf DEF GraphInv, ToldInv
  <2>4. Pending(c, s)
    BY <1>2, <1>3 DEF Pending
  <2> QED BY <2>1, <2>3, <2>4
<1>19. ASSUME c \notin Forwarding
       PROVE  /\ Plain(LeafAt(c, s)) /\ inputs = << >> /\ Current(LeafAt(c, s))
              /\ ~ Due(LeafAt(c, s)) /\ ~ Pending(c, s)'
              /\ slot[c][s] < bar /\ slot[c][o] <= bar
  <2>1. Plain(LeafAt(c, s)) /\ inputs = << >> /\ Current(LeafAt(c, s))
    BY <1>2, <1>3, <1>19, BandsProperties DEF GraphInv, CallsInv
  <2>2. ~ Due(LeafAt(c, s))
    <3>1. \A i \in DOMAIN due : due[i] # LeafAt(c, s)
      BY <2>1, CurrentIs DEF GraphInv
    <3> QED BY <2>1, <3>1 DEF Due
  <2>3. ~ Pending(c, s)'
    <3>1. CallbackOf(c, s)' = CallbackOf(c, s)
      BY DEF CallbackOf
    <3>2. \A i \in DOMAIN calls' : calls'[i] # CallbackOf(c, s)
      BY <1>2, <1>3 DEF GraphInv, CallsInv
    <3> QED BY <1>16, <2>2, <3>1, <3>2 DEF Pending
  <2> QED BY <1>3, <1>18, <1>19, <2>1, <2>2, <2>3 DEF GraphInv, SlotInv
(* The other leaf is fed before this one, or behind it.                    *)
<1>20. ASSUME Regular(c)
       PROVE  /\ Listening(c)
              /\ \/ First(c, s) /\ o \notin ready[c] /\ Pending(c, o)'
                 \/ First(c, o) /\ o \in ready[c] /\ slot[c][o] = bar
  <2>1. c \notin Forwarding
    BY <1>20 DEF Regular
  <2>2. Listening(c)
    BY <1>3, <1>18, <1>20, <2>1 DEF GraphInv, PairInv, Listening, Sides
  <2> DEFINE l == LeafAt(c, s)  m == LeafAt(c, o)
  <2>3. {l, m} \subseteq (Leaves \cap live) \ removed /\ Plain(l) /\ Plain(m)
    BY <1>3, <1>18, <1>20, <2>1, BandsProperties DEF Regular, GraphInv, KeysInv
  <2>4. PICK i \in DOMAIN order, j \in DOMAIN order : order[i] = l /\ order[j] = m
    BY <2>3 DEF GraphInv, KeysInv
  <2>5. i \in Nat /\ j \in Nat /\ i # j
    BY <1>3, <2>4 DEF GraphInv, GraphTypeOK
  <2>6. CASE i < j
    <3>1. First(c, s)
      BY <1>3, <2>4, <2>6 DEF First
    <3>2. \E n \in DOMAIN due : due[n] = m
      BY <1>19, <2>1, <2>4, <2>6, CurrentIs DEF GraphInv
    <3>3. Pending(c, o)'
      BY <1>5, <1>16, <3>2 DEF Pending, Due
    <3>4. o \notin ready[c]
      BY <1>3, <2>2, <3>1 DEF GraphInv, ToggleInv
    <3> QED BY <2>2, <3>1, <3>3, <3>4
  <2>7. CASE j < i
    <3>1. First(c, o)
      BY <1>3, <2>4, <2>7 DEF First
    <3>2. \A n \in DOMAIN due : due[n] # m
      BY <1>19, <2>1, <2>4, <2>7, CurrentIs DEF GraphInv
    <3>3. ~ Due(m) /\ ~ Due(l)
      BY <1>19, <2>1, <3>2 DEF Due
    <3>4. ~ Pending(c, o)
      BY <1>3, <1>18, <3>3, SidesOf DEF Pending
    <3>5. IsWarm(m)
      <4>1. Share(l) <= Share(m)
        BY <2>3, <2>4, <2>7 DEF GraphInv, AheadInv
      <4>2. Len(fed[l]) \in Nat /\ Len(fed[m]) \in Nat
        BY <1>3 DEF GraphInv, GraphTypeOK
      <4>3. Share(l) = Len(fed[l]) + 0 /\ Share(m) = Len(fed[m]) + 0
        BY <3>3 DEF Share
      <4>4. Warm[m] = Warm[l] /\ Warm[l] \in Nat
        BY <1>3, <2>1, BandsProperties, WarmAssumption
      <4> QED BY <1>18, <4>1, <4>2, <4>3, <4>4 DEF IsWarm
    <3>6. o \in ready[c] /\ slot[c][o] = bar
      BY <1>3, <1>18, <2>2, <3>1, <3>4, <3>5 DEF GraphInv, ToggleInv
    <3> QED BY <2>2, <3>1, <3>6
  <2> QED BY <2>5, <2>6, <2>7
<1>21. SlotInv'
  <2> SUFFICES ASSUME NEW d \in Composites \ Forwarding, NEW t \in Sides
               PROVE  slot'[d][t] <= bar /\ (Pending(d, t)' => slot'[d][t] < bar)
    BY <1>5 DEF SlotInv
  <2>1. slot[d][t] <= bar /\ (Pending(d, t) => slot[d][t] < bar)
    BY DEF GraphInv, SlotInv
  <2>2. CASE d = c /\ t = s
    BY <1>5, <1>7, <1>19, <2>2
  <2>3. CASE ~ (d = c /\ t = s)
    <3>1. slot'[d][t] = slot[d][t]
      BY <1>3, <1>7, <2>3
    <3> QED BY <1>17, <2>1, <3>1
  <2> QED BY <2>2, <2>3
<1>22. ASSUME c \notin Forwarding, NEW i \in DOMAIN out'[c]
       PROVE  /\ Regular(c) => out'[c][i][1] = out'[c][i][2]
              /\ \A j \in DOMAIN out'[c] : i < j => out'[c][i][2] < out'[c][j][2]
              /\ out'[c][i][2] <= slot'[c]["slow"]
              /\ "slow" \in ready'[c] => out'[c][i][2] < slot'[c]["slow"]
  <2> DEFINE n == Len(out[c])
  <2>1. /\ (s = "fast" /\ o = "slow") \/ (s = "slow" /\ o = "fast")
        /\ slot[c]["slow"] \in Nat /\ slot'[c]["slow"] \in Nat
    BY <1>3, <1>6, <1>7 DEF Sides
  <2>2. ASSUME NEW k \in DOMAIN out[c]
        PROVE  /\ Regular(c) => out[c][k][1] = out[c][k][2]
               /\ \A j \in DOMAIN out[c] : k < j => out[c][k][2] < out[c][j][2]
               /\ out[c][k][2] <= slot[c]["slow"] /\ out[c][k][2] \in Nat
               /\ "slow" \in ready[c] => out[c][k][2] < slot[c]["slow"]
    BY <1>3, <1>10, <1>22 DEF GraphInv, OutInv
(* The slow side's value is a newer one, or is the one that was waiting.   *)
  <2>3. ASSUME NEW k \in DOMAIN out[c]
        PROVE  /\ out[c][k][2] <= slot'[c]["slow"]
               /\ (s = "slow" \/ o \in ready[c]) => out[c][k][2] < slot'[c]["slow"]
    <3>1. CASE s = "slow"
      <4>1. slot'[c]["slow"] = bar /\ slot[c]["slow"] < bar
        BY <1>7, <1>19, <1>22, <3>1
      <4> QED BY <1>5, <2>1, <2>2, <4>1
    <3>2. CASE s = "fast" /\ o = "slow"
      <4>1. slot'[c]["slow"] = slot[c]["slow"]
        BY <1>7, <3>2
      <4> QED BY <2>2, <3>2, <4>1
    <3> QED BY <2>1, <3>1, <3>2
  <2>4. CASE o \notin ready[c] /\ ready'[c] = ready[c] \cup {s} /\ out'[c] = out[c]
    <3>1. "slow" \in ready'[c] => s = "slow"
      BY <2>1, <2>4
    <3> QED BY <2>2, <2>3, <2>4, <3>1
  <2>5. CASE o \in ready[c] /\ ready'[c] = {} /\ out'[c] = Append(out[c], new)
    <3>1. /\ DOMAIN out'[c] = 1..(n + 1) /\ n \in Nat /\ out'[c][n + 1] = new
          /\ \A k \in 1..n : k \in DOMAIN out[c] /\ out'[c][k] = out[c][k]
      BY <1>10, <2>5
    <3>2. Regular(c) => new[1] = new[2]
      <4>1. Regular(c) => slot[c][o] = bar
        BY <1>20, <2>5
      <4> QED BY <1>7, <1>10, <4>1
    <3> HIDE DEF n
    <3>3. CASE i = n + 1
      <4>1. \A j \in DOMAIN out'[c] : ~ (i < j)
        BY <3>1, <3>3
      <4> QED BY <1>10, <2>1, <2>5, <3>1, <3>2, <3>3, <4>1
    <3>4. CASE i \in 1..n
      <4>1. i \in DOMAIN out[c] /\ out'[c][i] = out[c][i] /\ out[c][i][2] < slot'[c]["slow"]
        BY <2>3, <2>5, <3>1, <3>4
      <4>2. ASSUME NEW j \in DOMAIN out'[c], i < j PROVE out'[c][i][2] < out'[c][j][2]
        <5>1. CASE j = n + 1
          BY <1>10, <3>1, <4>1, <5>1
        <5>2. CASE j \in 1..n
          BY <2>2, <3>1, <4>1, <4>2, <5>2
        <5> QED BY <3>1, <5>1, <5>2
      <4> QED BY <2>1, <2>2, <2>5, <4>1, <4>2
    <3> QED BY <3>1, <3>3, <3>4
  <2> QED BY <1>10, <2>4, <2>5
<1>23. OutInv'
  <2>1. ASSUME NEW d \in Composites \ live PROVE out'[d] = << >> /\ ready'[d] = {}
    <3>1. d # c
      BY <1>18
    <3> QED BY <1>8, <3>1 DEF GraphInv, OutInv
  <2>2. ASSUME NEW d \in Composites \ Forwarding, NEW i \in DOMAIN out'[d]
        PROVE  /\ Regular(d) => out'[d][i][1] = out'[d][i][2]
               /\ \A j \in DOMAIN out'[d] : i < j => out'[d][i][2] < out'[d][j][2]
               /\ out'[d][i][2] <= slot'[d]["slow"]
               /\ "slow" \in ready'[d] => out'[d][i][2] < slot'[d]["slow"]
    <3>1. CASE d = c
      BY <1>22, <2>2, <3>1
    <3>2. CASE d # c
      <4>1. out'[d] = out[d] /\ ready'[d] = ready[d] /\ slot'[d] = slot[d]
        BY <1>7, <1>8, <3>2
      <4> QED BY <2>2, <4>1 DEF GraphInv, OutInv
    <3> QED BY <3>1, <3>2
  <2> QED BY <1>4, <1>5, <2>1, <2>2 DEF OutInv
<1>24. First(c, s) => ~ First(c, o)
  BY <1>3 DEF First, GraphInv, KeysInv, GraphTypeOK
<1>25. ToggleInv'
  <2> SUFFICES ASSUME NEW d \in Composites, NEW t \in Sides, Listening(d), First(d, t)
               PROVE  /\ Other(t) \notin ready'[d]
                      /\ ~ Pending(d, t)' /\ Pending(d, Other(t))' /\ IsWarm(LeafAt(d, t)) =>
                            t \in ready'[d] /\ slot'[d][t] = bar
    <3>1. \A t : Other(t)' = Other(t)
      BY DEF Other
    <3>2. \A d, t : Pending(d, Other(t))' = (Pending(d, Other(t)))'
      OBVIOUS
    <3> QED BY <1>4, <1>5, <1>16, <3>1 DEF ToggleInv, Other, Pending, Due, CallbackOf, IsWarm, LeafAt
  <2>1. CASE d # c
    <3>1. CallbackOf(d, t) # CallbackOf(c, s) /\ CallbackOf(d, Other(t)) # CallbackOf(c, s) /\ Other(t) \in Sides
      BY <1>3, <2>1, SidesOf
    <3>2. Pending(d, t)' = Pending(d, t) /\ ready'[d] = ready[d] /\ slot'[d] = slot[d]
      BY <1>7, <1>8, <1>17, <2>1, <3>1
    <3>3. Pending(d, Other(t))' => Pending(d, Other(t))
      <4>1. PICK u \in Sides : u = Other(t)
        BY <3>1
      <4>2. Pending(d, u)' => Pending(d, u)
        BY <1>17
      <4> QED BY <4>1, <4>2 DEF Other
    <3> QED BY <3>2, <3>3 DEF GraphInv, ToggleInv
  <2>2. CASE d = c /\ t = s
    <3>1. o \notin ready[c]
      BY <1>3, <2>2 DEF GraphInv, ToggleInv
    <3> QED BY <1>3, <1>5, <1>7, <1>10, <2>2, <3>1
  <2>3. CASE d = c /\ t = o
    <3>1. Regular(c) /\ c \notin Forwarding
      BY <2>3 DEF Listening, Regular
    <3>2. o \in ready[c]
      BY <1>20, <1>24, <2>3, <3>1
    <3>3. ready'[c] = {} /\ ~ Pending(c, s)' /\ Other(o)' = s
      BY <1>3, <1>10, <1>19, <3>1, <3>2 DEF Other
    <3> QED BY <1>3, <2>3, <3>3
  <2> QED BY <1>3, <2>1, <2>2, <2>3
<1>26. ASSUME NEW d \in Composites PROVE Spoken(d)'
  <2> SUFFICES ASSUME Listening(d), \A t \in Sides : ~ Pending(d, t)' /\ IsWarm(LeafAt(d, t))
               PROVE  out'[d] # << >> /\ Last(out'[d]) = <<bar, bar>>
    BY <1>4, <1>5, <1>16 DEF Spoken
  <2>1. CASE d # c
    <3>1. \A t \in Sides : CallbackOf(d, t) # CallbackOf(c, s)
      BY <1>3, <2>1, SidesOf
    <3>2. \A t \in Sides : ~ Pending(d, t)
      BY <1>17, <3>1
    <3>3. Spoken(d)
      BY <1>1 DEF GraphInv, SpokenInv, Feeding
    <3> QED BY <1>8, <2>1, <3>2, <3>3 DEF Spoken
  <2>2. CASE d = c
    <3>1. o \in ready[c] /\ slot[c][o] = bar
      BY <1>3, <1>20, <2>2 DEF Listening
    <3>2. new = <<bar, bar>>
      <4>1. slot'[c][s] = bar /\ slot'[c][o] = bar
        BY <1>7, <3>1
      <4>2. slot'[c]["fast"] = bar /\ slot'[c]["slow"] = bar
        BY <1>3, <4>1 DEF Sides
      <4> QED BY <1>9, <4>2
    <3>3. out'[c] = Append(out[c], new) /\ out[c] \in Seq(Nat \X Nat)
      BY <1>10, <3>1
    <3>4. out'[c] # << >> /\ Last(out'[c]) = new
      <4>1. new \in Nat \X Nat /\ Len(out[c]) \in Nat
        BY <1>10, <3>3
      <4>2. out'[c] # << >> /\ Len(out'[c]) = Len(out[c]) + 1 /\ out'[c][Len(out[c]) + 1] = new
        <5>1. PICK q : q = out[c]
          OBVIOUS
        <5>2. q \in Seq(Nat \X Nat) /\ out'[c] = Append(q, new)
          BY <3>3, <5>1
        <5>3. Append(q, new) # << >> /\ Len(Append(q, new)) = Len(q) + 1 /\ Append(q, new)[Len(q) + 1] = new
          BY <4>1, <5>2, AppendProperties
        <5> QED BY <5>1, <5>2, <5>3
      <4> QED BY <4>2 DEF Last
    <3> QED BY <2>2, <3>2, <3>4
  <2> QED BY <2>1, <2>2
<1>27. SpokenInv'
  BY <1>26 DEF SpokenInv
<1> QED BY <1>4, <1>12, <1>13, <1>14, <1>15, <1>21, <1>23, <1>25, <1>26, <1>27 DEF GraphInv

-----------------------------------------------------------------------------
(* The converter's dict t is the dict s with the keys K behind.            *)
Grown(s, t, K) ==
  /\ s \in Seq(Keys) /\ t \in Seq(Keys) /\ Len(s) <= Len(t)
  /\ \A i, j \in DOMAIN t : t[i] = t[j] => i = j
  /\ \A i \in DOMAIN s : i \in DOMAIN t /\ t[i] = s[i]
  /\ \A i \in DOMAIN t \ DOMAIN s : t[i] \in K /\ (\A j \in DOMAIN s : s[j] # t[i] /\ j < i)
  /\ \A k \in K : \E i \in DOMAIN t : t[i] = k

LEMMA SubscribedGrows ==
  ASSUME NEW s \in Seq(Keys), NEW k \in Keys, \A i, j \in DOMAIN s : s[i] = s[j] => i = j
  PROVE  Grown(s, Subscribed(s, k), {k})
<1>1. CASE \E i \in DOMAIN s : s[i] = k
  <2>1. Subscribed(s, k) = s
    BY <1>1 DEF Subscribed, Contains
  <2> QED BY <1>1, <2>1 DEF Grown
<1>2. CASE \A i \in DOMAIN s : s[i] # k
  <2>1. Subscribed(s, k) = Append(s, k)
    BY <1>2 DEF Subscribed, Contains
  <2> DEFINE t == Append(s, k)
  <2>2. /\ t \in Seq(Keys) /\ DOMAIN t = 1..(Len(s) + 1) /\ DOMAIN s = 1..Len(s) /\ Len(s) \in Nat
        /\ Len(t) = Len(s) + 1 /\ t[Len(s) + 1] = k
        /\ \A i \in DOMAIN s : t[i] = s[i]
    OBVIOUS
  <2> HIDE DEF t
  <2>3. \A i, j \in DOMAIN t : t[i] = t[j] => i = j
    BY <1>2, <2>2
  <2>4. \A i \in DOMAIN t \ DOMAIN s : i = Len(s) + 1
    BY <2>2
  <2>5. \A i \in DOMAIN t \ DOMAIN s : t[i] \in {k} /\ (\A j \in DOMAIN s : s[j] # t[i] /\ j < i)
    BY <1>2, <2>2, <2>4
  <2>6. Len(s) + 1 \in DOMAIN t
    BY <2>2
  <2>7. Len(s) <= Len(t) /\ \A i \in DOMAIN s : i \in DOMAIN t
    BY <2>2
  <2>8. Grown(s, t, {k})
    BY <2>2, <2>3, <2>5, <2>6, <2>7 DEF Grown
  <2> QED BY <2>1, <2>8 DEF t
<1> QED BY <1>1, <1>2

LEMMA GrownTwice ==
  ASSUME NEW s, NEW t, NEW u, NEW K, NEW L, Grown(s, t, K), Grown(t, u, L)
  PROVE  Grown(s, u, K \cup L)
<1>1. /\ s \in Seq(Keys) /\ t \in Seq(Keys) /\ u \in Seq(Keys)
      /\ DOMAIN s = 1..Len(s) /\ DOMAIN t = 1..Len(t) /\ DOMAIN u = 1..Len(u)
      /\ Len(s) \in Nat /\ Len(t) \in Nat /\ Len(u) \in Nat /\ Len(s) <= Len(t) /\ Len(t) <= Len(u)
  BY DEF Grown
<1>2. \A i, j \in DOMAIN u : u[i] = u[j] => i = j
  BY DEF Grown
<1>3. \A i \in DOMAIN s : i \in DOMAIN u /\ u[i] = s[i]
  BY DEF Grown
<1>4. ASSUME NEW i \in DOMAIN u \ DOMAIN s
      PROVE  u[i] \in K \cup L /\ (\A j \in DOMAIN s : s[j] # u[i] /\ j < i)
  <2>1. CASE i \in DOMAIN t
    BY <2>1 DEF Grown
  <2>2. CASE i \notin DOMAIN t
    BY <1>1, <2>2 DEF Grown
  <2> QED BY <2>1, <2>2
<1>5. \A k \in K \cup L : \E i \in DOMAIN u : u[i] = k
  BY DEF Grown
<1>6. Len(s) <= Len(u)
  BY <1>1
<1> QED BY <1>1, <1>2, <1>3, <1>4, <1>5, <1>6 DEF Grown

(* What every registration and removal leaves true between two bars.       *)
LEMMA BetweenBars ==
  ASSUME GraphInv, ~ Feeding, GraphTypeOK',
         UNCHANGED <<bar, due, inputs, calls, slot, ready, out>>,
         NEW K, Grown(order, order', K), K \subseteq live', live' \subseteq live \cup K,
         live \subseteq live' \cup removed', removed \subseteq removed',
         Composites \cap live \subseteq live',
         \A c \in Composites \cap live' : Hears(c) \subseteq live' /\ \A l \in Hears(c) : told'[l] # << >>,
         \A l \in Leaves \cap live : fed'[l] = fed[l],
         \A l \in (Leaves \cap live') \ live : fed'[l] = << >>,
         \A c \in Composites \cap live : Listening(c)' => Listening(c),
         ToldInv', PairInv'
  PROVE  GraphInv'
<1>1. /\ due = << >> /\ inputs = << >> /\ calls = << >> /\ ~ Feeding'
      /\ due' = << >> /\ inputs' = << >> /\ calls' = << >>
      /\ bar' = bar /\ slot' = slot /\ ready' = ready /\ out' = out
  BY DEF Feeding
<1>2. /\ DOMAIN due = {} /\ DOMAIN inputs = {} /\ DOMAIN calls = {}
      /\ DOMAIN due' = {} /\ DOMAIN inputs' = {} /\ DOMAIN calls' = {} /\ Len(due') = 0
  BY <1>1
<1>3. (\A l : ~ Due(l) /\ ~ Due(l)') /\ \A c, s : ~ Pending(c, s) /\ ~ Pending(c, s)'
  <2>1. \A l : ~ Due(l) /\ ~ Due(l)'
    BY <1>2 DEF Due
  <2> QED BY <1>2, <2>1 DEF Pending, Due
<1>4. /\ order \in Seq(Keys) /\ order' \in Seq(Keys) /\ removed \subseteq Leaves
      /\ DOMAIN order = 1..Len(order) /\ DOMAIN order' = 1..Len(order')
      /\ Len(order) \in Nat /\ Len(order') \in Nat /\ Len(order) <= Len(order')
      /\ \A i, j \in DOMAIN order' : order'[i] = order'[j] => i = j
      /\ \A i \in DOMAIN order : i \in DOMAIN order' /\ order'[i] = order[i]
      /\ \A i \in DOMAIN order' \ DOMAIN order :
            order'[i] \in K /\ (\A j \in DOMAIN order : order[j] # order'[i] /\ j < i)
      /\ \A k \in K : \E i \in DOMAIN order' : order'[i] = k
  BY DEF Grown, GraphInv, GraphTypeOK
<1>5. KeysInv
  BY DEF GraphInv
<1>6. KeysInv'
  <2>1. \A k \in live' : \E i \in DOMAIN order' : order'[i] = k
    BY <1>4, <1>5 DEF KeysInv
  <2>2. \A i \in DOMAIN order' : order'[i] \in live' \cup removed'
    BY <1>4, <1>5 DEF KeysInv
  <2>3. \A c : Hears(c)' = Hears(c)
    BY DEF Hears
  <2> QED BY <1>4, <2>1, <2>2, <2>3 DEF KeysInv
<1>7. DueInv' /\ InputsInv' /\ CallsInv' /\ SpokenInv'
  BY <1>1, <1>2, <1>4 DEF DueInv, InputsInv, CallsInv, SpokenInv
<1>8. \A l : Plain(l)' => Plain(l)
  BY ForwardingAssumption DEF Plain, Hears
<1>9. FedInv'
  <2> SUFFICES ASSUME NEW l \in Leaves \cap live', Plain(l), NEW i \in DOMAIN fed'[l]
               PROVE  fed'[l][i] = bar - Len(fed'[l]) + i
    BY <1>1, <1>3, <1>8 DEF FedInv, Due
  <2>1. l \in live /\ fed'[l] = fed[l]
    OBVIOUS
  <2> QED BY <1>3, <2>1 DEF GraphInv, FedInv
<1>10. AheadInv'
  <2>1. \A l \in Leaves \cap live' : Len(fed'[l]) \in Nat
    BY DEF GraphTypeOK
  <2>2. \A l \in Leaves \cap live : Len(fed[l]) \in Nat
    BY DEF GraphInv, GraphTypeOK
  <2>3. \A l : Share(l) = Len(fed[l]) + 0 /\ Share(l)' = Len(fed'[l]) + 0
    BY <1>3 DEF Share
  <2>4. (\A l \in Leaves \cap live' : Share(l)' = Len(fed'[l])) /\ \A l \in Leaves \cap live : Share(l) = Len(fed[l])
    BY <2>1, <2>2, <2>3
  <2> SUFFICES ASSUME NEW i \in DOMAIN order', NEW j \in DOMAIN order', i < j,
                      {order'[i], order'[j]} \subseteq (Leaves \cap live') \ removed',
                      Plain(order'[i]), Plain(order'[j])
               PROVE  Len(fed'[order'[j]]) <= Len(fed'[order'[i]])
    <3>1. \A x, y : x \in DOMAIN order' /\ y \in DOMAIN order' /\ x < y
                    /\ {order'[x], order'[y]} \subseteq (Leaves \cap live') \ removed'
                    /\ Plain(order'[x]) /\ Plain(order'[y])
                    => Len(fed'[order'[y]]) <= Len(fed'[order'[x]])
      OBVIOUS
    <3>2. \A i : Plain(order[i])' => Plain(order'[i])
      BY <1>8 DEF Plain
    <3>3. \A i : (order'[i] \in Leaves \cap live') => Share(order[i])' = Len(fed'[order'[i]])
      BY <2>4 DEF Share, Due
    <3> QED BY <3>1, <3>2, <3>3 DEF AheadInv
  <2>5. CASE j \notin DOMAIN order
    <3>1. order'[j] \notin live
      BY <1>4, <1>5, <2>5 DEF KeysInv
    <3>2. fed'[order'[j]] = << >>
      BY <3>1
    <3> QED BY <2>1, <3>2
  <2>6. CASE j \in DOMAIN order
    <3>1. i \in DOMAIN order /\ order'[i] = order[i] /\ order'[j] = order[j]
      BY <1>4, <2>6
    <3>2. {order[i], order[j]} \subseteq (Leaves \cap live) \ removed
      BY <1>5, <2>6, <3>1 DEF KeysInv
    <3>3. Share(order[j]) <= Share(order[i])
      BY <2>6, <3>1, <3>2 DEF GraphInv, AheadInv
    <3> QED BY <2>4, <3>1, <3>2, <3>3
  <2> QED BY <2>5, <2>6
<1>11. SlotInv'
  BY <1>1, <1>3 DEF GraphInv, SlotInv
<1>12. OutInv'
  BY <1>1 DEF GraphInv, OutInv, Regular, Hears
<1>13. ToggleInv'
  <2> SUFFICES ASSUME NEW c \in Composites, NEW s \in Sides, Listening(c)', First(c, s)'
               PROVE  Other(s) \notin ready[c]
    BY <1>1, <1>3, SidesOf DEF ToggleInv, Other
  <2>1. CASE c \notin live
    BY <2>1 DEF GraphInv, OutInv
  <2>2. CASE c \in live
    <3>1. Listening(c)
      BY <2>2
    <3>2. PICK l, m : l = LeafAt(c, s) /\ m = LeafAt(c, Other(s))
      OBVIOUS
    <3>3. l \in live /\ m \in live
      BY <1>5, <2>2, <3>2, SidesOf DEF KeysInv
    <3>4. PICK i \in DOMAIN order', j \in DOMAIN order' : i < j /\ order'[i] = l /\ order'[j] = m
      BY <3>2 DEF First, LeafAt, Other
    <3>5. PICK x \in DOMAIN order, y \in DOMAIN order : order[x] = l /\ order[y] = m
      BY <1>5, <3>3 DEF KeysInv
    <3>6. x = i /\ y = j
      BY <1>4, <3>4, <3>5
    <3>7. First(c, s)
      BY <3>2, <3>4, <3>5, <3>6 DEF First
    <3> QED BY <3>1, <3>7 DEF GraphInv, ToggleInv
  <2> QED BY <2>1, <2>2
<1> QED BY <1>6, <1>7, <1>9, <1>10, <1>11, <1>12, <1>13 DEF GraphInv

LEMMA RegisterLeafInv ==
  ASSUME GraphInv, NEW l \in Leaves, RegisterLeaf(l)
  PROVE  GraphInv'
<1>1. /\ ~ Feeding /\ l \notin live /\ live' = live \cup {l} /\ order' = Subscribed(order, l)
      /\ told' = [told EXCEPT ![l] = << >>] /\ fed' = [fed EXCEPT ![l] = << >>]
      /\ UNCHANGED <<bar, removed, due, inputs, calls, slot, ready, out>>
  BY DEF RegisterLeaf
<1>2. /\ order \in Seq(Keys) /\ told \in [Leaves -> Seq(Callbacks)] /\ fed \in [Leaves -> Seq(Nat)]
      /\ live \subseteq Keys /\ l \in Keys /\ l \notin Composites
  BY ListenAssumption DEF GraphInv, GraphTypeOK, Keys
<1>3. told' = told
  <2>1. told[l] = << >>
    BY <1>1 DEF GraphInv, ToldInv
  <2> QED BY <1>1, <1>2, <2>1
<1>4. Grown(order, order', {l})
  BY <1>1, <1>2, SubscribedGrows DEF GraphInv, KeysInv
<1>5. /\ fed' \in [Leaves -> Seq(Nat)] /\ fed'[l] = << >>
      /\ \A m \in Leaves : m # l => fed'[m] = fed[m]
  BY <1>1, <1>2
<1>6. GraphTypeOK'
  <2>1. GraphTypeOK /\ order' \in Seq(Keys) /\ live' \subseteq Keys
    BY <1>1, <1>2, <1>4 DEF GraphInv, Grown
  <2> QED BY <1>1, <1>3, <1>5, <2>1 DEF GraphTypeOK
<1>7. \A cb : Attached(cb)' = Attached(cb)
  BY <1>3 DEF Attached
<1>8. Composites \cap live' = Composites \cap live
  BY <1>1, <1>2
<1>9. ToldInv' /\ PairInv'
  <2>1. ToldInv'
    BY <1>1, <1>3 DEF GraphInv, ToldInv
  <2> QED BY <1>7, <1>8, <2>1 DEF GraphInv, PairInv
<1>10. \A c \in Composites \cap live' : Hears(c) \subseteq live' /\ \A m \in Hears(c) : told'[m] # << >>
  BY <1>1, <1>3, <1>8 DEF GraphInv, KeysInv
<1>11. \A c \in Composites \cap live : Listening(c)' => Listening(c)
  BY <1>1, <1>7, <1>8 DEF Listening, Regular, Hears
<1>12. \A m \in (Leaves \cap live') \ live : fed'[m] = << >>
  BY <1>1, <1>5
<1>13. \A m \in Leaves \cap live : fed'[m] = fed[m]
  BY <1>1, <1>5
<1> QED BY <1>1, <1>4, <1>6, <1>8, <1>9, <1>10, <1>11, <1>12, <1>13, BetweenBars

LEMMA DeAttachInv ==
  ASSUME GraphInv, NEW l \in Leaves, DeAttach(l)
  PROVE  GraphInv'
<1>1. /\ ~ Feeding /\ l \in live /\ told[l] = << >> /\ live' = live \ {l} /\ removed' = removed \cup {l}
      /\ UNCHANGED <<bar, order, told, due, inputs, calls, fed, slot, ready, out>>
  BY DEF DeAttach
<1>2. order \in Seq(Keys) /\ live \subseteq Keys /\ l \notin Composites
  BY ListenAssumption DEF GraphInv, GraphTypeOK
<1>3. Grown(order, order', {})
  BY <1>1, <1>2 DEF Grown, GraphInv, KeysInv
<1>4. GraphTypeOK'
  BY <1>1 DEF GraphInv, GraphTypeOK
<1>5. \A cb : Attached(cb)' = Attached(cb)
  BY <1>1 DEF Attached
<1>6. Composites \cap live' = Composites \cap live
  BY <1>1, <1>2
<1>7. ToldInv'
  <2>1. \A m \in Leaves : \A i \in DOMAIN told[m] : told[m][i].to \in Composites
    BY CallbackIs DEF GraphInv, GraphTypeOK
  <2> QED BY <1>1, <1>6, <2>1 DEF GraphInv, ToldInv
<1>8. PairInv'
  BY <1>5, <1>6 DEF GraphInv, PairInv
<1>9. \A c \in Composites \cap live' : Hears(c) \subseteq live' /\ \A m \in Hears(c) : told'[m] # << >>
  BY <1>1, <1>6 DEF GraphInv, KeysInv
<1>10. \A c \in Composites \cap live : Listening(c)' => Listening(c)
  BY <1>1, <1>5 DEF Listening, Regular, Hears
<1> QED BY <1>1, <1>3, <1>4, <1>6, <1>7, <1>8, <1>9, <1>10, BetweenBars

(* Whom a leaf calls once a callback was filed with it: that one, and      *)
(* those that are not of its listener key.                                 *)
LEMMA WithCallbackIs ==
  ASSUME NEW cbs \in Seq(Callbacks), NEW cb \in Callbacks,
         \A i, j \in DOMAIN cbs : ListenerKey(cbs[i]) = ListenerKey(cbs[j]) => i = j
  PROVE  LET r == WithCallback(cbs, cb) IN
         /\ r \in Seq(Callbacks) /\ r # << >>
         /\ \A i, j \in DOMAIN r : ListenerKey(r[i]) = ListenerKey(r[j]) => i = j
         /\ \E i \in DOMAIN r : r[i] = cb
         /\ \A x : x # cb =>
              ((\E i \in DOMAIN r : r[i] = x) <=>
                 (\E i \in DOMAIN cbs : cbs[i] = x) /\ ListenerKey(x) # ListenerKey(cb))
<1> DEFINE r == WithCallback(cbs, cb)
<1>0. PICK k : k = ListenerKey(cb)
  OBVIOUS
<1>1. CASE \E i \in DOMAIN cbs : ListenerKey(cbs[i]) = k
  <2>1. r = [i \in DOMAIN cbs |-> IF ListenerKey(cbs[i]) = k THEN cb ELSE cbs[i]]
    BY <1>0, <1>1 DEF WithCallback
  <2>2. DOMAIN r = DOMAIN cbs /\ \A i \in DOMAIN r : r[i] = IF ListenerKey(cbs[i]) = k THEN cb ELSE cbs[i]
    BY <2>1
  <2>3. r \in Seq(Callbacks) /\ r # << >>
    <3>1. DOMAIN cbs = 1..Len(cbs) /\ Len(cbs) \in Nat /\ \A i \in DOMAIN cbs : cbs[i] \in Callbacks
      OBVIOUS
    <3>2. r \in [1..Len(cbs) -> Callbacks]
      BY <2>1, <3>1
    <3> QED BY <1>1, <2>2, <3>1, <3>2, SeqDef
  <2>4. \A i \in DOMAIN r : ListenerKey(r[i]) = ListenerKey(cbs[i])
    BY <1>0, <2>2
  <2> HIDE DEF r
  <2> QED BY <1>0, <1>1, <2>2, <2>3, <2>4 DEF r
<1>2. CASE \A i \in DOMAIN cbs : ListenerKey(cbs[i]) # k
  <2>1. r = Append(cbs, cb)
    BY <1>0, <1>2 DEF WithCallback
  <2>2. /\ r \in Seq(Callbacks) /\ r # << >> /\ DOMAIN r = 1..(Len(cbs) + 1) /\ DOMAIN cbs = 1..Len(cbs)
        /\ Len(cbs) \in Nat /\ r[Len(cbs) + 1] = cb /\ \A i \in DOMAIN cbs : r[i] = cbs[i]
    <3> HIDE DEF r
    <3> QED BY <2>1
  <2> HIDE DEF r
  <2>3. DOMAIN r = DOMAIN cbs \cup {Len(cbs) + 1} /\ Len(cbs) + 1 \notin DOMAIN cbs
    BY <2>2
  <2>4. \A i, j \in DOMAIN r : ListenerKey(r[i]) = ListenerKey(r[j]) => i = j
    BY <1>0, <1>2, <2>2, <2>3
  <2>5. \A x : x # cb => ((\E i \in DOMAIN r : r[i] = x) <=> (\E i \in DOMAIN cbs : cbs[i] = x))
    BY <2>2, <2>3
  <2> QED BY <1>0, <1>2, <2>2, <2>3, <2>4, <2>5 DEF r
<1> QED BY <1>1, <1>2

LEMMA WithCallbackKeeps ==
  ASSUME NEW cbs \in Seq(Callbacks), NEW cb \in Callbacks,
         \A i, j \in DOMAIN cbs : ListenerKey(cbs[i]) = ListenerKey(cbs[j]) => i = j,
         NEW r, r = WithCallback(cbs, cb), NEW x, x # cb
  PROVE  (\E i \in DOMAIN r : r[i] = x) <=>
           (\E i \in DOMAIN cbs : cbs[i] = x) /\ ListenerKey(x) # ListenerKey(cb)
<1>1. \A y : y # cb =>
        ((\E i \in DOMAIN WithCallback(cbs, cb) : WithCallback(cbs, cb)[i] = y) <=>
           (\E i \in DOMAIN cbs : cbs[i] = y) /\ ListenerKey(y) # ListenerKey(cb))
  BY WithCallbackIs, Zenon
<1> QED BY <1>1

LEMMA RegisterCompositeInv ==
  ASSUME GraphInv, NEW c \in Composites, RegisterComposite(c)
  PROVE  GraphInv'
<1>0. PICK f, s : f = Fast[c] /\ s = Slow[c]
  OBVIOUS
<1>1. /\ ~ Feeding /\ c \notin live /\ live' = live \cup {f, s, c}
      /\ order' = Subscribed(Subscribed(Subscribed(order, f), s), c)
      /\ told' = [told EXCEPT ![f] = WithCallback(IF f \in live THEN told[f] ELSE << >>, [to |-> c, side |-> "fast"]),
                              ![s] = WithCallback(IF s \in live THEN told[s] ELSE << >>, [to |-> c, side |-> "slow"])]
      /\ fed' = [l \in Leaves |-> IF l \in {f, s} \ live THEN << >> ELSE fed[l]]
      /\ UNCHANGED <<bar, removed, due, inputs, calls, slot, ready, out>>
  BY <1>0 DEF RegisterComposite
<1>2. /\ order \in Seq(Keys) /\ told \in [Leaves -> Seq(Callbacks)] /\ fed \in [Leaves -> Seq(Nat)]
      /\ live \subseteq Keys /\ {f, s, c} \subseteq Keys /\ f \in Leaves /\ s \in Leaves /\ f # s
      /\ Leaves \cap Composites = {} /\ Hears(c) = {f, s}
      /\ LeafAt(c, "fast") = f /\ LeafAt(c, "slow") = s
  BY <1>0, ListenAssumption DEF GraphInv, GraphTypeOK, Keys, Hears, LeafAt
<1>3. /\ told' \in [Leaves -> Seq(Callbacks)]
      /\ \A t \in Sides : told'[LeafAt(c, t)] = WithCallback(told[LeafAt(c, t)], CallbackOf(c, t))
      /\ \A l \in Leaves \ Hears(c) : told'[l] = told[l]
  <2>1. (f \notin live => told[f] = << >>) /\ (s \notin live => told[s] = << >>)
    BY <1>2 DEF GraphInv, ToldInv
  <2>2. told' = [told EXCEPT ![f] = WithCallback(told[f], CallbackOf(c, "fast")),
                             ![s] = WithCallback(told[s], CallbackOf(c, "slow"))]
    BY <1>1, <2>1 DEF CallbackOf
  <2>3. /\ WithCallback(told[f], CallbackOf(c, "fast")) \in Seq(Callbacks)
        /\ WithCallback(told[s], CallbackOf(c, "slow")) \in Seq(Callbacks)
    BY <1>2, WithCallbackIs, SidesOf DEF GraphInv, ToldInv, Sides
  <2>4. PICK wf, ws : wf = WithCallback(told[f], CallbackOf(c, "fast")) /\ ws = WithCallback(told[s], CallbackOf(c, "slow"))
    OBVIOUS
  <2>5. told' = [told EXCEPT ![f] = wf, ![s] = ws] /\ wf \in Seq(Callbacks) /\ ws \in Seq(Callbacks)
    BY <2>2, <2>3, <2>4
  <2>6. told' \in [Leaves -> Seq(Callbacks)] /\ told'[f] = wf /\ told'[s] = ws
        /\ \A l \in Leaves \ Hears(c) : told'[l] = told[l]
    BY <1>2, <2>5
  <2> QED BY <1>2, <2>4, <2>6 DEF Sides
<1>4. ASSUME NEW t \in Sides
      PROVE  LET l == LeafAt(c, t)  cb == CallbackOf(c, t) IN
             /\ told'[l] # << >>
             /\ \A i, j \in DOMAIN told'[l] : ListenerKey(told'[l][i]) = ListenerKey(told'[l][j]) => i = j
             /\ \E i \in DOMAIN told'[l] : told'[l][i] = cb
             /\ \A x : x # cb =>
                  ((\E i \in DOMAIN told'[l] : told'[l][i] = x) <=>
                     (\E i \in DOMAIN told[l] : told[l][i] = x) /\ ListenerKey(x) # ListenerKey(cb))
  <2>1. /\ told[LeafAt(c, t)] \in Seq(Callbacks) /\ CallbackOf(c, t) \in Callbacks
        /\ \A i, j \in DOMAIN told[LeafAt(c, t)] :
             ListenerKey(told[LeafAt(c, t)][i]) = ListenerKey(told[LeafAt(c, t)][j]) => i = j
        /\ told'[LeafAt(c, t)] = WithCallback(told[LeafAt(c, t)], CallbackOf(c, t))
    BY <1>2, <1>3, SidesOf DEF GraphInv, ToldInv
  <2>2. PICK cbs, cb, r : cbs = told[LeafAt(c, t)] /\ cb = CallbackOf(c, t) /\ r = told'[LeafAt(c, t)]
    OBVIOUS
  <2>3. /\ cbs \in Seq(Callbacks) /\ cb \in Callbacks /\ r = WithCallback(cbs, cb)
        /\ \A i, j \in DOMAIN cbs : ListenerKey(cbs[i]) = ListenerKey(cbs[j]) => i = j
    BY <2>1, <2>2
  <2>4. r # << >> /\ (\E i \in DOMAIN r : r[i] = cb)
        /\ \A i, j \in DOMAIN r : ListenerKey(r[i]) = ListenerKey(r[j]) => i = j
    BY <2>3, WithCallbackIs
  <2>5. \A x : x # cb => ((\E i \in DOMAIN r : r[i] = x) <=>
                             (\E i \in DOMAIN cbs : cbs[i] = x) /\ ListenerKey(x) # ListenerKey(cb))
    BY <2>3, WithCallbackKeeps
  <2> QED BY <2>2, <2>4, <2>5
<1>5. ASSUME NEW d \in Composites \ {c}, NEW t \in Sides
      PROVE  /\ \A u \in Sides : LeafAt(d, t) = LeafAt(c, u) =>
                  (Attached(CallbackOf(d, t))' <=>
                     Attached(CallbackOf(d, t)) /\ ListenerKey(CallbackOf(d, t)) # ListenerKey(CallbackOf(c, u)))
             /\ LeafAt(d, t) \notin Hears(c) => (Attached(CallbackOf(d, t))' <=> Attached(CallbackOf(d, t)))
  <2>1. PICK l, x : l = LeafAt(d, t) /\ x = CallbackOf(d, t)
    OBVIOUS
  <2>2. l \in Leaves /\ LeafOf(x) = l /\ \A u \in Sides : x # CallbackOf(c, u)
    BY <2>1, SidesOf
  <2>3. /\ Attached(CallbackOf(d, t))' <=> \E i \in DOMAIN told'[l] : told'[l][i] = x
        /\ Attached(CallbackOf(d, t)) <=> \E i \in DOMAIN told[l] : told[l][i] = x
    BY <2>1, <2>2 DEF Attached, LeafOf, LeafAt, CallbackOf
  <2> QED BY <1>3, <1>4, <2>1, <2>2, <2>3
<1>6. ASSUME NEW t \in Sides PROVE Attached(CallbackOf(c, t))'
  <2>1. PICK l, x : l = LeafAt(c, t) /\ x = CallbackOf(c, t)
    OBVIOUS
  <2>2. Attached(CallbackOf(c, t))' <=> \E i \in DOMAIN told'[l] : told'[l][i] = x
    BY <2>1, SidesOf DEF Attached, LeafOf, LeafAt, CallbackOf
  <2> QED BY <1>4, <2>1, <2>2
<1>7. Grown(order, order', {f, s, c})
  <2>1. Grown(order, Subscribed(order, f), {f})
    BY <1>2, SubscribedGrows DEF GraphInv, KeysInv
  <2>2. PICK o1 : o1 = Subscribed(order, f)
    OBVIOUS
  <2>3. Grown(o1, Subscribed(o1, s), {s})
    <3>1. o1 \in Seq(Keys) /\ (\A i, j \in DOMAIN o1 : o1[i] = o1[j] => i = j) /\ s \in Keys
      BY <1>2, <2>1, <2>2 DEF Grown
    <3> QED BY <3>1, SubscribedGrows
  <2>4. PICK o2 : o2 = Subscribed(o1, s)
    OBVIOUS
  <2>5. Grown(o2, Subscribed(o2, c), {c})
    <3>1. o2 \in Seq(Keys) /\ (\A i, j \in DOMAIN o2 : o2[i] = o2[j] => i = j) /\ c \in Keys
      BY <1>2, <2>3, <2>4 DEF Grown
    <3> QED BY <3>1, SubscribedGrows
  <2>6. Grown(order, o2, {f} \cup {s})
    BY <2>1, <2>2, <2>3, <2>4, GrownTwice
  <2>7. Grown(order, order', ({f} \cup {s}) \cup {c})
    BY <1>1, <2>2, <2>4, <2>5, <2>6, GrownTwice
  <2>8. ({f} \cup {s}) \cup {c} = {f, s, c}
    OBVIOUS
  <2> QED BY <2>7, <2>8
<1>8. GraphTypeOK'
  <2>1. GraphTypeOK /\ order' \in Seq(Keys) /\ live' \subseteq Keys /\ fed' \in [Leaves -> Seq(Nat)]
    <3>1. \A l \in Leaves : (IF l \in {f, s} \ live THEN << >> ELSE fed[l]) \in Seq(Nat)
      BY <1>2
    <3> QED BY <1>1, <1>2, <1>7, <3>1 DEF GraphInv, Grown
  <2> QED BY <1>1, <1>3, <2>1 DEF GraphTypeOK
<1>9. \A l \in Leaves : l \in Hears(c) => \E t \in Sides : l = LeafAt(c, t)
  BY <1>2 DEF Sides
<1>10. ToldInv'
  <2>1. ASSUME NEW l \in Leaves \ live' PROVE told'[l] = << >>
    BY <1>1, <1>2, <1>3, <2>1 DEF GraphInv, ToldInv
  <2>2. ASSUME NEW l \in Leaves, NEW i \in DOMAIN told'[l]
        PROVE  /\ told'[l][i].to \in live' /\ LeafOf(told'[l][i]) = l
               /\ \A j \in DOMAIN told'[l] : ListenerKey(told'[l][i]) = ListenerKey(told'[l][j]) => i = j
    <3>1. CASE l \notin Hears(c)
      BY <1>1, <1>3, <2>2, <3>1 DEF GraphInv, ToldInv
    <3>2. CASE l \in Hears(c)
      <4>1. PICK t \in Sides : l = LeafAt(c, t)
        BY <1>9, <3>2
      <4>2. \A j \in DOMAIN told'[l] : ListenerKey(told'[l][i]) = ListenerKey(told'[l][j]) => i = j
        BY <1>4, <2>2, <4>1
      <4>3. PICK x : x = told'[l][i]
        OBVIOUS
      <4>4. CASE x = CallbackOf(c, t)
        <5>1. x.to = c /\ LeafOf(x) = l /\ c \in live'
          BY <1>1, <4>1, <4>4, SidesOf
        <5> QED BY <4>2, <4>3, <5>1
      <4>5. CASE x # CallbackOf(c, t)
        <5>1. PICK j \in DOMAIN told[l] : told[l][j] = x
          BY <1>4, <2>2, <4>1, <4>3, <4>5
        <5>2. x.to \in live' /\ LeafOf(x) = l
          BY <1>1, <5>1 DEF GraphInv, ToldInv
        <5> QED BY <4>2, <4>3, <5>2
      <4> QED BY <4>4, <4>5
    <3> QED BY <3>1, <3>2
  <2>3. \A l \in Leaves : \A i \in DOMAIN told'[l] : LeafOf(told[l][i])' = LeafOf(told'[l][i])
    BY DEF LeafOf, LeafAt
  <2> QED BY <2>1, <2>2, <2>3 DEF ToldInv, ListenerKey
<1>11. PairInv'
  <2> SUFFICES ASSUME NEW d \in Composites, d \in live'
               PROVE  /\ d \notin Forwarding => (Attached(CallbackOf(d, "fast"))' <=> Attached(CallbackOf(d, "slow"))')
                      /\ Alone(d) => Attached(CallbackOf(d, "fast"))'
    BY DEF PairInv, Alone, Hears
  <2>0. "fast" \in Sides /\ "slow" \in Sides
    BY DEF Sides
  <2>1. CASE d = c
    BY <1>6, <2>0, <2>1
  <2>2. CASE d # c
    <3>1. d \in Composites \cap live
      BY <1>1, <1>2, <2>2
    <3>2. /\ d \notin Forwarding => (Attached(CallbackOf(d, "fast")) <=> Attached(CallbackOf(d, "slow")))
          /\ Alone(d) => Attached(CallbackOf(d, "fast"))
      BY <3>1 DEF GraphInv, PairInv
    <3>3. \A t \in Sides : LeafAt(d, t) \in Hears(d) /\ ListenerKey(CallbackOf(d, t)) = <<Class[d], t>>
      BY SidesOf DEF ListenerKey
    <3>4. \A t \in Sides : ListenerKey(CallbackOf(c, t)) = <<Class[c], t>>
      BY SidesOf DEF ListenerKey
    <3>5. CASE Hears(d) \cap Hears(c) = {}
      BY <1>5, <2>0, <2>2, <3>2, <3>3, <3>5
    <3>6. CASE Hears(d) \cap Hears(c) # {}
      <4>1. Alone(d) => Class[d] # Class[c]
        BY <2>2, <3>6 DEF Alone
      <4>2. Alone(d) => Attached(CallbackOf(d, "fast"))'
        <5>1. CASE LeafAt(d, "fast") \notin Hears(c)
          BY <1>5, <2>0, <2>2, <3>2, <5>1
        <5>2. CASE LeafAt(d, "fast") \in Hears(c)
          <6>1. PICK u \in Sides : LeafAt(d, "fast") = LeafAt(c, u)
            BY <1>9, <2>0, <5>2, SidesOf
          <6>2. Alone(d) => ListenerKey(CallbackOf(d, "fast")) # ListenerKey(CallbackOf(c, u))
            BY <2>0, <3>3, <3>4, <4>1, <6>1
          <6> QED BY <1>5, <2>0, <2>2, <3>2, <6>1, <6>2
        <5> QED BY <5>1, <5>2
      <4>3. ASSUME d \notin Forwarding
            PROVE  Attached(CallbackOf(d, "fast"))' <=> Attached(CallbackOf(d, "slow"))'
        <5>1. \A t \in Sides : LeafAt(d, t) = LeafAt(c, t)
          BY <3>6, <4>3, BandsAssumption DEF LeafAt
        <5>2. \A t \in Sides : ListenerKey(CallbackOf(d, t)) = ListenerKey(CallbackOf(c, t)) <=> Class[d] = Class[c]
          BY <3>3, <3>4
        <5>3. \A t \in Sides : Attached(CallbackOf(d, t))' <=> Attached(CallbackOf(d, t)) /\ Class[d] # Class[c]
          BY <1>5, <2>2, <5>1, <5>2
        <5> QED BY <2>0, <3>2, <4>3, <5>3
      <4> QED BY <4>2, <4>3
    <3> QED BY <3>5, <3>6
  <2> QED BY <2>1, <2>2
<1>12. Composites \cap live' = (Composites \cap live) \cup {c}
  BY <1>1, <1>2
<1>13. \A d \in Composites \cap live' : Hears(d) \subseteq live' /\ \A l \in Hears(d) : told'[l] # << >>
  <2> SUFFICES ASSUME NEW d \in Composites \cap live', NEW l \in Hears(d)
               PROVE  l \in live' /\ told'[l] # << >>
    OBVIOUS
  <2>1. l \in Leaves
    BY ListenAssumption DEF Hears
  <2>2. CASE l \in Hears(c)
    BY <1>1, <1>2, <1>4, <1>9, <2>1, <2>2
  <2>3. CASE l \notin Hears(c)
    <3>1. d \in live
      BY <1>12, <2>3
    <3> QED BY <1>1, <1>3, <2>1, <2>3, <3>1 DEF GraphInv, KeysInv
  <2> QED BY <2>2, <2>3
<1>14. ASSUME NEW d \in Composites \cap live, Listening(d)' PROVE Listening(d)
  <2>1. d # c /\ "fast" \in Sides
    BY <1>1 DEF Sides
  <2>2. Attached(CallbackOf(d, "fast"))' => Attached(CallbackOf(d, "fast"))
    <3>1. LeafAt(d, "fast") \in Leaves
      BY <2>1, SidesOf
    <3> QED BY <1>5, <1>9, <2>1, <3>1
  <2> QED BY <1>1, <1>14, <2>2 DEF Listening, Regular, Hears
<1>15. \A l \in (Leaves \cap live') \ live : fed'[l] = << >>
  BY <1>1, <1>2
<1>16. \A l \in Leaves \cap live : fed'[l] = fed[l]
  BY <1>1
<1> QED BY <1>1, <1>7, <1>8, <1>10, <1>11, <1>12, <1>13, <1>14, <1>15, <1>16, BetweenBars

-----------------------------------------------------------------------------
LEMMA GraphInvStep == GraphInv /\ [GraphNext]_graphVars => GraphInv'
<1> SUFFICES ASSUME GraphInv, [GraphNext]_graphVars PROVE GraphInv'
  OBVIOUS
<1>1. CASE Provide
  BY <1>1, ProvideInv
<1>2. CASE Dispatch
  BY <1>2, DispatchInv
<1>3. CASE Consume
  BY <1>3, ConsumeInv
<1>4. CASE OnValue
  BY <1>4, OnValueInv
<1>5. CASE \E l \in Leaves : RegisterLeaf(l)
  BY <1>5, RegisterLeafInv
<1>6. CASE \E l \in Leaves : DeAttach(l)
  BY <1>6, DeAttachInv
<1>7. CASE \E c \in Composites : RegisterComposite(c)
  BY <1>7, RegisterCompositeInv
<1>8. CASE UNCHANGED graphVars
  <2>1. /\ UNCHANGED registry
        /\ UNCHANGED <<bar, order, live, removed, told, due, inputs, calls, fed, slot, ready, out>>
    BY <1>8 DEF graphVars, registry
  <2>2. /\ KeysInv' /\ ToldInv' /\ PairInv'
        /\ \A l : Plain(l)' = Plain(l)
        /\ \A cb : Attached(cb)' = Attached(cb)
        /\ \A c : Regular(c)' = Regular(c) /\ Listening(c)' = Listening(c)
        /\ \A c, s : First(c, s)' = First(c, s)
    BY <2>1, RegistryStands DEF GraphInv
  <2>3. GraphTypeOK' /\ DueInv' /\ InputsInv'
    BY <2>1 DEF GraphInv, GraphTypeOK, DueInv, InputsInv, Current, Plain
  <2>4. CallsInv'
    BY <2>1 DEF GraphInv, CallsInv, Attached, Plain, Current, LeafOf, LeafAt
  <2>5. (\A l : Due(l)' = Due(l) /\ Share(l)' = Share(l) /\ IsWarm(l)' = IsWarm(l))
        /\ \A c, s : Pending(c, s)' = Pending(c, s)
    BY <2>1 DEF Due, Share, IsWarm, Pending, CallbackOf, LeafAt
  <2>6. FedInv' /\ SlotInv' /\ OutInv'
    BY <2>1, <2>2, <2>5 DEF GraphInv, FedInv, SlotInv, OutInv
  <2>7. AheadInv'
    <3> SUFFICES ASSUME NEW i \in DOMAIN order, NEW j \in DOMAIN order, i < j,
                        {order[i], order[j]} \subseteq (Leaves \cap live) \ removed,
                        Plain(order[i]), Plain(order[j])
                 PROVE  Share(order[j])' <= Share(order[i])'
      BY <2>1, <2>2 DEF AheadInv, Share, Due
    <3>1. Share(order[j]) <= Share(order[i]) /\ order' = order
      BY <2>1 DEF GraphInv, AheadInv
    <3> QED BY <2>5, <3>1
  <2>8. ToggleInv' /\ SpokenInv'
    <3>1. \A c, s : Pending(c, Other(s))' = Pending(c, Other(s)) /\ IsWarm(LeafAt(c, s))' = IsWarm(LeafAt(c, s))
      BY <2>1 DEF Due, IsWarm, Pending, CallbackOf, LeafAt, Other
    <3> QED BY <2>1, <2>2, <2>5, <3>1 DEF GraphInv, ToggleInv, SpokenInv, Spoken, Feeding, Other
  <2> QED BY <2>2, <2>3, <2>4, <2>6, <2>7, <2>8 DEF GraphInv
<1> QED BY <1>1, <1>2, <1>3, <1>4, <1>5, <1>6, <1>7, <1>8 DEF GraphNext

(* The invariant holds of the registry and of a bar on its way through it, *)
(* however many leaves and composites there are and in whatever order they *)
(* were registered.                                                        *)
THEOREM SpecGraphInv == GraphSpec => []GraphInv
<1> QED BY InitGraphInv, GraphInvStep, PTL DEF GraphSpec

(* The graph's types.                                                      *)
THEOREM SpecGraphTypeOK == GraphSpec => []GraphTypeOK
<1>1. GraphInv => GraphTypeOK
  BY DEF GraphInv
<1> QED BY <1>1, SpecGraphInv, PTL

(* A leaf that several composites share is fed a bar once: its inputs are  *)
(* the newest bars, without a gap and without a double.                    *)
THEOREM SpecFedOncePerBar == GraphSpec => []FedOncePerBar
<1>1. GraphInv => FedOncePerBar
  <2> SUFFICES ASSUME GraphInv, ~ Feeding, NEW l \in Leaves \cap live,
                      \A c \in Forwarding \cap live : l \notin Hears(c)
               PROVE  fed[l] = [i \in 1..Len(fed[l]) |-> bar - Len(fed[l]) + i]
    BY DEF FedOncePerBar
  <2>1. DOMAIN due = {} /\ DOMAIN inputs = {} /\ Plain(l)
    BY DEF Feeding, Plain
  <2>2. ~ Due(l)
    BY <2>1 DEF Due
  <2>3. \A i \in DOMAIN fed[l] : fed[l][i] = bar - Len(fed[l]) + i
    BY <2>1, <2>2 DEF GraphInv, FedInv
  <2>4. fed[l] = [i \in 1..Len(fed[l]) |-> fed[l][i]] /\ DOMAIN fed[l] = 1..Len(fed[l])
    <3>1. fed[l] \in Seq(Nat)
      BY DEF GraphInv, GraphTypeOK
    <3> QED BY <3>1
  <2> QED BY <2>3, <2>4
<1> QED BY <1>1, SpecGraphInv, PTL

(* A composite never puts out the values of two bars, nor one bar twice.   *)
THEOREM SpecInStep == GraphSpec => []InStep
<1>1. GraphInv => InStep
  BY DEF GraphInv, OutInv, InStep, Regular
<1> QED BY <1>1, SpecGraphInv, PTL

(* By the end of a bar a composite of two warm leaves has put the bar's    *)
(* value out.                                                              *)
THEOREM SpecSpeaksWhenWarm == GraphSpec => SpeaksWhenWarm
<1>1. GraphInv /\ [GraphNext]_graphVars =>
        [Feeding /\ ~ Feeding' =>
           \A c \in Composites \cap live :
             Alone(c) /\ Regular(c) /\ (\A l \in Hears(c) : Len(fed'[l]) >= Warm[l]) =>
               /\ out'[c] # << >>
               /\ Last(out'[c]) = <<bar, bar>>]_graphVars
  <2> SUFFICES ASSUME GraphInv, GraphNext, Feeding, ~ Feeding', NEW c \in Composites \cap live,
                      Alone(c), Regular(c), \A l \in Hears(c) : Len(fed'[l]) >= Warm[l]
               PROVE  out'[c] # << >> /\ Last(out'[c]) = <<bar, bar>>
    OBVIOUS
  <2>1. Dispatch \/ Consume \/ OnValue
    BY DEF GraphNext, Provide, RegisterLeaf, DeAttach, RegisterComposite
  <2>2. UNCHANGED registry /\ bar' = bar /\ Spoken(c)'
    BY <2>1, DispatchInv, ConsumeInv, OnValueInv DEF Dispatch, Consume, OnValue
  <2>3. Listening(c) /\ Listening(c)'
    BY <2>2, RegistryStands DEF GraphInv, PairInv, Listening
  <2>4. DOMAIN due' = {} /\ DOMAIN inputs' = {} /\ DOMAIN calls' = {}
    BY DEF Feeding
  <2>5. \A s \in Sides : ~ Pending(c, s)' /\ IsWarm(LeafAt(c, s))'
    <3>1. \A s \in Sides : LeafAt(c, s) \in Hears(c) /\ LeafAt(c, s)' = LeafAt(c, s)
      BY SidesOf DEF LeafAt
    <3> QED BY <2>4, <3>1 DEF Pending, Due, IsWarm
  <2> QED BY <2>2, <2>3, <2>5 DEF Spoken
<1> QED BY <1>1, SpecGraphInv, PTL DEF GraphSpec, SpeaksWhenWarm
=============================================================================
