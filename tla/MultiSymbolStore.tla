-------------------------- MODULE MultiSymbolStore --------------------------
(***************************************************************************)
(* MultiSymbolStore (src/src/trex/server/store.py): one CandleStore per    *)
(* (symbol, timeframe), made by whichever thread asks first.  The lookup   *)
(* takes no lock; only the creation does, and it looks again before it     *)
(* creates.  A CandleStore object is reduced to the bars written into it.  *)
(***************************************************************************)
EXTENDS Naturals, FiniteSets

CONSTANTS Threads,   \* the threads that call the store
          Symbols,   \* symbols as callers spell them
          Frames,    \* timeframes
          Upper,     \* str.upper() on Symbols
          NoStore    \* "not looked up yet"

ASSUME UpperAssumption == Upper \in [Symbols -> Symbols]
ASSUME NoStoreAssumption == NoStore \notin Nat

VARIABLES stores,    \* _stores: key -> the number of a CandleStore object
          made,      \* how many objects have been constructed
          contents,  \* history: object -> the threads' writes it received
          pc,        \* per thread: where in the call it is
          arg,       \* per thread: the (symbol, timeframe) of its call
          found,     \* per thread: the object _get_or_create returned
          writes     \* history: the writes that have returned

registryVars == <<stores, made, contents, pc, arg, found, writes>>

Pairs == Symbols \X Frames

(* _key(): the spelling is folded, the timeframe is not. *)
Key(pair) == <<Upper[pair[1]], pair[2]>>

-----------------------------------------------------------------------------
RegistryInit ==
  /\ stores = << >>
  /\ made = 0
  /\ contents = << >>
  /\ pc = [t \in Threads |-> "idle"]
  /\ arg \in [Threads -> Pairs]
  /\ found = [t \in Threads |-> NoStore]
  /\ writes = {}

(* `return self._stores[k]`, or the KeyError branch. *)
Lookup(t) ==
  /\ pc[t] = "idle"
  /\ \E pair \in Pairs :
       /\ arg' = [arg EXCEPT ![t] = pair]
       /\ IF Key(pair) \in DOMAIN stores
          THEN /\ found' = [found EXCEPT ![t] = stores[Key(pair)]]
               /\ pc' = [pc EXCEPT ![t] = "use"]
          ELSE /\ found' = [found EXCEPT ![t] = NoStore]
               /\ pc' = [pc EXCEPT ![t] = "miss"]
  /\ UNCHANGED <<stores, made, contents, writes>>

(* Mutant: not checked again. *)
CreateUnchecked(t) ==
  /\ pc[t] = "miss"
  /\ stores' = [j \in DOMAIN stores \cup {Key(arg[t])} |->
                  IF j = Key(arg[t]) THEN made + 1 ELSE stores[j]]
  /\ made' = made + 1
  /\ contents' = [i \in 1..(made + 1) |->
                    IF i \in DOMAIN contents THEN contents[i] ELSE {}]
  /\ found' = [found EXCEPT ![t] = made + 1]
  /\ pc' = [pc EXCEPT ![t] = "use"]
  /\ UNCHANGED <<arg, writes>>

(* The body of `with self._lock`: checked again, then created. *)
Create(t) ==
  /\ pc[t] = "miss"
  /\ LET k == Key(arg[t])
     IN  IF k \in DOMAIN stores
         THEN /\ UNCHANGED <<stores, made, contents>>
              /\ found' = [found EXCEPT ![t] = stores[k]]
         ELSE /\ stores' = [j \in DOMAIN stores \cup {k} |->
                              IF j = k THEN made + 1 ELSE stores[j]]
              /\ made' = made + 1
              /\ contents' = [i \in 1..(made + 1) |->
                                IF i \in DOMAIN contents THEN contents[i] ELSE {}]
              /\ found' = [found EXCEPT ![t] = made + 1]
  /\ pc' = [pc EXCEPT ![t] = "use"]
  /\ UNCHANGED <<arg, writes>>

(* .update(bar) on the object found; a write is named by who made it where. *)
Use(t) ==
  /\ pc[t] = "use"
  /\ contents' = [contents EXCEPT ![found[t]] = @ \cup {<<t, arg[t]>>}]
  /\ writes' = writes \cup {<<t, arg[t]>>}
  /\ pc' = [pc EXCEPT ![t] = "idle"]
  /\ found' = [found EXCEPT ![t] = NoStore]
  /\ UNCHANGED <<stores, made, arg>>

RegistryNext == \E t \in Threads : Lookup(t) \/ Create(t) \/ Use(t)

RegistrySpec == RegistryInit /\ [][RegistryNext]_registryVars

-----------------------------------------------------------------------------
(* Objects are numbered from one; every registered one exists. *)
RegistryTypeOK ==
  /\ made \in Nat
  /\ DOMAIN stores \subseteq Pairs
  /\ \A k \in DOMAIN stores : stores[k] \in 1..made
  /\ DOMAIN contents = 1..made
  /\ pc \in [Threads -> {"idle", "miss", "use"}]
  /\ arg \in [Threads -> Pairs]
  /\ found \in [Threads -> Nat \cup {NoStore}]

(* A write that has returned is in the store that a reader of the pair     *)
(* finds, under any spelling: no thread wrote into an object that another  *)
(* thread's registration has since replaced.                               *)
WritesAreFound ==
  \A w \in writes :
    /\ Key(w[2]) \in DOMAIN stores
    /\ w \in contents[stores[Key(w[2])]]

(* No pair's object is ever replaced, nor shared with another pair. *)
OneStorePerPair ==
  /\ \A j, k \in DOMAIN stores : stores[j] = stores[k] => j = k
  /\ Cardinality(DOMAIN stores) = made
=============================================================================
