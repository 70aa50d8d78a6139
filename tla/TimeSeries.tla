----------------------------- MODULE TimeSeries -----------------------------
(***************************************************************************)
(* What a candle store promises, without its arrays: a map from bar times  *)
(* to the newest revision written for that time.  A write is last-write-   *)
(* wins.  Only a write newer than everything held makes room, and it       *)
(* forgets nothing but the oldest times.  Loading replaces the map.        *)
(***************************************************************************)
EXTENDS Naturals, FiniteSets, Sequences

CONSTANTS Time,      \* the bar times
          Rev,       \* the contents a bar can have
          MaxBars,   \* the capacity an append keeps to
          Batches    \* the bulk loads considered

VARIABLE held        \* the map from times to revisions

(* The k newest keys of a map. *)
Newest(f, k) ==
  {t \in DOMAIN f : Cardinality({u \in DOMAIN f : u > t}) < k}

Keep(f, T) == [t \in T |-> f[t]]

With(f, t, r) == [u \in DOMAIN f \cup {t} |-> IF u = t THEN r ELSE f[u]]

(* The map a list of bars stands for: of two bars of a time, the later. *)
AsMap(batch) ==
  LET at(t) == {i \in DOMAIN batch : batch[i].time = t}
  IN  [t \in {batch[i].time : i \in DOMAIN batch} |->
         batch[CHOOSE i \in at(t) : \A j \in at(t) : j <= i].rev]

-----------------------------------------------------------------------------
Init == held = << >>

Load(batch) == held' = Keep(AsMap(batch), Newest(AsMap(batch), MaxBars))

(* A time at or before the newest one: nothing else changes. *)
Amend(t, r) ==
  /\ \E u \in DOMAIN held : t <= u
  /\ held' = With(held, t, r)

(* A time newer than all: the oldest are forgotten to make room. *)
Append1(t, r) ==
  /\ \A u \in DOMAIN held : u < t
  /\ held' = Keep(With(held, t, r), Newest(With(held, t, r), MaxBars))

Next ==
  \/ \E batch \in Batches : Load(batch)
  \/ \E t \in Time, r \in Rev : Amend(t, r) \/ Append1(t, r)

Spec == Init /\ [][Next]_held
=============================================================================
