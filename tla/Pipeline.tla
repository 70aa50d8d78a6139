------------------------------ MODULE Pipeline ------------------------------
(***************************************************************************)
(* The three-phase state machine each indicator owns                       *)
(* (src/src/trex/engine/pipeline.py): a warm-up that only remembers the    *)
(* value, a boot phase until the class is ready, and the run phase.        *)
(*                                                                         *)
(* A class is an operator on the pipeline's record and a value; what it    *)
(* returns is [d, r, told]: its state, the result of _first_calculate() or *)
(* _calculate_new_value(), and what a private indicator's callback emitted *)
(* while it ran.                                                           *)
(***************************************************************************)
EXTENDS Rationals

Wait  == [is |-> "wait"]                    \* None, and False while booting
Go    == [is |-> "go"]                      \* True
Raise == [is |-> "raise"]                   \* the call raised
Value(x) == [is |-> "value", of |-> x]

NoValue == << >>                            \* None

(* A division of floats: by zero it raises. *)
Ratio(a, b) == IF b = Zero THEN Raise ELSE Value(a // b)

Return(d, r) == [d |-> d, r |-> r, told |-> Wait]

Fresh(warmup, d) ==
  [left |-> warmup, booting |-> TRUE, prev |-> NoValue, last |-> NoValue, d |-> d]

(* deque(maxlen=n).append(v) *)
Push(win, v, n) == IF Len(win) < n THEN Append(win, v) ELSE Append(Tail(win), v)

(* What a tick put out: at most one value, returned or by a callback. *)
Spoken(s) == IF s.r.is = "value" THEN s.r ELSE s.told

(* The end of _boot_step() and _run_step(), and emit()'s prev_output.  The *)
(* class has changed its state already when it raises.                     *)
Advance(i, v, s) ==
  IF s.r = Raise THEN [i EXCEPT !.d = s.d]
  ELSE [i EXCEPT !.d = s.d, !.prev = v,
                 !.booting = @ /\ s.r = Wait,
                 !.last = IF Spoken(s).is = "value" THEN Spoken(s).of ELSE @]

(* _warmup_step() *)
WarmUp(i, v) == [i EXCEPT !.prev = v, !.left = @ - 1]
=============================================================================
