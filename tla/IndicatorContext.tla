-------------------------- MODULE IndicatorContext --------------------------
(***************************************************************************)
(* The indicator registry of one symbol (src/src/trex/engine/context.py):  *)
(* threads register indicators, with a listener or without, and take       *)
(* listeners off again.  get() is one critical section of the registry's   *)
(* RLock.  Filing a callback, counting it, taking it off and looking at    *)
(* the count are not.                                                      *)
(***************************************************************************)
EXTENDS Integers, FiniteSets, Functions

CONSTANTS Threads, Indicators, Listeners,
          Names,      \* listener keys: module and name of the callable
          NameOf,     \* each listener's
          MaxCalls,   \* registrations, a bound
          NoListener

ASSUME ThreadsAssumption == IsFiniteSet(Threads)
ASSUME NamesAssumption == IsFiniteSet(Names)
ASSUME NameOfAssumption == NameOf \in [Listeners -> Names]
ASSUME MaxCallsAssumption == MaxCalls \in Nat
ASSUME NoListenerAssumption == NoListener \notin Listeners \cup Names

VARIABLES begun,     \* registrations begun
          made,      \* how many instances were made
          key,       \* instance -> its indicator key
          callbacks, \* instance -> listener key -> listener
          reference, \* instance -> its reference count
          bucket,    \* indicator key -> its instance, 0 for none
          pc,        \* thread -> the step it is at
          issued,    \* the ListenerKeys that registrations returned
          kept,      \* history: indicator -> listener key -> who was registered
                     \* last and has not been taken off since
          again,     \* history: instance -> registrations of a key it had
          torn,      \* history: instances of which two threads took one
                     \* listener off, or wrote the count, at once
          lowered,   \* history: instance -> by which call its count was
                     \* lowered last
          raced      \* history: the indicators removed while somebody had
                     \* attached, or was about to attach, a listener

registered == <<begun, made, key, bucket>>
counts == <<reference, again, torn, lowered>>
vars == <<registered, counts, callbacks, pc, issued, kept, raced>>

Instances == 1..MaxCalls

Idle == [at |-> "idle"]

Init ==
  /\ begun = 0 /\ made = 0 /\ key = << >>
  /\ bucket = [k \in Indicators |-> 0]
  /\ callbacks = [i \in Instances |-> [n \in Names |-> NoListener]]
  /\ reference = [i \in Instances |-> 0]
  /\ again = [i \in Instances |-> 0]
  /\ torn = {} /\ lowered = [i \in Instances |-> "none"]
  /\ pc = [t \in Threads |-> Idle]
  /\ issued = {}
  /\ kept = [k \in Indicators |-> [n \in Names |-> NoListener]]
  /\ raced = {}

At(t, at) == pc[t].at = at

Goto(t, step) == pc' = [pc EXCEPT ![t] = step]

Onward(t, at) == Goto(t, [pc[t] EXCEPT !.at = at])

-----------------------------------------------------------------------------
(* get() has found or made an instance.  Without a listener, _register()   *)
(* is through, and its ListenerKey has no name.                            *)
Registered(t, i, k, l) ==
  IF l = NoListener
  THEN issued' = issued \cup {<<k, NoListener>>} /\ UNCHANGED pc
  ELSE Goto(t, [at |-> "attach", i |-> i, k |-> k, l |-> l, seen |-> 0]) /\ UNCHANGED issued

Made(t, k, l) ==
  /\ made' = made + 1
  /\ key' = [i \in 1..made' |-> IF i = made' THEN k ELSE key[i]]
  /\ bucket' = [bucket EXCEPT ![k] = made']
  /\ Registered(t, made', k, l)

(* Mutant: no lock, and the look-up may have been overtaken. *)
GetUnlocked(t, k, l) ==
  /\ At(t, "idle") /\ begun < MaxCalls /\ begun' = begun + 1
  /\ Made(t, k, l)
  /\ UNCHANGED <<counts, callbacks, kept, raced>>

(* _register(), first half: get() finds the indicator or makes it.         *)
Get(t, k, l) ==
  /\ At(t, "idle") /\ begun < MaxCalls /\ begun' = begun + 1
  /\ IF bucket[k] = 0
     THEN Made(t, k, l)
     ELSE Registered(t, bucket[k], k, l) /\ UNCHANGED <<made, key, bucket>>
  /\ UNCHANGED <<counts, callbacks, kept, raced>>

(* Somebody is about to take what is under this key off the instance.      *)
Leaving(i, n) ==
  \E t \in Threads : pc[t].at \in {"find", "drop"} /\ pc[t].i = i /\ pc[t].n = n

(* Second half, add_callback_listener(): the callback goes into the dict,  *)
(* in the place of one that has the same key ...                           *)
Attach(t) ==
  /\ At(t, "attach")
  /\ LET i == pc[t].i  l == pc[t].l  n == NameOf[l]
     IN  /\ callbacks' = [callbacks EXCEPT ![i][n] = l]
         /\ again' = [again EXCEPT ![i] = @ + IF callbacks[i][n] # NoListener THEN 1 ELSE 0]
         /\ kept' = [kept EXCEPT ![pc[t].k][n] = IF Leaving(i, n) THEN NoListener ELSE l]
  /\ Onward(t, "add")
  /\ UNCHANGED <<registered, reference, torn, lowered, issued, raced>>

(* ... and is counted: `+= 1` and `-= 1` read the count, and then write.   *)
ReadCount(t) ==
  /\ \/ At(t, "add") /\ Goto(t, [pc[t] EXCEPT !.at = "added", !.seen = reference[pc[t].i]])
     \/ At(t, "subtract")
          /\ Goto(t, [pc[t] EXCEPT !.at = "subtracted", !.seen = reference[pc[t].i]])
  /\ UNCHANGED <<registered, counts, callbacks, issued, kept, raced>>

WriteCount(t, n) ==
  /\ reference' = [reference EXCEPT ![pc[t].i] = n]
  /\ torn' = IF reference[pc[t].i] # pc[t].seen THEN torn \cup {pc[t].i} ELSE torn
  /\ UNCHANGED again

(* Mutant: the listener is not counted. *)
AddForgotten(t) ==
  /\ At(t, "added")
  /\ WriteCount(t, pc[t].seen) /\ UNCHANGED lowered
  /\ issued' = issued \cup {<<pc[t].k, NameOf[pc[t].l]>>}
  /\ Goto(t, Idle)
  /\ UNCHANGED <<registered, callbacks, kept, raced>>

Add(t) ==
  /\ At(t, "added")
  /\ WriteCount(t, pc[t].seen + 1) /\ UNCHANGED lowered
  /\ issued' = issued \cup {<<pc[t].k, NameOf[pc[t].l]>>}
  /\ Goto(t, Idle)
  /\ UNCHANGED <<registered, callbacks, kept, raced>>

-----------------------------------------------------------------------------
(* Both ways to take a listener off begin with remove_callback_listener(). *)
Detach(t, i, k, n, byKey) ==
  /\ Goto(t, [at |-> "find", i |-> i, k |-> k, n |-> n, byKey |-> byKey, seen |-> 0])
  /\ kept' = [kept EXCEPT ![k] = [m \in Names |-> IF m = n THEN NoListener ELSE @[m]]]
  /\ UNCHANGED <<registered, counts, callbacks, issued, raced>>

(* de_attach_by_key() looks the indicator up; there may be none.           *)
DeAttachByKey(t, k, n) ==
  /\ At(t, "idle") /\ <<k, n>> \in issued /\ bucket[k] # 0
  /\ Detach(t, bucket[k], k, n, TRUE)

(* de_attach() is given the instance.                                      *)
DeAttachFrom(t, i, n) ==
  /\ At(t, "idle") /\ i <= made /\ <<key[i], n>> \in issued
  /\ Detach(t, i, key[i], n, FALSE)

Finish(t) ==
  Goto(t, IF pc[t].byKey THEN [pc[t] EXCEPT !.at = "check", !.seen = 0] ELSE Idle)

(* `if key in callbacks` ...                                               *)
Find(t) ==
  /\ At(t, "find")
  /\ LET i == pc[t].i  n == pc[t].n
     IN  IF n \in Names /\ callbacks[i][n] # NoListener
         THEN Onward(t, "drop") ELSE Finish(t)
  /\ UNCHANGED <<registered, counts, callbacks, issued, kept, raced>>

(* ... takes it off, if it is still there, and counts one less.            *)
Drop(t) ==
  /\ At(t, "drop")
  /\ LET i == pc[t].i  n == pc[t].n
     IN  /\ callbacks' = [callbacks EXCEPT ![i][n] = NoListener]
         /\ torn' = IF callbacks[i][n] = NoListener THEN torn \cup {i} ELSE torn
  /\ Onward(t, "subtract")
  /\ UNCHANGED <<registered, reference, again, lowered, issued, kept, raced>>

Subtract(t) ==
  /\ At(t, "subtracted")
  /\ WriteCount(t, pc[t].seen - 1)
  /\ lowered' = [lowered EXCEPT ![pc[t].i] = IF pc[t].byKey THEN "byKey" ELSE "direct"]
  /\ Finish(t)
  /\ UNCHANGED <<registered, callbacks, issued, kept, raced>>

(* Mutant: off by one. *)
CheckReferenceBelow(t) ==
  /\ At(t, "check")
  /\ IF reference[pc[t].i] < 0 THEN Onward(t, "pop") ELSE Goto(t, Idle)
  /\ UNCHANGED <<registered, counts, callbacks, issued, kept, raced>>

(* de_attach_by_key() looks at the count ...                               *)
CheckReference(t) ==
  /\ At(t, "check")
  /\ IF reference[pc[t].i] <= 0 THEN Onward(t, "pop") ELSE Goto(t, Idle)
  /\ UNCHANGED <<registered, counts, callbacks, issued, kept, raced>>

InUse(i) ==
  i # 0 /\ ((\E n \in Names : callbacks[i][n] # NoListener)
              \/ \E t \in Threads : At(t, "attach") /\ pc[t].i = i)

(* ... and removes whatever the key then stands for: remove_indicator().   *)
Pop(t) ==
  /\ At(t, "pop")
  /\ bucket' = [bucket EXCEPT ![pc[t].k] = 0]
  /\ raced' = IF InUse(bucket[pc[t].k]) THEN raced \cup {pc[t].k} ELSE raced
  /\ Goto(t, Idle)
  /\ UNCHANGED <<begun, made, key, counts, callbacks, issued, kept>>

Step(t) ==
  \/ Attach(t) \/ ReadCount(t) \/ Add(t)
  \/ Find(t) \/ Drop(t) \/ Subtract(t) \/ CheckReference(t) \/ Pop(t)

Next ==
  \/ \E t \in Threads : Step(t)
  \/ \E t \in Threads, k \in Indicators, l \in Listeners \cup {NoListener} : Get(t, k, l)
  \/ \E t \in Threads, k \in Indicators, n \in Names \cup {NoListener} : DeAttachByKey(t, k, n)
  \/ \E t \in Threads, i \in Instances, n \in Names : DeAttachFrom(t, i, n)

(* A thread that has begun a call is scheduled until it returns; nobody    *)
(* has to call.                                                            *)
Spec == Init /\ [][Next]_vars /\ \A t \in Threads : WF_vars(Step(t))

-----------------------------------------------------------------------------
Filed(i) == {n \in Names : callbacks[i][n] # NoListener}

TypeOK ==
  /\ begun \in 0..MaxCalls /\ made \in 0..begun /\ key \in [1..made -> Indicators]
  /\ callbacks \in [Instances -> [Names -> Listeners \cup {NoListener}]]
  /\ reference \in [Instances -> Int] /\ again \in [Instances -> Nat]
  /\ bucket \in [Indicators -> 0..made]
  /\ pc \in [Threads -> {Idle}
        \cup [at : {"attach", "add", "added"}, i : 1..made, k : Indicators,
              l : Listeners, seen : Int]
        \cup [at : {"find", "drop", "subtract", "subtracted", "check", "pop"},
              i : 1..made, k : Indicators, n : Names \cup {NoListener},
              byKey : BOOLEAN, seen : Int]]
  /\ issued \subseteq Indicators \X (Names \cup {NoListener})
  /\ kept \in [Indicators -> [Names -> Listeners \cup {NoListener}]]
  /\ torn \subseteq Instances /\ raced \subseteq Indicators
  /\ lowered \in [Instances -> {"none", "byKey", "direct"}]

(* Who was registered last under a key, and was not taken off since, is    *)
(* called: by the one instance the indicator's key stands for, with no     *)
(* other listener in its place.  Nothing but a removal that overtakes an   *)
(* attachment or goes by a torn count (it is read and written without the  *)
(* registry's lock, context.py:158) takes it away.                         *)
AttachedIsReached ==
  \A k \in Indicators \ raced, n \in Names :
    kept[k][n] # NoListener => bucket[k] # 0 /\ callbacks[bucket[k]][n] = kept[k][n]

(* Nobody is between the callbacks and the count.                          *)
AtRest(i) ==
  \A t \in Threads :
    pc[t].at \in {"add", "added", "subtract", "subtracted"} => pc[t].i # i

(* "each add_callback_listener call increments self.reference"             *)
(* (indicator.py:49): the count is that of the listeners, and one more for *)
(* each registration of a key that was there, which no removal takes back. *)
(* It is never below: only two threads that write at once may tear it.     *)
ReferencesAreListeners ==
  \A i \in Instances \ torn :
    AtRest(i) => reference[i] = Cardinality(Filed(i)) + again[i]

(* "auto-cleanup indicator if refcount hits zero" (context.py:148): an     *)
(* instance whose count de_attach_by_key() brought to zero does not stay   *)
(* registered with it.  One that de_attach() brought there does: it looks  *)
(* at no count (api.py:577), though indicator.py:50 says "auto-removed".   *)
UnusedGoes ==
  \A i \in Instances, k \in Indicators :
    LET Unused == bucket[k] = i /\ reference[i] <= 0 /\ lowered[i] = "byKey" /\ i \notin torn
    IN  Unused ~> ~ Unused

=============================================================================
