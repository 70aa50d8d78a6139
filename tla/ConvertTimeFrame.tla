-------------------------- MODULE ConvertTimeFrame --------------------------
(***************************************************************************)
(* ConvertTimeFrame and _TFBucket (src/src/trex/indic/CTF.py) of one       *)
(* symbol: 1-minute candles are fanned out to the 1-minute subscribers and *)
(* then, bucket by bucket, gathered into bars of more minutes.  A bucket   *)
(* closes its bar by counting candles.                                     *)
(*                                                                         *)
(* The feed thread takes no lock, so every callback is a step of its own,  *)
(* and another thread may subscribe between two of them: a dict that       *)
(* changes size while it is walked raises.  A callback may raise, too.     *)
(* Either ends the candle where it stands.                                 *)
(*                                                                         *)
(* A candle is its minute, a bar the candles it was made of: its open, its *)
(* range, its close and its volume are functions of those.                 *)
(***************************************************************************)
EXTENDS Naturals, Sequences, SequencesExt

CONSTANTS Frames,     \* the higher timeframes, in minutes
          Keys,       \* the subscribers' keys
          Wanted,     \* the <<timeframe, key>> pairs that may subscribe
          Faulty,     \* the keys whose callback may raise
          Skips,      \* minutes from one candle to the next: {1} is no gap
          Day, Week,  \* their lengths, in minutes
          LastMinute, \* the feed stops here
          LastJoin,   \* nobody subscribes after this minute
          MaxFaults   \* how many irregularities the feed may meet

ASSUME FramesAssumption == Frames \subseteq Nat \ {0, 1}
ASSUME KeysAssumption == Wanted \subseteq (Frames \cup {1}) \X Keys /\ Faulty \subseteq Keys
ASSUME SkipsAssumption == Skips \subseteq Nat \ {0} /\ LastMinute \in Nat /\ LastJoin \in Nat
ASSUME MaxFaultsAssumption == MaxFaults \in Nat
ASSUME CalendarAssumption == Day \in Nat \ {0} /\ Week \in Nat \ {0}

VARIABLES booted,   \* the CTF's pipeline has left its boot phase
          now,      \* the minute of the candle being fed, or of the last one
          order,    \* _buckets' keys, in insertion order
          subs,     \* per frame (1: _m1_callbacks) its keys, in insertion order
          step,     \* per frame: "wait" or "build"
          current,  \* per frame: the bar object the bucket works on
          past,     \* per frame: the bars closed before current was opened
          feed,     \* where the feed thread is inside the candle
          since,    \* history: per frame and key, the minute it subscribed in
          got,      \* history: per frame and key, what the callback was given
          faults    \* history: minutes missed, callbacks that raised, and
                    \* subscriptions in the middle of a candle

vars == <<booted, now, order, subs, step, current, past, feed, since, got, faults>>

AllFrames == Frames \cup {1}

Idle == [at |-> "idle"]

(* Walking the callbacks of the b-th bucket (0: the 1-minute ones), and    *)
(* walking the buckets.  An iterator remembers the size of its dict.       *)
FrameAt(b) == IF b = 0 THEN 1 ELSE order[b]

(* Mutant: the walk leaves the first callback out. *)
CallingFromSecond(b, frames) ==
  [at |-> "call", b |-> b, i |-> 2, keys |-> Len(subs[FrameAt(b)]), frames |-> frames]

Calling(b, frames) ==
  [at |-> "call", b |-> b, i |-> 1, keys |-> Len(subs[FrameAt(b)]), frames |-> frames]

Visiting(b, frames) == [at |-> "bucket", b |-> b, frames |-> frames]

(* _is_bar_open(): the first minute of a period.  The periods of a day     *)
(* begin at its midnight, longer ones with the week.                       *)
IsBarOpen(minute, f) ==
  IF f <= Day THEN (minute % Day) % f = 0 ELSE minute % Week = 0

(* A bar enters history when its count is full, and is the same object as  *)
(* current from then until the next bar opens.                             *)
History(f) == past[f] \o (IF Len(current[f]) >= f THEN <<current[f]>> ELSE << >>)

-----------------------------------------------------------------------------
Init ==
  /\ booted = FALSE
  /\ now \in 0..1
  /\ order = << >>
  /\ subs = [f \in AllFrames |-> << >>]
  /\ step = [f \in Frames |-> "wait"]
  /\ current = [f \in Frames |-> << >>]
  /\ past = [f \in Frames |-> << >>]
  /\ feed = Idle
  /\ since = [f \in AllFrames |-> [k \in Keys |-> 0]]
  /\ got = [f \in AllFrames |-> [k \in Keys |-> << >>]]
  /\ faults = 0

(* One more irregularity, if this holds, of which there are MaxFaults.     *)
Fault(irregular) ==
  /\ irregular => faults < MaxFaults
  /\ faults' = faults + IF irregular THEN 1 ELSE 0

(* add_timeframe(): a new key goes last (the same key again changes        *)
(* nothing here), and a bucket is made on first use.                       *)
AddTimeframe(f, k) ==
  /\ <<f, k>> \in Wanted /\ now <= LastJoin
  /\ ~ Contains(subs[f], k)
  /\ Fault(feed.at # "idle")
  /\ subs' = [subs EXCEPT ![f] = Append(@, k)]
  /\ order' = IF f = 1 \/ Contains(order, f) THEN order ELSE Append(order, f)
  /\ since' = [since EXCEPT ![f][k] = now]
  /\ UNCHANGED <<booted, now, step, current, past, feed, got>>

(* add_input_value(): the first candle only boots the pipeline; any other  *)
(* goes to the 1-minute callbacks first.                                   *)
Provide ==
  /\ feed.at = "idle"
  /\ \E d \in Skips : now + d <= LastMinute /\ now' = now + d /\ Fault(d > 1)
  /\ booted' = TRUE
  /\ feed' = IF booted THEN Calling(0, 0) ELSE Idle
  /\ UNCHANGED <<order, subs, step, current, past, since, got>>

(* for key, cb in callbacks.items(): cb(key, ...) *)
Callback ==
  /\ feed.at = "call"
  /\ LET f == FrameAt(feed.b)
     IN  /\ Len(subs[f]) = feed.keys /\ feed.i <= feed.keys
         /\ got' = [got EXCEPT ![f][subs[f][feed.i]] =
                      Append(@, IF f = 1 THEN <<now>> ELSE current[f])]
  /\ feed' = [feed EXCEPT !.i = @ + 1]
  /\ UNCHANGED <<booted, now, order, subs, step, current, past, since, faults>>

(* The loop over the callbacks ends: a bucket goes back to waiting, and    *)
(* the next bucket has its turn.                                           *)
CallbacksDone ==
  /\ feed.at = "call"
  /\ LET f == FrameAt(feed.b)
     IN  /\ Len(subs[f]) = feed.keys /\ feed.i > feed.keys
         /\ step' = IF f = 1 THEN step ELSE [step EXCEPT ![f] = "wait"]
  /\ feed' = Visiting(feed.b + 1, IF feed.b = 0 THEN Len(order) ELSE feed.frames)
  /\ UNCHANGED <<booted, now, order, subs, current, past, since, got, faults>>

(* A callback raises, or a dict has changed size under its iterator: the   *)
(* exception leaves the feed, and nothing after the loop is run.           *)
Raise ==
  /\ \/ /\ feed.at = "call"
        /\ LET f == FrameAt(feed.b)
           IN  \/ Len(subs[f]) # feed.keys /\ Fault(FALSE)
               \/ /\ Len(subs[f]) = feed.keys /\ feed.i <= feed.keys
                  /\ subs[f][feed.i] \in Faulty /\ Fault(TRUE)
     \/ feed.at = "bucket" /\ Len(order) # feed.frames /\ Fault(FALSE)
  /\ feed' = Idle
  /\ UNCHANGED <<booted, now, order, subs, step, current, past, since, got>>

(* Every bucket has had the candle. *)
BucketsDone ==
  /\ feed.at = "bucket"
  /\ Len(order) = feed.frames /\ feed.b > feed.frames
  /\ feed' = Idle
  /\ UNCHANGED <<booted, now, order, subs, step, current, past, since, got, faults>>

(* Mutant: any candle opens a bar. *)
WaitStepAnyMinute(f) ==
  /\ step[f] = "wait"
  /\ current' = [current EXCEPT ![f] = <<now>>]
  /\ past' = [past EXCEPT ![f] = History(f)]
  /\ step' = [step EXCEPT ![f] = "build"]
  /\ feed' = Visiting(feed.b + 1, feed.frames)

(* _wait_step(): only the first minute of a period opens a bar. *)
WaitStep(f) ==
  /\ step[f] = "wait"
  /\ IF IsBarOpen(now, f)
     THEN /\ current' = [current EXCEPT ![f] = <<now>>]
          /\ past' = [past EXCEPT ![f] = History(f)]
          /\ step' = [step EXCEPT ![f] = "build"]
     ELSE UNCHANGED <<current, past, step>>
  /\ feed' = Visiting(feed.b + 1, feed.frames)

(* Mutant: every candle from the full count on closes the bar. *)
BuildStepAtLeast(f) ==
  /\ step[f] = "build"
  /\ current' = [current EXCEPT ![f] = Append(@, now)]
  /\ feed' = IF Len(current[f]) + 1 >= f
             THEN Calling(feed.b, feed.frames)
             ELSE Visiting(feed.b + 1, feed.frames)
  /\ UNCHANGED <<past, step>>

(* _build_step(): whatever the candle's minute, it is counted in; at the   *)
(* full count, and at no other, the bar is closed and handed out.          *)
BuildStep(f) ==
  /\ step[f] = "build"
  /\ current' = [current EXCEPT ![f] = Append(@, now)]
  /\ feed' = IF Len(current[f]) + 1 = f
             THEN Calling(feed.b, feed.frames)
             ELSE Visiting(feed.b + 1, feed.frames)
  /\ UNCHANGED <<past, step>>

OnTick ==
  /\ feed.at = "bucket"
  /\ Len(order) = feed.frames /\ feed.b <= feed.frames
  /\ WaitStep(order[feed.b]) \/ BuildStep(order[feed.b])
  /\ UNCHANGED <<booted, now, order, subs, since, got, faults>>

Next ==
  \/ Provide \/ Callback \/ CallbacksDone \/ Raise \/ OnTick \/ BucketsDone
  \/ \E f \in AllFrames, k \in Keys : AddTimeframe(f, k)

Spec == Init /\ [][Next]_vars

-----------------------------------------------------------------------------
Regular == faults = 0

(* As long as the feed is regular, a bar of f minutes, in history or in a  *)
(* subscriber's hands, is the f candles of one period: all of them and no  *)
(* others, although the bucket only counts (CTF.py:116-134); and no period *)
(* is skipped: the minute after a bar's last opens the next bar.           *)
BarsMatchTheClock ==
  Regular =>
    \A f \in Frames :
      LET h == History(f)
      IN  /\ \A bar \in ToSet(h) \cup UNION {ToSet(got[f][k]) : k \in Keys} :
               IsBarOpen(bar[1], f) /\ bar = [i \in 1..f |-> bar[1] + i - 1]
          /\ \A i \in 1..(Len(h) - 1) : Head(h[i + 1]) = Last(h[i]) + 1

(* As long as the feed is regular, between candles every subscriber of a   *)
(* frame has been told the bars that were closed since it subscribed: each *)
(* once, in order, as history has them.                                    *)
EveryBarIsTold ==
  Regular /\ feed.at = "idle" =>
    \A f \in Frames, k \in Keys :
      Contains(subs[f], k) =>
        \E n \in 0..Len(History(f)) :
          /\ got[f][k] = SubSeq(History(f), n + 1, Len(History(f)))
          /\ \A i \in 1..Len(History(f)) : i > n <=> Last(History(f)[i]) > since[f][k]

InTimeOrder(bs) == \A i, j \in DOMAIN bs : i < j => Last(bs[i]) < Head(bs[j])

(* Whatever raises, is missed, or subscribes in between: no candle is      *)
(* counted into two bars of a frame, and no subscriber is told a bar       *)
(* twice, or a bar that takes up candles of one it was told before.        *)
NoCandleTwice ==
  \A f \in Frames :
    InTimeOrder(History(f)) /\ \A k \in Keys : InTimeOrder(got[f][k])
=============================================================================
