--------------------------- MODULE Terminal_proofs ---------------------------
(***************************************************************************)
(* Proofs about the terminal.                                              *)
(*                                                                         *)
(* WSClient, for any settings' values, any length of the queue and any     *)
(* number of network failures: a client that is wanted has one socket or   *)
(* one timer, its status is true, and the session ends up with the symbol  *)
(* that the user chose last, or saw when the socket opened.                *)
(*                                                                         *)
(* LiveChart, for any symbols, timeframes and size of a snapshot and any   *)
(* number of pushes, in any order of their times: a terminal at rest shows *)
(* what was asked for last, its chart has candles of that symbol only, and *)
(* follows the store but for bars that came late.                          *)
(***************************************************************************)
EXTENDS WSClient, LiveChart, FiniteSetTheorems, SequenceTheorems, TLAPS

(* What the client is about: with a socket that is not gone, ws is it, it  *)
(* has its handlers and no timer waits; else one timer waits, the one that *)
(* reconnectTimer names.                                                   *)
OneThing ==
  /\ destroyed => ws = 0
  /\ ~ destroyed =>
       /\ ws \in Sockets
       /\ \A s \in Sockets : socket[s] # "gone" => s = ws
       /\ socket[ws] = "gone" => reconnectTimer # 0 /\ pending = {reconnectTimer}
       /\ socket[ws] # "gone" => attached[ws] /\ reconnectTimer = 0 /\ pending = {}

IsSymbol(m) == m.set = "symbol"

(* The last message about the symbol, if there is one, says this value.    *)
EndsWith(q, v) ==
  \A i \in DOMAIN q :
    IsSymbol(q[i]) /\ (\A j \in DOMAIN q : i < j => ~ IsSymbol(q[j])) => q[i].to = v

NoSymbolIn(q) == \A i \in DOMAIN q : ~ IsSymbol(q[i])

(* Whatever is dropped from its front, the queue ends with the symbol that *)
(* is shown, and what is on the way on a connection that stands with the   *)
(* one that is meant; a socket that is open has had the queue.             *)
SymbolOnTheWay ==
  /\ ~ destroyed => EndsWith(sendQueue, shown["symbol"])
  /\ IsOpen => sendQueue = << >>
  /\ IsOpen /\ link[ws] =>
       /\ EndsWith(flight[ws], meant)
       /\ NoSymbolIn(flight[ws]) => known[ws]["symbol"] = meant

IInv == TypeOK /\ OneThing /\ StatusIsTrue /\ SymbolOnTheWay

-----------------------------------------------------------------------------
(* The front of a queue is of no account ...                               *)
LEMMA TailEndsWith ==
  ASSUME NEW q \in Seq(Messages), q # << >>, NEW v, EndsWith(q, v)
  PROVE  /\ Tail(q) \in Seq(Messages) /\ Len(Tail(q)) = Len(q) - 1
         /\ EndsWith(Tail(q), v)
         /\ NoSymbolIn(Tail(q)) /\ IsSymbol(Head(q)) => Head(q).to = v
         /\ NoSymbolIn(Tail(q)) /\ ~ IsSymbol(Head(q)) => NoSymbolIn(q)
<1>1. /\ Tail(q) \in Seq(Messages) /\ Len(Tail(q)) = Len(q) - 1
      /\ \A i \in 1..Len(Tail(q)) : Tail(q)[i] = q[i + 1]
  BY HeadTailProperties
<1>2. /\ Len(q) \in Nat /\ Len(q) >= 1 /\ DOMAIN q = 1..Len(q)
      /\ DOMAIN Tail(q) = 1..(Len(q) - 1) /\ Head(q) = q[1]
  BY <1>1, LenProperties, EmptySeq
<1>3. \A i \in 2..Len(q) : i - 1 \in DOMAIN Tail(q) /\ Tail(q)[i - 1] = q[i]
  BY <1>1, <1>2
<1>4. EndsWith(Tail(q), v)
  <2> SUFFICES ASSUME NEW i \in DOMAIN Tail(q), IsSymbol(Tail(q)[i]),
                      \A j \in DOMAIN Tail(q) : i < j => ~ IsSymbol(Tail(q)[j])
               PROVE  Tail(q)[i].to = v
    BY DEF EndsWith
  <2>1. i + 1 \in DOMAIN q /\ Tail(q)[i] = q[i + 1]
    BY <1>1, <1>2
  <2>2. ASSUME NEW j \in DOMAIN q, i + 1 < j PROVE ~ IsSymbol(q[j])
    <3>1. j \in 2..Len(q) /\ i < j - 1
      BY <2>2, <1>2
    <3> QED BY <3>1, <1>3
  <2> QED BY <2>1, <2>2 DEF EndsWith
<1>5. ASSUME NoSymbolIn(Tail(q)), NEW j \in DOMAIN q, 1 < j
      PROVE  ~ IsSymbol(q[j])
  <2>1. j \in 2..Len(q)
    BY <1>2, <1>5
  <2>2. j - 1 \in DOMAIN Tail(q) /\ Tail(q)[j - 1] = q[j]
    BY <2>1, <1>3
  <2> QED BY <2>2, <1>5 DEF NoSymbolIn
<1>6. 1 \in DOMAIN q
  BY <1>2
<1>7. NoSymbolIn(Tail(q)) /\ IsSymbol(Head(q)) => Head(q).to = v
  BY <1>2, <1>5, <1>6 DEF EndsWith
<1>8. NoSymbolIn(Tail(q)) /\ ~ IsSymbol(Head(q)) => NoSymbolIn(q)
  BY <1>2, <1>5 DEF NoSymbolIn
<1> QED BY <1>1, <1>4, <1>7, <1>8

(* ... what is appended decides if it is about the symbol ...              *)
LEMMA AppendEndsWith ==
  ASSUME NEW q \in Seq(Messages), NEW m \in Messages, NEW v, NEW w, EndsWith(q, v),
         IF IsSymbol(m) THEN m.to = w ELSE w = v
  PROVE  /\ Append(q, m) \in Seq(Messages) /\ Len(Append(q, m)) = Len(q) + 1
         /\ EndsWith(Append(q, m), w)
         /\ NoSymbolIn(Append(q, m)) => NoSymbolIn(q) /\ ~ IsSymbol(m)
<1>1. /\ Append(q, m) \in Seq(Messages) /\ Len(Append(q, m)) = Len(q) + 1
      /\ \A i \in 1..Len(q) : Append(q, m)[i] = q[i]
      /\ Append(q, m)[Len(q) + 1] = m
  BY AppendProperties
<1>2. /\ Len(q) \in Nat /\ DOMAIN q = 1..Len(q)
      /\ DOMAIN Append(q, m) = 1..(Len(q) + 1)
  BY <1>1, LenProperties
<1>3. EndsWith(Append(q, m), w)
  <2> SUFFICES ASSUME NEW i \in 1..(Len(q) + 1), IsSymbol(Append(q, m)[i]),
                      \A j \in 1..(Len(q) + 1) : i < j => ~ IsSymbol(Append(q, m)[j])
               PROVE  Append(q, m)[i].to = w
    BY <1>2 DEF EndsWith
  <2>1. CASE i = Len(q) + 1
    BY <2>1, <1>1
  <2>2. CASE i # Len(q) + 1
    <3>1. i \in DOMAIN q /\ i < Len(q) + 1 /\ Len(q) + 1 \in 1..(Len(q) + 1)
      BY <2>2, <1>2
    <3>2. ~ IsSymbol(m) /\ w = v
      BY <3>1, <1>1
    <3>3. \A j \in DOMAIN q : i < j => ~ IsSymbol(q[j])
      BY <1>1, <1>2
    <3> QED BY <3>1, <3>2, <3>3, <1>1, <1>2 DEF EndsWith
  <2> QED BY <2>1, <2>2
<1>4. NoSymbolIn(Append(q, m)) => NoSymbolIn(q) /\ ~ IsSymbol(m)
  <2>1. Len(q) + 1 \in DOMAIN Append(q, m) /\ \A i \in DOMAIN q : i \in DOMAIN Append(q, m)
    BY <1>2
  <2> QED BY <2>1, <1>1, <1>2 DEF NoSymbolIn
<1> QED BY <1>1, <1>3, <1>4

(* ... and a hello that says the same may go first.                        *)
LEMMA HelloEndsWith ==
  ASSUME NEW q \in Seq(Messages), NEW m \in Messages, NEW v, EndsWith(q, v),
         IsSymbol(m), m.to = v
  PROVE  /\ <<m>> \o q \in Seq(Messages)
         /\ EndsWith(<<m>> \o q, v)
         /\ ~ NoSymbolIn(<<m>> \o q)
<1> DEFINE p == <<m>> \o q
<1>1. <<m>> \in Seq(Messages) /\ Len(<<m>>) = 1 /\ <<m>>[1] = m
  OBVIOUS
<1>2. /\ p \in Seq(Messages) /\ Len(p) = 1 + Len(q)
      /\ \A i \in 1..(1 + Len(q)) : p[i] = IF i <= 1 THEN <<m>>[i] ELSE q[i - 1]
  BY <1>1, ConcatProperties
<1>3. /\ Len(q) \in Nat /\ DOMAIN q = 1..Len(q) /\ DOMAIN p = 1..(1 + Len(q))
      /\ p[1] = m /\ \A j \in 1..Len(q) : p[j + 1] = q[j]
  <2>1. Len(q) \in Nat /\ DOMAIN q = 1..Len(q) /\ DOMAIN p = 1..(1 + Len(q))
    BY <1>2, LenProperties
  <2>2. ASSUME NEW j \in 1..Len(q) PROVE p[j + 1] = q[j]
    <3>1. j + 1 \in 1..(1 + Len(q)) /\ ~ (j + 1 <= 1) /\ (j + 1) - 1 = j
      BY <2>1
    <3> HIDE DEF p
    <3> QED BY <3>1, <1>2
  <2>3. p[1] = m
    BY <2>1, <1>1, <1>2
  <2> QED BY <2>1, <2>2, <2>3
<1> HIDE DEF p
<1>4. EndsWith(p, v)
  <2> SUFFICES ASSUME NEW i \in DOMAIN p, IsSymbol(p[i]),
                      \A j \in DOMAIN p : i < j => ~ IsSymbol(p[j])
               PROVE  p[i].to = v
    BY DEF EndsWith
  <2>1. CASE i = 1
    BY <2>1, <1>3
  <2>2. CASE i # 1
    <3>1. i - 1 \in DOMAIN q /\ p[i] = q[i - 1]
      BY <2>2, <1>3
    <3>2. ASSUME NEW j \in DOMAIN q, i - 1 < j PROVE ~ IsSymbol(q[j])
      <4>1. j + 1 \in DOMAIN p /\ i < j + 1 /\ p[j + 1] = q[j]
        BY <3>2, <1>3
      <4> QED BY <4>1
    <3> QED BY <3>1, <3>2 DEF EndsWith
  <2> QED BY <2>1, <2>2
<1>5. ~ NoSymbolIn(p)
  BY <1>3 DEF NoSymbolIn
<1> QED BY <1>2, <1>4, <1>5 DEF p
-----------------------------------------------------------------------------
LEMMA InitIInv == Init => IInv
<1> SUFFICES ASSUME Init PROVE IInv
  OBVIOUS
<1>1. attached \in [Sockets -> BOOLEAN] /\ link \in [Sockets -> BOOLEAN]
  BY Zenon DEF Init
<1>2. 1 \in Sockets
  BY DEF Sockets
<1>3. attached[1] = TRUE
  BY <1>2, Zenon DEF Init
<1>4. TypeOK
  <2>1. << >> \in Seq(Messages) /\ Len(<< >>) = 0
    OBVIOUS
  <2>2. /\ sendQueue \in Seq(Messages) /\ Len(sendQueue) <= MaxQueue
        /\ flight \in [Sockets -> Seq(Messages)]
        /\ known \in [Sockets -> [Settings -> Values \cup {Unknown}]]
    BY <2>1, MaxQueueAssumption DEF Init
  <2>3. socket \in [Sockets -> {"gone", "connecting", "open", "closing"}]
    BY DEF Init
  <2>4. /\ ws \in {0} \cup Sockets
        /\ pending \subseteq Timers /\ reconnectTimer \in {0} \cup Timers
    BY <1>2 DEF Init
  <2>5. /\ destroyed \in BOOLEAN /\ status \in BOOLEAN
        /\ shown \in [Settings -> Values] /\ network \in {"up", "down", "bad"}
        /\ meant \in Values
    BY DEF Init, Settings
  <2>6. flaps \in 0..MaxFlaps
    <3>1. flaps = 0
      BY DEF Init
    <3> QED BY <3>1, MaxFlapsAssumption
  <2> QED BY <1>1, <2>2, <2>3, <2>4, <2>5, <2>6 DEF TypeOK
<1>5. OneThing
  BY <1>2, <1>3 DEF Init, OneThing
<1>6. StatusIsTrue
  BY DEF Init, StatusIsTrue, Sockets
<1>7. SymbolOnTheWay
  <2>1. sendQueue = << >> /\ ~ IsOpen
    BY DEF Init, IsOpen, Sockets
  <2> QED BY <2>1 DEF SymbolOnTheWay, EndsWith
<1> QED BY <1>4, <1>5, <1>6, <1>7 DEF IInv

(* A timer's step: a client that is wanted had nothing else.               *)
LEMMA TimerFiresIInv ==
  ASSUME IInv, NEW t \in Timers, TimerFires(t)
  PROVE  IInv'
<1>1. t \in pending /\ UNCHANGED <<destroyed, sendQueue, shown, meant, network, flaps>>
  BY DEF TimerFires
<1>2. CASE destroyed
  <2>1. /\ pending' = pending \ {t}
        /\ UNCHANGED <<ws, socket, attached, reconnectTimer, status, flight, known, link>>
    BY <1>2 DEF TimerFires, server
  <2> QED BY <1>1, <1>2, <2>1
          DEF IInv, TypeOK, OneThing, StatusIsTrue, SymbolOnTheWay, IsOpen
<1>3. CASE ~ destroyed
  <2>1. /\ ws \in Sockets /\ \A s \in Sockets : socket[s] = "gone"
        /\ pending = {t} /\ ~ status
    BY <1>1, <1>3 DEF IInv, OneThing, StatusIsTrue, TypeOK, Sockets
  <2>2. Connect({})
    BY <1>3, <2>1 DEF TimerFires
  <2>3. CASE network = "bad" /\ status' = FALSE /\ Schedule({} \ {reconnectTimer})
             /\ UNCHANGED <<ws, socket, attached, flight, known, link>>
    <3>1. reconnectTimer' \in Timers /\ pending' = {reconnectTimer'}
      BY <2>3 DEF Schedule, Timers
    <3>2. TypeOK'
      BY <1>1, <2>3, <3>1 DEF IInv, TypeOK
    <3>3. OneThing' /\ StatusIsTrue'
      BY <1>1, <1>3, <2>1, <2>3, <3>1 DEF OneThing, StatusIsTrue, Timers
    <3>4. SymbolOnTheWay'
      BY <1>1, <2>3 DEF IInv, SymbolOnTheWay, IsOpen
    <3> QED BY <3>2, <3>3, <3>4 DEF IInv
  <2>4. ASSUME NEW s \in Sockets,
               ws' = s, socket' = [socket EXCEPT ![s] = "connecting"],
               attached' = [attached EXCEPT ![s] = TRUE],
               link' = [link EXCEPT ![s] = FALSE],
               flight' = [flight EXCEPT ![s] = << >>],
               known' = [known EXCEPT ![s] = [x \in Settings |-> Unknown]],
               pending' = {}, reconnectTimer' = 0, status' = status
        PROVE  IInv'
    <3>1. TypeOK'
      <4>1. << >> \in Seq(Messages)
        OBVIOUS
      <4> QED BY <1>1, <2>4, <4>1 DEF IInv, TypeOK
    <3>2. OneThing' /\ StatusIsTrue'
      BY <1>1, <1>3, <2>1, <2>4 DEF IInv, TypeOK, OneThing, StatusIsTrue, Sockets
    <3>3. SymbolOnTheWay'
      BY <1>1, <2>4 DEF IInv, TypeOK, SymbolOnTheWay, IsOpen
    <3> QED BY <3>1, <3>2, <3>3 DEF IInv
  <2>5. \/ network = "bad" /\ status' = FALSE /\ Schedule({} \ {reconnectTimer})
           /\ UNCHANGED <<ws, socket, attached, flight, known, link>>
        \/ \E s \in Sockets :
             /\ ws' = s /\ socket' = [socket EXCEPT ![s] = "connecting"]
             /\ attached' = [attached EXCEPT ![s] = TRUE]
             /\ link' = [link EXCEPT ![s] = FALSE]
             /\ flight' = [flight EXCEPT ![s] = << >>]
             /\ known' = [known EXCEPT ![s] = [x \in Settings |-> Unknown]]
             /\ pending' = {} /\ reconnectTimer' = 0 /\ status' = status
    <3> DEFINE c == CHOOSE s \in Sockets : socket[s] = "gone"
    <3>1. c \in Sockets
      BY <2>1
    <3>2. {} \ {reconnectTimer} = {}
      OBVIOUS
    <3> QED BY <2>2, <3>1, <3>2 DEF Connect
  <2> QED BY <2>3, <2>4, <2>5
<1> QED BY <1>2, <1>3

LEMMA OpenedIInv ==
  ASSUME IInv, NEW s \in Sockets, Opened(s)
  PROVE  IInv'
<1>1. /\ socket[s] = "connecting" /\ attached[s]
      /\ socket' = [socket EXCEPT ![s] = "open"]
      /\ link' = [link EXCEPT ![s] = TRUE]
      /\ status' = TRUE
      /\ flight' = [flight EXCEPT ![s] =
                      <<[set |-> "symbol", to |-> shown["symbol"]]>> \o sendQueue]
      /\ sendQueue' = << >> /\ meant' = shown["symbol"]
      /\ UNCHANGED <<ws, attached, pending, reconnectTimer, destroyed, known, shown,
                     network, flaps>>
  BY DEF Opened
<1>2. [set |-> "symbol", to |-> shown["symbol"]] \in Messages
  BY DEF IInv, TypeOK, Messages, Settings
<1>3. <<[set |-> "symbol", to |-> shown["symbol"]]>> \o sendQueue \in Seq(Messages)
  BY <1>2, ConcatProperties DEF IInv, TypeOK
<1>4. TypeOK'
  <2>1. << >> \in Seq(Messages) /\ Len(<< >>) = 0
    OBVIOUS
  <2>2. shown["symbol"] \in Values
    BY DEF IInv, TypeOK, Settings
  <2> QED BY <1>1, <1>3, <2>1, <2>2, MaxQueueAssumption DEF IInv, TypeOK
<1>5. OneThing' /\ StatusIsTrue'
  BY <1>1 DEF IInv, TypeOK, OneThing, StatusIsTrue, Sockets
<1>6. SymbolOnTheWay'
  <2>1. EndsWith(sendQueue', shown'["symbol"])
    BY <1>1 DEF EndsWith
  <2>2. CASE destroyed
    <3>1. ~ IsOpen' /\ destroyed'
      BY <1>1, <2>2 DEF IInv, OneThing, IsOpen
    <3> QED BY <3>1 DEF SymbolOnTheWay
  <2>3. CASE ~ destroyed
    <3>1. s = ws
      BY <1>1, <2>3 DEF IInv, OneThing
    <3>2. /\ EndsWith(flight'[s], shown["symbol"])
          /\ ~ NoSymbolIn(flight'[s])
      <4>1. EndsWith(sendQueue, shown["symbol"]) /\ sendQueue \in Seq(Messages)
        BY <2>3 DEF IInv, SymbolOnTheWay, TypeOK
      <4>2. IsSymbol([set |-> "symbol", to |-> shown["symbol"]])
        BY DEF IsSymbol
      <4>3. flight'[s] = <<[set |-> "symbol", to |-> shown["symbol"]]>> \o sendQueue
        BY <1>1 DEF IInv, TypeOK
      <4> QED BY <1>2, <4>1, <4>2, <4>3, HelloEndsWith
    <3>3. EndsWith(flight'[s], meant') /\ ~ NoSymbolIn(flight'[s])
      BY <3>2, <1>1
    <3> QED BY <1>1, <2>1, <3>1, <3>3 DEF SymbolOnTheWay
  <2> QED BY <2>2, <2>3
<1> QED BY <1>4, <1>5, <1>6 DEF IInv

LEMMA ClosedIInv ==
  ASSUME IInv, NEW s \in Sockets, Closed(s)
  PROVE  IInv'
<1>1. /\ socket[s] # "gone"
      /\ socket' = [socket EXCEPT ![s] = "gone"]
      /\ UNCHANGED <<ws, attached, destroyed, sendQueue, flight, known, link, network, flaps,
                     shown, meant>>
  BY DEF Closed, Dead, server, environment
<1>2. CASE destroyed
  <2>1. /\ status' \in BOOLEAN /\ UNCHANGED <<pending, reconnectTimer>>
    BY <1>2 DEF Closed, IInv, TypeOK
  <2>2. TypeOK'
    BY <1>1, <2>1 DEF IInv, TypeOK
  <2> QED BY <1>1, <1>2, <2>1, <2>2 DEF IInv, OneThing, StatusIsTrue, SymbolOnTheWay, IsOpen
<1>3. CASE ~ destroyed
  <2>1. s = ws /\ attached[s] /\ pending = {}
    BY <1>1, <1>3 DEF IInv, OneThing
  <2>2. status' = FALSE /\ Schedule({})
    BY <1>3, <2>1 DEF Closed
  <2>3. reconnectTimer' \in Timers /\ pending' = {reconnectTimer'}
    BY <2>2 DEF Schedule, Timers
  <2>4. TypeOK'
    BY <1>1, <2>2, <2>3 DEF IInv, TypeOK
  <2>5. OneThing' /\ StatusIsTrue'
    BY <1>1, <1>3, <2>1, <2>2, <2>3 DEF IInv, TypeOK, OneThing, StatusIsTrue, Timers
  <2>6. SymbolOnTheWay'
    BY <1>1, <2>1 DEF IInv, TypeOK, SymbolOnTheWay, IsOpen
  <2> QED BY <2>4, <2>5, <2>6 DEF IInv
<1> QED BY <1>2, <1>3

(* What the user sets is sent, or queued, or replaces what is queued.      *)
LEMMA UserSetsIInv ==
  ASSUME IInv, NEW x \in Settings, NEW v \in Values, UserSets(x, v)
  PROVE  IInv'
<1> DEFINE m == [set |-> x, to |-> v]
<1>1. m \in Messages /\ (IsSymbol(m) <=> x = "symbol") /\ m.to = v
  BY DEF Messages, IsSymbol
<1> HIDE DEF m
<1>2. /\ ~ destroyed
      /\ shown' = [shown EXCEPT ![x] = v]
      /\ meant' = IF x = "symbol" THEN v ELSE meant
      /\ Send(m)
      /\ UNCHANGED <<ws, socket, attached, pending, reconnectTimer, destroyed, status,
                     known, link, network, flaps>>
  BY DEF UserSets, environment, m
<1>3. /\ ws \in Sockets /\ shown' \in [Settings -> Values] /\ "symbol" \in Settings
      /\ IF IsSymbol(m) THEN m.to = shown'["symbol"] ELSE shown'["symbol"] = shown["symbol"]
      /\ IF IsSymbol(m) THEN m.to = meant' ELSE meant' = meant
      /\ meant' \in Values
  BY <1>1, <1>2 DEF IInv, TypeOK, OneThing, Settings
<1>4. /\ sendQueue \in Seq(Messages) /\ flight[ws] \in Seq(Messages)
      /\ EndsWith(sendQueue, shown["symbol"])
  BY <1>2, <1>3 DEF IInv, TypeOK, SymbolOnTheWay
<1>5. CASE IsOpen
  <2>1. /\ flight' = [flight EXCEPT ![ws] = IF link[ws] THEN Append(@, m) ELSE @]
        /\ sendQueue' = sendQueue
    BY <1>2, <1>5 DEF Send
  <2>2. flight' \in [Sockets -> Seq(Messages)]
    BY <2>1, <1>1, <1>3, <1>4, AppendProperties DEF IInv, TypeOK
  <2>3. TypeOK'
    BY <1>2, <1>3, <2>1, <2>2 DEF IInv, TypeOK
  <2>4. EndsWith(sendQueue', shown'["symbol"])
    BY <2>1, <1>5 DEF IInv, SymbolOnTheWay, EndsWith
  <2>5. CASE link[ws]
    <3>1. flight'[ws] = Append(flight[ws], m) /\ EndsWith(flight[ws], meant)
      BY <2>1, <2>5, <1>3, <1>5 DEF IInv, TypeOK, SymbolOnTheWay
    <3>2. /\ EndsWith(flight'[ws], meant')
          /\ NoSymbolIn(flight'[ws]) => NoSymbolIn(flight[ws]) /\ ~ IsSymbol(m)
      BY <3>1, <1>1, <1>3, <1>4, AppendEndsWith
    <3>3. SymbolOnTheWay'
      BY <3>2, <2>1, <2>4, <2>5, <1>2, <1>3, <1>5 DEF IInv, SymbolOnTheWay
    <3> QED BY <1>2, <2>3, <3>3 DEF IInv, OneThing, StatusIsTrue
  <2>6. CASE ~ link[ws]
    <3>1. SymbolOnTheWay'
      BY <2>1, <2>4, <2>6, <1>2, <1>5 DEF IInv, SymbolOnTheWay
    <3> QED BY <1>2, <2>3, <3>1 DEF IInv, OneThing, StatusIsTrue
  <2> QED BY <2>5, <2>6
<1>6. CASE ~ IsOpen
  <2> DEFINE q == IF Len(sendQueue) >= MaxQueue THEN Tail(sendQueue) ELSE sendQueue
  <2>1. sendQueue' = Append(q, m) /\ flight' = flight
    BY <1>2, <1>6 DEF Send
  <2>2. q \in Seq(Messages) /\ Len(q) < MaxQueue /\ EndsWith(q, shown["symbol"])
    <3>1. Len(sendQueue) \in Nat /\ Len(sendQueue) <= MaxQueue
      BY <1>4, LenProperties DEF IInv, TypeOK
    <3>2. CASE Len(sendQueue) >= MaxQueue
      <4>1. sendQueue # << >>
        BY <3>1, <3>2, MaxQueueAssumption
      <4> QED BY <3>1, <3>2, <4>1, <1>4, TailEndsWith, MaxQueueAssumption
    <3>3. CASE ~ (Len(sendQueue) >= MaxQueue)
      BY <3>1, <3>3, <1>4, MaxQueueAssumption
    <3> QED BY <3>2, <3>3
  <2> HIDE DEF q
  <2>3. /\ sendQueue' \in Seq(Messages) /\ Len(sendQueue') = Len(q) + 1
        /\ EndsWith(sendQueue', shown'["symbol"])
    BY <2>1, <2>2, <1>1, <1>3, AppendEndsWith
  <2>4. Len(sendQueue') <= MaxQueue
    BY <2>2, <2>3, LenProperties, MaxQueueAssumption
  <2>5. TypeOK'
    BY <1>2, <1>3, <2>1, <2>3, <2>4 DEF IInv, TypeOK
  <2>6. SymbolOnTheWay'
    BY <2>3, <1>2, <1>6 DEF SymbolOnTheWay, IsOpen
  <2> QED BY <1>2, <2>5, <2>6 DEF IInv, OneThing, StatusIsTrue
<1> QED BY <1>5, <1>6

(* What the server puts on screen is not sent, and nothing is queued.      *)
LEMMA ServerSetsIInv ==
  ASSUME IInv, NEW x \in Settings, NEW v \in Values, ServerSets(x, v)
  PROVE  IInv'
<1>1. /\ IsOpen /\ shown' = [shown EXCEPT ![x] = v]
      /\ UNCHANGED <<ws, socket, attached, pending, reconnectTimer, destroyed, sendQueue,
                     status, flight, known, link, network, flaps, meant>>
  BY DEF ServerSets, browser, server, environment
<1>2. TypeOK'
  BY <1>1 DEF IInv, TypeOK
<1>3. SymbolOnTheWay'
  <2>1. sendQueue' = << >>
    BY <1>1 DEF IInv, SymbolOnTheWay
  <2>2. EndsWith(sendQueue', shown'["symbol"])
    BY <2>1 DEF EndsWith
  <2> QED BY <1>1, <2>1, <2>2 DEF IInv, SymbolOnTheWay, IsOpen
<1> QED BY <1>1, <1>2, <1>3 DEF IInv, OneThing, StatusIsTrue

LEMMA DisconnectIInv ==
  ASSUME IInv, Disconnect
  PROVE  IInv'
<1>1. /\ destroyed' = TRUE /\ ws' = 0 /\ sendQueue' = << >>
      /\ pending' = pending \ {reconnectTimer} /\ reconnectTimer' = 0
      /\ attached' = [s \in Sockets |-> attached[s] /\ s # ws]
      /\ socket' = [s \in Sockets |->
                      IF s = ws /\ socket[s] # "gone" THEN "closing" ELSE socket[s]]
      /\ status' \in BOOLEAN
      /\ UNCHANGED <<flight, known, link, network, flaps, shown, meant>>
  BY DEF Disconnect, server, environment
<1>2. attached' \in [Sockets -> BOOLEAN]
  BY <1>1, Zenon
<1>3. sendQueue' \in Seq(Messages) /\ Len(sendQueue') <= MaxQueue
  BY <1>1, MaxQueueAssumption
<1>4. TypeOK'
  BY <1>1, <1>2, <1>3 DEF IInv, TypeOK
<1> QED BY <1>1, <1>4 DEF IInv, OneThing, StatusIsTrue, SymbolOnTheWay, IsOpen

(* A message arrives: if it was the last about the symbol, the session now *)
(* knows the one that is meant.                                            *)
LEMMA ArrivesIInv ==
  ASSUME IInv, NEW s \in Sockets, Arrives(s)
  PROVE  IInv'
<1> DEFINE m == Head(flight[s])
<1>1. /\ flight[s] # << >> /\ flight[s] \in Seq(Messages) /\ m \in Messages
      /\ known' = [known EXCEPT ![s][m.set] = m.to]
      /\ flight' = [flight EXCEPT ![s] = Tail(flight[s])]
      /\ UNCHANGED <<ws, socket, attached, pending, reconnectTimer, destroyed, sendQueue,
                     status, link, network, flaps, shown, meant>>
  BY HeadTailProperties DEF Arrives, IInv, TypeOK, browser, environment
<1>2. m.set \in Settings /\ m.to \in Values
  BY <1>1 DEF Messages
<1> HIDE DEF m
<1>3. Tail(flight[s]) \in Seq(Messages)
  BY <1>1, HeadTailProperties
<1>4. TypeOK'
  BY <1>1, <1>2, <1>3 DEF IInv, TypeOK
<1>5. SymbolOnTheWay'
  <2>1. CASE IsOpen /\ link[ws] /\ ws = s
    <3>1. /\ EndsWith(Tail(flight[s]), meant)
          /\ NoSymbolIn(Tail(flight[s])) /\ IsSymbol(m) => m.to = meant
          /\ NoSymbolIn(Tail(flight[s])) /\ ~ IsSymbol(m) => NoSymbolIn(flight[s])
      BY <1>1, <2>1, TailEndsWith DEF IInv, SymbolOnTheWay, m
    <3>2. flight'[ws] = Tail(flight[s])
      BY <1>1, <2>1 DEF IInv, TypeOK
    <3>3. /\ IsSymbol(m) => known'[ws]["symbol"] = m.to
          /\ ~ IsSymbol(m) => known'[ws]["symbol"] = known[ws]["symbol"]
      BY <1>1, <1>2, <2>1 DEF IInv, TypeOK, IsSymbol, Settings
    <3> QED BY <1>1, <2>1, <3>1, <3>2, <3>3 DEF IInv, SymbolOnTheWay, IsOpen
  <2>2. CASE ~ (IsOpen /\ link[ws] /\ ws = s)
    BY <1>1, <2>2 DEF IInv, TypeOK, SymbolOnTheWay, IsOpen
  <2> QED BY <2>1, <2>2
<1> QED BY <1>1, <1>4, <1>5 DEF IInv, OneThing, StatusIsTrue

LEMMA BreaksIInv ==
  ASSUME IInv, NEW s \in Sockets, Breaks(s)
  PROVE  IInv'
<1>1. /\ socket' \in [Sockets -> {"gone", "connecting", "open", "closing"}]
      /\ \A r \in Sockets : socket'[r] # socket[r] =>
           socket[r] = "open" /\ socket'[r] = "closing"
  <2> DEFINE left == [socket EXCEPT ![s] = IF @ = "open" THEN "closing" ELSE @]
  <2>1. /\ left \in [Sockets -> {"gone", "connecting", "open", "closing"}]
        /\ \A r \in Sockets : left[r] # socket[r] =>
             socket[r] = "open" /\ left[r] = "closing"
    BY DEF IInv, TypeOK
  <2>2. socket' = socket \/ socket' = left
    BY DEF Breaks
  <2> HIDE DEF left
  <2> QED BY <2>1, <2>2 DEF IInv, TypeOK
<1>2. /\ flaps < MaxFlaps /\ flaps' = flaps + 1
      /\ link' = [link EXCEPT ![s] = FALSE]
      /\ flight' = [flight EXCEPT ![s] = << >>]
      /\ UNCHANGED <<ws, attached, pending, reconnectTimer, destroyed, sendQueue, status,
                     known, network, shown, meant>>
  BY DEF Breaks
<1>3. TypeOK'
  <2>1. << >> \in Seq(Messages)
    OBVIOUS
  <2>2. flaps' \in 0..MaxFlaps
    BY <1>2, MaxFlapsAssumption DEF IInv, TypeOK
  <2> QED BY <1>1, <1>2, <2>1, <2>2 DEF IInv, TypeOK
<1>4. OneThing' /\ StatusIsTrue'
  BY <1>1, <1>2 DEF IInv, TypeOK, OneThing, StatusIsTrue
<1>5. SymbolOnTheWay'
  BY <1>1, <1>2 DEF IInv, TypeOK, SymbolOnTheWay, IsOpen
<1> QED BY <1>3, <1>4, <1>5 DEF IInv

LEMMA NextIInv == IInv /\ [Next]_vars => IInv'
<1> SUFFICES ASSUME IInv, [Next]_vars PROVE IInv'
  OBVIOUS
<1>1. CASE BrowserEvent
  BY <1>1, TimerFiresIInv, OpenedIInv, ClosedIInv DEF BrowserEvent
<1>2. ASSUME NEW x \in Settings, NEW v \in Values, UserSets(x, v) \/ ServerSets(x, v)
      PROVE  IInv'
  BY <1>2, UserSetsIInv, ServerSetsIInv
<1>3. CASE Disconnect
  BY <1>3, DisconnectIInv
<1>4. ASSUME NEW s \in Sockets, Arrives(s) \/ Breaks(s) PROVE IInv'
  BY <1>4, ArrivesIInv, BreaksIInv
<1>5. CASE NetworkChanges
  <2>1. /\ flaps' \in 0..MaxFlaps /\ network' \in {"up", "down", "bad"}
        /\ UNCHANGED <<ws, socket, attached, pending, reconnectTimer, destroyed, sendQueue,
                       status, flight, known, link, shown, meant>>
    BY <1>5, MaxFlapsAssumption DEF NetworkChanges, IInv, TypeOK, browser, server
  <2> QED BY <2>1 DEF IInv, TypeOK, OneThing, StatusIsTrue, SymbolOnTheWay, IsOpen
<1>6. CASE UNCHANGED vars
  BY <1>6 DEF vars, browser, server, environment, IInv, TypeOK, OneThing, StatusIsTrue,
              SymbolOnTheWay, IsOpen
<1> QED BY <1>1, <1>2, <1>3, <1>4, <1>5, <1>6 DEF Next

(* Timers, sockets, the user and the network keep the invariant (WSClient, *)
(* wsClient.ts).                                                           *)
THEOREM SpecIInv == Spec => []IInv
<1> QED BY InitIInv, NextIInv, PTL DEF Spec

(* The client's fields have their types; the queue stays within MAX_QUEUE. *)
THEOREM SpecTypeOK == Spec => []TypeOK
<1>1. IInv => TypeOK
  BY DEF IInv
<1> QED BY <1>1, SpecIInv, PTL

(* connect(), scheduleReconnect() and onclose never leave a wanted client  *)
(* without a way on, nor with two.                                         *)
THEOREM SpecOneWayOn == Spec => []OneWayOn
<1>1. ASSUME IInv, ~ destroyed
      PROVE  Cardinality({s \in Sockets : socket[s] # "gone"}) + Cardinality(pending) = 1
  <2>1. CASE socket[ws] = "gone"
    <3>1. {s \in Sockets : socket[s] # "gone"} = {} /\ pending = {reconnectTimer}
      BY <1>1, <2>1 DEF IInv, OneThing
    <3>2. Cardinality({}) = 0 /\ Cardinality({reconnectTimer}) = 1
      BY FS_EmptySet, FS_Singleton
    <3> QED BY <3>1, <3>2
  <2>2. CASE socket[ws] # "gone"
    <3>1. {s \in Sockets : socket[s] # "gone"} = {ws} /\ pending = {}
      BY <1>1, <2>2 DEF IInv, OneThing
    <3> QED BY <3>1, FS_EmptySet, FS_Singleton
  <2> QED BY <2>1, <2>2
<1>2. IInv => OneWayOn
  BY <1>1 DEF OneWayOn
<1> QED BY <1>2, SpecIInv, PTL

(* onStatus tells the truth, as every close of the socket in use is told.  *)
THEOREM SpecStatusIsTrue == Spec => []StatusIsTrue
<1>1. IInv => StatusIsTrue
  BY DEF IInv
<1> QED BY <1>1, SpecIInv, PTL

(* The hello of onopen and the queue behind it end in the symbol that the  *)
(* user chose last or saw at the opening, for any length of the queue and  *)
(* whatever the server puts on screen meanwhile (onopen, send, App.tsx).   *)
THEOREM SpecSymbolArrives == Spec => []SymbolArrives
<1>1. ASSUME IInv, IsOpen, link[ws], flight[ws] = << >>
      PROVE  known[ws]["symbol"] = meant
  <2>1. NoSymbolIn(flight[ws])
    BY <1>1 DEF NoSymbolIn
  <2> QED BY <1>1, <2>1 DEF IInv, SymbolOnTheWay
<1>2. IInv => SymbolArrives
  BY <1>1 DEF SymbolArrives
<1> QED BY <1>2, SpecIInv, PTL

-----------------------------------------------------------------------------
(* The types of LiveChart's state: candles are bars at their times.        *)
ChartBars == [of : Symbols, time : Nat \ {0}, rev : Nat]

Candles == UNION {[D -> ChartBars] : D \in SUBSET Nat}

Requests == [set : {"symbol"}, to : Symbols] \cup [set : {"frame"}, to : Timeframes]

Snapshots == [type : {"snapshot"}, symbol : Symbols \cup {NoSymbol}, frame : Timeframes,
              bars : Candles, fresh : BOOLEAN]

Sent == [type : {"bar"}, bar : ChartBars] \cup Snapshots

Reading == [at : {"read"}, symbol : Symbols \cup {NoSymbol}, frame : Timeframes]

Sending == [at : {"send"}, symbol : Symbols \cup {NoSymbol}, frame : Timeframes,
            bars : Candles, fresh : BOOLEAN]

AtWork == {Idle} \cup [at : {"start"}] \cup Reading \cup Sending

LiveTypeOK ==
  /\ store \in [Symbols -> Candles]
  /\ late \in [Symbols -> SUBSET Nat]
  /\ feed = None \/ \E b \in ChartBars : feed = <<b>>
  /\ pushes \in Nat /\ asked \in Nat
  /\ session \in [ChartSettings -> Symbols \cup {NoSymbol} \cup Timeframes]
  /\ session["symbol"] \in Symbols \cup {NoSymbol} /\ session["frame"] \in Timeframes
  /\ selected \in [ChartSettings -> Symbols \cup Timeframes]
  /\ selected["symbol"] \in Symbols /\ selected["frame"] \in Timeframes
  /\ view \in [ChartSettings -> Symbols \cup Timeframes]
  /\ inbox \in Seq(Requests)
  /\ hooks \in [Calls -> AtWork]
  /\ wire \in Seq(Sent)
  /\ chart \in Candles
  /\ dropped \in SUBSET Nat
  /\ whole \in BOOLEAN /\ crossed \in SUBSET ChartSettings

(* A store has its bars at their places ...                                *)
InPlace(st) == \A t \in DOMAIN st : st[t].time = t

AllOf(bs, s) == \A i \in DOMAIN bs : bs[i].of = s

(* ... a newest one unless it is empty, with newer ones than those that    *)
(* came late, and the one still to be broadcast among them.                *)
InOrder(st, lt) ==
  /\ IsFiniteSet(DOMAIN st)
  /\ DOMAIN st # {} => \E t \in DOMAIN st : Newest(st, t)
  /\ \A t \in lt : \E u \in DOMAIN st : u > t

StoreInv ==
  /\ \A s \in Symbols : InPlace(store[s]) /\ AllOf(store[s], s) /\ InOrder(store[s], late[s])
  /\ feed # None =>
       /\ feed[1].time \in DOMAIN store[feed[1].of]
       /\ store[feed[1].of][feed[1].time] = feed[1]

(* What the user asked for last is the last that is asked for in the       *)
(* inbox, or what the session has.                                         *)
LastAsked(q, c, to, has) ==
  \/ \E i \in DOMAIN q : /\ q[i].set = c /\ q[i].to = to
                         /\ \A j \in DOMAIN q : j > i => q[j].set # c
  \/ (\A i \in DOMAIN q : q[i].set # c) /\ has = to

(* A dispatch is of what the session has, which no other message changes   *)
(* before it has returned.                                                 *)
SessionInv ==
  /\ \A c \in ChartSettings : LastAsked(inbox, c, selected[c], session[c])
  /\ hooks["dispatch"].at \in {"read", "send"} =>
       \A c \in ChartSettings : hooks["dispatch"][c] = session[c]

NotAsked(q, c) == \A i \in DOMAIN q : q[i].set # c

IsOf(m, s) == IF m.type = "bar" THEN m.bar.of = s ELSE AllOf(m.bars, s)

SendsOf(h, s) == h.at = "send" => AllOf(h.bars, s)

(* While on_connect is at work, the session has no symbol, or will have no *)
(* other than the one it has; nor any other timeframe.                     *)
ConnectInv ==
  hooks["connect"] # Idle =>
    /\ \A c \in ChartSettings \ crossed :
         /\ session[c] \in {NoSymbol, selected[c]}
         /\ \A i \in DOMAIN inbox : inbox[i].set = c => inbox[i].to = selected[c]
         /\ hooks["connect"].at \in {"read", "send"} =>
              hooks["connect"][c] \in {NoSymbol, selected[c]}
    /\ "symbol" \notin crossed => SendsOf(hooks["connect"], selected["symbol"])

(* Once the server knows the symbol, a snapshot of it is to be sent, or is *)
(* on its way with nothing of another symbol behind it, or has arrived.    *)
OnTheWay(w, cs, s) ==
  \/ \E p \in DOMAIN w : /\ w[p].type = "snapshot"
                         /\ \A i \in DOMAIN w : i >= p => IsOf(w[i], s)
  \/ AllOf(cs, s) /\ \A i \in DOMAIN w : IsOf(w[i], s)

OfSymbolInv ==
  /\ SendsOf(hooks["dispatch"], session["symbol"])
  /\ "symbol" \notin crossed /\ NotAsked(inbox, "symbol") =>
       hooks["dispatch"] # Idle \/ OnTheWay(wire, chart, selected["symbol"])

(* The same of what the terminal shows, which a snapshot of no symbol      *)
(* leaves as it is.                                                        *)
SaysOr(m, c, to) == m.type = "snapshot" => m[c] \in {NoSymbol, to}

ComesToSay(w, c, has, to) ==
  \/ \E p \in DOMAIN w : /\ w[p].type = "snapshot" /\ w[p][c] = to
                         /\ \A i \in DOMAIN w : i >= p => SaysOr(w[i], c, to)
  \/ has = to /\ \A i \in DOMAIN w : SaysOr(w[i], c, to)

ViewInv ==
  \A c \in ChartSettings \ crossed :
    NotAsked(inbox, c) =>
      hooks["dispatch"] # Idle \/ ComesToSay(wire, c, view[c], selected[c])

(* Candles cs follow a store st through the bars v that are to come: at    *)
(* each time, the candle is the store's and no bar comes for it, or the    *)
(* last bar that does is; and a time that has no candle is before all that *)
(* have one, was in lt, late, when the chart left its bar out, in d, or    *)
(* still has its bar to come, then late or behind all that come before.    *)
Revises(v, st) ==
  \A t \in DOMAIN st :
    \/ \A i \in DOMAIN v : v[i].time # t
    \/ \E i \in DOMAIN v : v[i] = st[t] /\ (\A j \in DOMAIN v : j > i => v[j].time # t)

Before(t, cs) == DOMAIN cs # {} /\ \A u \in DOMAIN cs : t < u

ComesInTime(t, cs, v, lt) ==
  \E i \in DOMAIN v : /\ v[i].time = t
                      /\ \/ t \in lt
                         \/ /\ \A u \in DOMAIN cs : u < t
                            /\ \A j \in DOMAIN v : j < i => v[j].time <= t

Follows(cs, d, v, st, lt) ==
  /\ Revises(v, st)
  /\ \A i \in DOMAIN v : v[i].time \in DOMAIN st
  /\ \A t \in DOMAIN cs : t \in DOMAIN st /\ ((\A i \in DOMAIN v : v[i].time # t) => cs[t] = st[t])
  /\ \A t \in DOMAIN st \ DOMAIN cs :
       Before(t, cs) \/ t \in lt \cap d \/ ComesInTime(t, cs, v, lt)

(* The bar of a symbol that is still to be broadcast.                      *)
ToCome(f, s) == IF f # None /\ f[1].of = s THEN f ELSE << >>

FreshInv ==
  \A x \in Calls :
    hooks[x].at = "send" /\ hooks[x].symbol \in Symbols /\ hooks[x].frame = Source
    /\ hooks[x].fresh =>
      Follows(hooks[x].bars, {}, ToCome(feed, hooks[x].symbol), store[hooks[x].symbol],
              late[hooks[x].symbol])

(* The bars to come behind the first p messages.                           *)
Coming(p, w, f) ==
  [i \in 1..(Len(w) - p + Len(f)) |-> IF p + i <= Len(w) THEN w[p + i].bar ELSE f[1]]

OnlyBars(p, w) == \A i \in DOMAIN w : i > p => w[i].type = "bar"

Quiet == inbox = << >> /\ \A x \in Calls : hooks[x] = Idle

(* The snapshot asked for is on its way with only bars behind it, or has   *)
(* arrived, and follows the store with the bars to come.                   *)
ChartFollows(s, w, cs, d, wh, f, st, lt) ==
  /\ \A p \in DOMAIN w :
       w[p].type = "snapshot" /\ OnlyBars(p, w) /\ w[p].fresh
       /\ w[p].symbol = s /\ w[p].frame = Source => Follows(w[p].bars, {}, Coming(p, w, f), st, lt)
  /\ OnlyBars(0, w) /\ wh => Follows(cs, d, Coming(0, w, f), st, lt)

FollowInv ==
  Quiet /\ selected["frame"] = Source =>
    ChartFollows(selected["symbol"], wire, chart, dropped, whole,
                 ToCome(feed, selected["symbol"]), store[selected["symbol"]],
                 late[selected["symbol"]])

LiveInv ==
  /\ LiveTypeOK /\ StoreInv /\ SessionInv /\ ConnectInv
  /\ OfSymbolInv /\ ViewInv /\ FreshInv /\ FollowInv

-----------------------------------------------------------------------------
(* Candles, with a bar put in, and the newest of them.                     *)
LEMMA CandlesHave ==
  ASSUME NEW cs \in Candles
  PROVE  /\ DOMAIN cs \in SUBSET Nat /\ cs \in [DOMAIN cs -> ChartBars]
         /\ \A t \in DOMAIN cs : t \in Nat /\ cs[t] \in ChartBars
<1>1. PICK D \in SUBSET Nat : cs \in [D -> ChartBars]
  BY DEF Candles
<1> QED
  BY <1>1

LEMMA AreCandles ==
  ASSUME NEW D \in SUBSET Nat, NEW cs \in [D -> ChartBars]
  PROVE  cs \in Candles
BY DEF Candles

LEMMA NoCandles == NoBars \in Candles /\ DOMAIN NoBars = {}
<1>1. NoBars \in [{} -> ChartBars] /\ {} \in SUBSET Nat
  BY DEF NoBars
<1> QED
  BY <1>1, AreCandles

LEMMA WithBar ==
  ASSUME NEW cs \in Candles, NEW b \in ChartBars
  PROVE  /\ With(b, cs) \in Candles
         /\ DOMAIN With(b, cs) = DOMAIN cs \cup {b.time}
         /\ With(b, cs)[b.time] = b
         /\ \A t \in DOMAIN cs : t # b.time => With(b, cs)[t] = cs[t]
<1>1. b.time \in Nat /\ DOMAIN cs \in SUBSET Nat /\ \A t \in DOMAIN cs : cs[t] \in ChartBars
  BY CandlesHave DEF ChartBars
<1>2. PICK D : D = DOMAIN cs \cup {b.time}
  OBVIOUS
<1>3. D \in SUBSET Nat
  BY <1>1, <1>2
<1>4. With(b, cs) = [t \in D |-> IF t = b.time THEN b ELSE cs[t]]
  BY <1>2 DEF With
<1>5. With(b, cs) \in [D -> ChartBars]
  BY <1>1, <1>2, <1>4
<1>6. With(b, cs) \in Candles
  BY <1>3, <1>5, AreCandles
<1> QED
  BY <1>2, <1>4, <1>6

LEMMA AppliedBars ==
  ASSUME NEW cs \in Candles, NEW b \in ChartBars
  PROVE  /\ ApplyBar(b, cs) \in Candles
         /\ \A s : AllOf(cs, s) /\ b.of = s => AllOf(ApplyBar(b, cs), s)
<1>1. CASE ApplyBar(b, cs) = cs
  BY <1>1
<1>2. CASE ApplyBar(b, cs) = With(b, cs)
  <2>1. PICK z : z = With(b, cs)
    OBVIOUS
  <2>2. /\ z \in Candles /\ DOMAIN z = DOMAIN cs \cup {b.time} /\ z[b.time] = b
        /\ \A t \in DOMAIN cs : t # b.time => z[t] = cs[t]
    BY <2>1, WithBar
  <2>3. \A s : AllOf(cs, s) /\ b.of = s => AllOf(z, s)
    BY <2>2 DEF AllOf
  <2> QED
    BY <2>1, <2>2, <2>3, <1>2
<1> QED
  BY <1>1, <1>2 DEF ApplyBar

LEMMA RecentBars ==
  ASSUME NEW st \in Candles
  PROVE  /\ Recent(st) \in Candles
         /\ \A t : t \in DOMAIN Recent(st) <=>
                     t \in DOMAIN st /\ Cardinality({u \in DOMAIN st : u > t}) < SnapshotSize
         /\ \A t \in DOMAIN Recent(st) : Recent(st)[t] = st[t]
<1>1. PICK D : D = {t \in DOMAIN st : Cardinality({u \in DOMAIN st : u > t}) < SnapshotSize}
  OBVIOUS
<1>2. Recent(st) = [t \in D |-> st[t]]
  BY <1>1 DEF Recent, Restrict
<1>3. D \in SUBSET Nat /\ \A t \in D : st[t] \in ChartBars
  BY <1>1, CandlesHave
<1>4. Recent(st) \in [D -> ChartBars]
  BY <1>2, <1>3
<1>5. Recent(st) \in Candles
  BY <1>3, <1>4, AreCandles
<1>6. DOMAIN Recent(st) = D /\ \A t \in D : Recent(st)[t] = st[t]
  BY <1>2
<1> QED
  BY <1>1, <1>5, <1>6

LEMMA FrontBar ==
  ASSUME NEW v \in Seq(ChartBars), v # << >>
  PROVE  /\ v[1] \in ChartBars /\ Tail(v) \in Seq(ChartBars)
         /\ Len(v) \in Nat \ {0} /\ DOMAIN v = 1..Len(v) /\ DOMAIN Tail(v) = 1..(Len(v) - 1)
         /\ \A i \in DOMAIN Tail(v) : i + 1 \in DOMAIN v /\ Tail(v)[i] = v[i + 1]
         /\ \A i \in DOMAIN v : i # 1 => i - 1 \in DOMAIN Tail(v) /\ Tail(v)[i - 1] = v[i]
<1>1. Len(v) \in Nat /\ DOMAIN v = 1..Len(v) /\ Len(v) # 0
  BY EmptySeq, LenProperties
<1>2. v[1] \in ChartBars
  BY <1>1, ElementOfSeq
<1>3. /\ Tail(v) \in Seq(ChartBars) /\ Len(Tail(v)) = Len(v) - 1
      /\ \A i \in 1..Len(Tail(v)) : Tail(v)[i] = v[i + 1]
  BY HeadTailProperties
<1>4. DOMAIN Tail(v) = 1..(Len(v) - 1)
  BY <1>3, LenProperties
<1>5. \A i \in DOMAIN Tail(v) : i + 1 \in DOMAIN v /\ Tail(v)[i] = v[i + 1]
  BY <1>1, <1>3, <1>4
<1>6. ASSUME NEW i \in DOMAIN v, i # 1
      PROVE  i - 1 \in DOMAIN Tail(v) /\ Tail(v)[i - 1] = v[i]
  <2>1. i - 1 \in DOMAIN Tail(v) /\ (i - 1) + 1 = i
    BY <1>1, <1>4, <1>6
  <2> QED
    BY <2>1, <1>5
<1> QED
  BY <1>1, <1>2, <1>3, <1>4, <1>5, <1>6

(* Candles that follow still do when the front bar is applied to them: it  *)
(* is the newest, in place of one, or late.                                *)
LEMMA FollowsApply ==
  ASSUME NEW cs \in Candles, NEW v \in Seq(ChartBars), v # << >>, NEW d, NEW lt,
         NEW st \in Candles, InPlace(st), Follows(cs, d, v, st, lt),
         NEW c2, c2 = ApplyBar(v[1], cs), NEW d2, d2 = d \cup ({v[1].time} \ DOMAIN c2)
  PROVE  Follows(c2, d2, Tail(v), st, lt)
<1>1. PICK b : b = v[1]
  OBVIOUS
<1>2. PICK w : w = Tail(v)
  OBVIOUS
<1>3. /\ b \in ChartBars /\ w \in Seq(ChartBars)
      /\ Len(v) \in Nat \ {0} /\ DOMAIN v = 1..Len(v) /\ DOMAIN w = 1..(Len(v) - 1)
      /\ \A i \in DOMAIN w : i + 1 \in DOMAIN v /\ w[i] = v[i + 1]
      /\ \A i \in DOMAIN v : i # 1 => i - 1 \in DOMAIN w /\ w[i - 1] = v[i]
  BY <1>1, <1>2, FrontBar
<1>4. /\ 1 \in DOMAIN v /\ b.time \in Nat /\ b.time \in DOMAIN st
      /\ \A t \in DOMAIN cs : t \in Nat
      /\ \A t \in DOMAIN st : t \in Nat /\ st[t].time = t
  <2>1. 1 \in DOMAIN v /\ b.time \in Nat
    BY <1>3 DEF ChartBars
  <2>2. b.time \in DOMAIN st
    BY <2>1, <1>1 DEF Follows
  <2>3. \A t \in DOMAIN cs : t \in Nat
    BY CandlesHave
  <2>4. \A t \in DOMAIN st : t \in Nat
    BY CandlesHave
  <2> QED
    BY <2>1, <2>2, <2>3, <2>4 DEF InPlace
<1>5. \/ c2 = cs /\ ~ Newest(cs, b.time) /\ b.time \notin DOMAIN cs
      \/ c2 = With(b, cs) /\ (Newest(cs, b.time) \/ b.time \in DOMAIN cs)
  BY <1>1 DEF ApplyBar
<1>6. /\ DOMAIN With(b, cs) = DOMAIN cs \cup {b.time}
      /\ With(b, cs)[b.time] = b
      /\ \A t \in DOMAIN cs : t # b.time => With(b, cs)[t] = cs[t]
  BY <1>3, WithBar
<1>7. /\ DOMAIN cs \subseteq DOMAIN c2 /\ DOMAIN c2 \subseteq DOMAIN cs \cup {b.time}
      /\ b.time \in DOMAIN c2 => c2[b.time] = b
      /\ \A t \in DOMAIN cs : t # b.time => c2[t] = cs[t]
  BY <1>5, <1>6
<1>8. ASSUME NEW i \in DOMAIN w PROVE i + 1 \in DOMAIN v /\ i + 1 # 1 /\ w[i] = v[i + 1] /\ i \in Nat
  BY <1>3
<1>9. Revises(w, st)
  <2> SUFFICES ASSUME NEW t \in DOMAIN st, NEW n \in DOMAIN w, w[n].time = t
               PROVE  \E i \in DOMAIN w : w[i] = st[t] /\ (\A j \in DOMAIN w : j > i => w[j].time # t)
    BY DEF Revises
  <2>1. n + 1 \in DOMAIN v /\ v[n + 1].time = t
    BY <1>8
  <2>2. PICK i \in DOMAIN v : v[i] = st[t] /\ (\A j \in DOMAIN v : j > i => v[j].time # t)
    BY <2>1 DEF Follows, Revises
  <2>3. i # 1
    BY <2>1, <2>2, <1>3
  <2>4. i - 1 \in DOMAIN w /\ w[i - 1] = st[t]
    BY <2>2, <2>3, <1>3
  <2>5. \A j \in DOMAIN w : j > i - 1 => w[j].time # t
    <3> SUFFICES ASSUME NEW j \in DOMAIN w, j > i - 1 PROVE w[j].time # t
      OBVIOUS
    <3>1. j + 1 \in DOMAIN v /\ j + 1 > i /\ w[j] = v[j + 1]
      BY <1>3
    <3> QED
      BY <3>1, <2>2
  <2> QED
    BY <2>4, <2>5
<1>10. \A i \in DOMAIN w : w[i].time \in DOMAIN st
  BY <1>8 DEF Follows
<1>11. ASSUME NEW t \in DOMAIN c2
       PROVE  t \in DOMAIN st /\ ((\A i \in DOMAIN w : w[i].time # t) => c2[t] = st[t])
  <2>1. t \in DOMAIN st
    BY <1>4, <1>7 DEF Follows
  <2>2. ASSUME \A i \in DOMAIN w : w[i].time # t PROVE c2[t] = st[t]
    <3>1. CASE t = b.time
      <4>1. PICK i \in DOMAIN v : v[i] = st[t]
        BY <2>1, <3>1, <1>1, <1>4 DEF Follows, Revises
      <4>2. i = 1
        BY <2>1, <2>2, <4>1, <1>3, <1>4
      <4> QED
        BY <3>1, <4>1, <4>2, <1>1, <1>7
    <3>2. CASE t # b.time
      <4>1. \A i \in DOMAIN v : v[i].time # t
        <5> TAKE i \in DOMAIN v
        <5>1. CASE i = 1
          BY <5>1, <3>2, <1>1
        <5>2. CASE i # 1
          BY <5>2, <2>2, <1>3
        <5> QED
          BY <5>1, <5>2
      <4>2. t \in DOMAIN cs /\ cs[t] = st[t]
        BY <3>2, <4>1, <1>7 DEF Follows
      <4> QED
        BY <3>2, <4>2, <1>7
    <3> QED
      BY <3>1, <3>2
  <2> QED
    BY <2>1, <2>2
<1>12. ASSUME NEW t \in DOMAIN st \ DOMAIN c2
       PROVE  Before(t, c2) \/ t \in lt \cap d2 \/ ComesInTime(t, c2, w, lt)
  <2>1. t \in DOMAIN st \ DOMAIN cs /\ t \in Nat
    BY <1>4, <1>7
  <2>2. CASE Before(t, cs)
    <3>1. CASE c2 = cs
      BY <2>2, <3>1
    <3>2. CASE c2 = With(b, cs) /\ (Newest(cs, b.time) \/ b.time \in DOMAIN cs)
      <4>1. PICK u \in DOMAIN cs : u <= b.time
        BY <2>2, <3>2, <1>4 DEF Before, Newest
      <4>2. t < b.time
        BY <2>1, <2>2, <4>1, <1>4 DEF Before
      <4> QED
        BY <2>2, <4>2, <1>7 DEF Before
    <3> QED
      BY <3>1, <3>2, <1>5
  <2>3. CASE t \in lt \cap d
    BY <2>3
  <2>4. ASSUME NEW i \in DOMAIN v, v[i].time = t,
               t \in lt \/ ((\A u \in DOMAIN cs : u < t) /\ \A j \in DOMAIN v : j < i => v[j].time <= t)
        PROVE  t \in lt \cap d2 \/ ComesInTime(t, c2, w, lt)
    <3>1. CASE i = 1
      <4>1. t = b.time
        BY <2>4, <3>1, <1>1
      <4>2. ~ Newest(cs, t) /\ t \in d2
        BY <4>1, <1>1, <1>5, <1>6
      <4>3. t \in lt
        BY <2>1, <2>4, <4>2, <1>4 DEF Newest
      <4> QED
        BY <4>2, <4>3
    <3>2. CASE i # 1
      <4>1. i - 1 \in DOMAIN w /\ w[i - 1].time = t
        BY <2>4, <3>2, <1>3
      <4>2. CASE t \in lt
        BY <4>1, <4>2 DEF ComesInTime
      <4>3. CASE (\A u \in DOMAIN cs : u < t) /\ \A j \in DOMAIN v : j < i => v[j].time <= t
        <5>1. 1 < i /\ b.time <= t
          BY <3>2, <4>3, <1>1, <1>3, <1>4
        <5>2. b.time # t
          BY <4>3, <1>4, <1>5, <1>6, <2>1 DEF Newest
        <5>3. \A u \in DOMAIN c2 : u < t
          BY <4>3, <5>1, <5>2, <2>1, <1>4, <1>7
        <5>4. \A j \in DOMAIN w : j < i - 1 => w[j].time <= t
          <6> SUFFICES ASSUME NEW j \in DOMAIN w, j < i - 1 PROVE w[j].time <= t
            OBVIOUS
          <6>1. j + 1 \in DOMAIN v /\ j + 1 < i /\ w[j] = v[j + 1]
            BY <1>3
          <6> QED
            BY <6>1, <4>3
        <5> QED
          BY <4>1, <5>3, <5>4 DEF ComesInTime
      <4> QED
        BY <2>4, <4>2, <4>3
    <3> QED
      BY <3>1, <3>2
  <2> QED
    BY <2>1, <2>2, <2>3, <2>4 DEF Follows, ComesInTime
<1> QED
  BY <1>2, <1>9, <1>10, <1>11, <1>12 DEF Follows

LEMMA AppendedBar ==
  ASSUME NEW v \in Seq(ChartBars), NEW b \in ChartBars
  PROVE  /\ Append(v, b) \in Seq(ChartBars) /\ Len(v) \in Nat /\ DOMAIN v = 1..Len(v)
         /\ \A i \in DOMAIN Append(v, b) : i \in DOMAIN v \/ i = Len(v) + 1
         /\ \A i \in DOMAIN v : i \in DOMAIN Append(v, b) /\ Append(v, b)[i] = v[i] /\ i < Len(v) + 1
         /\ Append(v, b)[Len(v) + 1] = b /\ Len(v) + 1 \in DOMAIN Append(v, b)
<1>1. /\ Append(v, b) \in Seq(ChartBars)
      /\ Len(Append(v, b)) = Len(v) + 1
      /\ \A i \in 1..Len(v) : Append(v, b)[i] = v[i]
      /\ Append(v, b)[Len(v) + 1] = b
  BY AppendProperties
<1>2. Len(v) \in Nat /\ DOMAIN v = 1..Len(v) /\ DOMAIN Append(v, b) = 1..(Len(v) + 1)
  BY <1>1, LenProperties
<1> QED
  BY <1>1, <1>2

(* Candles that follow still do when a bar is pushed that is to come last. *)
LEMMA FollowsPush ==
  ASSUME NEW cs \in Candles, NEW d, NEW v \in Seq(ChartBars), NEW lt,
         NEW st \in Candles, Follows(cs, d, v, st, lt), NEW b \in ChartBars,
         NEW l2, lt \subseteq l2, b.time \in DOMAIN st \/ Newest(st, b.time) \/ b.time \in l2
  PROVE  Follows(cs, d, Append(v, b), With(b, st), l2)
<1>1. PICK z : z = With(b, st)
  OBVIOUS
<1>2. PICK w : w = Append(v, b)
  OBVIOUS
<1>3. /\ DOMAIN z = DOMAIN st \cup {b.time} /\ z[b.time] = b
      /\ \A t \in DOMAIN st : t # b.time => z[t] = st[t]
  BY <1>1, WithBar
<1>4. /\ Len(v) \in Nat
      /\ \A i \in DOMAIN w : i \in DOMAIN v \/ i = Len(v) + 1
      /\ \A i \in DOMAIN v : i \in DOMAIN w /\ w[i] = v[i] /\ i < Len(v) + 1
      /\ w[Len(v) + 1] = b /\ Len(v) + 1 \in DOMAIN w /\ DOMAIN v = 1..Len(v)
  BY <1>2, AppendedBar
<1>5. /\ \A t \in DOMAIN cs : t \in DOMAIN st /\ t \in Nat
      /\ \A i \in DOMAIN v : v[i].time \in DOMAIN st
      /\ b.time \in Nat /\ \A t \in DOMAIN st : t \in Nat
  BY CandlesHave DEF Follows, ChartBars
<1>6. Revises(w, z)
  <2> SUFFICES ASSUME NEW t \in DOMAIN z, NEW n \in DOMAIN w, w[n].time = t
               PROVE  \E i \in DOMAIN w : w[i] = z[t] /\ (\A j \in DOMAIN w : j > i => w[j].time # t)
    BY DEF Revises
  <2>1. CASE t = b.time
    <3>1. \A j \in DOMAIN w : ~ (j > Len(v) + 1)
      BY <1>4
    <3> QED
      BY <2>1, <3>1, <1>3, <1>4
  <2>2. CASE t # b.time
    <3>1. t \in DOMAIN st /\ z[t] = st[t] /\ n \in DOMAIN v /\ v[n].time = t
      BY <2>2, <1>3, <1>4
    <3>2. PICK i \in DOMAIN v : v[i] = st[t] /\ (\A j \in DOMAIN v : j > i => v[j].time # t)
      BY <3>1 DEF Follows, Revises
    <3>3. \A j \in DOMAIN w : j > i => w[j].time # t
      BY <2>2, <3>2, <1>4
    <3> QED
      BY <3>1, <3>2, <3>3, <1>4
  <2> QED
    BY <2>1, <2>2
<1>7. \A i \in DOMAIN w : w[i].time \in DOMAIN z
  BY <1>3, <1>4, <1>5
<1>8. ASSUME NEW t \in DOMAIN cs
      PROVE  t \in DOMAIN z /\ ((\A i \in DOMAIN w : w[i].time # t) => cs[t] = z[t])
  <2>1. ASSUME \A i \in DOMAIN w : w[i].time # t PROVE cs[t] = z[t]
    <3>1. t # b.time /\ \A i \in DOMAIN v : v[i].time # t
      BY <2>1, <1>4
    <3> QED
      BY <3>1, <1>3, <1>5 DEF Follows
  <2> QED
    BY <2>1, <1>3, <1>5
<1>9. ASSUME NEW t \in DOMAIN z \ DOMAIN cs
      PROVE  Before(t, cs) \/ t \in l2 \cap d \/ ComesInTime(t, cs, w, l2)
  <2>1. CASE t \in DOMAIN st
    <3>1. Before(t, cs) \/ t \in lt \cap d \/ ComesInTime(t, cs, v, lt)
      BY <2>1 DEF Follows
    <3>2. ASSUME NEW i \in DOMAIN v, v[i].time = t,
                 t \in lt \/ ((\A u \in DOMAIN cs : u < t) /\ \A j \in DOMAIN v : j < i => v[j].time <= t)
          PROVE  ComesInTime(t, cs, w, l2)
      <4>1. i \in DOMAIN w /\ w[i].time = t /\ i <= Len(v) /\ i \in Nat
        BY <3>2, <1>4
      <4>2. \A j \in DOMAIN w : j < i => j \in DOMAIN v /\ w[j] = v[j]
        BY <4>1, <1>4
      <4> QED
        BY <3>2, <4>1, <4>2 DEF ComesInTime
    <3> QED
      BY <3>1, <3>2 DEF ComesInTime
  <2>2. CASE t \notin DOMAIN st
    <3>1. t = b.time
      BY <2>2, <1>3
    <3>2. CASE t \in l2
      BY <3>1, <3>2, <1>4 DEF ComesInTime
    <3>3. CASE Newest(st, t)
      <4>1. \A u \in DOMAIN cs : u < t
        BY <2>2, <3>1, <3>3, <1>5 DEF Newest
      <4>2. \A j \in DOMAIN w : j < Len(v) + 1 => w[j].time <= t
        BY <3>3, <1>4, <1>5 DEF Newest
      <4> QED
        BY <3>1, <4>1, <4>2, <1>4 DEF ComesInTime
    <3> QED
      BY <2>2, <3>1, <3>2, <3>3
  <2> QED
    BY <2>1, <2>2
<1> QED
  BY <1>1, <1>2, <1>6, <1>7, <1>8, <1>9 DEF Follows

(* What a hook reads of a store follows it, with the bar of it that is     *)
(* still to be broadcast.                                                  *)
LEMMA RecentFollows ==
  ASSUME NEW st \in Candles, InPlace(st), NEW lt, InOrder(st, lt), NEW v \in Seq(ChartBars),
         v = << >> \/ \E b \in ChartBars : v = <<b>> /\ b.time \in DOMAIN st /\ st[b.time] = b
  PROVE  Follows(Recent(st), {}, v, st, lt)
<1>1. PICK r : r = Recent(st)
  OBVIOUS
<1>2. /\ r \in Candles
      /\ \A t : t \in DOMAIN r <=>
                  t \in DOMAIN st /\ Cardinality({u \in DOMAIN st : u > t}) < SnapshotSize
      /\ \A t \in DOMAIN r : r[t] = st[t]
  BY <1>1, RecentBars
<1>3. IsFiniteSet(DOMAIN st) /\ \A t \in DOMAIN st : t \in Nat
  BY CandlesHave DEF InOrder
<1>4. ASSUME NEW i \in DOMAIN v
      PROVE  v[i].time \in DOMAIN st /\ v[i] = st[v[i].time] /\ \A j \in DOMAIN v : j = i
  <2>1. v # << >>
    BY <1>4
  <2>2. PICK b \in ChartBars : v = <<b>> /\ b.time \in DOMAIN st /\ st[b.time] = b
    BY <2>1
  <2>3. DOMAIN v = {1} /\ v[1] = b
    BY <2>2
  <2> QED
    BY <2>2, <2>3, <1>4
<1>5. Revises(v, st)
  <2> SUFFICES ASSUME NEW t \in DOMAIN st, NEW i \in DOMAIN v, v[i].time = t
               PROVE  \E n \in DOMAIN v : v[n] = st[t] /\ (\A j \in DOMAIN v : j > n => v[j].time # t)
    BY DEF Revises
  <2>1. v[i] = st[t] /\ \A j \in DOMAIN v : j = i
    BY <1>4
  <2>2. i \in Nat
    BY LenProperties
  <2>3. \A j \in DOMAIN v : ~ (j > i)
    BY <2>1, <2>2
  <2> QED
    BY <2>1, <2>3
<1>6. ASSUME NEW t \in DOMAIN st \ DOMAIN r PROVE Before(t, r)
  <2>1. PICK U : U = {u \in DOMAIN st : u > t}
    OBVIOUS
  <2>2. IsFiniteSet(U) /\ Cardinality(U) \in Nat
    BY <2>1, <1>3, FS_Subset, FS_CardinalityType
  <2>3. ~ (Cardinality(U) < SnapshotSize) /\ SnapshotSize \in Nat /\ SnapshotSize >= 1
    BY <2>1, <1>2, <1>6, SnapshotSizeAssumption
  <2>4. ASSUME NEW u \in DOMAIN r PROVE t < u
    <3>1. PICK W : W = {x \in DOMAIN st : x > u}
      OBVIOUS
    <3>2. u \in DOMAIN st /\ Cardinality(W) < SnapshotSize
      BY <2>4, <3>1, <1>2
    <3>3. IsFiniteSet(W) /\ Cardinality(W) \in Nat
      BY <3>1, <1>3, FS_Subset, FS_CardinalityType
    <3>4. ~ (U \subseteq W)
      <4> SUFFICES ASSUME U \subseteq W PROVE FALSE
        OBVIOUS
      <4>1. Cardinality(U) <= Cardinality(W)
        BY <3>3, FS_Subset
      <4> QED
        BY <4>1, <2>2, <2>3, <3>2, <3>3
    <3>5. PICK x \in U : x \notin W
      BY <3>4
    <3>6. x \in DOMAIN st /\ x > t /\ ~ (x > u)
      BY <3>5, <3>1, <2>1
    <3> QED
      BY <3>2, <3>6, <1>3, <1>6
  <2>5. PICK m \in DOMAIN st : Newest(st, m)
    BY <1>6 DEF InOrder
  <2>6. {u \in DOMAIN st : u > m} = {}
    BY <2>5, <1>3 DEF Newest
  <2>7. m \in DOMAIN r
    BY <2>3, <2>5, <2>6, <1>2, FS_EmptySet
  <2> QED
    BY <2>4, <2>7 DEF Before
<1>7. \A t \in DOMAIN r : t \in DOMAIN st /\ r[t] = st[t]
  BY <1>2
<1> QED
  BY <1>1, <1>4, <1>5, <1>6, <1>7 DEF Follows

(* Candles that follow a store with no bar to come have its newest, and    *)
(* lack only what is before them or was late.                              *)
LEMMA FollowsEnd ==
  ASSUME NEW cs \in Candles, NEW st \in Candles, NEW d, NEW lt, InOrder(st, lt),
         Follows(cs, d, << >>, st, lt)
  PROVE  /\ \A t \in DOMAIN cs : t \in DOMAIN st /\ cs[t] = st[t]
         /\ \A t \in DOMAIN st : Newest(st, t) => t \in DOMAIN cs
         /\ \A t \in DOMAIN st \ DOMAIN cs : (\A u \in DOMAIN cs : t < u) \/ t \in lt \cap d
<1>1. PICK v : v = << >>
  OBVIOUS
<1>2. DOMAIN v = {}
  BY <1>1
<1>3. /\ \A t \in DOMAIN cs : t \in DOMAIN st /\ cs[t] = st[t] /\ t \in Nat
      /\ \A t \in DOMAIN st \ DOMAIN cs : Before(t, cs) \/ t \in lt \cap d
  BY <1>1, <1>2, CandlesHave DEF Follows, ComesInTime
<1>4. ASSUME NEW t \in DOMAIN st, Newest(st, t), t \notin DOMAIN cs PROVE FALSE
  <2>1. t \in Nat /\ \A u \in DOMAIN st : u \in Nat /\ ~ (t < u)
    BY <1>4, CandlesHave DEF Newest
  <2>2. ~ Before(t, cs)
    BY <2>1, <1>3 DEF Before
  <2>3. t \notin lt
    BY <2>1 DEF InOrder
  <2> QED
    BY <2>2, <2>3, <1>3, <1>4
<1> QED
  BY <1>3, <1>4 DEF Before
-----------------------------------------------------------------------------
(* No bar, or one, is still to be broadcast.                               *)
LEMMA NoBar == << >> \in Seq(ChartBars) /\ Len(<< >>) = 0 /\ Len(<< >>) <= 1
<1>1. << >> \in Seq(ChartBars)
  BY EmptySeq
<1> QED
  BY <1>1, EmptySeq

LEMMA OneBar ==
  ASSUME NEW b \in ChartBars
  PROVE  \E f \in Seq(ChartBars) : f = <<b>> /\ Len(f) = 1 /\ Len(f) <= 1 /\ f[1] = b
<1>1. <<b>> \in Seq(ChartBars)
  OBVIOUS
<1>2. Len(<<b>>) = 1
  OBVIOUS
<1>3. <<b>>[1] = b
  OBVIOUS
<1>4. PICK f : f = <<b>>
  OBVIOUS
<1>5. f \in Seq(ChartBars) /\ Len(f) = 1 /\ f[1] = b
  BY <1>1, <1>2, <1>3, <1>4
<1>6. Len(f) <= 1
  BY <1>5
<1> QED
  BY <1>4, <1>5, <1>6

(* The bars to come.                                                       *)
LEMMA ComingBars ==
  ASSUME NEW w \in Seq(Sent), NEW f \in Seq(ChartBars), Len(f) <= 1,
         NEW p \in 0..Len(w), OnlyBars(p, w)
  PROVE  LET c == Coming(p, w, f)
         IN  /\ c \in Seq(ChartBars) /\ Len(c) = Len(w) - p + Len(f)
             /\ Len(w) \in Nat /\ Len(f) \in Nat /\ DOMAIN w = 1..Len(w)
             /\ \A i \in 1..Len(c) : c[i] = IF p + i <= Len(w) THEN w[p + i].bar ELSE f[1]
<1>1. Len(w) \in Nat /\ DOMAIN w = 1..Len(w) /\ Len(f) \in Nat /\ DOMAIN f = 1..Len(f)
  BY LenProperties
<1>2. PICK c : c = Coming(p, w, f)
  OBVIOUS
<1>3. PICK n \in Nat : n = Len(w) - p + Len(f)
  <2>1. Len(w) - p + Len(f) \in Nat
    BY <1>1
  <2> QED
    BY <2>1
<1>4. c = [i \in 1..n |-> IF p + i <= Len(w) THEN w[p + i].bar ELSE f[1]]
  BY <1>2, <1>3 DEF Coming
<1>5. ASSUME NEW i \in 1..n PROVE c[i] \in ChartBars
  <2>1. CASE p + i <= Len(w)
    <3>1. p + i \in DOMAIN w /\ p + i > p
      BY <2>1, <1>1, <1>3
    <3>2. w[p + i].type = "bar" /\ w[p + i] \in Sent
      BY <3>1, <1>1, ElementOfSeq DEF OnlyBars
    <3>3. w[p + i].bar \in ChartBars
      BY <3>2 DEF Sent, Snapshots
    <3> QED
      BY <3>3, <2>1, <1>4
  <2>2. CASE ~ (p + i <= Len(w))
    <3>1. Len(f) >= 1 /\ 1 \in DOMAIN f
      BY <2>2, <1>1, <1>3
    <3>2. f[1] \in ChartBars
      BY <3>1, <1>1, ElementOfSeq
    <3> QED
      BY <3>2, <2>2, <1>4
  <2> QED
    BY <2>1, <2>2
<1>6. c \in Seq(ChartBars)
  <2>1. c \in [1..n -> ChartBars]
    BY <1>4, <1>5, Zenon
  <2>2. [1..n -> ChartBars] \subseteq Seq(ChartBars)
    BY <1>3, SeqDef, SMT
  <2> QED
    BY <2>1, <2>2
<1>7. Len(c) = n
  BY <1>4, <1>3
<1>8. \A i \in 1..Len(c) : c[i] = IF p + i <= Len(w) THEN w[p + i].bar ELSE f[1]
  BY <1>4, <1>7
<1> QED
  BY <1>1, <1>2, <1>3, <1>6, <1>7, <1>8

LEMMA ComingPush ==
  ASSUME NEW w \in Seq(Sent), NEW b \in ChartBars, NEW p \in 0..Len(w), OnlyBars(p, w)
  PROVE  Coming(p, w, <<b>>) = Append(Coming(p, w, << >>), b)
<1>1. PICK f \in Seq(ChartBars) : f = <<b>> /\ Len(f) = 1 /\ Len(f) <= 1 /\ f[1] = b
  BY OneBar
<1>0. PICK g : g = << >>
  OBVIOUS
<1>14. g \in Seq(ChartBars) /\ Len(g) = 0 /\ Len(g) <= 1
  BY <1>0, NoBar
<1>2. PICK c : c = Coming(p, w, f)
  OBVIOUS
<1>3. PICK d : d = Coming(p, w, g)
  OBVIOUS
<1>4. /\ c \in Seq(ChartBars) /\ Len(c) = Len(w) - p + Len(f)
      /\ Len(w) \in Nat
      /\ \A i \in 1..Len(c) : c[i] = IF p + i <= Len(w) THEN w[p + i].bar ELSE f[1]
  BY <1>1, <1>2, ComingBars
<1>5. /\ d \in Seq(ChartBars) /\ Len(d) = Len(w) - p + Len(g)
      /\ \A i \in 1..Len(d) : d[i] = IF p + i <= Len(w) THEN w[p + i].bar ELSE g[1]
  BY <1>14, <1>3, ComingBars
<1>6. Len(d) = Len(w) - p /\ Len(d) \in Nat
  BY <1>14, <1>4, <1>5
<1>7. PICK e : e = Append(d, b)
  OBVIOUS
<1>8. /\ e \in Seq(ChartBars) /\ Len(e) = Len(d) + 1
      /\ \A i \in 1..Len(d) : e[i] = d[i]
      /\ e[Len(d) + 1] = b
  <2>1. d \in Seq(ChartBars)
    BY <1>5
  <2> QED
    BY <2>1, <1>7, AppendProperties
<1>9. Len(e) = Len(c)
  BY <1>1, <1>4, <1>6, <1>8
<1>10. \A i \in 1..Len(c) : c[i] = e[i]
  <2> TAKE i \in 1..Len(c)
  <2>1. CASE i \in 1..Len(d)
    <3>1. p + i <= Len(w)
      BY <2>1, <1>4, <1>6
    <3> QED
      BY <3>1, <2>1, <1>4, <1>5, <1>8
  <2>2. CASE i = Len(d) + 1
    <3>1. ~ (p + i <= Len(w))
      BY <2>2, <1>4, <1>6
    <3> QED
      BY <3>1, <2>2, <1>1, <1>4, <1>8
  <2> QED
    BY <2>1, <2>2, <1>1, <1>4, <1>6
<1> QED
  BY <1>0, <1>1, <1>2, <1>3, <1>4, <1>7, <1>8, <1>9, <1>10, SeqEqual

LEMMA AppendedMessage ==
  ASSUME NEW w \in Seq(Sent), NEW m \in Sent
  PROVE  /\ Append(w, m) \in Seq(Sent) /\ Len(w) \in Nat /\ DOMAIN w = 1..Len(w)
         /\ Len(Append(w, m)) = Len(w) + 1 /\ DOMAIN Append(w, m) = 1..(Len(w) + 1)
         /\ \A i \in DOMAIN w : i \in DOMAIN Append(w, m) /\ Append(w, m)[i] = w[i]
         /\ Append(w, m)[Len(w) + 1] = m /\ Len(w) + 1 \in DOMAIN Append(w, m)
         /\ \A i \in DOMAIN Append(w, m) : i \in DOMAIN w \/ i = Len(w) + 1
<1>1. /\ Append(w, m) \in Seq(Sent)
      /\ Len(Append(w, m)) = Len(w) + 1
      /\ \A i \in 1..Len(w) : Append(w, m)[i] = w[i]
      /\ Append(w, m)[Len(w) + 1] = m
  BY AppendProperties
<1>2. Len(w) \in Nat /\ DOMAIN w = 1..Len(w) /\ DOMAIN Append(w, m) = 1..(Len(w) + 1)
  BY <1>1, LenProperties
<1>3. \A i \in DOMAIN Append(w, m) : i \in DOMAIN w \/ i = Len(w) + 1
  BY <1>2
<1>4. \A i \in DOMAIN w : i \in DOMAIN Append(w, m)
  BY <1>2
<1> QED
  BY <1>1, <1>2, <1>3, <1>4

LEMMA ComingBroadcast ==
  ASSUME NEW w \in Seq(Sent), NEW b \in ChartBars, NEW p \in 0..Len(w), OnlyBars(p, w)
  PROVE  LET w2 == Append(w, [type |-> "bar", bar |-> b])
         IN  /\ OnlyBars(p, w2)
             /\ Coming(p, w2, << >>) = Coming(p, w, <<b>>)
<1>1. PICK m : m = [type |-> "bar", bar |-> b]
  OBVIOUS
<1>2. m \in Sent /\ m.type = "bar" /\ m.bar = b
  BY <1>1 DEF Sent
<1>3. PICK w2 : w2 = Append(w, m)
  OBVIOUS
<1>4. /\ w2 \in Seq(Sent) /\ Len(w) \in Nat /\ DOMAIN w = 1..Len(w)
      /\ Len(w2) = Len(w) + 1
      /\ \A i \in DOMAIN w : w2[i] = w[i]
      /\ w2[Len(w) + 1] = m
      /\ \A i \in DOMAIN w2 : i \in DOMAIN w \/ i = Len(w) + 1
  BY <1>2, <1>3, AppendedMessage
<1>5. OnlyBars(p, w2)
  BY <1>2, <1>4 DEF OnlyBars
<1>6. PICK f \in Seq(ChartBars) : f = <<b>> /\ Len(f) = 1 /\ Len(f) <= 1 /\ f[1] = b
  BY OneBar
<1>0. PICK g : g = << >>
  OBVIOUS
<1>14. g \in Seq(ChartBars) /\ Len(g) = 0 /\ Len(g) <= 1
  BY <1>0, NoBar
<1>7. PICK c : c = Coming(p, w, f)
  OBVIOUS
<1>8. PICK d : d = Coming(p, w2, g)
  OBVIOUS
<1>9. /\ c \in Seq(ChartBars) /\ Len(c) = Len(w) - p + Len(f)
      /\ \A i \in 1..Len(c) : c[i] = IF p + i <= Len(w) THEN w[p + i].bar ELSE f[1]
  BY <1>6, <1>7, ComingBars
<1>10. p \in 0..Len(w2)
  BY <1>4
<1>11. /\ d \in Seq(ChartBars) /\ Len(d) = Len(w2) - p + Len(g)
       /\ \A i \in 1..Len(d) : d[i] = IF p + i <= Len(w2) THEN w2[p + i].bar ELSE g[1]
  BY <1>14, <1>4, <1>5, <1>8, <1>10, ComingBars
<1>12. Len(d) = Len(c)
  BY <1>14, <1>4, <1>6, <1>9, <1>11
<1>13. \A i \in 1..Len(c) : c[i] = d[i]
  <2> TAKE i \in 1..Len(c)
  <2>0. p + i <= Len(w2) /\ p + i \in Nat
    BY <1>4, <1>6, <1>9
  <2>1. CASE p + i <= Len(w)
    <3>1. p + i \in DOMAIN w
      BY <2>1, <1>4, <1>9
    <3> QED
      BY <3>1, <2>0, <2>1, <1>4, <1>9, <1>11, <1>12
  <2>2. CASE ~ (p + i <= Len(w))
    <3>1. p + i = Len(w) + 1
      BY <2>0, <2>2, <1>4
    <3>2. d[i] = w2[p + i].bar
      BY <2>0, <1>11, <1>12
    <3>3. d[i] = b
      BY <3>1, <3>2, <1>2, <1>4
    <3>4. c[i] = b
      BY <2>2, <1>6, <1>9
    <3> QED
      BY <3>3, <3>4
  <2> QED
    BY <2>1, <2>2
<1> QED
  <2>1. c \in Seq(ChartBars) /\ d \in Seq(ChartBars)
    BY <1>9, <1>11
  <2>2. c = d
    BY <2>1, <1>12, <1>13, SeqEqual
  <2> QED
    BY <2>2, <1>0, <1>1, <1>3, <1>5, <1>6, <1>7, <1>8

LEMMA ComingEnd ==
  ASSUME NEW w \in Seq(Sent), NEW m \in Sent, NEW f \in Seq(ChartBars), Len(f) <= 1
  PROVE  Coming(Len(w) + 1, Append(w, m), f) = f
<1>1. PICK w2 : w2 = Append(w, m)
  OBVIOUS
<1>2. PICK p : p = Len(w) + 1
  OBVIOUS
<1>3. /\ w2 \in Seq(Sent) /\ Len(w) \in Nat
      /\ Len(w2) = Len(w) + 1
      /\ \A i \in DOMAIN w2 : i \in DOMAIN w \/ i = Len(w) + 1
      /\ DOMAIN w = 1..Len(w)
  BY <1>1, AppendedMessage
<1>4. p \in 0..Len(w2)
  BY <1>2, <1>3
<1>5. OnlyBars(p, w2)
  BY <1>2, <1>3 DEF OnlyBars
<1>6. PICK c : c = Coming(p, w2, f)
  OBVIOUS
<1>7. /\ c \in Seq(ChartBars) /\ Len(c) = Len(w2) - p + Len(f)
      /\ Len(f) \in Nat
      /\ \A i \in 1..Len(c) : c[i] = IF p + i <= Len(w2) THEN w2[p + i].bar ELSE f[1]
  BY <1>3, <1>4, <1>5, <1>6, ComingBars
<1>8. Len(c) = Len(f)
  BY <1>2, <1>3, <1>7
<1>9. \A i \in 1..Len(c) : c[i] = f[i]
  <2> TAKE i \in 1..Len(c)
  <2>1. i = 1 /\ ~ (p + i <= Len(w2))
    BY <1>2, <1>3, <1>7, <1>8
  <2> QED
    BY <2>1, <1>7
<1> QED
  BY <1>1, <1>2, <1>6, <1>7, <1>8, <1>9, SeqEqual

LEMMA FrontMessage ==
  ASSUME NEW w \in Seq(Sent), w # << >>
  PROVE  /\ Head(w) = w[1] /\ w[1] \in Sent /\ Tail(w) \in Seq(Sent)
         /\ Len(w) \in Nat \ {0} /\ DOMAIN w = 1..Len(w) /\ 1 \in DOMAIN w
         /\ Len(Tail(w)) = Len(w) - 1 /\ DOMAIN Tail(w) = 1..(Len(w) - 1)
         /\ \A i \in DOMAIN Tail(w) : i + 1 \in DOMAIN w /\ Tail(w)[i] = w[i + 1]
         /\ \A i \in DOMAIN w : i # 1 => i - 1 \in DOMAIN Tail(w) /\ Tail(w)[i - 1] = w[i]
<1>1. Len(w) \in Nat /\ DOMAIN w = 1..Len(w) /\ Len(w) # 0
  BY EmptySeq, LenProperties
<1>2. w[1] \in Sent
  BY <1>1, ElementOfSeq
<1>3. /\ Tail(w) \in Seq(Sent) /\ Len(Tail(w)) = Len(w) - 1
      /\ \A i \in 1..Len(Tail(w)) : Tail(w)[i] = w[i + 1]
  BY HeadTailProperties
<1>4. DOMAIN Tail(w) = 1..(Len(w) - 1)
  BY <1>3, LenProperties
<1>5. \A i \in DOMAIN Tail(w) : i + 1 \in DOMAIN w /\ Tail(w)[i] = w[i + 1]
  BY <1>1, <1>3, <1>4
<1>6. ASSUME NEW i \in DOMAIN w, i # 1
      PROVE  i - 1 \in DOMAIN Tail(w) /\ Tail(w)[i - 1] = w[i]
  <2>1. i - 1 \in DOMAIN Tail(w) /\ (i - 1) + 1 = i
    BY <1>1, <1>4, <1>6
  <2> QED
    BY <2>1, <1>5
<1>7. Head(w) = w[1] /\ 1 \in DOMAIN w
  BY <1>1
<1> QED
  BY <1>1, <1>2, <1>3, <1>4, <1>5, <1>6, <1>7

LEMMA ComingTail ==
  ASSUME NEW w \in Seq(Sent), w # << >>, NEW f \in Seq(ChartBars), Len(f) <= 1,
         NEW p \in DOMAIN Tail(w) \cup {0}, OnlyBars(p, Tail(w))
  PROVE  OnlyBars(p + 1, w) /\ Coming(p, Tail(w), f) = Coming(p + 1, w, f)
<1>1. PICK t : t = Tail(w)
  OBVIOUS
<1>2. /\ t \in Seq(Sent) /\ Len(w) \in Nat \ {0} /\ DOMAIN w = 1..Len(w)
      /\ Len(t) = Len(w) - 1 /\ DOMAIN t = 1..(Len(w) - 1)
      /\ \A i \in DOMAIN t : i + 1 \in DOMAIN w /\ t[i] = w[i + 1]
      /\ \A i \in DOMAIN w : i # 1 => i - 1 \in DOMAIN t /\ t[i - 1] = w[i]
  BY <1>1, FrontMessage
<1>3. p \in Nat /\ p \in 0..Len(t) /\ p + 1 \in 0..Len(w) /\ Len(t) \in Nat
  BY <1>1, <1>2
<1>4. OnlyBars(p, t)
  BY <1>1
<1>5. OnlyBars(p + 1, w)
  <2> SUFFICES ASSUME NEW i \in DOMAIN w, i > p + 1 PROVE w[i].type = "bar"
    BY DEF OnlyBars
  <2>1. i # 1 /\ i - 1 > p
    BY <1>2, <1>3
  <2> QED
    BY <2>1, <1>2, <1>4 DEF OnlyBars
<1>6. PICK c : c = Coming(p, t, f)
  OBVIOUS
<1>7. PICK d : d = Coming(p + 1, w, f)
  OBVIOUS
<1>8. /\ c \in Seq(ChartBars) /\ Len(c) = Len(t) - p + Len(f)
      /\ Len(f) \in Nat
      /\ \A i \in 1..Len(c) : c[i] = IF p + i <= Len(t) THEN t[p + i].bar ELSE f[1]
  <2>1. t \in Seq(Sent)
    BY <1>2
  <2>2. p \in 0..Len(t)
    BY <1>3
  <2> QED
    BY <2>1, <2>2, <1>4, <1>6, ComingBars
<1>9. /\ d \in Seq(ChartBars) /\ Len(d) = Len(w) - (p + 1) + Len(f)
      /\ \A i \in 1..Len(d) : d[i] = IF (p + 1) + i <= Len(w) THEN w[(p + 1) + i].bar ELSE f[1]
  BY <1>3, <1>5, <1>7, ComingBars
<1>10. Len(c) = Len(d)
  BY <1>2, <1>3, <1>8, <1>9
<1>11. \A i \in 1..Len(c) : c[i] = d[i]
  <2> TAKE i \in 1..Len(c)
  <2>1. CASE p + i <= Len(t)
    <3>1. p + i \in DOMAIN t /\ (p + i) + 1 = (p + 1) + i /\ (p + 1) + i <= Len(w)
      BY <2>1, <1>2, <1>3, <1>8
    <3>2. t[p + i] = w[(p + 1) + i]
      BY <3>1, <1>2
    <3> QED
      BY <3>1, <3>2, <2>1, <1>8, <1>9, <1>10
  <2>2. CASE ~ (p + i <= Len(t))
    <3>1. ~ ((p + 1) + i <= Len(w))
      BY <2>2, <1>2, <1>3, <1>8
    <3> QED
      BY <3>1, <2>2, <1>8, <1>9, <1>10
  <2> QED
    BY <2>1, <2>2
<1> QED
  <2>1. c \in Seq(ChartBars) /\ d \in Seq(ChartBars)
    BY <1>8, <1>9
  <2>2. c = d
    BY <2>1, <1>10, <1>11, SeqEqual
  <2> QED
    BY <2>2, <1>1, <1>5, <1>6, <1>7

LEMMA ComingFront ==
  ASSUME NEW w \in Seq(Sent), w # << >>, NEW f \in Seq(ChartBars), Len(f) <= 1,
         OnlyBars(0, w)
  PROVE  LET c == Coming(0, w, f)
         IN  c \in Seq(ChartBars) /\ c # << >> /\ c[1] = w[1].bar /\ Tail(c) = Coming(1, w, f)
<1>1. /\ Len(w) \in Nat \ {0} /\ DOMAIN w = 1..Len(w) /\ 1 \in DOMAIN w
  BY FrontMessage
<1>2. PICK c : c = Coming(0, w, f)
  OBVIOUS
<1>3. 0 \in 0..Len(w) /\ 1 \in 0..Len(w) /\ OnlyBars(1, w)
  BY <1>1 DEF OnlyBars
<1>4. /\ c \in Seq(ChartBars) /\ Len(c) = Len(w) - 0 + Len(f)
      /\ Len(f) \in Nat
      /\ \A i \in 1..Len(c) : c[i] = IF 0 + i <= Len(w) THEN w[0 + i].bar ELSE f[1]
  BY <1>2, <1>3, ComingBars
<1>5. Len(c) = Len(w) + Len(f) /\ Len(c) >= 1 /\ Len(c) \in Nat
  BY <1>1, <1>4
<1>6. c # << >>
  BY <1>4, <1>5, EmptySeq
<1>7. c[1] = w[1].bar
  <2>1. 0 + 1 = 1 /\ 0 + 1 <= Len(w) /\ 1 \in 1..Len(c)
    BY <1>1, <1>5
  <2> QED
    BY <2>1, <1>4
<1>8. PICK d : d = Coming(1, w, f)
  OBVIOUS
<1>9. /\ d \in Seq(ChartBars) /\ Len(d) = Len(w) - 1 + Len(f)
      /\ \A i \in 1..Len(d) : d[i] = IF 1 + i <= Len(w) THEN w[1 + i].bar ELSE f[1]
  BY <1>3, <1>8, ComingBars
<1>10. PICK e : e = Tail(c)
  OBVIOUS
<1>11. e \in Seq(ChartBars) /\ Len(e) = Len(c) - 1 /\ \A i \in 1..Len(e) : e[i] = c[i + 1]
  BY <1>4, <1>6, <1>10, HeadTailProperties
<1>12. Len(e) = Len(d)
  BY <1>1, <1>4, <1>5, <1>9, <1>11
<1>13. \A i \in 1..Len(e) : e[i] = d[i]
  <2> TAKE i \in 1..Len(e)
  <2>1. i + 1 \in 1..Len(c) /\ 0 + (i + 1) = 1 + i /\ i \in 1..Len(d)
    BY <1>5, <1>11, <1>12
  <2>2. e[i] = c[i + 1]
    BY <1>11
  <2>3. c[i + 1] = IF 1 + i <= Len(w) THEN w[1 + i].bar ELSE f[1]
    BY <2>1, <1>4
  <2> QED
    BY <2>1, <2>2, <2>3, <1>9
<1> QED
  BY <1>2, <1>4, <1>6, <1>7, <1>8, <1>9, <1>10, <1>11, <1>12, <1>13, SeqEqual

-----------------------------------------------------------------------------
(* The chart follows, through whatever is pushed, broadcast, sent or       *)
(* received.                                                               *)
LEMMA SentCandles ==
  ASSUME NEW w \in Seq(Sent), NEW p \in DOMAIN w, w[p].type = "snapshot"
  PROVE  w[p] \in Snapshots /\ w[p].bars \in Candles
<1>1. w[p] \in Sent
  BY LenProperties, ElementOfSeq
<1> QED
  BY <1>1 DEF Sent, Snapshots

LEMMA PushKeeps ==
  ASSUME NEW s, NEW w \in Seq(Sent), NEW cs \in Candles, NEW d, NEW wh \in BOOLEAN, NEW lt,
         NEW st \in Candles, NEW b \in ChartBars,
         NEW l2, lt \subseteq l2, b.time \in DOMAIN st \/ Newest(st, b.time) \/ b.time \in l2,
         ChartFollows(s, w, cs, d, wh, << >>, st, lt)
  PROVE  ChartFollows(s, w, cs, d, wh, <<b>>, With(b, st), l2)
<1>1. Len(w) \in Nat /\ DOMAIN w = 1..Len(w)
  BY LenProperties
<1>2. ASSUME NEW p \in 0..Len(w), OnlyBars(p, w), NEW c \in Candles, NEW e,
             Follows(c, e, Coming(p, w, << >>), st, lt)
      PROVE  Follows(c, e, Coming(p, w, <<b>>), With(b, st), l2)
  <2>1. PICK v : v = Coming(p, w, << >>)
    OBVIOUS
  <2>2. v \in Seq(ChartBars)
    BY <1>2, <2>1, NoBar, ComingBars
  <2>3. Coming(p, w, <<b>>) = Append(v, b)
    BY <1>2, <2>1, ComingPush
  <2>4. Follows(c, e, v, st, lt)
    BY <1>2, <2>1
  <2> QED
    BY <1>2, <2>2, <2>3, <2>4, FollowsPush
<1>3. ASSUME NEW p \in DOMAIN w, w[p].type = "snapshot", OnlyBars(p, w), w[p].fresh,
             w[p].symbol = s, w[p].frame = Source
      PROVE  Follows(w[p].bars, {}, Coming(p, w, <<b>>), With(b, st), l2)
  <2>1. w[p].bars \in Candles
    BY <1>3, SentCandles
  <2>2. Follows(w[p].bars, {}, Coming(p, w, << >>), st, lt)
    BY <1>3 DEF ChartFollows
  <2>3. p \in 0..Len(w)
    BY <1>1
  <2> QED
    BY <2>1, <2>2, <2>3, <1>2, <1>3
<1>4. ASSUME OnlyBars(0, w), wh
      PROVE  Follows(cs, d, Coming(0, w, <<b>>), With(b, st), l2)
  <2>1. Follows(cs, d, Coming(0, w, << >>), st, lt)
    BY <1>4 DEF ChartFollows
  <2>2. 0 \in 0..Len(w)
    BY <1>1
  <2> QED
    BY <2>1, <2>2, <1>2, <1>4
<1> QED
  BY <1>3, <1>4 DEF ChartFollows

LEMMA BroadcastKeeps ==
  ASSUME NEW s, NEW w \in Seq(Sent), NEW cs, NEW d, NEW wh \in BOOLEAN,
         NEW st, NEW lt, NEW b \in ChartBars,
         ChartFollows(s, w, cs, d, wh, <<b>>, st, lt)
  PROVE  ChartFollows(s, Append(w, [type |-> "bar", bar |-> b]), cs, d, wh, << >>, st, lt)
<1>1. PICK m : m = [type |-> "bar", bar |-> b]
  OBVIOUS
<1>2. m \in Sent /\ m.type = "bar"
  BY <1>1 DEF Sent
<1>3. PICK w2 : w2 = Append(w, m)
  OBVIOUS
<1>4. /\ w2 \in Seq(Sent) /\ Len(w) \in Nat /\ DOMAIN w = 1..Len(w)
      /\ \A i \in DOMAIN w : i \in DOMAIN w2 /\ w2[i] = w[i]
      /\ w2[Len(w) + 1] = m
      /\ \A i \in DOMAIN w2 : i \in DOMAIN w \/ i = Len(w) + 1
  BY <1>2, <1>3, AppendedMessage
<1>5. ASSUME NEW p, OnlyBars(p, w2) PROVE OnlyBars(p, w)
  BY <1>4, <1>5 DEF OnlyBars
<1>6. ASSUME NEW p \in 0..Len(w), OnlyBars(p, w)
      PROVE  Coming(p, w2, << >>) = Coming(p, w, <<b>>)
  BY <1>1, <1>3, <1>6, ComingBroadcast
<1>7. ASSUME NEW p \in DOMAIN w2, w2[p].type = "snapshot", OnlyBars(p, w2), w2[p].fresh,
             w2[p].symbol = s, w2[p].frame = Source
      PROVE  Follows(w2[p].bars, {}, Coming(p, w2, << >>), st, lt)
  <2>1. p \in DOMAIN w /\ w2[p] = w[p]
    BY <1>2, <1>4, <1>7
  <2>2. OnlyBars(p, w) /\ p \in 0..Len(w)
    BY <2>1, <1>4, <1>5, <1>7
  <2>3. Follows(w[p].bars, {}, Coming(p, w, <<b>>), st, lt)
    BY <2>1, <2>2, <1>7 DEF ChartFollows
  <2> QED
    BY <2>1, <2>2, <2>3, <1>6
<1>8. ASSUME OnlyBars(0, w2), wh
      PROVE  Follows(cs, d, Coming(0, w2, << >>), st, lt)
  <2>1. OnlyBars(0, w) /\ 0 \in 0..Len(w)
    BY <1>4, <1>5, <1>8
  <2>2. Follows(cs, d, Coming(0, w, <<b>>), st, lt)
    BY <2>1, <1>8 DEF ChartFollows
  <2> QED
    BY <2>1, <2>2, <1>6
<1> QED
  BY <1>1, <1>3, <1>7, <1>8 DEF ChartFollows

LEMMA SendMakes ==
  ASSUME NEW s, NEW w \in Seq(Sent), NEW cs, NEW d, NEW wh, NEW st, NEW lt, NEW m \in Snapshots,
         NEW f \in Seq(ChartBars), Len(f) <= 1,
         m.fresh /\ m.symbol = s /\ m.frame = Source => Follows(m.bars, {}, f, st, lt)
  PROVE  ChartFollows(s, Append(w, m), cs, d, wh, f, st, lt)
<1>1. PICK w2 : w2 = Append(w, m)
  OBVIOUS
<1>2. m \in Sent /\ m.type = "snapshot"
  BY DEF Sent, Snapshots
<1>3. /\ Len(w) \in Nat /\ DOMAIN w = 1..Len(w)
      /\ w2[Len(w) + 1] = m /\ Len(w) + 1 \in DOMAIN w2
      /\ \A i \in DOMAIN w2 : i \in DOMAIN w \/ i = Len(w) + 1
  BY <1>1, <1>2, AppendedMessage
<1>4. ASSUME NEW p \in DOMAIN w2 \cup {0}, OnlyBars(p, w2) PROVE p = Len(w) + 1
  <2>1. ~ (Len(w) + 1 > p)
    BY <1>2, <1>3, <1>4 DEF OnlyBars
  <2> QED
    BY <2>1, <1>3
<1>5. ASSUME NEW p \in DOMAIN w2, OnlyBars(p, w2), w2[p].fresh, w2[p].symbol = s, w2[p].frame = Source
      PROVE  Follows(w2[p].bars, {}, Coming(p, w2, f), st, lt)
  <2>1. p = Len(w) + 1
    BY <1>4, <1>5
  <2>2. Coming(Len(w) + 1, w2, f) = f
    BY <1>1, <1>2, ComingEnd
  <2>3. Follows(m.bars, {}, f, st, lt)
    BY <2>1, <1>3, <1>5
  <2> QED
    BY <2>1, <2>2, <2>3, <1>3
<1>6. ~ OnlyBars(0, w2)
  BY <1>3, <1>4
<1> QED
  BY <1>1, <1>5, <1>6 DEF ChartFollows

LEMMA ReceiveKeeps ==
  ASSUME NEW s, NEW w \in Seq(Sent), w # << >>, NEW cs \in Candles, NEW d, NEW wh \in BOOLEAN,
         NEW st \in Candles, InPlace(st), NEW lt, NEW f \in Seq(ChartBars), Len(f) <= 1,
         ChartFollows(s, w, cs, d, wh, f, st, lt), NEW c2, NEW d2, NEW wh2,
         w[1].type = "bar" =>
           c2 = ApplyBar(w[1].bar, cs) /\ d2 = d \cup ({w[1].bar.time} \ DOMAIN c2) /\ wh2 = wh,
         w[1].type # "bar" =>
           /\ c2 = w[1].bars /\ d2 = {}
           /\ wh2 = (w[1].fresh /\ w[1].symbol = s /\ w[1].frame = Source)
  PROVE  ChartFollows(s, Tail(w), c2, d2, wh2, f, st, lt)
<1>1. PICK t : t = Tail(w)
  OBVIOUS
<1>2. /\ w[1] \in Sent
      /\ Len(w) \in Nat \ {0} /\ DOMAIN w = 1..Len(w) /\ 1 \in DOMAIN w
      /\ DOMAIN t = 1..(Len(w) - 1)
      /\ \A i \in DOMAIN t : i + 1 \in DOMAIN w /\ t[i] = w[i + 1]
  BY <1>1, FrontMessage
<1>3. ASSUME NEW p \in DOMAIN t \cup {0}, OnlyBars(p, t)
      PROVE  OnlyBars(p + 1, w) /\ Coming(p, t, f) = Coming(p + 1, w, f)
  BY <1>1, <1>3, ComingTail
<1>4. ASSUME NEW p \in DOMAIN t, t[p].type = "snapshot", OnlyBars(p, t), t[p].fresh,
             t[p].symbol = s, t[p].frame = Source
      PROVE  Follows(t[p].bars, {}, Coming(p, t, f), st, lt)
  <2>1. p + 1 \in DOMAIN w /\ t[p] = w[p + 1]
    BY <1>2
  <2>2. OnlyBars(p + 1, w) /\ Coming(p, t, f) = Coming(p + 1, w, f)
    BY <1>3, <1>4
  <2> QED
    BY <2>1, <2>2, <1>4 DEF ChartFollows
<1>5. ASSUME OnlyBars(0, t), wh2
      PROVE  Follows(c2, d2, Coming(0, t, f), st, lt)
  <2>1. OnlyBars(1, w) /\ Coming(0, t, f) = Coming(1, w, f)
    <3>1. OnlyBars(0 + 1, w) /\ Coming(0, t, f) = Coming(0 + 1, w, f)
      BY <1>3, <1>5
    <3> QED
      BY <3>1
  <2>2. CASE w[1].type = "bar"
    <3>1. OnlyBars(0, w)
      BY <2>1, <2>2, <1>2 DEF OnlyBars
    <3>2. PICK v : v = Coming(0, w, f)
      OBVIOUS
    <3>3. v \in Seq(ChartBars) /\ v # << >> /\ v[1] = w[1].bar /\ Tail(v) = Coming(1, w, f)
      BY <3>1, <3>2, ComingFront
    <3>4. Follows(cs, d, v, st, lt)
      BY <3>1, <3>2, <2>2, <1>5 DEF ChartFollows
    <3>5. c2 = ApplyBar(v[1], cs) /\ d2 = d \cup ({v[1].time} \ DOMAIN c2)
      BY <3>3, <2>2
    <3>6. Follows(c2, d2, Tail(v), st, lt)
      BY <3>3, <3>4, <3>5, FollowsApply
    <3> QED
      BY <3>3, <3>6, <2>1
  <2>3. CASE w[1].type # "bar"
    <3>1. w[1].type = "snapshot"
      BY <2>3, <1>2 DEF Sent, Snapshots
    <3>2. c2 = w[1].bars /\ d2 = {} /\ w[1].fresh /\ w[1].symbol = s /\ w[1].frame = Source
      BY <2>3, <1>5
    <3>3. Follows(w[1].bars, {}, Coming(1, w, f), st, lt)
      BY <3>1, <3>2, <2>1, <1>2 DEF ChartFollows
    <3> QED
      BY <3>2, <3>3, <2>1
  <2> QED
    BY <2>2, <2>3
<1> QED
  BY <1>1, <1>4, <1>5 DEF ChartFollows

-----------------------------------------------------------------------------
(* Everything that arrives from some snapshot on is of the symbol.         *)
LEMMA SentOfSymbol ==
  ASSUME NEW w \in Seq(Sent), NEW m \in Sent, NEW c, NEW s, OnTheWay(w, c, s), IsOf(m, s)
  PROVE  OnTheWay(Append(w, m), c, s)
<1>1. PICK w2 : w2 = Append(w, m)
  OBVIOUS
<1>2. /\ \A i \in DOMAIN w : i \in DOMAIN w2 /\ w2[i] = w[i]
      /\ w2[Len(w) + 1] = m
      /\ \A i \in DOMAIN w2 : i \in DOMAIN w \/ i = Len(w) + 1
  BY <1>1, AppendedMessage
<1>3. ASSUME NEW p \in DOMAIN w, w[p].type = "snapshot", \A i \in DOMAIN w : i >= p => IsOf(w[i], s)
      PROVE  OnTheWay(w2, c, s)
  <2>1. \A i \in DOMAIN w2 : i >= p => IsOf(w2[i], s)
    BY <1>2, <1>3
  <2>2. p \in DOMAIN w2 /\ w2[p].type = "snapshot"
    BY <1>2, <1>3
  <2> QED
    BY <2>1, <2>2 DEF OnTheWay
<1>4. ASSUME AllOf(c, s), \A i \in DOMAIN w : IsOf(w[i], s)
      PROVE  OnTheWay(w2, c, s)
  <2>1. \A i \in DOMAIN w2 : IsOf(w2[i], s)
    BY <1>2, <1>4
  <2> QED
    BY <2>1, <1>4 DEF OnTheWay
<1> QED
  BY <1>1, <1>3, <1>4 DEF OnTheWay

LEMMA SnapshotOfSymbol ==
  ASSUME NEW w \in Seq(Sent), NEW m \in Snapshots, NEW c, NEW s, AllOf(m.bars, s)
  PROVE  OnTheWay(Append(w, m), c, s)
<1>1. m \in Sent /\ m.type = "snapshot"
  BY DEF Sent, Snapshots
<1>2. PICK w2 : w2 = Append(w, m)
  OBVIOUS
<1>3. /\ Len(w) \in Nat /\ DOMAIN w = 1..Len(w)
      /\ w2[Len(w) + 1] = m /\ Len(w) + 1 \in DOMAIN w2
      /\ \A i \in DOMAIN w2 : i \in DOMAIN w \/ i = Len(w) + 1
  BY <1>1, <1>2, AppendedMessage
<1>4. \A i \in DOMAIN w2 : i >= Len(w) + 1 => i = Len(w) + 1
  BY <1>3
<1>5. IsOf(m, s)
  BY <1>1 DEF IsOf
<1> QED
  BY <1>1, <1>2, <1>3, <1>4, <1>5 DEF OnTheWay
LEMMA ReceivedOfSymbol ==
  ASSUME NEW w \in Seq(Sent), w # << >>, NEW c \in Candles, NEW s, OnTheWay(w, c, s),
         NEW c2,
         w[1].type = "bar" => c2 = ApplyBar(w[1].bar, c),
         w[1].type # "bar" => c2 = w[1].bars
  PROVE  OnTheWay(Tail(w), c2, s)
<1>1. PICK t : t = Tail(w)
  OBVIOUS
<1>2. /\ w[1] \in Sent
      /\ Len(w) \in Nat \ {0} /\ DOMAIN w = 1..Len(w) /\ 1 \in DOMAIN w
      /\ DOMAIN t = 1..(Len(w) - 1)
      /\ \A i \in DOMAIN t : i + 1 \in DOMAIN w /\ t[i] = w[i + 1]
      /\ \A i \in DOMAIN w : i # 1 => i - 1 \in DOMAIN t /\ t[i - 1] = w[i]
  BY <1>1, FrontMessage
<1>3. ASSUME IsOf(w[1], s), w[1].type = "bar" => AllOf(c, s)
      PROVE  AllOf(c2, s)
  <2>1. CASE w[1].type = "bar"
    <3>1. w[1].bar \in ChartBars /\ w[1].bar.of = s
      BY <2>1, <1>2, <1>3 DEF Sent, Snapshots, IsOf
    <3> QED
      BY <3>1, <2>1, <1>3, AppliedBars
  <2>2. CASE w[1].type # "bar"
    BY <2>2, <1>3 DEF IsOf
  <2> QED
    BY <2>1, <2>2
<1>4. ASSUME NEW p \in DOMAIN w, w[p].type = "snapshot", \A i \in DOMAIN w : i >= p => IsOf(w[i], s)
      PROVE  OnTheWay(t, c2, s)
  <2>1. CASE p = 1
    <3>1. \A i \in DOMAIN w : IsOf(w[i], s)
      BY <2>1, <1>2, <1>4
    <3>2. \A i \in DOMAIN t : IsOf(t[i], s)
      BY <3>1, <1>2
    <3>3. AllOf(c2, s)
      BY <3>1, <2>1, <1>2, <1>3, <1>4
    <3> QED
      BY <3>2, <3>3 DEF OnTheWay
  <2>2. CASE p # 1
    <3>1. p - 1 \in DOMAIN t /\ t[p - 1].type = "snapshot"
      BY <2>2, <1>2, <1>4
    <3>2. \A i \in DOMAIN t : i >= p - 1 => IsOf(t[i], s)
      <4> SUFFICES ASSUME NEW i \in DOMAIN t, i >= p - 1 PROVE IsOf(t[i], s)
        OBVIOUS
      <4>1. i + 1 \in DOMAIN w /\ t[i] = w[i + 1] /\ i + 1 >= p
        BY <1>2
      <4> QED
        BY <4>1, <1>4
    <3> QED
      BY <3>1, <3>2 DEF OnTheWay
  <2> QED
    BY <2>1, <2>2
<1>5. ASSUME AllOf(c, s), \A i \in DOMAIN w : IsOf(w[i], s)
      PROVE  OnTheWay(t, c2, s)
  <2>1. AllOf(c2, s)
    BY <1>2, <1>3, <1>5
  <2>2. \A i \in DOMAIN t : IsOf(t[i], s)
    BY <1>2, <1>5
  <2> QED
    BY <2>1, <2>2 DEF OnTheWay
<1> QED
  BY <1>1, <1>4, <1>5 DEF OnTheWay

(* What arrives from some snapshot on says what was asked for.             *)
LEMMA SentSays ==
  ASSUME NEW w \in Seq(Sent), NEW m \in Sent, NEW c, NEW has, NEW to,
         ComesToSay(w, c, has, to), SaysOr(m, c, to)
  PROVE  ComesToSay(Append(w, m), c, has, to)
<1>1. PICK w2 : w2 = Append(w, m)
  OBVIOUS
<1>2. /\ \A i \in DOMAIN w : i \in DOMAIN w2 /\ w2[i] = w[i]
      /\ w2[Len(w) + 1] = m
      /\ \A i \in DOMAIN w2 : i \in DOMAIN w \/ i = Len(w) + 1
  BY <1>1, AppendedMessage
<1>3. ASSUME NEW p \in DOMAIN w, w[p].type = "snapshot", w[p][c] = to,
             \A i \in DOMAIN w : i >= p => SaysOr(w[i], c, to)
      PROVE  ComesToSay(w2, c, has, to)
  <2>1. \A i \in DOMAIN w2 : i >= p => SaysOr(w2[i], c, to)
    BY <1>2, <1>3
  <2>2. p \in DOMAIN w2 /\ w2[p] = w[p]
    BY <1>2
  <2> QED
    BY <2>1, <2>2, <1>3 DEF ComesToSay
<1>4. ASSUME has = to, \A i \in DOMAIN w : SaysOr(w[i], c, to)
      PROVE  ComesToSay(w2, c, has, to)
  <2>1. \A i \in DOMAIN w2 : SaysOr(w2[i], c, to)
    BY <1>2, <1>4
  <2> QED
    BY <2>1, <1>4 DEF ComesToSay
<1> QED
  BY <1>1, <1>3, <1>4 DEF ComesToSay

LEMMA SnapshotSays ==
  ASSUME NEW w \in Seq(Sent), NEW m \in Snapshots, NEW c, NEW has, NEW to, m[c] = to
  PROVE  ComesToSay(Append(w, m), c, has, to)
<1>1. m \in Sent /\ m.type = "snapshot"
  BY DEF Sent, Snapshots
<1>2. PICK w2 : w2 = Append(w, m)
  OBVIOUS
<1>3. /\ Len(w) \in Nat /\ DOMAIN w = 1..Len(w)
      /\ w2[Len(w) + 1] = m /\ Len(w) + 1 \in DOMAIN w2
      /\ \A i \in DOMAIN w2 : i \in DOMAIN w \/ i = Len(w) + 1
  BY <1>1, <1>2, AppendedMessage
<1>4. \A i \in DOMAIN w2 : i >= Len(w) + 1 => i = Len(w) + 1
  BY <1>3
<1>5. SaysOr(m, c, to)
  BY DEF SaysOr
<1> QED
  BY <1>1, <1>2, <1>3, <1>4, <1>5 DEF ComesToSay

LEMMA ReceivedSays ==
  ASSUME NEW w \in Seq(Sent), w # << >>, NEW c, NEW has, NEW has2, NEW to, to # NoSymbol,
         ComesToSay(w, c, has, to),
         w[1].type = "bar" => has2 = has,
         w[1].type # "bar" => has2 = IF w[1][c] = NoSymbol THEN has ELSE w[1][c]
  PROVE  ComesToSay(Tail(w), c, has2, to)
<1>1. PICK t : t = Tail(w)
  OBVIOUS
<1>2. /\ w[1] \in Sent
      /\ Len(w) \in Nat \ {0} /\ DOMAIN w = 1..Len(w) /\ 1 \in DOMAIN w
      /\ DOMAIN t = 1..(Len(w) - 1)
      /\ \A i \in DOMAIN t : i + 1 \in DOMAIN w /\ t[i] = w[i + 1]
      /\ \A i \in DOMAIN w : i # 1 => i - 1 \in DOMAIN t /\ t[i - 1] = w[i]
  BY <1>1, FrontMessage
<1>3. w[1].type = "bar" \/ w[1].type = "snapshot"
  BY <1>2 DEF Sent, Snapshots
<1>4. ASSUME NEW p \in DOMAIN w, w[p].type = "snapshot", w[p][c] = to,
             \A i \in DOMAIN w : i >= p => SaysOr(w[i], c, to)
      PROVE  ComesToSay(t, c, has2, to)
  <2>1. CASE p = 1
    <3>1. has2 = to
      BY <2>1, <1>3, <1>4
    <3>2. \A i \in DOMAIN t : SaysOr(t[i], c, to)
      BY <2>1, <1>2, <1>4
    <3> QED
      BY <3>1, <3>2 DEF ComesToSay
  <2>2. CASE p # 1
    <3>1. p - 1 \in DOMAIN t /\ t[p - 1] = w[p]
      BY <2>2, <1>2
    <3>2. \A i \in DOMAIN t : i >= p - 1 => SaysOr(t[i], c, to)
      <4> SUFFICES ASSUME NEW i \in DOMAIN t, i >= p - 1 PROVE SaysOr(t[i], c, to)
        OBVIOUS
      <4>1. i + 1 \in DOMAIN w /\ t[i] = w[i + 1] /\ i + 1 >= p
        BY <1>2
      <4> QED
        BY <4>1, <1>4
    <3> QED
      BY <3>1, <3>2, <1>4 DEF ComesToSay
  <2> QED
    BY <2>1, <2>2
<1>5. ASSUME has = to, \A i \in DOMAIN w : SaysOr(w[i], c, to)
      PROVE  ComesToSay(t, c, has2, to)
  <2>1. SaysOr(w[1], c, to)
    BY <1>2, <1>5
  <2>2. has2 = to
    BY <2>1, <1>3, <1>5 DEF SaysOr
  <2>3. \A i \in DOMAIN t : SaysOr(t[i], c, to)
    BY <1>2, <1>5
  <2> QED
    BY <2>2, <2>3 DEF ComesToSay
<1> QED
  BY <1>1, <1>4, <1>5 DEF ComesToSay

-----------------------------------------------------------------------------
(* What the user asked for last, when more is asked for, and when the      *)
(* first of what is asked for is noted.                                    *)
LEMMA AskedMore ==
  ASSUME NEW q \in Seq(Requests), NEW r \in Requests, NEW x, NEW to, NEW has,
         x = r.set => to = r.to,
         x # r.set => LastAsked(q, x, to, has)
  PROVE  LastAsked(Append(q, r), x, to, has)
<1>1. PICK z : z = Append(q, r)
  OBVIOUS
<1>2. /\ Len(z) = Len(q) + 1
      /\ \A i \in 1..Len(q) : z[i] = q[i]
      /\ z[Len(q) + 1] = r
      /\ z \in Seq(Requests)
  BY <1>1, AppendProperties
<1>3. Len(q) \in Nat /\ DOMAIN q = 1..Len(q) /\ DOMAIN z = 1..(Len(q) + 1)
  BY <1>2, LenProperties
<1>4. /\ \A i \in DOMAIN z : i \in DOMAIN q \/ i = Len(q) + 1
      /\ \A i \in DOMAIN q : i \in DOMAIN z /\ z[i] = q[i]
      /\ Len(q) + 1 \in DOMAIN z
  BY <1>2, <1>3
<1>5. CASE x = r.set
  <2>1. \A j \in DOMAIN z : ~ (j > Len(q) + 1)
    BY <1>3
  <2> QED
    BY <2>1, <1>1, <1>2, <1>4, <1>5 DEF LastAsked
<1>6. CASE x # r.set
  <2>1. ASSUME NEW i \in DOMAIN q, q[i].set = x, q[i].to = to,
               \A j \in DOMAIN q : j > i => q[j].set # x
        PROVE  LastAsked(z, x, to, has)
    <3>1. \A j \in DOMAIN z : j > i => z[j].set # x
      BY <2>1, <1>2, <1>4, <1>6
    <3> QED
      BY <3>1, <2>1, <1>4 DEF LastAsked
  <2>2. ASSUME \A i \in DOMAIN q : q[i].set # x, has = to
        PROVE  LastAsked(z, x, to, has)
    <3>1. \A i \in DOMAIN z : z[i].set # x
      BY <2>2, <1>2, <1>4, <1>6
    <3> QED
      BY <3>1, <2>2 DEF LastAsked
  <2> QED
    BY <2>1, <2>2, <1>1, <1>6 DEF LastAsked
<1> QED
  BY <1>5, <1>6

LEMMA FrontRequest ==
  ASSUME NEW q \in Seq(Requests), q # << >>
  PROVE  /\ Head(q) = q[1] /\ q[1] \in Requests /\ Tail(q) \in Seq(Requests)
         /\ DOMAIN q = 1..Len(q) /\ Len(q) \in Nat /\ 1 \in DOMAIN q
         /\ \A i \in DOMAIN Tail(q) : i + 1 \in DOMAIN q /\ Tail(q)[i] = q[i + 1] /\ i \in Nat \ {0}
         /\ \A i \in DOMAIN q : i # 1 => i - 1 \in DOMAIN Tail(q) /\ Tail(q)[i - 1] = q[i]
<1>1. Len(q) \in Nat /\ DOMAIN q = 1..Len(q) /\ Len(q) # 0
  BY EmptySeq, LenProperties
<1>2. q[1] \in Requests
  BY <1>1, ElementOfSeq
<1>3. /\ Tail(q) \in Seq(Requests) /\ Len(Tail(q)) = Len(q) - 1
      /\ \A i \in 1..Len(Tail(q)) : Tail(q)[i] = q[i + 1]
  BY HeadTailProperties
<1>4. DOMAIN Tail(q) = 1..(Len(q) - 1)
  BY <1>3, LenProperties
<1>5. \A i \in DOMAIN Tail(q) : i + 1 \in DOMAIN q /\ Tail(q)[i] = q[i + 1] /\ i \in Nat \ {0}
  BY <1>1, <1>3, <1>4
<1>6. ASSUME NEW i \in DOMAIN q, i # 1
      PROVE  i - 1 \in DOMAIN Tail(q) /\ Tail(q)[i - 1] = q[i]
  <2>1. i - 1 \in DOMAIN Tail(q) /\ (i - 1) + 1 = i
    BY <1>1, <1>4, <1>6
  <2> QED
    BY <2>1, <1>5
<1>7. Head(q) = q[1] /\ 1 \in DOMAIN q
  BY <1>1
<1> QED
  BY <1>1, <1>2, <1>3, <1>5, <1>6, <1>7

LEMMA AskedNoted ==
  ASSUME NEW q \in Seq(Requests), q # << >>, NEW x, NEW to, NEW has, NEW has2,
         LastAsked(q, x, to, has),
         x = q[1].set => has2 = q[1].to,
         x # q[1].set => has2 = has
  PROVE  LastAsked(Tail(q), x, to, has2)
<1>1. PICK t : t = Tail(q)
  OBVIOUS
<1>2. /\ DOMAIN q = 1..Len(q) /\ Len(q) \in Nat /\ 1 \in DOMAIN q
      /\ \A i \in DOMAIN t : i + 1 \in DOMAIN q /\ t[i] = q[i + 1] /\ i \in Nat \ {0}
      /\ \A i \in DOMAIN q : i # 1 => i - 1 \in DOMAIN t /\ t[i - 1] = q[i]
  BY <1>1, FrontRequest
<1>3. ASSUME NEW i \in DOMAIN q, q[i].set = x, q[i].to = to,
             \A j \in DOMAIN q : j > i => q[j].set # x
      PROVE  LastAsked(t, x, to, has2)
  <2>1. CASE i = 1
    <3>1. \A j \in DOMAIN t : t[j].set # x
      <4> TAKE j \in DOMAIN t
      <4>1. j + 1 > i /\ j + 1 \in DOMAIN q /\ t[j] = q[j + 1]
        BY <2>1, <1>2
      <4> QED
        BY <4>1, <1>3
    <3>2. has2 = to
      BY <2>1, <1>3
    <3> QED
      BY <3>1, <3>2 DEF LastAsked
  <2>2. CASE i # 1
    <3>1. i - 1 \in DOMAIN t /\ t[i - 1] = q[i]
      BY <2>2, <1>2
    <3>2. \A j \in DOMAIN t : j > i - 1 => t[j].set # x
      <4> SUFFICES ASSUME NEW j \in DOMAIN t, j > i - 1 PROVE t[j].set # x
        OBVIOUS
      <4>1. j + 1 > i /\ j + 1 \in DOMAIN q /\ t[j] = q[j + 1]
        BY <1>2
      <4> QED
        BY <4>1, <1>3
    <3> QED
      BY <3>1, <3>2, <1>3 DEF LastAsked
  <2> QED
    BY <2>1, <2>2
<1>4. ASSUME \A i \in DOMAIN q : q[i].set # x, has = to
      PROVE  LastAsked(t, x, to, has2)
  <2>1. \A i \in DOMAIN t : t[i].set # x
    BY <1>2, <1>4
  <2>2. has2 = to
    BY <1>2, <1>4
  <2> QED
    BY <2>1, <2>2 DEF LastAsked
<1> QED
  BY <1>1, <1>3, <1>4 DEF LastAsked

-----------------------------------------------------------------------------
(* A hook at work.                                                         *)
LEMMA HookTypes ==
  ASSUME NEW h \in AtWork
  PROVE  /\ h.at \in {"idle", "start", "read", "send"}
         /\ h.at = "idle" <=> h = Idle
         /\ h.at = "read" => h \in Reading
         /\ h.at = "send" => h \in Sending
<1>1. CASE h = Idle
  BY <1>1 DEF Idle
<1>2. CASE h \in [at : {"start"}]
  BY <1>2 DEF Idle
<1>3. CASE h \in Reading
  BY <1>3 DEF Reading, Idle
<1>4. CASE h \in Sending
  BY <1>4 DEF Sending, Idle
<1> QED
  BY <1>1, <1>2, <1>3, <1>4 DEF AtWork

LEMMA StoreTypes ==
  ASSUME LiveTypeOK, StoreInv, NEW s \in Symbols
  PROVE  /\ store[s] \in Candles /\ late[s] \in SUBSET Nat
         /\ InPlace(store[s]) /\ AllOf(store[s], s) /\ InOrder(store[s], late[s])
BY DEF LiveTypeOK, StoreInv

LEMMA RecentType ==
  ASSUME LiveTypeOK, NEW y, NEW f
  PROVE  Recent(StoreOf(y, f)) \in Candles
<1>1. PICK st : st = StoreOf(y, f)
  OBVIOUS
<1>2. st \in Candles
  BY <1>1, NoCandles DEF StoreOf, LiveTypeOK
<1>3. Recent(st) \in Candles
  BY <1>2, RecentBars
<1> QED
  BY <1>1, <1>3

LEMMA RecentOf ==
  ASSUME LiveTypeOK, StoreInv, NEW y, NEW f, NEW s, y \in {NoSymbol, s}
  PROVE  AllOf(Recent(StoreOf(y, f)), s)
<1>1. PICK st : st = StoreOf(y, f)
  OBVIOUS
<1>2. st \in Candles /\ AllOf(st, s)
  <2>1. CASE y \in Symbols /\ f = Source
    BY <2>1, <1>1, SymbolsAssumption, StoreTypes DEF StoreOf
  <2>2. CASE ~ (y \in Symbols /\ f = Source)
    <3>1. st = NoBars
      BY <2>2, <1>1 DEF StoreOf
    <3> QED
      BY <3>1, NoCandles DEF AllOf
  <2> QED
    BY <2>1, <2>2
<1>3. PICK r : r = Recent(st)
  OBVIOUS
<1>4. \A t \in DOMAIN r : t \in DOMAIN st /\ r[t] = st[t]
  BY <1>2, <1>3, RecentBars
<1>5. AllOf(r, s)
  BY <1>2, <1>4 DEF AllOf
<1> QED
  BY <1>1, <1>3, <1>5

(* What is still to be broadcast is of the store.                          *)
LEMMA FeedTypes ==
  ASSUME LiveTypeOK, NEW s
  PROVE  ToCome(feed, s) \in Seq(ChartBars) /\ Len(ToCome(feed, s)) <= 1
<1>1. CASE feed = None
  BY <1>1, NoBar DEF ToCome, None
<1>2. ASSUME NEW b \in ChartBars, feed = <<b>> PROVE ToCome(feed, s) \in Seq(ChartBars) /\ Len(ToCome(feed, s)) <= 1
  <2>1. CASE ToCome(feed, s) = feed
    BY <2>1, <1>2, OneBar
  <2>2. CASE ToCome(feed, s) = << >>
    BY <2>2, NoBar
  <2> QED
    BY <2>1, <2>2 DEF ToCome
<1> QED
  BY <1>1, <1>2 DEF LiveTypeOK

LEMMA StoreFollows ==
  ASSUME LiveTypeOK, StoreInv, NEW s \in Symbols
  PROVE  Follows(Recent(store[s]), {}, ToCome(feed, s), store[s], late[s])
<1>1. store[s] \in Candles /\ InPlace(store[s]) /\ InOrder(store[s], late[s])
  BY StoreTypes
<1>2. PICK v : v = ToCome(feed, s)
  OBVIOUS
<1>3. v \in Seq(ChartBars)
  BY <1>2, FeedTypes
<1>4. v = << >> \/ \E b \in ChartBars : v = <<b>> /\ b.time \in DOMAIN store[s] /\ store[s][b.time] = b
  <2>1. CASE v = << >>
    BY <2>1
  <2>2. CASE v # << >>
    <3>1. feed # None /\ feed[1].of = s /\ v = feed
      BY <2>2, <1>2 DEF ToCome
    <3>2. PICK b \in ChartBars : feed = <<b>>
      BY <3>1 DEF LiveTypeOK
    <3>3. feed[1] = b
      BY <3>2
    <3> QED
      BY <3>1, <3>2, <3>3 DEF StoreInv
  <2> QED
    BY <2>1, <2>2
<1> QED
  BY <1>1, <1>2, <1>3, <1>4, RecentFollows

-----------------------------------------------------------------------------
LEMMA LiveInitInv == LiveInit => LiveInv
<1> SUFFICES ASSUME LiveInit PROVE LiveInv
  OBVIOUS
<1>1. PICK u \in Symbols : selected = [c \in ChartSettings |-> IF c = "symbol" THEN u ELSE Source]
  BY DEF LiveInit
<1>2. /\ selected \in [ChartSettings -> Symbols \cup Timeframes]
      /\ selected["symbol"] = u /\ selected["frame"] = Source
  BY <1>1 DEF ChartSettings, Timeframes
<1>3. /\ session \in [ChartSettings -> Symbols \cup {NoSymbol} \cup Timeframes]
      /\ session["symbol"] = NoSymbol /\ session["frame"] = Source
  BY DEF LiveInit, ChartSettings, Timeframes
<1>4. PICK a : a = [set |-> "symbol", to |-> selected["symbol"]]
  OBVIOUS
<1>5. PICK b : b = [set |-> "frame", to |-> selected["frame"]]
  OBVIOUS
<1>6. a \in Requests /\ b \in Requests /\ a.set = "symbol" /\ a.to = u /\ b.set = "frame" /\ b.to = Source
  BY <1>2, <1>4, <1>5 DEF Requests, Timeframes
<1>7. inbox = <<a, b>>
  BY <1>4, <1>5 DEF LiveInit
<1>8. inbox \in Seq(Requests) /\ DOMAIN inbox = {1, 2} /\ inbox[1] = a /\ inbox[2] = b
  BY <1>6, <1>7
<1>9. /\ hooks \in [Calls -> AtWork] /\ hooks["dispatch"] = Idle
      /\ hooks["connect"] = [at |-> "start"]
  BY DEF LiveInit, Calls, AtWork
<1>10. \A x \in Calls : hooks[x].at \notin {"read", "send"}
  BY <1>9 DEF Calls, Idle
<1>11. ASSUME NEW s \in Symbols
       PROVE  store[s] \in Candles /\ InPlace(store[s]) /\ AllOf(store[s], s) /\ InOrder(store[s], late[s])
  <2>1. store[s] = [t \in 1..InitialBars |-> [of |-> s, time |-> t, rev |-> 0]] /\ InitialBars \in Nat /\ late[s] = {}
    BY InitialBarsAssumption DEF LiveInit
  <2>2. \A t \in 1..InitialBars : [of |-> s, time |-> t, rev |-> 0] \in ChartBars
    BY <2>1 DEF ChartBars
  <2>3. store[s] \in [1..InitialBars -> ChartBars] /\ 1..InitialBars \in SUBSET Nat
    BY <2>1, <2>2
  <2>4. store[s] \in Candles
    BY <2>3, AreCandles
  <2>5. InPlace(store[s]) /\ AllOf(store[s], s)
    BY <2>1 DEF InPlace, AllOf
  <2>6. IsFiniteSet(1..InitialBars)
    BY <2>1, FS_Interval
  <2>7. DOMAIN store[s] # {} => Newest(store[s], InitialBars) /\ InitialBars \in DOMAIN store[s]
    BY <2>1 DEF Newest
  <2> QED
    BY <2>1, <2>4, <2>5, <2>6, <2>7 DEF InOrder
<1>12. store \in [Symbols -> Candles] /\ late \in [Symbols -> SUBSET Nat]
  BY <1>11 DEF LiveInit
<1>13. LiveTypeOK
  <2>1. feed = None /\ pushes \in Nat /\ asked \in Nat /\ whole \in BOOLEAN /\ crossed \in SUBSET ChartSettings
    BY DEF LiveInit
  <2>2. wire \in Seq(Sent) /\ chart \in Candles /\ dropped \in SUBSET Nat /\ view = selected
    BY EmptySeq, NoCandles DEF LiveInit
  <2>3. selected["symbol"] \in Symbols /\ selected["frame"] \in Timeframes /\ session["frame"] \in Timeframes
    BY <1>2, <1>3 DEF Timeframes
  <2> QED
    BY <2>1, <2>2, <2>3, <1>2, <1>3, <1>8, <1>9, <1>12 DEF LiveTypeOK
<1>14. StoreInv
  BY <1>11 DEF StoreInv, LiveInit, None
<1>15. SessionInv
  <2>1. LastAsked(inbox, "symbol", selected["symbol"], session["symbol"])
    BY <1>2, <1>6, <1>8 DEF LastAsked
  <2>2. LastAsked(inbox, "frame", selected["frame"], session["frame"])
    BY <1>2, <1>6, <1>8 DEF LastAsked
  <2> QED
    BY <2>1, <2>2, <1>10 DEF SessionInv, ChartSettings, Calls
<1>16. ConnectInv
  <2>1. \A c \in ChartSettings : session[c] \in {NoSymbol, selected[c]}
    BY <1>2, <1>3 DEF ChartSettings
  <2>2. \A c \in ChartSettings : \A i \in DOMAIN inbox : inbox[i].set = c => inbox[i].to = selected[c]
    BY <1>2, <1>6, <1>8
  <2> QED
    BY <2>1, <2>2, <1>10 DEF ConnectInv, Calls, SendsOf
<1>17. \A c \in ChartSettings : ~ NotAsked(inbox, c)
  BY <1>6, <1>8 DEF NotAsked, ChartSettings
<1>18. OfSymbolInv /\ ViewInv
  BY <1>10, <1>17 DEF OfSymbolInv, ViewInv, Calls, SendsOf, ChartSettings
<1>19. FreshInv
  BY <1>10 DEF FreshInv
<1>20. FollowInv
  <2>1. inbox # << >>
    BY <1>8
  <2> QED
    BY <2>1 DEF FollowInv, Quiet
<1> QED
  BY <1>13, <1>14, <1>15, <1>16, <1>18, <1>19, <1>20 DEF LiveInv

-----------------------------------------------------------------------------
LEMMA PushInOrder ==
  ASSUME NEW st \in Candles, NEW b \in ChartBars, NEW lt, InOrder(st, lt), NEW l2,
         b.time \in DOMAIN st \/ Newest(st, b.time) => l2 = lt,
         ~ (b.time \in DOMAIN st \/ Newest(st, b.time)) => l2 = lt \cup {b.time}
  PROVE  InOrder(With(b, st), l2)
<1>1. PICK D : D = DOMAIN st \cup {b.time}
  OBVIOUS
<1>2. PICK t \in Nat : t = b.time
  BY DEF ChartBars
<1>3. DOMAIN With(b, st) = D
  BY <1>1, WithBar
<1>4. \A u \in DOMAIN st : u \in Nat
  BY CandlesHave
<1>5. IsFiniteSet(D)
  BY <1>1, FS_AddElement DEF InOrder
<1>6. \E m \in D : \A u \in D : u <= m
  <2>1. CASE Newest(st, t)
    BY <2>1, <1>1, <1>2 DEF Newest
  <2>2. CASE ~ Newest(st, t)
    <3>1. PICK m \in DOMAIN st : \A u \in DOMAIN st : u <= m
      BY <2>2 DEF InOrder, Newest
    <3>2. t <= m
      BY <2>2, <3>1, <1>2, <1>4 DEF Newest
    <3> QED
      BY <3>1, <3>2, <1>1, <1>2
  <2> QED
    BY <2>1, <2>2
<1>7. ASSUME NEW x \in l2 PROVE \E u \in D : u > x
  <2>1. CASE x \in lt
    BY <2>1, <1>1 DEF InOrder
  <2>2. CASE x \notin lt
    <3>1. x = t /\ ~ Newest(st, t)
      BY <2>2, <1>2, <1>7
    <3> QED
      BY <3>1, <1>1, <1>2, <1>4 DEF Newest
  <2> QED
    BY <2>1, <2>2
<1> QED
  BY <1>3, <1>5, <1>6, <1>7 DEF InOrder, Newest

LEMMA PushLive ==
  ASSUME LiveInv, NEW s \in Symbols, NEW t \in 1..LastBar, PushBar(s, t)
  PROVE  LiveInv'
<1>1. LiveTypeOK /\ StoreInv
  BY DEF LiveInv
<1>2. PICK b : b = Revised(s, t)
  OBVIOUS
<1>3. PICK st : st = store[s]
  OBVIOUS
<1>4. PICK lt : lt = late[s]
  OBVIOUS
<1>5. st \in Candles /\ lt \in SUBSET Nat /\ InPlace(st) /\ AllOf(st, s) /\ InOrder(st, lt) /\ t \in Nat \ {0}
  BY <1>1, <1>3, <1>4, StoreTypes, InitialBarsAssumption
<1>6. b \in ChartBars /\ b.of = s /\ b.time = t
  <2>1. CASE t \notin DOMAIN st
    BY <2>1, <1>2, <1>3, <1>5 DEF Revised, ChartBars
  <2>2. CASE t \in DOMAIN st
    <3>1. st[t] \in ChartBars
      BY <2>2, <1>5, CandlesHave
    <3>2. st[t].rev + 1 \in Nat
      BY <3>1 DEF ChartBars
    <3>3. b = [of |-> s, time |-> t, rev |-> st[t].rev + 1]
      BY <2>2, <1>2, <1>3 DEF Revised
    <3> QED
      BY <3>2, <3>3, <1>5 DEF ChartBars
  <2> QED
    BY <2>1, <2>2
<1>7. PICK z : z = With(b, st)
  OBVIOUS
<1>8. PICK l2 : l2 = IF t \in DOMAIN st \/ Newest(st, t) THEN lt ELSE lt \cup {t}
  OBVIOUS
<1>9. /\ z \in Candles /\ DOMAIN z = DOMAIN st \cup {t} /\ z[t] = b
      /\ \A i \in DOMAIN st : i # t => z[i] = st[i]
  BY <1>5, <1>6, <1>7, WithBar
<1>10. /\ feed = None /\ feed' = <<b>> /\ store' = [store EXCEPT ![s] = z]
       /\ late' = [late EXCEPT ![s] = l2]
       /\ pushes' = pushes + 1
       /\ UNCHANGED <<session, inbox, hooks, wire, chart, view, selected, asked, whole, dropped, crossed>>
  <2>1. late' = [late EXCEPT ![s] = l2]
    <3>1. CASE t \in DOMAIN st \/ Newest(st, t)
      <4>1. late' = late /\ l2 = late[s]
        BY <3>1, <1>3, <1>4, <1>8 DEF PushBar
      <4> QED
        BY <4>1, <1>1 DEF LiveTypeOK
    <3>2. CASE ~ (t \in DOMAIN st \/ Newest(st, t))
      BY <3>2, <1>3, <1>4, <1>8 DEF PushBar
    <3> QED
      BY <3>1, <3>2
  <2> QED
    BY <2>1, <1>2, <1>3, <1>7 DEF PushBar, terminal
<1>11. /\ store'[s] = z /\ late'[s] = l2
       /\ \A u \in Symbols : u # s => store'[u] = store[u] /\ late'[u] = late[u]
  BY <1>1, <1>10 DEF LiveTypeOK
<1>12. feed' # None /\ feed'[1] = b
  BY <1>10 DEF None
<1>13. LiveTypeOK'
  <2>1. store' \in [Symbols -> Candles]
    BY <1>1, <1>9, <1>10 DEF LiveTypeOK
  <2>2. l2 \in SUBSET Nat
    BY <1>5, <1>8
  <2>3. late' \in [Symbols -> SUBSET Nat]
    BY <2>2, <1>1, <1>10 DEF LiveTypeOK
  <2>4. pushes' \in Nat
    BY <1>1, <1>10 DEF LiveTypeOK
  <2> QED
    BY <2>1, <2>3, <2>4, <1>1, <1>6, <1>10 DEF LiveTypeOK
<1>14. StoreInv'
  <2>1. InPlace(z)
    BY <1>5, <1>6, <1>9 DEF InPlace
  <2>2. AllOf(z, s)
    BY <1>5, <1>6, <1>9 DEF AllOf
  <2>3. InOrder(z, l2)
    BY <1>5, <1>6, <1>7, <1>8, PushInOrder
  <2>4. ASSUME NEW u \in Symbols
        PROVE  InPlace(store'[u]) /\ AllOf(store'[u], u) /\ InOrder(store'[u], late'[u])
    <3>1. CASE u = s
      BY <3>1, <2>1, <2>2, <2>3, <1>11
    <3>2. CASE u # s
      BY <3>2, <1>1, <1>11 DEF StoreInv
    <3> QED
      BY <3>1, <3>2
  <2>5. feed'[1].time \in DOMAIN store'[feed'[1].of] /\ store'[feed'[1].of][feed'[1].time] = feed'[1]
    BY <1>6, <1>9, <1>11, <1>12
  <2> QED
    BY <2>4, <2>5 DEF StoreInv
<1>15. SessionInv' /\ ConnectInv' /\ OfSymbolInv' /\ ViewInv'
  BY <1>10 DEF LiveInv, SessionInv, ConnectInv, OfSymbolInv, ViewInv
<1>16. \A u : ToCome(feed, u) = << >> /\ ToCome(feed', u) = IF u = s THEN <<b>> ELSE << >>
  BY <1>6, <1>10, <1>12 DEF ToCome
<1>17. lt \subseteq l2 /\ (b.time \in DOMAIN st \/ Newest(st, b.time) \/ b.time \in l2)
  BY <1>6, <1>8
<1>18. FreshInv'
  <2> SUFFICES ASSUME NEW x \in Calls, hooks'[x].at = "send", hooks'[x].symbol \in Symbols,
                      hooks'[x].frame = Source, hooks'[x].fresh
               PROVE  Follows(hooks'[x].bars, {}, ToCome(feed', hooks'[x].symbol),
                              store'[hooks'[x].symbol], late'[hooks'[x].symbol])
    BY DEF FreshInv
  <2>1. PICK h : h = hooks[x]
    OBVIOUS
  <2>2. h \in Sending /\ hooks'[x] = h
    BY <2>1, <1>1, <1>10, HookTypes DEF LiveTypeOK
  <2>3. h.bars \in Candles
    BY <2>2 DEF Sending
  <2>4. Follows(h.bars, {}, << >>, store[h.symbol], late[h.symbol])
    BY <2>1, <2>2, <1>16 DEF LiveInv, FreshInv
  <2>5. CASE h.symbol = s
    <3>1. Append(<< >>, b) = <<b>>
      OBVIOUS
    <3>2. Follows(h.bars, {}, << >>, st, lt)
      BY <2>4, <2>5, <1>3, <1>4
    <3>3. Follows(h.bars, {}, Append(<< >>, b), z, l2)
      BY <2>3, <3>2, <1>5, <1>6, <1>7, <1>17, NoBar, FollowsPush
    <3> QED
      BY <3>1, <3>3, <2>2, <2>5, <1>11, <1>16
  <2>6. CASE h.symbol # s
    BY <2>2, <2>4, <2>6, <1>11, <1>16
  <2> QED
    BY <2>5, <2>6
<1>19. FollowInv'
  <2> SUFFICES ASSUME Quiet', selected'["frame"] = Source
               PROVE  ChartFollows(selected'["symbol"], wire', chart', dropped', whole',
                                   ToCome(feed', selected'["symbol"]), store'[selected'["symbol"]],
                                   late'[selected'["symbol"]])
    BY DEF FollowInv
  <2>1. PICK u : u = selected["symbol"]
    OBVIOUS
  <2>2. u \in Symbols /\ selected'["symbol"] = u /\ selected["frame"] = Source /\ Quiet
    BY <2>1, <1>1, <1>10 DEF LiveTypeOK, Quiet
  <2>3. ChartFollows(u, wire, chart, dropped, whole, << >>, store[u], late[u])
    BY <2>1, <2>2, <1>16 DEF LiveInv, FollowInv
  <2>4. wire \in Seq(Sent) /\ chart \in Candles /\ whole \in BOOLEAN
    BY <1>1 DEF LiveTypeOK
  <2>5. CASE u = s
    <3>1. ChartFollows(s, wire, chart, dropped, whole, << >>, st, lt)
      BY <2>3, <2>5, <1>3, <1>4
    <3>2. ChartFollows(s, wire, chart, dropped, whole, <<b>>, z, l2)
      BY <2>4, <3>1, <1>5, <1>6, <1>7, <1>17, PushKeeps
    <3> QED
      BY <3>2, <2>2, <2>5, <1>10, <1>11, <1>16
  <2>6. CASE u # s
    BY <2>2, <2>3, <2>6, <1>10, <1>11, <1>16
  <2> QED
    BY <2>5, <2>6
<1> QED
  BY <1>13, <1>14, <1>15, <1>18, <1>19 DEF LiveInv

-----------------------------------------------------------------------------
LEMMA OvertakenHook ==
  ASSUME NEW h \in AtWork, NEW b
  PROVE  LET g == Overtaken(h, b)
         IN  /\ g \in AtWork /\ g.at = h.at
             /\ h.at # "send" => g = h
             /\ h.at = "send" => /\ g.symbol = h.symbol /\ g.frame = h.frame /\ g.bars = h.bars
                                 /\ g.fresh => h.fresh
                                 /\ g.fresh /\ h.symbol = b.of =>
                                      h.bars = Recent(StoreOf(h.symbol, h.frame))
<1>1. PICK g : g = Overtaken(h, b)
  OBVIOUS
<1>2. CASE h.at = "send" /\ h.symbol = b.of /\ h.bars # Recent(StoreOf(h.symbol, h.frame))
  <2>1. g = [h EXCEPT !.fresh = FALSE]
    BY <1>1, <1>2 DEF Overtaken
  <2>2. h \in Sending
    BY <1>2, HookTypes
  <2>3. g \in Sending /\ g.at = h.at
    BY <2>1, <2>2 DEF Sending
  <2>4. g.symbol = h.symbol /\ g.frame = h.frame /\ g.bars = h.bars /\ g.fresh = FALSE
    BY <2>1, <2>2 DEF Sending
  <2> QED
    BY <2>3, <2>4, <1>1, <1>2 DEF AtWork
<1>3. CASE ~ (h.at = "send" /\ h.symbol = b.of /\ h.bars # Recent(StoreOf(h.symbol, h.frame)))
  <2>1. g = h
    BY <1>1, <1>3 DEF Overtaken
  <2> QED
    BY <2>1, <1>1, <1>3
<1> QED
  BY <1>2, <1>3

LEMMA AskedNot ==
  ASSUME SessionInv, NEW c \in ChartSettings, NotAsked(inbox, c)
  PROVE  session[c] = selected[c]
  BY DEF SessionInv, NotAsked, LastAsked

LEMMA BroadcastLive ==
  ASSUME LiveInv, Broadcast
  PROVE  LiveInv'
<1>1. LiveTypeOK /\ StoreInv /\ SessionInv
  BY DEF LiveInv
<1>2. PICK b \in ChartBars : feed = <<b>>
  BY <1>1 DEF LiveTypeOK, Broadcast
<1>3. feed[1] = b /\ feed # None
  BY <1>2 DEF None
<1>4. PICK m : m = [type |-> "bar", bar |-> b]
  OBVIOUS
<1>5. m \in Sent /\ m.type = "bar" /\ m.bar = b
  BY <1>4 DEF Sent
<1>6. /\ wire' = IF session["symbol"] = b.of THEN Append(wire, m) ELSE wire
      /\ hooks' = [x \in Calls |-> Overtaken(hooks[x], b)]
      /\ feed' = None
      /\ UNCHANGED <<store, late, pushes, session, inbox, chart, view, selected, asked, whole, dropped, crossed>>
  BY <1>3, <1>4 DEF Broadcast, terminal
<1>7. ASSUME NEW x \in Calls
      PROVE  /\ hooks[x] \in AtWork /\ hooks'[x] \in AtWork /\ hooks'[x].at = hooks[x].at
             /\ hooks[x].at # "send" => hooks'[x] = hooks[x]
             /\ hooks[x].at = "send" =>
                  /\ hooks'[x].symbol = hooks[x].symbol /\ hooks'[x].frame = hooks[x].frame
                  /\ hooks'[x].bars = hooks[x].bars
                  /\ hooks'[x].fresh => hooks[x].fresh
                  /\ hooks'[x].fresh /\ hooks[x].symbol = b.of =>
                       hooks[x].bars = Recent(StoreOf(hooks[x].symbol, hooks[x].frame))
  <2>1. hooks[x] \in AtWork
    BY <1>1 DEF LiveTypeOK
  <2>2. PICK h : h = hooks[x]
    OBVIOUS
  <2>3. PICK g : g = Overtaken(h, b)
    OBVIOUS
  <2>4. hooks'[x] = g
    BY <2>2, <2>3, <1>6
  <2>5. h \in AtWork
    BY <2>1, <2>2
  <2>6. /\ g \in AtWork /\ g.at = h.at
        /\ h.at # "send" => g = h
        /\ h.at = "send" => /\ g.symbol = h.symbol /\ g.frame = h.frame /\ g.bars = h.bars
                            /\ g.fresh => h.fresh
                            /\ g.fresh /\ h.symbol = b.of =>
                                 h.bars = Recent(StoreOf(h.symbol, h.frame))
    BY <2>3, <2>5, OvertakenHook
  <2> QED
    BY <2>2, <2>4, <2>5, <2>6
<1>21. ASSUME NEW x \in Calls, NEW c \in ChartSettings, hooks'[x].at \in {"read", "send"}
       PROVE  hooks'[x][c] = hooks[x][c]
  <2>1. CASE hooks[x].at # "send"
    BY <2>1, <1>7
  <2>2. CASE hooks[x].at = "send"
    BY <2>2, <1>7 DEF ChartSettings
  <2> QED
    BY <2>1, <2>2
<1>8. ASSUME NEW x \in Calls PROVE hooks'[x] = Idle <=> hooks[x] = Idle
  BY <1>7, HookTypes
<1>9. hooks' \in [Calls -> AtWork]
  BY <1>6, <1>7
<1>10. wire \in Seq(Sent) /\ Append(wire, m) \in Seq(Sent)
  BY <1>1, <1>5, AppendedMessage DEF LiveTypeOK
<1>11. LiveTypeOK'
  <2>1. wire' \in Seq(Sent)
    BY <1>6, <1>10
  <2> QED
    BY <2>1, <1>1, <1>6, <1>9 DEF LiveTypeOK
<1>12. StoreInv'
  BY <1>1, <1>6 DEF StoreInv
<1>13. SessionInv'
  <2>1. "dispatch" \in Calls
    BY DEF Calls
  <2>2. hooks'["dispatch"].at \in {"read", "send"} =>
          \A c \in ChartSettings : hooks'["dispatch"][c] = session[c]
    <3>1. SUFFICES ASSUME hooks'["dispatch"].at \in {"read", "send"}, NEW c \in ChartSettings
                   PROVE  hooks'["dispatch"][c] = session[c]
      OBVIOUS
    <3>2. hooks["dispatch"][c] = session[c]
      BY <2>1, <3>1, <1>1, <1>7 DEF SessionInv
    <3> QED
      BY <2>1, <3>1, <3>2, <1>21
  <2> QED
    BY <2>2, <1>1, <1>6 DEF SessionInv
<1>14. ConnectInv'
  <2>1. "connect" \in Calls
    BY DEF Calls
  <2>2. SUFFICES ASSUME hooks'["connect"] # Idle
        PROVE  /\ \A c \in ChartSettings \ crossed :
                    /\ session[c] \in {NoSymbol, selected[c]}
                    /\ \A i \in DOMAIN inbox : inbox[i].set = c => inbox[i].to = selected[c]
                    /\ hooks'["connect"].at \in {"read", "send"} =>
                         hooks'["connect"][c] \in {NoSymbol, selected[c]}
               /\ "symbol" \notin crossed => SendsOf(hooks'["connect"], selected["symbol"])
    BY <1>6 DEF ConnectInv
  <2>3. hooks["connect"] # Idle
    BY <2>1, <2>2, <1>8
  <2>4. /\ \A c \in ChartSettings \ crossed :
              /\ session[c] \in {NoSymbol, selected[c]}
              /\ \A i \in DOMAIN inbox : inbox[i].set = c => inbox[i].to = selected[c]
              /\ hooks["connect"].at \in {"read", "send"} =>
                   hooks["connect"][c] \in {NoSymbol, selected[c]}
        /\ "symbol" \notin crossed => SendsOf(hooks["connect"], selected["symbol"])
    BY <2>3 DEF LiveInv, ConnectInv
  <2>5. "symbol" \notin crossed => SendsOf(hooks'["connect"], selected["symbol"])
    BY <2>1, <2>4, <1>7 DEF SendsOf
  <2>6. ASSUME NEW c \in ChartSettings \ crossed, hooks'["connect"].at \in {"read", "send"}
        PROVE  hooks'["connect"][c] \in {NoSymbol, selected[c]}
    <3>1. hooks["connect"].at \in {"read", "send"}
      BY <2>1, <2>6, <1>7
    <3>2. hooks'["connect"][c] = hooks["connect"][c]
      BY <2>1, <2>6, <1>21
    <3> QED
      BY <3>1, <3>2, <2>4
  <2> QED
    BY <2>4, <2>5, <2>6
<1>15. OfSymbolInv'
  <2>1. "dispatch" \in Calls /\ "symbol" \in ChartSettings
    BY DEF Calls, ChartSettings
  <2>2. SendsOf(hooks'["dispatch"], session["symbol"])
    BY <2>1, <1>7 DEF LiveInv, OfSymbolInv, SendsOf
  <2>3. ASSUME "symbol" \notin crossed', NotAsked(inbox', "symbol"), hooks'["dispatch"] = Idle
        PROVE  OnTheWay(wire', chart', selected'["symbol"])
    <3>1. NotAsked(inbox, "symbol") /\ hooks["dispatch"] = Idle /\ "symbol" \notin crossed
      BY <2>1, <2>3, <1>6, <1>8
    <3>2. OnTheWay(wire, chart, selected["symbol"])
      BY <3>1 DEF LiveInv, OfSymbolInv
    <3>3. CASE session["symbol"] = b.of
      <4>1. IsOf(m, selected["symbol"])
        BY <2>1, <3>1, <3>3, <1>1, <1>5, AskedNot DEF IsOf
      <4>2. OnTheWay(Append(wire, m), chart, selected["symbol"])
        BY <3>2, <4>1, <1>5, <1>10, SentOfSymbol
      <4> QED
        BY <4>2, <3>3, <1>6
    <3>4. CASE session["symbol"] # b.of
      BY <3>2, <3>4, <1>6
    <3> QED
      BY <3>3, <3>4
  <2> QED
    BY <2>2, <2>3, <1>6 DEF OfSymbolInv
<1>22. ViewInv'
  <2> SUFFICES ASSUME NEW c \in ChartSettings, c \notin crossed', NotAsked(inbox', c),
                      hooks'["dispatch"] = Idle
               PROVE  ComesToSay(wire', c, view'[c], selected'[c])
    BY DEF ViewInv
  <2>1. "dispatch" \in Calls
    BY DEF Calls
  <2>2. NotAsked(inbox, c) /\ hooks["dispatch"] = Idle /\ c \notin crossed
    BY <2>1, <1>6, <1>8
  <2>3. ComesToSay(wire, c, view[c], selected[c])
    BY <2>2 DEF LiveInv, ViewInv
  <2>4. SaysOr(m, c, selected[c])
    BY <1>5 DEF SaysOr
  <2>5. ComesToSay(Append(wire, m), c, view[c], selected[c])
    BY <2>3, <2>4, <1>5, <1>10, SentSays
  <2> QED
    BY <2>3, <2>5, <1>6
<1>16. \A u : ToCome(feed', u) = << >> /\ ToCome(feed, u) = IF u = b.of THEN <<b>> ELSE << >>
  BY <1>2, <1>3, <1>6 DEF ToCome
<1>17. FreshInv'
  <2> SUFFICES ASSUME NEW x \in Calls, hooks'[x].at = "send", hooks'[x].symbol \in Symbols,
                      hooks'[x].frame = Source, hooks'[x].fresh
               PROVE  Follows(hooks'[x].bars, {}, ToCome(feed', hooks'[x].symbol),
                              store'[hooks'[x].symbol], late'[hooks'[x].symbol])
    BY DEF FreshInv
  <2>1. PICK h : h = hooks[x]
    OBVIOUS
  <2>2. /\ h.at = "send" /\ h.symbol = hooks'[x].symbol /\ h.frame = Source /\ h.symbol \in Symbols
        /\ hooks'[x].bars = h.bars /\ h.fresh
        /\ h.symbol = b.of => h.bars = Recent(StoreOf(h.symbol, h.frame))
    BY <2>1, <1>7
  <2>3. Follows(h.bars, {}, << >>, store[h.symbol], late[h.symbol])
    <3>1. CASE h.symbol = b.of
      <4>1. h.bars = Recent(store[h.symbol])
        BY <2>2, <3>1 DEF StoreOf
      <4>2. /\ store[h.symbol] \in Candles /\ InPlace(store[h.symbol])
            /\ InOrder(store[h.symbol], late[h.symbol])
        BY <2>2, <1>1, StoreTypes
      <4> QED
        BY <4>1, <4>2, NoBar, RecentFollows
    <3>2. CASE h.symbol # b.of
      BY <2>1, <2>2, <3>2, <1>16 DEF LiveInv, FreshInv
    <3> QED
      BY <3>1, <3>2
  <2> QED
    BY <2>2, <2>3, <1>6, <1>16
<1>18. FollowInv'
  <2> SUFFICES ASSUME Quiet', selected'["frame"] = Source
               PROVE  ChartFollows(selected'["symbol"], wire', chart', dropped', whole',
                                   ToCome(feed', selected'["symbol"]), store'[selected'["symbol"]],
                                   late'[selected'["symbol"]])
    BY DEF FollowInv
  <2>1. PICK u : u = selected["symbol"]
    OBVIOUS
  <2>2. u \in Symbols /\ selected'["symbol"] = u /\ selected["frame"] = Source
    BY <2>1, <1>1, <1>6 DEF LiveTypeOK
  <2>3. Quiet
    BY <1>6, <1>8 DEF Quiet
  <2>4. session["symbol"] = u
    <3>1. NotAsked(inbox, "symbol") /\ "symbol" \in ChartSettings
      BY <2>3 DEF Quiet, NotAsked, ChartSettings
    <3> QED
      BY <3>1, <2>1, <1>1, AskedNot
  <2>5. ChartFollows(u, wire, chart, dropped, whole, ToCome(feed, u), store[u], late[u])
    BY <2>1, <2>2, <2>3 DEF LiveInv, FollowInv
  <2>6. whole \in BOOLEAN
    BY <1>1 DEF LiveTypeOK
  <2>7. CASE u = b.of
    <3>1. ChartFollows(u, wire, chart, dropped, whole, <<b>>, store[u], late[u])
      BY <2>5, <2>7, <1>16
    <3>2. ChartFollows(u, Append(wire, m), chart, dropped, whole, << >>, store[u], late[u])
      BY <3>1, <2>6, <1>4, <1>10, BroadcastKeeps
    <3> QED
      BY <3>2, <2>2, <2>4, <2>7, <1>6, <1>16
  <2>8. CASE u # b.of
    BY <2>2, <2>4, <2>5, <2>8, <1>6, <1>16
  <2> QED
    BY <2>7, <2>8
<1> QED
  BY <1>11, <1>12, <1>13, <1>14, <1>15, <1>17, <1>18, <1>22 DEF LiveInv

LEMMA DispatchLive ==
  ASSUME LiveInv, Dispatch
  PROVE  LiveInv'
<1>1. LiveTypeOK /\ StoreInv /\ SessionInv
  BY DEF LiveInv
<1>2. inbox \in Seq(Requests) /\ inbox # << >> /\ hooks["dispatch"] = Idle
  BY <1>1 DEF LiveTypeOK, Dispatch
<1>3. PICK q : q = inbox
  OBVIOUS
<1>4. PICK r : r = q[1]
  OBVIOUS
<1>5. /\ Head(q) = r /\ r \in Requests /\ Tail(q) \in Seq(Requests)
      /\ DOMAIN q = 1..Len(q) /\ Len(q) \in Nat /\ 1 \in DOMAIN q
      /\ \A i \in DOMAIN Tail(q) : i + 1 \in DOMAIN q /\ Tail(q)[i] = q[i + 1] /\ i \in Nat \ {0}
  BY <1>2, <1>3, <1>4, FrontRequest
<1>6. /\ inbox' = Tail(q)
      /\ session' = [session EXCEPT ![r.set] = r.to]
      /\ hooks' = [hooks EXCEPT !["dispatch"] = [at |-> "start"]]
      /\ UNCHANGED <<store, late, feed, pushes, wire, chart, view, selected, asked, whole, dropped, crossed>>
  BY <1>3, <1>5 DEF Dispatch, market, terminal
<1>7. /\ r.set \in ChartSettings
      /\ r.set = "symbol" => r.to \in Symbols
      /\ r.set = "frame" => r.to \in Timeframes
  BY <1>5 DEF Requests, ChartSettings
<1>8. \A c \in ChartSettings : session'[c] = IF c = r.set THEN r.to ELSE session[c]
  BY <1>1, <1>6 DEF LiveTypeOK
<1>9. /\ hooks'["dispatch"] = [at |-> "start"] /\ hooks'["connect"] = hooks["connect"]
      /\ hooks' \in [Calls -> AtWork]
  BY <1>1, <1>6 DEF LiveTypeOK, Calls, AtWork
<1>10. hooks'["dispatch"].at = "start" /\ hooks'["dispatch"] # Idle
  BY <1>9 DEF Idle
<1>11. LiveTypeOK'
  <2>1. session' \in [ChartSettings -> Symbols \cup {NoSymbol} \cup Timeframes]
    BY <1>1, <1>6, <1>7 DEF LiveTypeOK, ChartSettings
  <2>2. session'["symbol"] \in Symbols \cup {NoSymbol} /\ session'["frame"] \in Timeframes
    BY <1>1, <1>7, <1>8 DEF LiveTypeOK, ChartSettings
  <2>3. inbox' \in Seq(Requests)
    BY <1>5, <1>6
  <2> QED
    BY <2>1, <2>2, <2>3, <1>1, <1>6, <1>9 DEF LiveTypeOK
<1>12. StoreInv'
  BY <1>1, <1>6 DEF StoreInv
<1>13. SessionInv'
  <2>1. ASSUME NEW c \in ChartSettings PROVE LastAsked(inbox', c, selected'[c], session'[c])
    <3>1. LastAsked(q, c, selected[c], session[c])
      BY <1>1, <1>3 DEF SessionInv
    <3>2. /\ c = q[1].set => session'[c] = q[1].to
          /\ c # q[1].set => session'[c] = session[c]
      BY <1>4, <1>8
    <3>3. LastAsked(Tail(q), c, selected[c], session'[c])
      BY <3>1, <3>2, <1>2, <1>3, AskedNoted
    <3> QED
      BY <3>3, <1>6
  <2> QED
    BY <2>1, <1>10 DEF SessionInv
<1>14. ConnectInv'
  <2>1. SUFFICES ASSUME hooks["connect"] # Idle
        PROVE  /\ \A c \in ChartSettings \ crossed :
                    /\ session'[c] \in {NoSymbol, selected[c]}
                    /\ \A i \in DOMAIN inbox' : inbox'[i].set = c => inbox'[i].to = selected[c]
                    /\ hooks["connect"].at \in {"read", "send"} =>
                         hooks["connect"][c] \in {NoSymbol, selected[c]}
               /\ "symbol" \notin crossed => SendsOf(hooks["connect"], selected["symbol"])
    BY <1>6, <1>9 DEF ConnectInv
  <2>2. /\ \A c \in ChartSettings \ crossed :
              /\ session[c] \in {NoSymbol, selected[c]}
              /\ \A i \in DOMAIN q : q[i].set = c => q[i].to = selected[c]
              /\ hooks["connect"].at \in {"read", "send"} =>
                   hooks["connect"][c] \in {NoSymbol, selected[c]}
        /\ "symbol" \notin crossed => SendsOf(hooks["connect"], selected["symbol"])
    BY <2>1, <1>3 DEF LiveInv, ConnectInv
  <2>3. \A c \in ChartSettings \ crossed : session'[c] \in {NoSymbol, selected[c]}
    BY <2>2, <1>4, <1>5, <1>8
  <2>4. \A c \in ChartSettings \ crossed :
          \A i \in DOMAIN inbox' : inbox'[i].set = c => inbox'[i].to = selected[c]
    BY <2>2, <1>5, <1>6
  <2> QED
    BY <2>2, <2>3, <2>4
<1>15. OfSymbolInv' /\ ViewInv'
  BY <1>10 DEF OfSymbolInv, ViewInv, SendsOf
<1>16. FreshInv'
  <2> SUFFICES ASSUME NEW x \in Calls, hooks'[x].at = "send", hooks'[x].symbol \in Symbols,
                      hooks'[x].frame = Source, hooks'[x].fresh
               PROVE  Follows(hooks'[x].bars, {}, ToCome(feed', hooks'[x].symbol),
                              store'[hooks'[x].symbol], late'[hooks'[x].symbol])
    BY DEF FreshInv
  <2>1. x = "connect"
    BY <1>10 DEF Calls
  <2>2. hooks'[x] = hooks[x]
    BY <2>1, <1>9
  <2> QED
    BY <2>2, <1>6 DEF LiveInv, FreshInv
<1>17. FollowInv'
  <2>1. ~ Quiet'
    BY <1>10 DEF Quiet, Calls
  <2> QED
    BY <2>1 DEF FollowInv
<1> QED
  BY <1>11, <1>12, <1>13, <1>14, <1>15, <1>16, <1>17 DEF LiveInv

-----------------------------------------------------------------------------
(* A hook that goes on.  What it does to itself is of account only.        *)
LEMMA HookLive ==
  ASSUME LiveInv, NEW x \in Calls, NEW g \in AtWork, hooks[x] # Idle, g.at \in {"read", "send"},
         hooks' = [hooks EXCEPT ![x] = g],
         UNCHANGED <<market, session, inbox, wire, terminal>>,
         x = "dispatch" => \A c \in ChartSettings : g[c] = session[c],
         x = "connect" => \A c \in ChartSettings \ crossed : g[c] \in {NoSymbol, selected[c]},
         \A s : g.at = "send" /\ g["symbol"] \in {NoSymbol, s} => AllOf(g.bars, s),
         g.at = "send" /\ g.symbol \in Symbols /\ g.frame = Source =>
           Follows(g.bars, {}, ToCome(feed, g.symbol), store[g.symbol], late[g.symbol])
  PROVE  LiveInv'
<1>1. LiveTypeOK /\ StoreInv /\ SessionInv
  BY DEF LiveInv
<1>2. UNCHANGED <<store, late, feed, pushes, session, inbox, wire, chart, view, selected, asked, whole, dropped, crossed>>
  BY DEF terminal, market
<1>3. /\ hooks' \in [Calls -> AtWork] /\ hooks'[x] = g /\ g # Idle
      /\ \A y \in Calls : y # x => hooks'[y] = hooks[y]
  BY <1>1 DEF LiveTypeOK, Idle
<1>4. "dispatch" \in Calls /\ "connect" \in Calls /\ "symbol" \in ChartSettings
  BY DEF Calls, ChartSettings
<1>5. LiveTypeOK'
  BY <1>1, <1>2, <1>3 DEF LiveTypeOK
<1>6. StoreInv'
  BY <1>1, <1>2 DEF StoreInv
<1>7. SessionInv'
  <2>1. hooks'["dispatch"].at \in {"read", "send"} =>
          \A c \in ChartSettings : hooks'["dispatch"][c] = session[c]
    BY <1>1, <1>3, <1>4 DEF SessionInv
  <2> QED
    BY <2>1, <1>1, <1>2 DEF SessionInv
<1>8. ConnectInv'
  <2>1. SUFFICES ASSUME hooks'["connect"] # Idle
        PROVE  /\ \A c \in ChartSettings \ crossed :
                    /\ session[c] \in {NoSymbol, selected[c]}
                    /\ \A i \in DOMAIN inbox : inbox[i].set = c => inbox[i].to = selected[c]
                    /\ hooks'["connect"].at \in {"read", "send"} =>
                         hooks'["connect"][c] \in {NoSymbol, selected[c]}
               /\ "symbol" \notin crossed => SendsOf(hooks'["connect"], selected["symbol"])
    BY <1>2 DEF ConnectInv
  <2>2. hooks["connect"] # Idle
    BY <2>1, <1>3, <1>4
  <2>3. /\ \A c \in ChartSettings \ crossed :
             /\ session[c] \in {NoSymbol, selected[c]}
             /\ \A i \in DOMAIN inbox : inbox[i].set = c => inbox[i].to = selected[c]
             /\ hooks["connect"].at \in {"read", "send"} =>
                  hooks["connect"][c] \in {NoSymbol, selected[c]}
        /\ "symbol" \notin crossed => SendsOf(hooks["connect"], selected["symbol"])
    BY <2>1, <2>2 DEF LiveInv, ConnectInv
  <2>4. CASE x = "connect"
    <3>1. \A c \in ChartSettings \ crossed : g[c] \in {NoSymbol, selected[c]}
      BY <2>4
    <3>2. "symbol" \notin crossed => SendsOf(g, selected["symbol"])
      BY <3>1, <1>4 DEF SendsOf
    <3> QED
      BY <3>1, <3>2, <2>3, <2>4, <1>3
  <2>5. CASE x # "connect"
    BY <2>3, <2>5, <1>3, <1>4
  <2> QED
    BY <2>4, <2>5
<1>9. OfSymbolInv' /\ ViewInv'
  <2>1. CASE x = "dispatch"
    <3>1. SendsOf(g, session["symbol"])
      BY <2>1, <1>4 DEF SendsOf
    <3> QED
      BY <3>1, <2>1, <1>2, <1>3 DEF OfSymbolInv, ViewInv
  <2>2. CASE x # "dispatch"
    <3>1. hooks'["dispatch"] = hooks["dispatch"]
      BY <2>2, <1>3, <1>4
    <3> QED
      BY <3>1, <1>2 DEF LiveInv, OfSymbolInv, ViewInv
  <2> QED
    BY <2>1, <2>2
<1>10. FreshInv'
  <2> SUFFICES ASSUME NEW y \in Calls, hooks'[y].at = "send", hooks'[y].symbol \in Symbols,
                      hooks'[y].frame = Source, hooks'[y].fresh
               PROVE  Follows(hooks'[y].bars, {}, ToCome(feed', hooks'[y].symbol),
                              store'[hooks'[y].symbol], late'[hooks'[y].symbol])
    BY DEF FreshInv
  <2>1. CASE y = x
    BY <2>1, <1>2, <1>3
  <2>2. CASE y # x
    <3>1. hooks'[y] = hooks[y]
      BY <2>2, <1>3
    <3> QED
      BY <3>1, <1>2 DEF LiveInv, FreshInv
  <2> QED
    BY <2>1, <2>2
<1>11. FollowInv'
  <2>1. ~ Quiet'
    BY <1>3 DEF Quiet
  <2> QED
    BY <2>1 DEF FollowInv
<1> QED
  BY <1>5, <1>6, <1>7, <1>8, <1>9, <1>10, <1>11 DEF LiveInv

LEMMA HookStartsLive ==
  ASSUME LiveInv, NEW x \in Calls, HookStarts(x)
  PROVE  LiveInv'
<1>1. LiveTypeOK
  BY DEF LiveInv
<1>2. PICK g : g = [at |-> "read", symbol |-> session["symbol"], frame |-> session["frame"]]
  OBVIOUS
<1>3. /\ hooks[x].at = "start" /\ hooks' = [hooks EXCEPT ![x] = g]
      /\ UNCHANGED <<market, session, inbox, wire, terminal>>
  BY <1>2 DEF HookStarts
<1>4. g \in AtWork /\ g.at = "read" /\ g.symbol = session["symbol"] /\ g.frame = session["frame"]
  BY <1>1, <1>2 DEF LiveTypeOK, AtWork, Reading
<1>5. hooks[x] # Idle
  BY <1>3 DEF Idle
<1>6. \A c \in ChartSettings : g[c] = session[c]
  BY <1>4 DEF ChartSettings
<1>7. x = "connect" => \A c \in ChartSettings \ crossed : g[c] \in {NoSymbol, selected[c]}
  BY <1>5, <1>6 DEF LiveInv, ConnectInv
<1> QED
  BY <1>3, <1>4, <1>5, <1>6, <1>7, HookLive

LEMMA HookReadsLive ==
  ASSUME LiveInv, NEW x \in Calls, HookReads(x)
  PROVE  LiveInv'
<1>1. LiveTypeOK /\ StoreInv
  BY DEF LiveInv
<1>2. PICK h : h = hooks[x]
  OBVIOUS
<1>3. PICK g : g = [at |-> "send", symbol |-> h.symbol, frame |-> h.frame,
                    bars |-> Recent(StoreOf(h.symbol, h.frame)), fresh |-> TRUE]
  OBVIOUS
<1>4. /\ h.at = "read" /\ hooks' = [hooks EXCEPT ![x] = g]
      /\ UNCHANGED <<market, session, inbox, wire, terminal>>
  BY <1>2, <1>3 DEF HookReads
<1>5. h \in Reading /\ h # Idle
  BY <1>1, <1>2, <1>4, HookTypes DEF LiveTypeOK, Idle
<1>6. h.symbol \in Symbols \cup {NoSymbol} /\ h.frame \in Timeframes
  BY <1>5 DEF Reading
<1>7. /\ g.at = "send" /\ g.symbol = h.symbol /\ g.frame = h.frame
      /\ g.bars = Recent(StoreOf(h.symbol, h.frame))
  BY <1>3
<1>8. Recent(StoreOf(h.symbol, h.frame)) \in Candles
  BY <1>1, RecentType
<1>9. g \in AtWork
  BY <1>3, <1>6, <1>8 DEF AtWork, Sending
<1>10. ASSUME NEW s, g.symbol \in {NoSymbol, s} PROVE AllOf(g.bars, s)
  BY <1>1, <1>6, <1>7, <1>10, RecentOf
<1>11. ASSUME g.symbol \in Symbols, g.frame = Source
       PROVE  Follows(g.bars, {}, ToCome(feed, g.symbol), store[g.symbol], late[g.symbol])
  <2>1. g.bars = Recent(store[g.symbol])
    BY <1>7, <1>11 DEF StoreOf
  <2> QED
    BY <2>1, <1>1, <1>11, StoreFollows
<1>12. \A c \in ChartSettings : g[c] = h[c]
  BY <1>7 DEF ChartSettings
<1>13. /\ x = "dispatch" => \A c \in ChartSettings : g[c] = session[c]
       /\ x = "connect" => \A c \in ChartSettings \ crossed : g[c] \in {NoSymbol, selected[c]}
  BY <1>2, <1>4, <1>5, <1>12 DEF LiveInv, SessionInv, ConnectInv
<1>14. hooks[x] # Idle /\ g.at \in {"read", "send"}
  BY <1>2, <1>5, <1>7
<1>15. \A s : g.at = "send" /\ g["symbol"] \in {NoSymbol, s} => AllOf(g.bars, s)
  BY <1>10
<1>16. g.at = "send" /\ g.symbol \in Symbols /\ g.frame = Source =>
         Follows(g.bars, {}, ToCome(feed, g.symbol), store[g.symbol], late[g.symbol])
  BY <1>11
<1> QED
  BY <1>4, <1>9, <1>13, <1>14, <1>15, <1>16, HookLive

LEMMA HookSendsLive ==
  ASSUME LiveInv, NEW x \in Calls, HookSends(x)
  PROVE  LiveInv'
<1>1. LiveTypeOK /\ StoreInv /\ SessionInv
  BY DEF LiveInv
<1>2. PICK h : h = hooks[x]
  OBVIOUS
<1>3. PICK m : m = [type |-> "snapshot", symbol |-> h.symbol, frame |-> h.frame,
                    bars |-> h.bars, fresh |-> h.fresh]
  OBVIOUS
<1>4. /\ h.at = "send" /\ wire' = Append(wire, m) /\ hooks' = [hooks EXCEPT ![x] = Idle]
      /\ UNCHANGED <<store, late, feed, pushes, session, inbox, chart, view, selected, asked, whole, dropped, crossed>>
  BY <1>2, <1>3 DEF HookSends, market, terminal
<1>5. h \in Sending /\ h # Idle
  BY <1>1, <1>2, <1>4, HookTypes DEF LiveTypeOK, Idle
<1>6. m \in Snapshots /\ m.symbol = h.symbol /\ m.frame = h.frame /\ m.bars = h.bars /\ m.fresh = h.fresh
  BY <1>3, <1>5 DEF Sending, Snapshots
<1>7. m \in Sent /\ m.type = "snapshot"
  BY <1>6 DEF Sent, Snapshots
<1>8. /\ hooks' \in [Calls -> AtWork] /\ hooks'[x] = Idle
      /\ \A y \in Calls : y # x => hooks'[y] = hooks[y]
  BY <1>1, <1>4 DEF LiveTypeOK, AtWork
<1>9. /\ "dispatch" \in Calls /\ "connect" \in Calls /\ Idle.at = "idle"
      /\ "symbol" \in ChartSettings
  BY DEF Calls, Idle, ChartSettings
<1>10. wire \in Seq(Sent)
  BY <1>1 DEF LiveTypeOK
<1>11. LiveTypeOK'
  <2>1. wire' \in Seq(Sent)
    BY <1>4, <1>7, <1>10, AppendedMessage
  <2> QED
    BY <2>1, <1>1, <1>4, <1>8 DEF LiveTypeOK
<1>12. StoreInv'
  BY <1>1, <1>4 DEF StoreInv
<1>13. SessionInv'
  <2>1. hooks'["dispatch"].at \in {"read", "send"} =>
          \A c \in ChartSettings : hooks'["dispatch"][c] = session[c]
    BY <1>1, <1>8, <1>9 DEF SessionInv
  <2> QED
    BY <2>1, <1>1, <1>4 DEF SessionInv
<1>14. ConnectInv'
  <2>1. SUFFICES ASSUME hooks'["connect"] # Idle PROVE ConnectInv'
    BY DEF ConnectInv
  <2>2. hooks'["connect"] = hooks["connect"]
    BY <2>1, <1>8, <1>9
  <2> QED
    BY <2>2, <1>4 DEF LiveInv, ConnectInv
<1>15. OfSymbolInv'
  <2>1. SendsOf(hooks'["dispatch"], session["symbol"])
    BY <1>8, <1>9 DEF LiveInv, OfSymbolInv, SendsOf
  <2>2. ASSUME "symbol" \notin crossed', NotAsked(inbox', "symbol"), hooks'["dispatch"] = Idle
        PROVE  OnTheWay(wire', chart', selected'["symbol"])
    <3>0. "symbol" \notin crossed /\ NotAsked(inbox, "symbol") /\ session["symbol"] = selected["symbol"]
      BY <2>2, <1>1, <1>4, <1>9, AskedNot
    <3>1. CASE x = "dispatch"
      <4>1. AllOf(m.bars, selected["symbol"])
        BY <3>0, <3>1, <1>2, <1>4, <1>6 DEF LiveInv, OfSymbolInv, SendsOf
      <4>2. OnTheWay(Append(wire, m), chart, selected["symbol"])
        BY <4>1, <1>6, <1>10, SnapshotOfSymbol
      <4> QED
        BY <4>2, <1>4
    <3>2. CASE x # "dispatch"
      <4>1. x = "connect" /\ hooks["dispatch"] = Idle
        BY <3>2, <2>2, <1>8, <1>9 DEF Calls
      <4>2. OnTheWay(wire, chart, selected["symbol"])
        BY <3>0, <4>1 DEF LiveInv, OfSymbolInv
      <4>3. AllOf(m.bars, selected["symbol"])
        BY <3>0, <4>1, <1>2, <1>4, <1>5, <1>6 DEF LiveInv, ConnectInv, SendsOf
      <4>4. IsOf(m, selected["symbol"])
        BY <4>3, <1>7 DEF IsOf
      <4>5. OnTheWay(Append(wire, m), chart, selected["symbol"])
        BY <4>2, <4>4, <1>7, <1>10, SentOfSymbol
      <4> QED
        BY <4>5, <1>4
    <3> QED
      BY <3>1, <3>2
  <2> QED
    BY <2>1, <2>2, <1>4 DEF OfSymbolInv
<1>16. ViewInv'
  <2> SUFFICES ASSUME NEW c \in ChartSettings, c \notin crossed', NotAsked(inbox', c),
                      hooks'["dispatch"] = Idle
               PROVE  ComesToSay(wire', c, view'[c], selected'[c])
    BY DEF ViewInv
  <2>1. c \notin crossed /\ NotAsked(inbox, c) /\ session[c] = selected[c]
    BY <1>1, <1>4, AskedNot
  <2>2. m[c] = h[c]
    BY <1>6 DEF ChartSettings
  <2>3. CASE x = "dispatch"
    <3>1. h[c] = session[c]
      BY <2>3, <1>1, <1>2, <1>4 DEF SessionInv
    <3>2. ComesToSay(Append(wire, m), c, view[c], selected[c])
      BY <2>1, <2>2, <3>1, <1>6, <1>10, SnapshotSays
    <3> QED
      BY <3>2, <1>4
  <2>4. CASE x # "dispatch"
    <3>1. x = "connect" /\ hooks["dispatch"] = Idle
      BY <2>4, <1>8, <1>9 DEF Calls
    <3>2. ComesToSay(wire, c, view[c], selected[c])
      BY <2>1, <3>1 DEF LiveInv, ViewInv
    <3>3. h[c] \in {NoSymbol, selected[c]}
      BY <2>1, <3>1, <1>2, <1>4, <1>5 DEF LiveInv, ConnectInv
    <3>4. SaysOr(m, c, selected[c])
      BY <2>2, <3>3 DEF SaysOr
    <3>5. ComesToSay(Append(wire, m), c, view[c], selected[c])
      BY <3>2, <3>4, <1>7, <1>10, SentSays
    <3> QED
      BY <3>5, <1>4
  <2> QED
    BY <2>3, <2>4
<1>17. FreshInv'
  <2> SUFFICES ASSUME NEW y \in Calls, hooks'[y].at = "send", hooks'[y].symbol \in Symbols,
                      hooks'[y].frame = Source, hooks'[y].fresh
               PROVE  Follows(hooks'[y].bars, {}, ToCome(feed', hooks'[y].symbol),
                              store'[hooks'[y].symbol], late'[hooks'[y].symbol])
    BY DEF FreshInv
  <2>1. hooks'[y] = hooks[y]
    BY <1>8, <1>9
  <2> QED
    BY <2>1, <1>4 DEF LiveInv, FreshInv
<1>18. FollowInv'
  <2> SUFFICES ASSUME selected'["frame"] = Source
               PROVE  ChartFollows(selected'["symbol"], wire', chart', dropped', whole',
                                   ToCome(feed', selected'["symbol"]), store'[selected'["symbol"]],
                                   late'[selected'["symbol"]])
    BY DEF FollowInv
  <2>1. PICK u : u = selected["symbol"]
    OBVIOUS
  <2>2. u \in Symbols
    BY <2>1, <1>1 DEF LiveTypeOK
  <2>3. PICK f : f = ToCome(feed, u)
    OBVIOUS
  <2>4. f \in Seq(ChartBars) /\ Len(f) <= 1
    BY <2>3, <1>1, FeedTypes
  <2>5. m.fresh /\ m.symbol = u /\ m.frame = Source => Follows(m.bars, {}, f, store[u], late[u])
    BY <2>2, <2>3, <1>2, <1>4, <1>6 DEF LiveInv, FreshInv
  <2>6. ChartFollows(u, Append(wire, m), chart, dropped, whole, f, store[u], late[u])
    BY <2>4, <2>5, <1>6, <1>10, SendMakes
  <2> QED
    BY <2>1, <2>3, <2>6, <1>4
<1> QED
  BY <1>11, <1>12, <1>13, <1>14, <1>15, <1>16, <1>17, <1>18 DEF LiveInv

LEMMA ReceiveLive ==
  ASSUME LiveInv, Receive
  PROVE  LiveInv'
<1>1. LiveTypeOK /\ StoreInv
  BY DEF LiveInv
<1>2. wire \in Seq(Sent) /\ wire # << >> /\ chart \in Candles /\ whole \in BOOLEAN
  BY <1>1 DEF LiveTypeOK, Receive
<1>3. PICK m : m = wire[1]
  OBVIOUS
<1>4. Head(wire) = m /\ m \in Sent /\ Tail(wire) \in Seq(Sent)
  BY <1>2, <1>3, FrontMessage
<1>5. /\ wire' = Tail(wire)
      /\ m.type = "bar" =>
           /\ chart' = ApplyBar(m.bar, chart)
           /\ dropped' = dropped \cup ({m.bar.time} \ DOMAIN chart')
           /\ whole' = whole /\ view' = view
      /\ m.type # "bar" =>
           /\ chart' = m.bars /\ dropped' = {}
           /\ whole' = (m.fresh /\ m.symbol = selected["symbol"] /\ m.frame = selected["frame"])
           /\ view' = [c \in ChartSettings |-> IF m[c] = NoSymbol THEN view[c] ELSE m[c]]
      /\ UNCHANGED <<store, late, feed, pushes, session, inbox, hooks, selected, asked, crossed>>
  BY <1>4 DEF Receive, market
<1>6. LiveTypeOK'
  <2>1. chart' \in Candles /\ whole' \in BOOLEAN /\ dropped' \in SUBSET Nat
        /\ view' \in [ChartSettings -> Symbols \cup Timeframes]
    <3>1. CASE m.type = "bar"
      <4>1. m.bar \in ChartBars /\ m.bar.time \in Nat
        BY <3>1, <1>4 DEF Sent, Snapshots, ChartBars
      <4>2. chart' \in Candles
        BY <4>1, <3>1, <1>2, <1>5, AppliedBars
      <4> QED
        BY <4>1, <4>2, <3>1, <1>1, <1>5 DEF LiveTypeOK
    <3>2. CASE m.type # "bar"
      <4>1. m \in Snapshots
        BY <3>2, <1>4 DEF Sent
      <4>2. chart' \in Candles /\ whole' \in BOOLEAN /\ dropped' \in SUBSET Nat
        BY <4>1, <3>2, <1>5 DEF Snapshots
      <4>3. \A c \in ChartSettings : m[c] \in Symbols \cup {NoSymbol} \cup Timeframes
        BY <4>1 DEF Snapshots, ChartSettings
      <4>4. \A c \in ChartSettings : view[c] \in Symbols \cup Timeframes
        BY <1>1 DEF LiveTypeOK
      <4>5. view' \in [ChartSettings -> Symbols \cup Timeframes]
        BY <4>3, <4>4, <3>2, <1>5
      <4> QED
        BY <4>2, <4>5
    <3> QED
      BY <3>1, <3>2
  <2> QED
    BY <2>1, <1>1, <1>4, <1>5 DEF LiveTypeOK
<1>7. StoreInv' /\ SessionInv' /\ ConnectInv' /\ FreshInv'
  BY <1>5 DEF LiveInv, StoreInv, SessionInv, ConnectInv, FreshInv
<1>8. OfSymbolInv'
  <2>1. ASSUME "symbol" \notin crossed', NotAsked(inbox', "symbol"), hooks'["dispatch"] = Idle
        PROVE  OnTheWay(wire', chart', selected'["symbol"])
    <3>1. OnTheWay(wire, chart, selected["symbol"])
      BY <2>1, <1>5 DEF LiveInv, OfSymbolInv
    <3>2. PICK c2 : c2 = chart'
      OBVIOUS
    <3>3. OnTheWay(Tail(wire), c2, selected["symbol"])
      BY <3>1, <3>2, <1>2, <1>3, <1>5, ReceivedOfSymbol
    <3> QED
      BY <3>2, <3>3, <1>5
  <2> QED
    BY <2>1, <1>5 DEF LiveInv, OfSymbolInv
<1>9. ViewInv'
  <2> SUFFICES ASSUME NEW c \in ChartSettings, c \notin crossed', NotAsked(inbox', c),
                      hooks'["dispatch"] = Idle
               PROVE  ComesToSay(wire', c, view'[c], selected'[c])
    BY DEF ViewInv
  <2>1. ComesToSay(wire, c, view[c], selected[c])
    BY <1>5 DEF LiveInv, ViewInv
  <2>2. selected[c] # NoSymbol
    BY <1>1, SymbolsAssumption, TimeframesAssumption DEF LiveTypeOK, ChartSettings, Timeframes
  <2>3. PICK v : v = view'[c]
    OBVIOUS
  <2>4. /\ wire[1].type = "bar" => v = view[c]
        /\ wire[1].type # "bar" => v = IF wire[1][c] = NoSymbol THEN view[c] ELSE wire[1][c]
    BY <2>3, <1>3, <1>5
  <2>5. ComesToSay(Tail(wire), c, v, selected[c])
    BY <2>1, <2>2, <2>4, <1>2, ReceivedSays
  <2> QED
    BY <2>3, <2>5, <1>5
<1>10. FollowInv'
  <2> SUFFICES ASSUME Quiet', selected'["frame"] = Source
               PROVE  ChartFollows(selected'["symbol"], wire', chart', dropped', whole',
                                   ToCome(feed', selected'["symbol"]), store'[selected'["symbol"]],
                                   late'[selected'["symbol"]])
    BY DEF FollowInv
  <2>1. PICK u : u = selected["symbol"]
    OBVIOUS
  <2>2. u \in Symbols /\ selected["frame"] = Source /\ Quiet
    BY <2>1, <1>1, <1>5 DEF LiveTypeOK, Quiet
  <2>3. PICK f : f = ToCome(feed, u)
    OBVIOUS
  <2>4. f \in Seq(ChartBars) /\ Len(f) <= 1
    BY <2>3, <1>1, FeedTypes
  <2>5. store[u] \in Candles /\ InPlace(store[u])
    BY <2>2, <1>1, StoreTypes
  <2>6. ChartFollows(u, wire, chart, dropped, whole, f, store[u], late[u])
    BY <2>1, <2>2, <2>3 DEF LiveInv, FollowInv
  <2>7. PICK c2 : c2 = chart'
    OBVIOUS
  <2>8. PICK w2 : w2 = whole'
    OBVIOUS
  <2>9. PICK d2 : d2 = dropped'
    OBVIOUS
  <2>10. /\ wire[1].type = "bar" =>
              /\ c2 = ApplyBar(wire[1].bar, chart)
              /\ d2 = dropped \cup ({wire[1].bar.time} \ DOMAIN c2)
              /\ w2 = whole
         /\ wire[1].type # "bar" =>
              /\ c2 = wire[1].bars /\ d2 = {}
              /\ w2 = (wire[1].fresh /\ wire[1].symbol = u /\ wire[1].frame = Source)
    BY <2>1, <2>2, <2>7, <2>8, <2>9, <1>3, <1>5
  <2>11. ChartFollows(u, Tail(wire), c2, d2, w2, f, store[u], late[u])
    BY <2>4, <2>5, <2>6, <2>10, <1>2, ReceiveKeeps
  <2> QED
    BY <2>1, <2>3, <2>7, <2>8, <2>9, <2>11, <1>5
<1> QED
  BY <1>6, <1>7, <1>8, <1>9, <1>10 DEF LiveInv

LEMMA AskLive ==
  ASSUME LiveInv, NEW c \in ChartSettings, NEW to, Ask(c, to),
         c = "symbol" => to \in Symbols,
         c = "frame" => to \in Timeframes
  PROVE  LiveInv'
<1>1. LiveTypeOK /\ StoreInv /\ SessionInv
  BY DEF LiveInv
<1>2. PICK r : r = [set |-> c, to |-> to]
  OBVIOUS
<1>3. r \in Requests /\ r.set = c /\ r.to = to
  BY <1>2 DEF Requests, ChartSettings
<1>4. /\ asked' = asked + 1 /\ selected' = [selected EXCEPT ![c] = to]
      /\ inbox' = Append(inbox, r)
      /\ view' = [view EXCEPT ![c] = to]
      /\ crossed' = IF hooks["connect"] = Idle THEN crossed ELSE crossed \cup {c}
      /\ UNCHANGED <<store, late, feed, pushes, session, hooks, wire, chart, whole, dropped>>
  BY <1>2 DEF Ask, market
<1>5. \A y \in ChartSettings : selected'[y] = IF y = c THEN to ELSE selected[y]
  BY <1>1, <1>4 DEF LiveTypeOK
<1>6. PICK q : q = inbox
  OBVIOUS
<1>7. PICK z : z = Append(q, r)
  OBVIOUS
<1>8. q \in Seq(Requests) /\ inbox' = z
  BY <1>1, <1>4, <1>6, <1>7 DEF LiveTypeOK
<1>9. /\ z \in Seq(Requests) /\ z # << >>
      /\ Len(z) = Len(q) + 1
      /\ \A i \in 1..Len(q) : z[i] = q[i]
      /\ z[Len(q) + 1] = r
  BY <1>3, <1>7, <1>8, AppendProperties
<1>10. /\ Len(q) \in Nat /\ DOMAIN q = 1..Len(q) /\ DOMAIN z = 1..(Len(q) + 1)
  BY <1>8, <1>9, LenProperties
<1>11. /\ \A i \in DOMAIN z : i \in DOMAIN q \/ i = Len(q) + 1
       /\ \A i \in DOMAIN q : i \in DOMAIN z /\ z[i] = q[i]
       /\ Len(q) + 1 \in DOMAIN z
  BY <1>9, <1>10
<1>12. LiveTypeOK'
  <2>1. selected' \in [ChartSettings -> Symbols \cup Timeframes]
    BY <1>1, <1>4 DEF LiveTypeOK, ChartSettings
  <2>2. selected'["symbol"] \in Symbols /\ selected'["frame"] \in Timeframes
    BY <1>1, <1>5 DEF LiveTypeOK, ChartSettings
  <2>3. asked' \in Nat /\ crossed' \in SUBSET ChartSettings
    BY <1>1, <1>4 DEF LiveTypeOK
  <2>4. view' \in [ChartSettings -> Symbols \cup Timeframes]
    BY <1>1, <1>4 DEF LiveTypeOK, ChartSettings
  <2> QED
    BY <2>1, <2>2, <2>3, <2>4, <1>1, <1>4, <1>8, <1>9 DEF LiveTypeOK
<1>13. StoreInv'
  BY <1>1, <1>4 DEF StoreInv
<1>14. SessionInv'
  <2>1. ASSUME NEW y \in ChartSettings PROVE LastAsked(inbox', y, selected'[y], session'[y])
    <3>1. LastAsked(q, y, selected[y], session[y])
      BY <1>1, <1>6 DEF SessionInv
    <3>2. PICK v : v = selected'[y]
      OBVIOUS
    <3>3. (y = r.set => v = r.to) /\ (y # r.set => v = selected[y])
      BY <3>2, <1>3, <1>5
    <3>4. LastAsked(Append(q, r), y, v, session[y])
      BY <3>1, <3>3, <1>3, <1>8, AskedMore
    <3> QED
      BY <3>2, <3>4, <1>4, <1>6
  <2> QED
    BY <2>1, <1>1, <1>4 DEF SessionInv
<1>15. ConnectInv'
  <2>1. SUFFICES ASSUME hooks["connect"] # Idle
        PROVE  /\ \A y \in ChartSettings \ crossed' :
                    /\ session[y] \in {NoSymbol, selected'[y]}
                    /\ \A i \in DOMAIN z : z[i].set = y => z[i].to = selected'[y]
                    /\ hooks["connect"].at \in {"read", "send"} =>
                         hooks["connect"][y] \in {NoSymbol, selected'[y]}
               /\ "symbol" \notin crossed' => SendsOf(hooks["connect"], selected'["symbol"])
    BY <1>4, <1>8 DEF ConnectInv
  <2>2. crossed' = crossed \cup {c}
    BY <2>1, <1>4
  <2>3. /\ \A y \in ChartSettings \ crossed :
              /\ session[y] \in {NoSymbol, selected[y]}
              /\ \A i \in DOMAIN q : q[i].set = y => q[i].to = selected[y]
              /\ hooks["connect"].at \in {"read", "send"} =>
                   hooks["connect"][y] \in {NoSymbol, selected[y]}
        /\ "symbol" \notin crossed => SendsOf(hooks["connect"], selected["symbol"])
    BY <2>1, <1>6 DEF LiveInv, ConnectInv
  <2>4. \A y \in ChartSettings \ crossed' : selected'[y] = selected[y] /\ y # c /\ y \notin crossed
    BY <2>2, <1>5
  <2>5. \A y \in ChartSettings \ crossed' :
          \A i \in DOMAIN z : z[i].set = y => z[i].to = selected'[y]
    BY <2>3, <2>4, <1>3, <1>9, <1>11
  <2>6. \A y \in ChartSettings \ crossed' :
          /\ session[y] \in {NoSymbol, selected'[y]}
          /\ hooks["connect"].at \in {"read", "send"} =>
               hooks["connect"][y] \in {NoSymbol, selected'[y]}
    BY <2>3, <2>4
  <2>7. "symbol" \notin crossed' => SendsOf(hooks["connect"], selected'["symbol"])
    BY <2>3, <2>4 DEF ChartSettings
  <2> QED
    BY <2>5, <2>6, <2>7
<1>16. ASSUME NEW y \in ChartSettings, NotAsked(z, y)
       PROVE  y # c /\ NotAsked(q, y) /\ selected'[y] = selected[y] /\ view'[y] = view[y]
              /\ (y \notin crossed' => y \notin crossed)
  <2>1. y # c /\ NotAsked(q, y)
    BY <1>16, <1>3, <1>9, <1>11 DEF NotAsked
  <2> QED
    BY <2>1, <1>1, <1>4, <1>5 DEF LiveTypeOK
<1>17. OfSymbolInv'
  <2>1. "symbol" \in ChartSettings
    BY DEF ChartSettings
  <2>2. ASSUME "symbol" \notin crossed', NotAsked(z, "symbol"), hooks["dispatch"] = Idle
        PROVE  OnTheWay(wire, chart, selected'["symbol"])
    <3>1. selected'["symbol"] = selected["symbol"] /\ NotAsked(inbox, "symbol") /\ "symbol" \notin crossed
      BY <2>1, <2>2, <1>6, <1>16
    <3> QED
      BY <3>1, <2>2 DEF LiveInv, OfSymbolInv
  <2>3. SendsOf(hooks["dispatch"], session["symbol"])
    BY DEF LiveInv, OfSymbolInv
  <2> QED
    BY <2>2, <2>3, <1>4, <1>8 DEF OfSymbolInv
<1>18. ViewInv'
  <2> SUFFICES ASSUME NEW y \in ChartSettings, y \notin crossed', NotAsked(z, y), hooks["dispatch"] = Idle
               PROVE  ComesToSay(wire, y, view'[y], selected'[y])
    BY <1>4, <1>8 DEF ViewInv
  <2>1. NotAsked(inbox, y) /\ selected'[y] = selected[y] /\ view'[y] = view[y] /\ y \notin crossed
    BY <1>6, <1>16
  <2> QED
    BY <2>1 DEF LiveInv, ViewInv
<1>19. FreshInv'
  BY <1>4 DEF LiveInv, FreshInv
<1>20. FollowInv'
  <2>1. ~ Quiet'
    BY <1>8, <1>9 DEF Quiet
  <2> QED
    BY <2>1 DEF FollowInv
<1> QED
  BY <1>12, <1>13, <1>14, <1>15, <1>17, <1>18, <1>19, <1>20 DEF LiveInv

-----------------------------------------------------------------------------
LEMMA NextLive == LiveInv /\ [LiveNext]_liveVars => LiveInv'
<1> SUFFICES ASSUME LiveInv, [LiveNext]_liveVars PROVE LiveInv'
  OBVIOUS
<1>1. ASSUME NEW s \in Symbols, NEW t \in 1..LastBar, PushBar(s, t) PROVE LiveInv'
  BY <1>1, PushLive
<1>2. CASE Broadcast
  BY <1>2, BroadcastLive
<1>3. CASE Dispatch
  BY <1>3, DispatchLive
<1>4. ASSUME NEW x \in Calls, HookStarts(x) \/ HookReads(x) \/ HookSends(x) PROVE LiveInv'
  BY <1>4, HookStartsLive, HookReadsLive, HookSendsLive
<1>5. CASE Receive
  BY <1>5, ReceiveLive
<1>6. ASSUME NEW s \in Symbols, Ask("symbol", s) PROVE LiveInv'
  BY <1>6, AskLive DEF ChartSettings
<1>7. ASSUME NEW f \in Timeframes, Ask("frame", f) PROVE LiveInv'
  BY <1>7, AskLive DEF ChartSettings
<1>8. CASE UNCHANGED liveVars
  BY <1>8 DEF liveVars, market, terminal, LiveInv, LiveTypeOK, StoreInv, SessionInv, ConnectInv,
              OfSymbolInv, ViewInv, FreshInv, FollowInv, Quiet
<1> QED
  BY <1>1, <1>2, <1>3, <1>4, <1>5, <1>6, <1>7, <1>8 DEF LiveNext

(* The invariant that carries the rest: what the user asked for last is    *)
(* still in the inbox or known to the session; the snapshot of it is still *)
(* to come with nothing of another symbol behind it; and a snapshot that   *)
(* no bar has overtaken follows the store through the bars to come.        *)
THEOREM SpecLiveInv == LiveSpec => []LiveInv
  BY LiveInitInv, NextLive, PTL DEF LiveSpec

(* Bars, requests, hooks and messages are always of their types, with any  *)
(* number of symbols, timeframes, pushes and choices.                      *)
THEOREM SpecLiveTypeOK == LiveSpec => []LiveTypeOK
<1>1. LiveInv => LiveTypeOK
  BY DEF LiveInv
<1> QED
  BY <1>1, SpecLiveInv, PTL

(* A chart at rest has the candles of the symbol asked for and no others.  *)
(* A terminal at rest shows what was asked for last, and the candles of    *)
(* that symbol and no others.                                              *)
THEOREM SpecShowsWhatIsAsked == LiveSpec => []ShowsWhatIsAsked
<1>1. LiveInv => ShowsWhatIsAsked
  <2> SUFFICES ASSUME LiveInv, Settled
               PROVE  /\ \A c \in ChartSettings \ crossed : view[c] = selected[c]
                      /\ "symbol" \notin crossed => \A t \in DOMAIN chart : chart[t].of = selected["symbol"]
    BY DEF ShowsWhatIsAsked
  <2>1. inbox = << >> /\ wire = << >> /\ hooks["dispatch"] = Idle
    BY DEF Settled, Calls
  <2>2. (\A c : NotAsked(inbox, c)) /\ DOMAIN wire = {}
    BY <2>1 DEF NotAsked
  <2>3. ASSUME NEW c \in ChartSettings \ crossed PROVE view[c] = selected[c]
    <3>1. ComesToSay(wire, c, view[c], selected[c])
      BY <2>1, <2>2 DEF LiveInv, ViewInv
    <3> QED
      BY <3>1, <2>2 DEF ComesToSay
  <2>4. ASSUME "symbol" \notin crossed PROVE \A t \in DOMAIN chart : chart[t].of = selected["symbol"]
    <3>1. OnTheWay(wire, chart, selected["symbol"])
      BY <2>1, <2>2, <2>4 DEF LiveInv, OfSymbolInv
    <3> QED
      BY <3>1, <2>2 DEF OnTheWay, AllOf
  <2> QED
    BY <2>3, <2>4
<1> QED
  BY <1>1, SpecLiveInv, PTL

(* A chart at rest whose last snapshot was the one asked for, with no bar  *)
(* sent past it, has the store's bars to their last revision and the       *)
(* newest of them, and lacks, behind its first, only bars that came late   *)
(* to the store and after the snapshot to the chart.                       *)
THEOREM SpecFollowsTheStore == LiveSpec => []FollowsTheStore
<1>1. LiveInv => FollowsTheStore
  <2> SUFFICES ASSUME LiveInv, Settled, whole, selected["frame"] = Source
               PROVE  LET bars == store[selected["symbol"]]
                      IN  /\ \A t \in DOMAIN chart : t \in DOMAIN bars /\ chart[t] = bars[t]
                          /\ \A t \in DOMAIN bars : Newest(bars, t) => t \in DOMAIN chart
                          /\ \A t \in DOMAIN bars \ DOMAIN chart :
                               \/ \A u \in DOMAIN chart : t < u
                               \/ t \in late[selected["symbol"]] \cap dropped
    BY DEF FollowsTheStore
  <2>1. PICK u : u = selected["symbol"]
    OBVIOUS
  <2>2. /\ u \in Symbols /\ chart \in Candles
        /\ Quiet /\ wire = << >> /\ feed = None
    BY <2>1 DEF LiveInv, LiveTypeOK, Settled, Quiet
  <2>3. store[u] \in Candles /\ InOrder(store[u], late[u])
    BY <2>2, StoreTypes DEF LiveInv
  <2>4. OnlyBars(0, wire)
    BY <2>2 DEF OnlyBars
  <2>5. ToCome(feed, u) = << >>
    BY <2>2 DEF ToCome
  <2>6. Follows(chart, dropped, Coming(0, wire, << >>), store[u], late[u])
    BY <2>1, <2>2, <2>4, <2>5 DEF LiveInv, FollowInv, ChartFollows
  <2>7. PICK v : v = Coming(0, wire, << >>)
    OBVIOUS
  <2>8. v = << >>
    <3>1. wire \in Seq(Sent) /\ Len(wire) = 0
      BY <2>2, EmptySeq
    <3>2. 0 \in 0..Len(wire)
      BY <3>1
    <3>3. v \in Seq(ChartBars) /\ Len(v) = Len(wire) - 0 + Len(<< >>)
      BY <2>4, <2>7, <3>1, <3>2, NoBar, ComingBars
    <3>4. Len(v) = 0
      BY <3>1, <3>3, NoBar
    <3> QED
      BY <3>3, <3>4, EmptySeq
  <2>9. Follows(chart, dropped, << >>, store[u], late[u])
    BY <2>6, <2>7, <2>8
  <2> QED
    BY <2>1, <2>2, <2>3, <2>9, FollowsEnd
<1> QED
  BY <1>1, SpecLiveInv, PTL
=============================================================================
