-------------------------- MODULE SdkServer_proofs --------------------------
(***************************************************************************)
(* Proofs about SdkServer, for any number of terminals and bars: a         *)
(* terminal has every bar made after its snapshot reached it.              *)
(***************************************************************************)
EXTENDS SdkServer, SequenceTheorems, WellFoundedInduction, TLAPS

(* Only a running server has open connections, and their clients are       *)
(* listed from before their callback runs until after they have closed.    *)
Standing(t) ==
  /\ link[t] = "open" =>
       /\ loop = "serving" /\ phase[t] \in {"connect", "define", "serving"}
       /\ t \in Listed
  /\ t \in Listed => phase[t] # "none"
  /\ phase[t] = "none" => call[t] = "none" /\ t \notin loaded

(* A caller waits for one send: its own snapshot, or the program's bar to  *)
(* the client whose turn it is.                                            *)
SendsAreAwaited ==
  /\ \A i \in DOMAIN queue :
       /\ call[queue[i].from] = "waiting"
       /\ queue[i].to = IF queue[i].from = Main THEN left[1] ELSE queue[i].from
  /\ \A i, j \in DOMAIN queue : queue[i].from = queue[j].from => i = j

(* The program calls while it broadcasts, and knows of its last call       *)
(* whether the bar came to the client whose turn it is; a snapshot may     *)
(* have come after it.                                                     *)
CastIsKnown ==
  /\ cast # "idle" => newest >= 1
  /\ cast # "casting" => left = << >>
  /\ left = << >> => call[Main] = "none"
  /\ call[Main] = "done" => newest \in chart[left[1]] \cup {since[left[1]]}
  /\ call[Main] = "raised" => link[left[1]] # "open"
  /\ \A i \in DOMAIN left : phase[left[i]] # "none"

(* What a terminal with its snapshot lacks of the newest bar is to come:   *)
(* it is made and not cast, or the terminal's turn is to come.             *)
InTheLoop(t) ==
  t \in loaded \ skipped /\ link[t] = "open" =>
    /\ \A b \in (since[t] + 1)..newest : b # newest => b \in chart[t]
    /\ cast = "idle" => newest \in chart[t] \cup {since[t]}
    /\ cast = "casting" =>
         newest \in chart[t] \cup {since[t]} \/ \E i \in DOMAIN left : left[i] = t

IInv ==
  /\ TypeOK /\ SendsAreAwaited /\ CastIsKnown
  /\ \A t \in Terminals : Standing(t) /\ InTheLoop(t)

-----------------------------------------------------------------------------
(* remove() takes one occurrence out: the others stay, nothing comes in.   *)
LEMMA RemoveFirstMembers ==
  ASSUME NEW S, NEW s \in Seq(S), NEW e
  PROVE  /\ RemoveFirst(s, e) \in Seq(S)
         /\ \A i \in 1..Len(s) : s[i] # e =>
              \E j \in 1..Len(RemoveFirst(s, e)) : RemoveFirst(s, e)[j] = s[i]
         /\ \A j \in 1..Len(RemoveFirst(s, e)) :
              \E i \in 1..Len(s) : RemoveFirst(s, e)[j] = s[i]
<1>1. Len(s) \in Nat /\ \A i \in 1..Len(s) : s[i] \in S
  BY LenProperties, ElementOfSeq
<1>2. CASE \A i \in 1..Len(s) : s[i] # e
  BY <1>2 DEF RemoveFirst
<1>3. CASE \E i \in 1..Len(s) : s[i] = e
  <2> DEFINE I == {i \in 1..Len(s) : s[i] = e}
  <2>1. I \subseteq Nat /\ I # {}
    BY <1>1, <1>3
  <2>2. PICK m \in I : \A y \in I : ~ (<<y, m>> \in OpToRel(<, Nat))
    <3> HIDE DEF I
    <3> QED BY <2>1, NatLessThanWellFounded, WFMin
  <2>3. \A y \in I : m <= y
    <3>1. \A y \in I : ~ (y < m)
      BY <2>1, <2>2 DEF OpToRel
    <3> QED BY <3>1, <2>1
  <2>4. PICK k : k = Min(I)
    OBVIOUS
  <2>5. k \in 1..Len(s) /\ s[k] = e
    <3>1. k \in I
      BY <2>2, <2>3, <2>4 DEF Min
    <3> QED BY <3>1
  <2> DEFINE a == SubSeq(s, 1, k - 1)
             b == SubSeq(s, k + 1, Len(s))
             r == a \o b
  <2>6. RemoveFirst(s, e) = r
    BY <1>3, <2>1, <2>4 DEF RemoveFirst, SelectInSeq, RemoveAt
  <2>7. /\ a \in Seq(S) /\ Len(a) = k - 1
        /\ \A i \in 1..(k - 1) : a[i] = s[i]
    <3>1. k - 1 \in Int /\ \A i \in 1..(k - 1) : s[i] \in S
      BY <1>1, <2>5
    <3>2. /\ SubSeq(s, 1, k - 1) \in Seq(S)
          /\ Len(SubSeq(s, 1, k - 1)) = IF 1 <= k - 1 THEN k - 1 - 1 + 1 ELSE 0
          /\ \A i \in 1..(k - 1 - 1 + 1) : SubSeq(s, 1, k - 1)[i] = s[1 + i - 1]
      BY <3>1, SubSeqProperties
    <3> QED BY <3>1, <3>2, <1>1, <2>5
  <2>8. /\ b \in Seq(S) /\ Len(b) = Len(s) - k
        /\ \A i \in 1..(Len(s) - k) : b[i] = s[k + i]
    <3>1. k + 1 \in Int /\ Len(s) \in Int /\ \A i \in (k + 1)..Len(s) : s[i] \in S
      BY <1>1, <2>5
    <3>2. /\ SubSeq(s, k + 1, Len(s)) \in Seq(S)
          /\ Len(SubSeq(s, k + 1, Len(s)))
               = IF k + 1 <= Len(s) THEN Len(s) - (k + 1) + 1 ELSE 0
          /\ \A i \in 1..(Len(s) - (k + 1) + 1) :
               SubSeq(s, k + 1, Len(s))[i] = s[(k + 1) + i - 1]
      BY <3>1, SubSeqProperties
    <3> QED BY <3>1, <3>2, <1>1, <2>5
  <2> HIDE DEF a, b
  <2>9. /\ r \in Seq(S) /\ Len(r) = Len(s) - 1
        /\ \A i \in 1..Len(r) : r[i] = IF i <= k - 1 THEN a[i] ELSE b[i - (k - 1)]
    <3>1. /\ a \o b \in Seq(S) /\ Len(a \o b) = Len(a) + Len(b)
          /\ \A i \in 1..(Len(a) + Len(b)) :
               (a \o b)[i] = IF i <= Len(a) THEN a[i] ELSE b[i - Len(a)]
      BY <2>7, <2>8, ConcatProperties
    <3> QED BY <3>1, <2>7, <2>8, <2>5, <1>1
  <2> HIDE DEF r
  <2>10. ASSUME NEW i \in 1..Len(s), s[i] # e PROVE \E j \in 1..Len(r) : r[j] = s[i]
    <3>1. CASE i < k
      <4>1. i \in 1..Len(r) /\ r[i] = a[i] /\ a[i] = s[i]
        BY <3>1, <2>9, <2>7, <2>5, <1>1
      <4> QED BY <4>1
    <3>2. CASE i > k
      <4>1. /\ i - 1 \in 1..Len(r) /\ ~ (i - 1 <= k - 1) /\ (i - 1) - (k - 1) = i - k
            /\ i - k \in 1..(Len(s) - k) /\ k + (i - k) = i
        BY <3>2, <2>9, <2>5, <1>1
      <4>2. r[i - 1] = b[i - k] /\ b[i - k] = s[i]
        BY <4>1, <2>9, <2>8
      <4> QED BY <4>1, <4>2
    <3> QED BY <3>1, <3>2, <2>5, <2>10, <1>1
  <2>11. ASSUME NEW j \in 1..Len(r) PROVE \E i \in 1..Len(s) : r[j] = s[i]
    <3>1. CASE j <= k - 1
      <4>1. j \in 1..Len(s) /\ r[j] = s[j]
        BY <3>1, <2>9, <2>7, <2>5, <1>1
      <4> QED BY <4>1
    <3>2. CASE ~ (j <= k - 1)
      <4>1. /\ j - (k - 1) \in 1..(Len(s) - k)
            /\ k + (j - (k - 1)) = j + 1 /\ j + 1 \in 1..Len(s)
        BY <3>2, <2>9, <2>5, <1>1
      <4>2. r[j] = s[j + 1]
        BY <4>1, <3>2, <2>9, <2>8
      <4> QED BY <4>1, <4>2
    <3> QED BY <3>1, <3>2
  <2> QED BY <2>6, <2>9, <2>10, <2>11
<1> QED BY <1>2, <1>3

-----------------------------------------------------------------------------
LEMMA InitIInv == Init => IInv
<1> SUFFICES ASSUME Init PROVE IInv
  OBVIOUS
<1>1. TypeOK
  <2>1. clients \in Seq(Terminals) /\ left \in Seq(Terminals)
    BY DEF Init
  <2>2. queue \in Seq([from : Callers, to : Terminals])
    BY DEF Init
  <2>3. newest \in 0..MaxBars
    BY MaxBarsAssumption DEF Init
  <2> QED BY <2>1, <2>2, <2>3 DEF Init, TypeOK
<1>2. SendsAreAwaited /\ CastIsKnown
  <2>1. Main \in Callers
    BY DEF Callers
  <2> QED BY <2>1 DEF Init, SendsAreAwaited, CastIsKnown
<1>3. ASSUME NEW t \in Terminals PROVE Standing(t) /\ InTheLoop(t)
  <2>1. t \in Callers /\ Listed = {}
    BY DEF Init, Callers, Listed
  <2> QED BY <2>1 DEF Init, Standing, InTheLoop
<1> QED BY <1>1, <1>2, <1>3 DEF IInv

(* A call is made: a send joins the queue, or the loop is closed.          *)
LEMMA SubmitProperties ==
  ASSUME TypeOK, SendsAreAwaited, NEW p \in Callers, NEW t \in Terminals,
         Submit(p, t), call[p] # "waiting",
         t = IF p = Main THEN left[1] ELSE p, UNCHANGED left
  PROVE  /\ call' \in [Callers -> {"none", "waiting", "done", "raised"}]
         /\ queue' \in Seq([from : Callers, to : Terminals])
         /\ call'[p] \in {"waiting", "raised"} /\ (call'[p] = "raised" => loop = "closed")
         /\ \A o \in Callers : o # p => call'[o] = call[o]
         /\ SendsAreAwaited'
<1> DEFINE s == [from |-> p, to |-> t]
<1>1. /\ s \in [from : Callers, to : Terminals] /\ s.from = p /\ s.to = t
      /\ queue \in Seq([from : Callers, to : Terminals])
      /\ Len(queue) \in Nat /\ DOMAIN queue = 1..Len(queue)
  BY LenProperties DEF TypeOK
<1>2. ASSUME NEW i \in DOMAIN queue PROVE queue[i].from \in Callers /\ queue[i].from # p
  <2>1. queue[i] \in [from : Callers, to : Terminals]
    BY <1>1, ElementOfSeq
  <2>2. call[queue[i].from] = "waiting"
    BY DEF SendsAreAwaited
  <2> QED BY <2>1, <2>2
<1>3. CASE loop = "closed"
  <2>1. call' = [call EXCEPT ![p] = "raised"] /\ queue' = queue
    BY <1>3 DEF Submit
  <2> QED BY <1>1, <1>2, <1>3, <2>1 DEF TypeOK, SendsAreAwaited
<1>4. CASE loop # "closed"
  <2>1. call' = [call EXCEPT ![p] = "waiting"] /\ queue' = Append(queue, s)
    BY <1>4 DEF Submit
  <2> HIDE DEF s
  <2>2. /\ Append(queue, s) \in Seq([from : Callers, to : Terminals])
        /\ Len(Append(queue, s)) = Len(queue) + 1
        /\ \A i \in 1..Len(queue) : Append(queue, s)[i] = queue[i]
        /\ Append(queue, s)[Len(queue) + 1] = s
    BY <1>1, AppendProperties
  <2>3. DOMAIN queue' = 1..(Len(queue) + 1)
    BY <2>1, <2>2, LenProperties
  <2>4. \A i \in DOMAIN queue' : i \in DOMAIN queue \/ i = Len(queue) + 1
    BY <2>3, <1>1
  <2>5. /\ \A i \in DOMAIN queue : queue'[i] = queue[i]
        /\ queue'[Len(queue) + 1] = s
    BY <2>1, <2>2, <1>1
  <2>6. ASSUME NEW i \in DOMAIN queue'
        PROVE  /\ call'[queue'[i].from] = "waiting"
               /\ queue'[i].to = IF queue'[i].from = Main THEN left'[1] ELSE queue'[i].from
    BY <2>1, <2>4, <2>5, <1>1, <1>2 DEF TypeOK, SendsAreAwaited
  <2>7. ASSUME NEW i \in DOMAIN queue', NEW j \in DOMAIN queue',
               queue'[i].from = queue'[j].from
        PROVE  i = j
    <3>1. CASE i \in DOMAIN queue /\ j \in DOMAIN queue
      BY <3>1, <2>5, <2>7 DEF SendsAreAwaited
    <3>2. CASE i \in DOMAIN queue /\ j = Len(queue) + 1
      BY <3>2, <2>5, <2>7, <1>1, <1>2
    <3>3. CASE i = Len(queue) + 1 /\ j \in DOMAIN queue
      BY <3>3, <2>5, <2>7, <1>1, <1>2
    <3> QED BY <3>1, <3>2, <3>3, <2>4
  <2>8. call' \in [Callers -> {"none", "waiting", "done", "raised"}]
    BY <2>1 DEF TypeOK
  <2>9. SendsAreAwaited'
    BY <2>6, <2>7 DEF SendsAreAwaited
  <2>10. call'[p] = "waiting" /\ \A o \in Callers : o # p => call'[o] = call[o]
    BY <2>1 DEF TypeOK
  <2> QED BY <2>1, <2>2, <2>8, <2>9, <2>10
<1> QED BY <1>3, <1>4

(* The server starts, stops and ends: no connection outlives its serving.  *)
LEMMA LoopIInv ==
  ASSUME IInv, Start \/ Serve \/ Stop \/ Close \/ Over \/ CloseLoop
  PROVE  IInv'
<1>1. /\ UNCHANGED <<phase, clients, loaded, since, queue, call, newest, cast, left, skipped, chart>>
      /\ loop' \in {"off", "made", "serving", "closing", "over", "closed"}
      /\ event' \in {"none", "clear", "set"} /\ heard' \in BOOLEAN
      /\ link' \in [Terminals -> {"none", "open", "closed"}]
      /\ \A t \in Terminals : link'[t] = "open" => link[t] = "open" /\ loop' = "serving"
  <2>1. CASE Start \/ Serve \/ Over \/ CloseLoop
    BY <2>1 DEF Start, Serve, Over, CloseLoop, connVars, mainVars, chartVars, IInv, TypeOK, Standing
  <2>2. CASE Stop
    BY <2>2 DEF Stop, connVars, mainVars, chartVars, IInv, TypeOK, Standing
  <2>3. CASE Close
    BY <2>3 DEF Close, mainVars, chartVars, IInv, TypeOK
  <2> QED BY <2>1, <2>2, <2>3
<1>2. TypeOK'
  BY <1>1 DEF IInv, TypeOK
<1>3. SendsAreAwaited'
  BY <1>1 DEF IInv, SendsAreAwaited
<1>4. CastIsKnown'
  <2>1. left # << >> => left[1] \in Terminals
    BY ElementOfSeq, EmptySeq DEF IInv, TypeOK
  <2> QED BY <1>1, <2>1 DEF IInv, CastIsKnown
<1>5. ASSUME NEW t \in Terminals PROVE Standing(t)' /\ InTheLoop(t)'
  BY <1>1 DEF IInv, Standing, InTheLoop, Listed
<1> QED BY <1>2, <1>3, <1>4, <1>5 DEF IInv

(* The loop runs a send.  A snapshot brings a terminal up to date, a bar   *)
(* goes to the client whose turn it is.                                    *)
LEMMA SendIInv ==
  ASSUME IInv, Send
  PROVE  IInv'
<1> DEFINE s == queue[1]
<1>1. /\ s \in [from : Callers, to : Terminals]
      /\ Len(queue) \in Nat /\ DOMAIN queue = 1..Len(queue) /\ 1 \in DOMAIN queue
      /\ Tail(queue) \in Seq([from : Callers, to : Terminals])
      /\ DOMAIN Tail(queue) = 1..(Len(queue) - 1)
      /\ \A i \in 1..(Len(queue) - 1) : Tail(queue)[i] = queue[i + 1]
  <2>1. queue \in Seq([from : Callers, to : Terminals]) /\ queue # << >>
    BY DEF Send, IInv, TypeOK
  <2>2. /\ Tail(queue) \in Seq([from : Callers, to : Terminals])
        /\ Len(Tail(queue)) = Len(queue) - 1
        /\ \A i \in 1..Len(Tail(queue)) : Tail(queue)[i] = queue[i + 1]
    BY <2>1, HeadTailProperties
  <2>3. /\ Len(queue) \in Nat /\ DOMAIN queue = 1..Len(queue)
        /\ DOMAIN Tail(queue) = 1..Len(Tail(queue)) /\ Len(queue) # 0
    BY <2>1, <2>2, LenProperties, EmptySeq
  <2>4. 1 \in 1..Len(queue)
    BY <2>3
  <2>5. queue[1] \in [from : Callers, to : Terminals]
    BY <2>1, <2>4, ElementOfSeq
  <2> QED BY <2>2, <2>3, <2>4, <2>5
<1>2. Head(queue) = s
  BY DEF Send, IInv, TypeOK
<1>3. /\ queue' = Tail(queue)
      /\ IF link[s.to] = "open"
         THEN Deliver(s) /\ call' = [call EXCEPT ![s.from] = "done"]
         ELSE call' = [call EXCEPT ![s.from] = "raised"] /\ UNCHANGED chartVars
      /\ UNCHANGED <<loop, event, heard, link, phase, clients, newest, cast, left, skipped>>
  BY <1>2 DEF Send, loopVars, mainVars
<1>4. /\ s.from \in Callers /\ s.to \in Terminals
      /\ call[s.from] = "waiting"
      /\ s.to = IF s.from = Main THEN left[1] ELSE s.from
  BY <1>1 DEF IInv, SendsAreAwaited
<1> HIDE DEF s
<1>5. /\ call' \in [Callers -> {"none", "waiting", "done", "raised"}]
      /\ call'[s.from] = IF link[s.to] = "open" THEN "done" ELSE "raised"
      /\ \A p \in Callers : p # s.from => call'[p] = call[p]
  BY <1>3, <1>4 DEF IInv, TypeOK
<1>6. /\ newest \in 0..MaxBars /\ MaxBars \in Nat
      /\ s.from = Main => newest \in 1..MaxBars
  BY <1>4, MaxBarsAssumption DEF IInv, TypeOK, CastIsKnown
<1>7. /\ chart' \in [Terminals -> SUBSET (1..MaxBars)] /\ loaded' \subseteq Terminals
      /\ since' \in [Terminals -> 0..MaxBars]
      /\ \A t \in Terminals :
           \/ since'[t] = newest
           \/ /\ since'[t] = since[t] /\ chart[t] \subseteq chart'[t]
              /\ t \in loaded' => t \in loaded
      /\ \A t \in loaded' : t \in loaded \/ t = s.from
      /\ s.from = Main /\ link[s.to] = "open" => newest \in chart'[s.to]
  <2>1. CASE link[s.to] # "open"
    BY <2>1, <1>3 DEF IInv, TypeOK, chartVars
  <2>2. CASE link[s.to] = "open" /\ s.from = Main
    <3>1. chart' = [chart EXCEPT ![s.to] = @ \cup {newest}] /\ loaded' = loaded /\ since' = since
      BY <2>2, <1>3 DEF Deliver
    <3> QED BY <2>2, <3>1, <1>4, <1>6 DEF IInv, TypeOK
  <2>3. CASE link[s.to] = "open" /\ s.from # Main
    <3>1. s.to = s.from
      BY <2>3, <1>4
    <3>2. CASE phase[s.from] = "connect"
      <4>1. /\ chart' = [chart EXCEPT ![s.to] = {}] /\ loaded' = loaded \cup {s.to}
            /\ since' = [since EXCEPT ![s.to] = newest]
        BY <2>3, <3>2, <1>3 DEF Deliver
      <4> QED BY <2>3, <3>1, <4>1, <1>4, <1>6 DEF IInv, TypeOK
    <3>3. CASE phase[s.from] # "connect"
      <4>1. chart' = chart /\ loaded' = loaded /\ since' = since
        BY <2>3, <3>3, <1>3 DEF Deliver, chartVars
      <4> QED BY <2>3, <4>1 DEF IInv, TypeOK
    <3> QED BY <3>2, <3>3
  <2> QED BY <2>1, <2>2, <2>3
<1>8. TypeOK'
  BY <1>1, <1>3, <1>5, <1>7 DEF IInv, TypeOK
<1>9. SendsAreAwaited'
  <2>1. ASSUME NEW i \in DOMAIN queue'
        PROVE  /\ i + 1 \in DOMAIN queue /\ queue'[i] = queue[i + 1]
               /\ queue[i + 1].from \in Callers /\ queue[i + 1].from # s.from
    <3>1. i + 1 \in DOMAIN queue /\ i + 1 # 1 /\ queue'[i] = queue[i + 1]
      BY <1>1, <1>3
    <3>2. queue[i + 1] \in [from : Callers, to : Terminals]
      BY <3>1, <1>1, ElementOfSeq DEF IInv, TypeOK
    <3>3. queue[i + 1].from # s.from
      BY <3>1, <1>1 DEF IInv, SendsAreAwaited, s
    <3> QED BY <3>1, <3>2, <3>3
  <2>2. ASSUME NEW i \in DOMAIN queue'
        PROVE  /\ call'[queue'[i].from] = "waiting"
               /\ queue'[i].to = IF queue'[i].from = Main THEN left'[1] ELSE queue'[i].from
    BY <2>1, <1>3, <1>5 DEF IInv, SendsAreAwaited
  <2>3. ASSUME NEW i \in DOMAIN queue', NEW j \in DOMAIN queue',
               queue'[i].from = queue'[j].from
        PROVE  i = j
    <3>1. i + 1 = j + 1
      BY <2>1, <2>3 DEF IInv, SendsAreAwaited
    <3>2. i \in Nat /\ j \in Nat
      BY <1>1, <1>3
    <3> QED BY <3>1, <3>2
  <2> QED BY <2>2, <2>3 DEF SendsAreAwaited
<1>10. CastIsKnown'
  <2>1. left # << >> => left[1] \in Terminals
    BY ElementOfSeq, EmptySeq DEF IInv, TypeOK
  <2>2. Main \in Callers
    BY DEF Callers
  <2>3. CASE s.from = Main
    BY <2>1, <2>2, <2>3, <1>3, <1>4, <1>5, <1>7 DEF IInv, CastIsKnown
  <2>4. CASE s.from # Main
    <3>1. call[Main] = "done" => newest \in chart'[left[1]] \cup {since'[left[1]]}
      <4>1. ASSUME call[Main] = "done" PROVE newest \in chart'[left[1]] \cup {since'[left[1]]}
        <5>1. left[1] \in Terminals /\ newest \in chart[left[1]] \cup {since[left[1]]}
          BY <4>1, <2>1 DEF IInv, CastIsKnown
        <5> QED BY <5>1, <1>7
      <4> QED BY <4>1
    <3>2. call'[Main] = call[Main]
      BY <2>2, <2>4, <1>5
    <3> QED BY <3>1, <3>2, <1>3 DEF IInv, CastIsKnown
  <2> QED BY <2>3, <2>4
<1>11. ASSUME NEW t \in Terminals PROVE Standing(t)'
  <2>1. t \in Callers /\ t # Main
    BY MainAssumption DEF Callers
  <2> QED BY <2>1, <1>3, <1>4, <1>5, <1>7 DEF IInv, Standing, Listed
<1>12. ASSUME NEW t \in Terminals PROVE InTheLoop(t)'
  <2>1. t \in Callers /\ newest \in Nat
    BY <1>6 DEF Callers
  <2>2. since'[t] \in Nat
    BY <1>6, <1>7
  <2>3. CASE since'[t] = newest
    BY <2>1, <2>2, <2>3, <1>3 DEF InTheLoop
  <2>4. CASE since'[t] # newest
    BY <2>4, <1>3, <1>7 DEF IInv, InTheLoop
  <2> QED BY <2>3, <2>4
<1> QED BY <1>8, <1>9, <1>10, <1>11, <1>12 DEF IInv

-----------------------------------------------------------------------------
(* A terminal connects: it has no snapshot and no part in a broadcast.     *)
LEMMA ConnectIInv ==
  ASSUME IInv, NEW t \in Terminals, Connect(t)
  PROVE  IInv'
<1>1. /\ loop = "serving" /\ phase[t] = "none"
      /\ link' = [link EXCEPT ![t] = "open"]
      /\ phase' = [phase EXCEPT ![t] = "connect"]
      /\ clients' = Append(clients, t)
      /\ UNCHANGED <<loop, event, heard, loaded, since, queue, call, newest, cast, left,
                     skipped, chart>>
  BY DEF Connect, loopVars, mainVars, chartVars
<1>2. /\ clients' \in Seq(Terminals) /\ Len(clients') = Len(clients) + 1
      /\ Len(clients) \in Nat
      /\ \A i \in 1..Len(clients) : clients'[i] = clients[i]
      /\ clients'[Len(clients) + 1] = t
  BY <1>1, AppendProperties, LenProperties DEF IInv, TypeOK
<1>3. Listed' = Listed \cup {t}
  <2>1. \A i \in 1..Len(clients') : i \in 1..Len(clients) \/ i = Len(clients) + 1
    BY <1>2
  <2>2. /\ \A i \in 1..Len(clients) : i \in 1..Len(clients')
        /\ Len(clients) + 1 \in 1..Len(clients')
    BY <1>2
  <2> QED BY <2>1, <2>2, <1>2 DEF Listed
<1>4. TypeOK'
  BY <1>1, <1>2 DEF IInv, TypeOK
<1>5. SendsAreAwaited'
  BY <1>1 DEF IInv, SendsAreAwaited
<1>6. CastIsKnown'
  <2>1. \A i \in DOMAIN left : left[i] \in Terminals /\ left[i] # t
    <3>1. left \in Seq(Terminals)
      BY DEF IInv, TypeOK
    <3>2. \A i \in DOMAIN left : left[i] \in Terminals
      BY <3>1, ElementOfSeq, LenProperties
    <3> QED BY <1>1, <3>2 DEF IInv, CastIsKnown
  <2>2. left # << >> => 1 \in DOMAIN left
    BY EmptySeq, LenProperties DEF IInv, TypeOK
  <2> QED BY <1>1, <2>1, <2>2 DEF IInv, TypeOK, CastIsKnown
<1>7. ASSUME NEW u \in Terminals PROVE Standing(u)' /\ InTheLoop(u)'
  BY <1>1, <1>3 DEF IInv, TypeOK, Standing, InTheLoop
<1> QED BY <1>4, <1>5, <1>6, <1>7 DEF IInv

(* A connection's handler goes on, or the connection ends.                 *)
LEMMA HandlerIInv ==
  ASSUME IInv, NEW t \in Terminals,
         \/ CallbackReturns(t) \/ CallbackRaises(t) \/ TerminalGoes(t)
         \/ Disconnect(t) \/ GoodbyeReturns(t)
  PROVE  IInv'
<1>1. UNCHANGED <<loop, event, heard, loaded, since, queue, call, newest, cast, left, skipped,
                chart>>
  BY DEF CallbackReturns, CallbackRaises, TerminalGoes, Disconnect, GoodbyeReturns,
         loopVars, mainVars, chartVars
<1>2. /\ link' \in [Terminals -> {"none", "open", "closed"}]
      /\ phase' \in [Terminals -> {"none", "connect", "define", "serving", "failed", "bye", "gone"}]
      /\ \A u \in Terminals :
           /\ link'[u] = "open" => link[u] = "open" /\ phase'[u] \in {"connect", "define", "serving"}
           /\ phase'[u] = "none" <=> phase[u] = "none"
  BY DEF CallbackReturns, CallbackRaises, TerminalGoes, Disconnect, GoodbyeReturns,
         IInv, TypeOK, Standing
<1>3. /\ clients' \in Seq(Terminals) /\ Listed' \subseteq Listed
      /\ \A u \in Listed : u \in Listed' \/ (u = t /\ link[t] = "closed" /\ link' = link)
  <2>1. CASE clients' = clients
    BY <2>1 DEF Listed, IInv, TypeOK
  <2>2. CASE Disconnect(t)
    <3>1. clients \in Seq(Terminals)
      BY DEF IInv, TypeOK
    <3>2. /\ RemoveFirst(clients, t) \in Seq(Terminals)
          /\ \A i \in 1..Len(clients) : clients[i] # t =>
               \E j \in 1..Len(RemoveFirst(clients, t)) : RemoveFirst(clients, t)[j] = clients[i]
          /\ \A j \in 1..Len(RemoveFirst(clients, t)) :
               \E i \in 1..Len(clients) : RemoveFirst(clients, t)[j] = clients[i]
      BY ONLY <3>1, RemoveFirstMembers
    <3>3. /\ clients' = RemoveFirst(clients, t)
          /\ link[t] = "closed" /\ link' = link
      BY <2>2 DEF Disconnect
    <3> DEFINE r == RemoveFirst(clients, t)
    <3>4. /\ r \in Seq(Terminals) /\ clients' = r
          /\ \A i \in 1..Len(clients) : clients[i] # t => \E j \in 1..Len(r) : r[j] = clients[i]
          /\ \A j \in 1..Len(r) : \E i \in 1..Len(clients) : r[j] = clients[i]
      BY <3>2, <3>3
    <3> HIDE DEF r
    <3>5. Listed' = {r[j] : j \in 1..Len(r)}
      BY <3>4 DEF Listed
    <3>6. Listed' \subseteq Listed
      BY <3>4, <3>5 DEF Listed
    <3>7. ASSUME NEW u \in Listed, u # t PROVE u \in Listed'
      <4>1. PICK i \in 1..Len(clients) : clients[i] = u
        BY DEF Listed
      <4>2. PICK j \in 1..Len(r) : r[j] = u
        BY <4>1, <3>4, <3>7
      <4> QED BY <4>2, <3>5
    <3> QED BY <3>3, <3>4, <3>6, <3>7
  <2> QED BY <2>1, <2>2 DEF CallbackReturns, CallbackRaises, TerminalGoes, GoodbyeReturns
<1>4. TypeOK'
  BY <1>1, <1>2, <1>3 DEF IInv, TypeOK
<1>5. SendsAreAwaited'
  BY <1>1 DEF IInv, SendsAreAwaited
<1>6. CastIsKnown'
  <2>1. \A i \in DOMAIN left : left[i] \in Terminals
    BY ElementOfSeq, LenProperties DEF IInv, TypeOK
  <2>2. left # << >> => 1 \in DOMAIN left
    BY EmptySeq, LenProperties DEF IInv, TypeOK
  <2> QED BY <1>1, <1>2, <2>1, <2>2 DEF IInv, CastIsKnown
<1>7. ASSUME NEW u \in Terminals PROVE Standing(u)' /\ InTheLoop(u)'
  BY <1>1, <1>2, <1>3 DEF IInv, Standing, InTheLoop
<1> QED BY <1>4, <1>5, <1>6, <1>7 DEF IInv

(* The callback makes its calls.                                           *)
LEMMA CallbackSendsIInv ==
  ASSUME IInv, NEW t \in Terminals, CallbackSends(t) \/ CallbackDefines(t)
  PROVE  IInv'
<1>1. /\ call[t] # "waiting" /\ Submit(t, t)
      /\ phase[t] = "connect" /\ phase' \in {phase, [phase EXCEPT ![t] = "define"]}
      /\ UNCHANGED <<loop, event, heard, link, clients, loaded, since, newest, cast, left,
                     skipped, chart>>
  BY DEF CallbackSends, CallbackDefines, loopVars, connVars, mainVars, chartVars
<1>2. t \in Callers /\ Main \in Callers /\ t # Main
  BY MainAssumption DEF Callers
<1>3. /\ call' \in [Callers -> {"none", "waiting", "done", "raised"}]
      /\ queue' \in Seq([from : Callers, to : Terminals])
      /\ \A o \in Callers : o # t => call'[o] = call[o]
      /\ SendsAreAwaited'
  BY <1>1, <1>2, SubmitProperties DEF IInv
<1>4. /\ phase' \in [Terminals -> {"none", "connect", "define", "serving", "failed", "bye", "gone"}]
      /\ phase'[t] \in {"connect", "define"}
      /\ \A u \in Terminals : u # t => phase'[u] = phase[u]
  BY <1>1 DEF IInv, TypeOK
<1>5. TypeOK'
  BY <1>1, <1>3, <1>4 DEF IInv, TypeOK
<1>6. CastIsKnown'
  <2>1. \A i \in DOMAIN left : left[i] \in Terminals
    BY ElementOfSeq, LenProperties DEF IInv, TypeOK
  <2> QED BY <2>1, <1>1, <1>2, <1>3, <1>4 DEF IInv, CastIsKnown
<1>7. ASSUME NEW u \in Terminals PROVE Standing(u)' /\ InTheLoop(u)'
  <2>1. u \in Callers
    BY DEF Callers
  <2> QED BY <2>1, <1>1, <1>3, <1>4 DEF IInv, Standing, InTheLoop, Listed
<1> QED BY <1>3, <1>5, <1>6, <1>7 DEF IInv

-----------------------------------------------------------------------------
(* The program makes a bar: every terminal had the one before it.          *)
LEMMA MakeBarIInv ==
  ASSUME IInv, MakeBar
  PROVE  IInv'
<1>1. /\ cast = "idle" /\ newest < MaxBars /\ newest' = newest + 1 /\ cast' = "made"
      /\ UNCHANGED <<loop, event, heard, link, phase, clients, loaded, since, queue, call, left,
                     skipped, chart>>
  BY DEF MakeBar, loopVars, connVars, chartVars
<1>2. newest \in Nat /\ newest' \in 0..MaxBars /\ newest' >= 1
  BY <1>1, MaxBarsAssumption DEF IInv, TypeOK
<1>3. TypeOK'
  BY <1>1, <1>2 DEF IInv, TypeOK
<1>4. SendsAreAwaited'
  BY <1>1 DEF IInv, SendsAreAwaited
<1>5. CastIsKnown'
  <2>1. left = << >> /\ call[Main] = "none"
    BY <1>1 DEF IInv, CastIsKnown
  <2> QED BY <2>1, <1>1, <1>2 DEF IInv, CastIsKnown
<1>6. ASSUME NEW t \in Terminals PROVE Standing(t)' /\ InTheLoop(t)'
  <2>1. Standing(t)'
    BY <1>1 DEF IInv, Standing, Listed
  <2>2. ASSUME t \in loaded \ skipped, link[t] = "open",
               NEW b \in (since[t] + 1)..newest', b # newest'
        PROVE  b \in chart[t]
    <3>1. since[t] \in Nat
      BY MaxBarsAssumption DEF IInv, TypeOK
    <3>2. b \in (since[t] + 1)..newest /\ (b = newest => newest # since[t])
      BY <2>2, <3>1, <1>1, <1>2
    <3>3. newest \in chart[t] \cup {since[t]}
      BY <2>2, <1>1 DEF IInv, InTheLoop
    <3>4. b # newest => b \in chart[t]
      BY <2>2, <3>2 DEF IInv, InTheLoop
    <3> QED BY <3>2, <3>3, <3>4
  <2> QED BY <2>1, <2>2, <1>1 DEF InTheLoop
<1> QED BY <1>3, <1>4, <1>5, <1>6 DEF IInv

(* The list is copied with every open terminal in it.                      *)
LEMMA BroadcastIInv ==
  ASSUME IInv, Broadcast
  PROVE  IInv'
<1>1. /\ cast = "made" /\ cast' = "casting" /\ left' = clients
      /\ UNCHANGED <<loop, event, heard, link, phase, clients, loaded, since, queue, call, newest,
                     skipped, chart>>
  BY DEF Broadcast, loopVars, connVars, chartVars
<1>2. call[Main] = "none" /\ Main \in Callers
  BY <1>1 DEF IInv, CastIsKnown, Callers
<1>3. clients \in Seq(Terminals) /\ DOMAIN clients = 1..Len(clients)
  BY LenProperties DEF IInv, TypeOK
<1>4. TypeOK'
  BY <1>1 DEF IInv, TypeOK
<1>5. SendsAreAwaited'
  <2>1. \A i \in DOMAIN queue : queue[i].from # Main
    BY <1>2 DEF IInv, SendsAreAwaited
  <2> QED BY <1>1, <2>1 DEF IInv, SendsAreAwaited
<1>6. CastIsKnown'
  <2>1. \A i \in DOMAIN clients : clients[i] \in Terminals /\ clients[i] \in Listed
    BY <1>3, ElementOfSeq DEF Listed
  <2> QED BY <1>1, <1>2, <2>1 DEF IInv, CastIsKnown, Standing
<1>7. ASSUME NEW t \in Terminals PROVE Standing(t)' /\ InTheLoop(t)'
  <2>1. t \in Listed => \E i \in DOMAIN left' : left'[i] = t
    BY <1>1, <1>3 DEF Listed
  <2> QED BY <1>1, <2>1 DEF IInv, Standing, InTheLoop, Listed
<1> QED BY <1>4, <1>5, <1>6, <1>7 DEF IInv

LEMMA CastNextIInv ==
  ASSUME IInv, CastNext
  PROVE  IInv'
<1>1. /\ cast = "casting" /\ call[Main] = "none" /\ left # << >>
      /\ Submit(Main, Head(left))
      /\ UNCHANGED <<loop, event, heard, link, phase, clients, loaded, since, newest, cast, left,
                     skipped, chart>>
  BY DEF CastNext, loopVars, connVars, mainVars, chartVars
<1>2. Head(left) = left[1] /\ Head(left) \in Terminals /\ Main \in Callers
  BY <1>1, HeadTailProperties DEF IInv, TypeOK, Callers
<1>3. /\ call' \in [Callers -> {"none", "waiting", "done", "raised"}]
      /\ queue' \in Seq([from : Callers, to : Terminals])
      /\ call'[Main] \in {"waiting", "raised"} /\ (call'[Main] = "raised" => loop = "closed")
      /\ \A o \in Callers : o # Main => call'[o] = call[o]
      /\ SendsAreAwaited'
  BY <1>1, <1>2, SubmitProperties DEF IInv
<1>4. TypeOK'
  BY <1>1, <1>3 DEF IInv, TypeOK
<1>5. CastIsKnown'
  <2>1. loop = "closed" => link[left[1]] # "open"
    BY <1>2 DEF IInv, Standing
  <2> QED BY <1>1, <1>3, <2>1 DEF IInv, CastIsKnown
<1>6. ASSUME NEW t \in Terminals PROVE Standing(t)' /\ InTheLoop(t)'
  <2>1. t \in Callers /\ t # Main
    BY MainAssumption DEF Callers
  <2> QED BY <2>1, <1>1, <1>3 DEF IInv, Standing, InTheLoop, Listed
<1> QED BY <1>3, <1>4, <1>5, <1>6 DEF IInv

(* A client is done with: it has the bar, or is not open any more.         *)
LEMMA CastGoesOnIInv ==
  ASSUME IInv, CastReturns \/ CastRaises \/ CastEnds
  PROVE  IInv'
<1>1. /\ cast = "casting"
      /\ UNCHANGED <<loop, event, heard, link, phase, clients, loaded, since, queue, newest, chart>>
  BY DEF CastReturns, CastRaises, CastEnds, loopVars, connVars, chartVars
<1>2. /\ Main \in Callers /\ left \in Seq(Terminals) /\ Len(left) \in Nat
      /\ DOMAIN left = 1..Len(left)
      /\ \A i \in DOMAIN left : left[i] \in Terminals
      /\ left = << >> => DOMAIN left = {}
      /\ newest \in Nat
  BY LenProperties, ElementOfSeq, EmptySeq DEF IInv, TypeOK, Callers
<1>3. /\ call' \in [Callers -> {"none", "waiting", "done", "raised"}]
      /\ call'[Main] = "none" /\ \A o \in Callers : o # Main => call'[o] = call[o]
      /\ \A i \in DOMAIN queue : queue[i].from \in Callers /\ queue[i].from # Main
  <2>1. /\ call[Main] # "waiting"
        /\ \/ call' = call /\ call[Main] = "none"
           \/ call' = [call EXCEPT ![Main] = "none"]
    BY <1>1 DEF CastReturns, CastRaises, CastEnds, IInv, CastIsKnown
  <2>2. \A i \in DOMAIN queue : queue[i] \in [from : Callers, to : Terminals]
    <3>1. queue \in Seq([from : Callers, to : Terminals])
      BY DEF IInv, TypeOK
    <3> QED BY ONLY <3>1, ElementOfSeq, LenProperties
  <2>3. \A i \in DOMAIN queue : call[queue[i].from] = "waiting"
    BY DEF IInv, SendsAreAwaited
  <2>4. \A i \in DOMAIN queue : queue[i].from \in Callers /\ queue[i].from # Main
    BY <2>1, <2>2, <2>3
  <2>5. call \in [Callers -> {"none", "waiting", "done", "raised"}]
    BY DEF IInv, TypeOK
  <2> QED BY <2>1, <2>4, <2>5, <1>2
<1>4. SendsAreAwaited'
  BY <1>1, <1>3 DEF IInv, SendsAreAwaited
<1>5. ASSUME NEW t \in Terminals PROVE Standing(t)'
  <2>1. t \in Callers /\ t # Main
    BY MainAssumption DEF Callers
  <2> QED BY <2>1, <1>1, <1>3 DEF IInv, Standing, Listed
<1>6. CASE CastReturns
  <2>1. /\ call[Main] = "done" /\ left # << >> /\ left' = Tail(left)
        /\ UNCHANGED <<cast, skipped>>
    BY <1>6 DEF CastReturns, IInv, CastIsKnown
  <2>2. /\ left' \in Seq(Terminals) /\ DOMAIN left' = 1..(Len(left) - 1)
        /\ \A i \in 1..(Len(left) - 1) : left'[i] = left[i + 1]
    <3>1. /\ Tail(left) \in Seq(Terminals) /\ Len(Tail(left)) = Len(left) - 1
          /\ \A i \in 1..Len(Tail(left)) : Tail(left)[i] = left[i + 1]
      BY <1>2, <2>1, HeadTailProperties
    <3>2. DOMAIN Tail(left) = 1..Len(Tail(left))
      BY <3>1, LenProperties
    <3> QED BY <2>1, <3>1, <3>2
  <2>3. TypeOK'
    BY <1>1, <1>3, <2>1, <2>2 DEF IInv, TypeOK
  <2>4. CastIsKnown'
    <3>1. \A i \in DOMAIN left' : i + 1 \in DOMAIN left /\ left'[i] = left[i + 1]
      BY <1>2, <2>2
    <3> QED BY <1>1, <1>3, <2>1, <3>1 DEF IInv, CastIsKnown
  <2>5. ASSUME NEW t \in Terminals PROVE InTheLoop(t)'
    <3>1. ASSUME NEW i \in DOMAIN left, left[i] = t, newest \notin chart[t] \cup {since[t]}
          PROVE  \E j \in DOMAIN left' : left'[j] = t
      <4>1. i # 1
        BY <2>1, <3>1 DEF IInv, CastIsKnown
      <4>2. i - 1 \in DOMAIN left' /\ left'[i - 1] = left[i]
        BY <4>1, <1>2, <2>2
      <4> QED BY <4>2, <3>1
    <3> QED BY <3>1, <1>1, <2>1 DEF IInv, InTheLoop
  <2> QED BY <1>4, <1>5, <2>3, <2>4, <2>5 DEF IInv
<1>7. CASE CastRaises
  <2>1. /\ call[Main] = "raised" /\ left' = << >> /\ cast' = "idle"
        /\ skipped' = skipped \cup {left[i] : i \in 2..Len(left)}
        /\ link[left[1]] # "open"
    BY <1>7 DEF CastRaises, IInv, CastIsKnown
  <2>2. skipped' \subseteq Terminals
    BY <1>2, <2>1 DEF IInv, TypeOK
  <2>3. TypeOK'
    BY <1>1, <1>3, <2>1, <2>2 DEF IInv, TypeOK
  <2>4. CastIsKnown'
    BY <1>1, <1>3, <2>1 DEF IInv, CastIsKnown
  <2>5. ASSUME NEW t \in Terminals PROVE InTheLoop(t)'
    <3>1. ASSUME link[t] = "open", NEW i \in DOMAIN left, left[i] = t PROVE t \in skipped'
      <4>1. i \in 2..Len(left)
        BY <1>2, <2>1, <3>1
      <4> QED BY <4>1, <2>1, <3>1
    <3> QED BY <3>1, <1>1, <2>1 DEF IInv, InTheLoop
  <2> QED BY <1>4, <1>5, <2>3, <2>4, <2>5 DEF IInv
<1>8. CASE CastEnds
  <2>1. left = << >> /\ cast' = "idle" /\ UNCHANGED <<left, skipped>>
    BY <1>8 DEF CastEnds
  <2>2. TypeOK'
    BY <1>1, <1>3, <2>1 DEF IInv, TypeOK
  <2>3. CastIsKnown'
    BY <1>1, <1>3, <2>1 DEF IInv, CastIsKnown
  <2>4. ASSUME NEW t \in Terminals PROVE InTheLoop(t)'
    BY <1>1, <1>2, <2>1 DEF IInv, InTheLoop
  <2> QED BY <1>4, <1>5, <2>2, <2>3, <2>4 DEF IInv
<1> QED BY <1>6, <1>7, <1>8

LEMMA NextIInv == IInv /\ [Next]_vars => IInv'
<1> SUFFICES ASSUME IInv, [Next]_vars PROVE IInv'
  OBVIOUS
<1>1. CASE Start \/ Stop \/ MakeBar \/ LoopStep
  BY <1>1, LoopIInv, MakeBarIInv, SendIInv DEF LoopStep
<1>2. CASE CastStep
  BY <1>2, BroadcastIInv, CastNextIInv, CastGoesOnIInv DEF CastStep
<1>3. ASSUME NEW t \in Terminals, Connect(t) \/ TerminalGoes(t) \/ HandlerStep(t)
      PROVE  IInv'
  BY <1>3, ConnectIInv, HandlerIInv, CallbackSendsIInv DEF HandlerStep
<1>4. CASE UNCHANGED vars
  <2>1. ASSUME NEW t \in Terminals PROVE Standing(t)' /\ InTheLoop(t)'
    BY <1>4 DEF vars, IInv, Standing, InTheLoop, Listed
  <2> QED BY <1>4, <2>1 DEF vars, IInv, TypeOK, SendsAreAwaited, CastIsKnown
<1> QED BY <1>1, <1>2, <1>3, <1>4 DEF Next

(* The loop, the handlers and the program keep the invariant (SyncServer,  *)
(* TrexServer of the SDK).                                                 *)
THEOREM SpecIInv == Spec => []IInv
<1> QED BY InitIInv, NextIInv, PTL DEF Spec

(* The lists, calls and charts have their types.                           *)
THEOREM SpecTypeOK == Spec => []TypeOK
<1>1. IInv => TypeOK
  BY DEF IInv
<1> QED BY <1>1, SpecIInv, PTL

(* A connected terminal has every bar made after its snapshot reached it,  *)
(* unless a broadcast raised before its turn (_connect, broadcast_bar).    *)
THEOREM SpecEveryBarArrives == Spec => []EveryBarArrives
<1>1. ASSUME IInv, NEW t \in loaded \ skipped, link[t] = "open",
             NEW b \in (since[t] + 1)..newest
      PROVE  b \in chart[t] \/ (b = newest /\ cast # "idle")
  <2>1. t \in Terminals /\ since[t] \in Nat
    BY <1>1, MaxBarsAssumption DEF IInv, TypeOK
  <2>2. b # since[t]
    BY <1>1, <2>1
  <2> QED BY <1>1, <2>1, <2>2 DEF IInv, InTheLoop
<1>2. IInv => EveryBarArrives
  BY <1>1 DEF EveryBarArrives
<1> QED BY <1>2, SpecIInv, PTL

=============================================================================
