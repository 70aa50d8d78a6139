---------------------------- MODULE Server_proofs ----------------------------
(***************************************************************************)
(* Proofs about ServerSessions, for any number of connections, frames and  *)
(* pool threads: on_disconnect never has to share a connection with an     *)
(* on_connect that is still to begin, nor, without a pool, with one at     *)
(* work.                                                                   *)
(* Below them, proofs about AutoSeed, for any indicators, periods, number  *)
(* of bars and starts of the program, on a machine whose local time is     *)
(* UTC: what the database has is right, and nothing is missing.            *)
(***************************************************************************)
EXTENDS ServerSessions, AutoSeed, SequenceTheorems, FiniteSetTheorems,
        WellFoundedInduction, TLAPS

(* RemoveFirst takes one occurrence out, and keeps the others in order.    *)
LEMMA RemoveFirstProperties ==
  ASSUME NEW S, NEW s \in Seq(S), NEW e
  PROVE  /\ RemoveFirst(s, e) \in Seq(S)
         /\ \/ RemoveFirst(s, e) = s /\ \A i \in 1..Len(s) : s[i] # e
            \/ \E k \in 1..Len(s) :
                 /\ s[k] = e
                 /\ Len(RemoveFirst(s, e)) = Len(s) - 1
                 /\ \A j \in 1..(Len(s) - 1) :
                      RemoveFirst(s, e)[j] = s[IF j < k THEN j ELSE j + 1]
<1>1. Len(s) \in Nat /\ \A i \in 1..Len(s) : s[i] \in S
  BY LenProperties, ElementOfSeq
<1>2. CASE \A i \in 1..Len(s) : s[i] # e
  BY <1>2 DEF RemoveFirst
<1>3. CASE \E i \in 1..Len(s) : s[i] = e
  <2> DEFINE I == {i \in 1..Len(s) : s[i] = e}
  <2>1. I \subseteq Nat /\ I # {}
    BY <1>1, <1>3
  <2>2. PICK m \in I : \A y \in I : ~ (<<y, m>> \in OpToRel(<, Nat))
    <3> HIDE DEF I
    <3> QED BY <2>1, NatLessThanWellFounded, WFMin
  <2>3. \A y \in I : m <= y
    <3>1. \A y \in I : ~ (y < m)
      BY <2>1, <2>2 DEF OpToRel
    <3> QED BY <3>1, <2>1
  <2>4. PICK k : k = Min(I)
    OBVIOUS
  <2>5. k \in I
    BY <2>2, <2>3, <2>4 DEF Min
  <2>6. k \in 1..Len(s) /\ s[k] = e
    BY <2>5
  <2>7. RemoveFirst(s, e) = SubSeq(s, 1, k - 1) \o SubSeq(s, k + 1, Len(s))
    BY <1>3, <2>1, <2>4 DEF RemoveFirst, SelectInSeq, RemoveAt
  <2> DEFINE a == SubSeq(s, 1, k - 1)
             b == SubSeq(s, k + 1, Len(s))
  <2>8. /\ a \in Seq(S) /\ Len(a) = k - 1
        /\ \A i \in 1..(k - 1) : a[i] = s[i]
    <3>1. k - 1 \in Int /\ \A i \in 1..(k - 1) : s[i] \in S
      BY <1>1, <2>6
    <3>2. /\ SubSeq(s, 1, k - 1) \in Seq(S)
          /\ Len(SubSeq(s, 1, k - 1)) = IF 1 <= k - 1 THEN k - 1 - 1 + 1 ELSE 0
          /\ \A i \in 1..(k - 1 - 1 + 1) : SubSeq(s, 1, k - 1)[i] = s[1 + i - 1]
      BY <3>1, SubSeqProperties
    <3> QED BY <3>1, <3>2, <1>1, <2>6
  <2>9. /\ b \in Seq(S) /\ Len(b) = Len(s) - k
        /\ \A i \in 1..(Len(s) - k) : b[i] = s[k + i]
    <3>1. k + 1 \in Int /\ Len(s) \in Int /\ \A i \in (k + 1)..Len(s) : s[i] \in S
      BY <1>1, <2>6
    <3>2. /\ SubSeq(s, k + 1, Len(s)) \in Seq(S)
          /\ Len(SubSeq(s, k + 1, Len(s)))
               = IF k + 1 <= Len(s) THEN Len(s) - (k + 1) + 1 ELSE 0
          /\ \A i \in 1..(Len(s) - (k + 1) + 1) :
               SubSeq(s, k + 1, Len(s))[i] = s[(k + 1) + i - 1]
      BY <3>1, SubSeqProperties
    <3> QED BY <3>1, <3>2, <1>1, <2>6
  <2> HIDE DEF a, b
  <2>10. /\ a \o b \in Seq(S) /\ Len(a \o b) = Len(s) - 1
         /\ \A j \in 1..(Len(s) - 1) : (a \o b)[j] = s[IF j < k THEN j ELSE j + 1]
    <3>1. /\ a \o b \in Seq(S) /\ Len(a \o b) = Len(a) + Len(b)
          /\ \A i \in 1..(Len(a) + Len(b)) :
               (a \o b)[i] = IF i <= Len(a) THEN a[i] ELSE b[i - Len(a)]
      BY <2>8, <2>9, ConcatProperties
    <3>2. Len(a \o b) = Len(s) - 1
      BY <3>1, <2>8, <2>9, <2>6, <1>1
    <3>3. ASSUME NEW j \in 1..(Len(s) - 1)
          PROVE  (a \o b)[j] = s[IF j < k THEN j ELSE j + 1]
      <4>1. CASE j < k
        BY <4>1, <3>1, <3>2, <2>8, <2>6, <1>1
      <4>2. CASE ~ (j < k)
        <5>1. j - Len(a) \in 1..(Len(s) - k) /\ k + (j - Len(a)) = j + 1
          BY <4>2, <2>8, <2>6, <1>1
        <5> QED BY <4>2, <5>1, <3>1, <3>2, <2>8, <2>9, <2>6, <1>1
      <4> QED BY <4>1, <4>2
    <3> QED BY <3>1, <3>2, <3>3
  <2> QED BY <2>6, <2>7, <2>10 DEF a, b
<1> QED BY <1>2, <1>3

-----------------------------------------------------------------------------
(* What the handler's place says of its task and of its hooks' calls: the  *)
(* task is made by Register and never again, it calls on_connect once, and *)
(* the handler gets past Leave only when the task has finished.            *)
Orderly(c) ==
  /\ at[c] \in {"none", "refused", "hello", "first"} => task[c] = "none"
  /\ task[c] \in {"none", "created"} => job[c]["connect"] = "none"
  /\ task[c] = "finished" =>
       /\ job[c]["connect"] # "queued"
       /\ ~ sync => job[c]["connect"] # "running"
  /\ job[c]["disconnect"] # "none" => at[c] \in {"disconnect", "ended"}
  /\ at[c] \in {"disconnect", "ended"} => task[c] = "finished"
  /\ task[c] = "cancelling" => at[c] = "leave"
  /\ job[c]["request"] # "none" => at[c] \in {"first", "dispatch"}

(* A call waits in the pool once: dropping it leaves none of it behind.    *)
WaitsOnce == \A i, j \in DOMAIN pool : pool[i] = pool[j] => i = j

IInv == TypeOK /\ WaitsOnce /\ \A c \in Conns : Orderly(c)

(* The part of it that calls change.                                       *)
JobsInv ==
  /\ job \in [Conns -> [Hooks -> {"none", "queued"} \cup Ran]]
  /\ pool \in Seq(Calls)
  /\ \A i \in DOMAIN pool : job[pool[i][1]][pool[i][2]] = "queued"
  /\ WaitsOnce

LEMMA InitIInv == Init => IInv
<1> SUFFICES ASSUME Init PROVE IInv
  OBVIOUS
<1>1. pool \in Seq(Calls) /\ DOMAIN pool = {}
  BY DEF Init
<1>2. TypeOK
  BY <1>1, MaxFramesAssumption DEF Init, TypeOK
<1>3. WaitsOnce
  BY <1>1 DEF WaitsOnce
<1>4. \A c \in Conns : Orderly(c)
  BY DEF Init, Orderly, Hooks
<1> QED BY <1>2, <1>3, <1>4 DEF IInv

(* A hook is called: nothing but its own call changes.                     *)
LEMMA CallProperties ==
  ASSUME JobsInv, NEW c \in Conns, NEW h \in Hooks, Call(c, h), job[c][h] # "queued"
  PROVE  /\ JobsInv'
         /\ job'[c][h] \in {"queued", "running"}
         /\ ~ sync => job'[c][h] = "running"
         /\ \A d \in Conns, g \in Hooks : d # c \/ g # h => job'[d][g] = job[d][g]
<1>1. /\ job \in [Conns -> [Hooks -> {"none", "queued"} \cup Ran]]
      /\ pool \in Seq(Calls) /\ DOMAIN pool = 1..Len(pool) /\ Len(pool) \in Nat
  BY LenProperties DEF JobsInv
<1>2. PICK new \in {"queued", "running"} :
        /\ job' = [job EXCEPT ![c][h] = new]
        /\ \/ new = "queued" /\ pool' = Append(pool, <<c, h>>)
           \/ new = "running" /\ pool' = pool
        /\ ~ sync => new = "running"
  BY DEF Call
<1>3. /\ job' \in [Conns -> [Hooks -> {"none", "queued"} \cup Ran]]
      /\ job'[c][h] = new
      /\ \A d \in Conns, g \in Hooks : d # c \/ g # h => job'[d][g] = job[d][g]
  BY <1>1, <1>2 DEF Ran
<1>4. \A i \in 1..Len(pool) : /\ pool[i] \in Calls /\ pool[i] # <<c, h>>
                              /\ job[pool[i][1]][pool[i][2]] = "queued"
                              /\ job'[pool[i][1]][pool[i][2]] = "queued"
  <2> SUFFICES ASSUME NEW i \in 1..Len(pool)
               PROVE  /\ pool[i] \in Calls /\ pool[i] # <<c, h>>
                      /\ job[pool[i][1]][pool[i][2]] = "queued"
                      /\ job'[pool[i][1]][pool[i][2]] = "queued"
    OBVIOUS
  <2>1. pool[i] \in Calls /\ job[pool[i][1]][pool[i][2]] = "queued"
    BY <1>1, ElementOfSeq DEF JobsInv
  <2>2. PICK d \in Conns, g \in Hooks : pool[i] = <<d, g>>
    BY <2>1 DEF Calls
  <2> QED BY <2>1, <2>2, <1>3
<1>5. JobsInv'
  <2>1. CASE pool' = pool
    BY <2>1, <1>1, <1>3, <1>4 DEF JobsInv, WaitsOnce
  <2>2. CASE new = "queued" /\ pool' = Append(pool, <<c, h>>)
    <3>1. <<c, h>> \in Calls
      BY DEF Calls
    <3>2. /\ pool' \in Seq(Calls) /\ Len(pool') = Len(pool) + 1
          /\ \A i \in 1..Len(pool) : pool'[i] = pool[i]
          /\ pool'[Len(pool) + 1] = <<c, h>>
      BY <2>2, <3>1, <1>1, AppendProperties
    <3>3. DOMAIN pool' = 1..(Len(pool) + 1)
      BY <3>2, LenProperties
    <3>4. \A i \in DOMAIN pool' : job'[pool'[i][1]][pool'[i][2]] = "queued"
      <4> SUFFICES ASSUME NEW i \in 1..(Len(pool) + 1)
                   PROVE  job'[pool'[i][1]][pool'[i][2]] = "queued"
        BY <3>3
      <4>1. i \in 1..Len(pool) \/ i = Len(pool) + 1
        BY <1>1
      <4> QED BY <4>1, <3>2, <1>3, <1>4, <2>2
    <3>5. WaitsOnce'
      <4> SUFFICES ASSUME NEW i \in 1..(Len(pool) + 1), NEW j \in 1..(Len(pool) + 1),
                          pool'[i] = pool'[j]
                   PROVE  i = j
        BY <3>3 DEF WaitsOnce
      <4>1. /\ i \in 1..Len(pool) \/ i = Len(pool) + 1
            /\ j \in 1..Len(pool) \/ j = Len(pool) + 1
        BY <1>1
      <4>2. \A k, l \in 1..Len(pool) : pool[k] = pool[l] => k = l
        BY <1>1 DEF JobsInv, WaitsOnce
      <4> QED BY <4>1, <4>2, <3>2, <1>4
    <3> QED BY <3>2, <3>4, <3>5, <1>3 DEF JobsInv
  <2> QED BY <2>1, <2>2, <1>2
<1> QED BY <1>2, <1>3, <1>5

(* A step that leaves the calls alone, or that only calls a hook or ends   *)
(* the wait for one, keeps the types of everything else.                   *)
LEMMA JobsInvFromIInv == IInv => JobsInv
<1> QED BY DEF IInv, TypeOK, JobsInv

LEMMA ClientIInv ==
  ASSUME IInv, NEW c \in Conns, Client(c)
  PROVE  IInv'
<1>1. CASE ClientGoes(c)
  <2>1. TypeOK'
    BY <1>1 DEF IInv, TypeOK, ClientGoes
  <2> QED BY <1>1, <2>1 DEF IInv, ClientGoes, WaitsOnce, Orderly
<1>2. ASSUME NEW f \in Frames, ClientSends(c, f) PROVE IInv'
  <2>1. inbox' \in [Conns -> Seq(Frames)]
    BY <1>2, AppendProperties DEF IInv, TypeOK, ClientSends
  <2>2. sent' \in [Conns -> 0..MaxFrames]
    BY <1>2, MaxFramesAssumption DEF IInv, TypeOK, ClientSends
  <2>3. TypeOK'
    BY <1>2, <2>1, <2>2 DEF IInv, TypeOK, ClientSends
  <2> QED BY <1>2, <2>3 DEF IInv, ClientSends, WaitsOnce, Orderly
<1> QED BY <1>1, <1>2 DEF Client

LEMMA AcceptIInv ==
  ASSUME IInv, NEW c \in Conns, Accept(c)
  PROVE  IInv'
<1>1. TypeOK'
  <2>1. /\ at[c] = "none" /\ UNCHANGED <<sync, sent, inbox, sessions, greeted, task, job, pool>>
        /\ \/ /\ at' = [at EXCEPT ![c] = "refused"]
              /\ socket' = [socket EXCEPT ![c] = "closed"] /\ alive' = alive
           \/ /\ at' = [at EXCEPT ![c] = "hello"]
              /\ socket' = [socket EXCEPT ![c] = "open"]
              /\ alive' = [alive EXCEPT ![c] = TRUE]
    BY DEF Accept
  <2>2. /\ socket' \in [Conns -> {"absent", "open", "closed"}]
        /\ alive' \in [Conns -> BOOLEAN]
        /\ at' \in [Conns -> {"none", "refused", "hello", "first", "receive", "dispatch",
                              "leave", "disconnect", "ended"}]
    BY <2>1 DEF IInv, TypeOK
  <2> QED BY <2>1, <2>2 DEF IInv, TypeOK
<1>2. WaitsOnce'
  BY DEF IInv, WaitsOnce, Accept
<1>3. PICK new \in {"refused", "hello"} : at' = [at EXCEPT ![c] = new]
  BY DEF Accept
<1>4. at[c] = "none" /\ UNCHANGED <<sync, task, job>>
  BY DEF Accept
<1>5. ASSUME NEW d \in Conns PROVE Orderly(d)'
  BY <1>3, <1>4 DEF IInv, TypeOK, Orderly
<1> QED BY <1>1, <1>2, <1>5 DEF IInv

LEMMA FirstFrameIInv ==
  ASSUME IInv, NEW c \in Conns, FirstFrame(c)
  PROVE  IInv'
<1>1. /\ inbox' \in [Conns -> Seq(Frames)]
      /\ greeted' \in [Conns -> BOOLEAN]
      /\ UNCHANGED <<sync, socket, sent, alive>>
      /\ at[c] = "hello" /\ task[c] = "none" /\ job[c]["connect"] = "none"
      /\ job[c]["disconnect"] = "none" /\ job[c]["request"] = "none"
  BY HeadTailProperties DEF IInv, TypeOK, Orderly, FirstFrame, Hooks
<1>2. CASE Head(inbox[c]) = "request"
  <2>1. /\ Call(c, "request") /\ "request" \in Hooks
        /\ at' = [at EXCEPT ![c] = "first"]
        /\ UNCHANGED <<sessions, task>>
    BY <1>2 DEF FirstFrame, Hooks
  <2>2. /\ JobsInv'
        /\ \A d \in Conns, g \in Hooks : d # c \/ g # "request" => job'[d][g] = job[d][g]
    BY <1>1, <2>1, JobsInvFromIInv, CallProperties
  <2>3. TypeOK'
    BY <1>1, <2>1, <2>2 DEF IInv, TypeOK, JobsInv
  <2>4. ASSUME NEW d \in Conns PROVE Orderly(d)'
    BY <1>1, <2>1, <2>2 DEF IInv, TypeOK, Orderly, Hooks
  <2> QED BY <2>2, <2>3, <2>4 DEF IInv, JobsInv
<1>3. CASE Head(inbox[c]) # "request"
  <2>1. Register(c) /\ UNCHANGED <<job, pool>>
    BY <1>3 DEF FirstFrame
  <2>2. TypeOK'
    BY <1>1, <2>1 DEF IInv, TypeOK, Register
  <2>3. ASSUME NEW d \in Conns PROVE Orderly(d)'
    BY <1>1, <2>1 DEF IInv, TypeOK, Orderly, Register
  <2> QED BY <2>1, <2>2, <2>3 DEF IInv, WaitsOnce
<1> QED BY <1>2, <1>3

(* The finally block, on a connection whose frames were being received.    *)
LEMMA CleanUpIInv ==
  ASSUME IInv, NEW c \in Conns, at[c] = "receive", CleanUp(c),
         inbox' \in [Conns -> Seq(Frames)], greeted' \in [Conns -> BOOLEAN],
         UNCHANGED <<sync, socket, sent, job, pool>>
  PROVE  IInv'
<1>1. TypeOK'
  BY DEF IInv, TypeOK, CleanUp
<1>2. ASSUME NEW d \in Conns PROVE Orderly(d)'
  BY DEF IInv, TypeOK, Orderly, CleanUp
<1> QED BY <1>1, <1>2 DEF IInv, WaitsOnce

(* A call that does not wait in the pool moves on.                         *)
LEMMA SettleProperties ==
  ASSUME JobsInv, NEW c \in Conns, NEW h \in Hooks, job[c][h] # "queued",
         job' \in [Conns -> [Hooks -> {"none", "queued"} \cup Ran]],
         \A d \in Conns, g \in Hooks : d # c \/ g # h => job'[d][g] = job[d][g],
         pool' = pool
  PROVE  JobsInv'
<1>1. ASSUME NEW i \in DOMAIN pool
      PROVE  job'[pool[i][1]][pool[i][2]] = "queued"
  <2>1. pool[i] \in Calls /\ job[pool[i][1]][pool[i][2]] = "queued"
    BY LenProperties, ElementOfSeq DEF JobsInv
  <2>2. PICK d \in Conns, g \in Hooks : pool[i] = <<d, g>>
    BY <2>1 DEF Calls
  <2> QED BY <2>1, <2>2
<1> QED BY <1>1 DEF JobsInv, WaitsOnce

LEMMA HandlerIInv ==
  ASSUME IInv, NEW c \in Conns, Handler(c)
  PROVE  IInv'
<1>1. CASE FirstFrame(c)
  BY <1>1, FirstFrameIInv
<1>2. CASE FirstFrameDone(c) \/ Dispatched(c)
  <2>1. /\ job[c]["request"] = "done" /\ "request" \in Hooks
        /\ job' = [job EXCEPT ![c]["request"] = "none"] /\ pool' = pool
        /\ UNCHANGED <<sync, socket, sent, inbox, alive, greeted>>
        /\ \/ at[c] = "first" /\ Register(c)
           \/ /\ at[c] = "dispatch" /\ at' = [at EXCEPT ![c] = "receive"]
              /\ UNCHANGED <<sessions, task>>
    BY <1>2 DEF FirstFrameDone, Dispatched, Hooks
  <2>2. /\ JobsInv' /\ job'[c]["request"] = "none"
        /\ \A d \in Conns, g \in Hooks : d # c \/ g # "request" => job'[d][g] = job[d][g]
    <3>1. /\ job' \in [Conns -> [Hooks -> {"none", "queued"} \cup Ran]]
          /\ job'[c]["request"] = "none"
          /\ \A d \in Conns, g \in Hooks : d # c \/ g # "request" => job'[d][g] = job[d][g]
      BY <2>1 DEF IInv, TypeOK
    <3>2. JobsInv /\ job[c]["request"] # "queued"
      BY <2>1, JobsInvFromIInv
    <3> QED BY <2>1, <3>1, <3>2, SettleProperties
  <2>3. TypeOK'
    <3>1. /\ at' \in [Conns -> {"none", "refused", "hello", "first", "receive", "dispatch",
                              "leave", "disconnect", "ended"}]
          /\ task' \in [Conns -> {"none", "created", "running", "cancelling", "finished"}]
          /\ sessions' \subseteq Conns
      BY <2>1 DEF IInv, TypeOK, Register
    <3>2. /\ job' \in [Conns -> [Hooks -> {"none", "queued"} \cup Ran]]
          /\ pool' \in Seq(Calls)
          /\ \A i \in DOMAIN pool' : job'[pool'[i][1]][pool'[i][2]] = "queued"
      BY <2>2 DEF JobsInv
    <3> QED BY <2>1, <3>1, <3>2 DEF IInv, TypeOK
  <2>4. ASSUME NEW d \in Conns PROVE Orderly(d)'
    BY <2>1, <2>2 DEF IInv, TypeOK, Orderly, Register, Hooks
  <2> QED BY <2>2, <2>3, <2>4 DEF IInv, JobsInv
<1>3. CASE NoHello(c)
  <2>1. TypeOK'
    BY <1>3 DEF IInv, TypeOK, NoHello, Register
  <2>2. ASSUME NEW d \in Conns PROVE Orderly(d)'
    BY <1>3 DEF IInv, TypeOK, Orderly, NoHello, Register
  <2> QED BY <1>3, <2>1, <2>2 DEF IInv, WaitsOnce, NoHello
<1>4. CASE Receive(c)
  <2>1. /\ inbox' \in [Conns -> Seq(Frames)]
        /\ greeted' \in [Conns -> BOOLEAN]
        /\ UNCHANGED <<sync, socket, sent>>
        /\ at[c] = "receive" /\ job[c]["request"] = "none"
    BY <1>4, HeadTailProperties DEF IInv, TypeOK, Orderly, Receive, Hooks
  <2>2. CASE Head(inbox[c]) = "request"
    <3>1. /\ Call(c, "request") /\ "request" \in Hooks
          /\ at' = [at EXCEPT ![c] = "dispatch"]
          /\ UNCHANGED <<alive, sessions, task>>
      BY <1>4, <2>2 DEF Receive, Hooks
    <3>2. /\ JobsInv'
          /\ \A d \in Conns, g \in Hooks : d # c \/ g # "request" => job'[d][g] = job[d][g]
      BY <2>1, <3>1, JobsInvFromIInv, CallProperties
    <3>3. TypeOK'
      BY <2>1, <3>1, <3>2 DEF IInv, TypeOK, JobsInv
    <3>4. ASSUME NEW d \in Conns PROVE Orderly(d)'
      BY <2>1, <3>1, <3>2 DEF IInv, TypeOK, Orderly, Hooks
    <3> QED BY <3>2, <3>3, <3>4 DEF IInv, JobsInv
  <2>3. CASE Head(inbox[c]) = "array"
    BY <1>4, <2>1, <2>3, CleanUpIInv DEF Receive
  <2>4. CASE Head(inbox[c]) \in {"hello", "junk"}
    <3>1. UNCHANGED <<at, alive, sessions, task, job, pool>>
      BY <1>4, <2>4 DEF Receive
    <3>2. TypeOK'
      BY <2>1, <3>1 DEF IInv, TypeOK
    <3> QED BY <2>1, <3>1, <3>2 DEF IInv, WaitsOnce, Orderly
  <2> QED BY <1>4, <2>2, <2>3, <2>4 DEF Receive
<1>5. CASE Gone(c)
  <2>1. inbox' \in [Conns -> Seq(Frames)] /\ greeted' \in [Conns -> BOOLEAN]
    BY <1>5 DEF IInv, TypeOK, Gone
  <2> QED BY <1>5, <2>1, CleanUpIInv DEF Gone
<1>6. CASE Leave(c)
  <2>1. /\ at[c] = "leave" /\ task[c] = "finished" /\ "disconnect" \in Hooks
        /\ at' = [at EXCEPT ![c] = "disconnect"]
        /\ Call(c, "disconnect") /\ job[c]["disconnect"] = "none"
        /\ UNCHANGED <<sync, socket, sent, inbox, alive, sessions, greeted, task>>
    BY <1>6 DEF Leave, Hooks, IInv, TypeOK, Orderly
  <2>2. /\ JobsInv'
        /\ \A d \in Conns, g \in Hooks : d # c \/ g # "disconnect" => job'[d][g] = job[d][g]
    BY <2>1, JobsInvFromIInv, CallProperties
  <2>3. TypeOK'
    BY <2>1, <2>2 DEF IInv, TypeOK, JobsInv
  <2>4. ASSUME NEW d \in Conns PROVE Orderly(d)'
    BY <2>1, <2>2 DEF IInv, TypeOK, Orderly, Hooks
  <2> QED BY <2>2, <2>3, <2>4 DEF IInv, JobsInv
<1>7. CASE Left(c)
  <2>1. TypeOK'
    BY <1>7 DEF IInv, TypeOK, Left
  <2>2. ASSUME NEW d \in Conns PROVE Orderly(d)'
    BY <1>7 DEF IInv, TypeOK, Orderly, Left
  <2> QED BY <1>7, <2>1, <2>2 DEF IInv, WaitsOnce, Left
<1> QED BY <1>1, <1>2, <1>3, <1>4, <1>5, <1>6, <1>7 DEF Handler

LEMMA SendFailsIInv ==
  ASSUME IInv, NEW c \in Conns, SendFails(c)
  PROVE  IInv'
<1>1. TypeOK'
  BY DEF IInv, TypeOK, SendFails
<1> QED BY <1>1 DEF IInv, SendFails, WaitsOnce, Orderly

(* The pool's thread takes a call, or the hook returns.                    *)
LEMMA HookReturnsIInv ==
  ASSUME IInv, NEW c \in Conns, NEW h \in Hooks, HookReturns(c, h)
  PROVE  IInv'
<1>1. /\ job[c][h] = "running" /\ "done" \in {"none", "queued"} \cup Ran
      /\ job' = [job EXCEPT ![c][h] = "done"] /\ pool' = pool
      /\ UNCHANGED <<sync, socket, sent, inbox, at, alive, sessions, greeted, task>>
  BY DEF HookReturns, Ran
<1>2. /\ JobsInv' /\ job'[c][h] = "done"
      /\ \A d \in Conns, g \in Hooks : d # c \/ g # h => job'[d][g] = job[d][g]
  <2>1. /\ job' \in [Conns -> [Hooks -> {"none", "queued"} \cup Ran]]
        /\ job'[c][h] = "done"
        /\ \A d \in Conns, g \in Hooks : d # c \/ g # h => job'[d][g] = job[d][g]
    BY <1>1 DEF IInv, TypeOK
  <2>2. JobsInv /\ job[c][h] # "queued"
    BY <1>1, JobsInvFromIInv
  <2> QED BY <1>1, <2>1, <2>2, SettleProperties
<1>3. TypeOK'
  BY <1>1, <1>2 DEF IInv, TypeOK, JobsInv
<1>4. ASSUME NEW d \in Conns PROVE Orderly(d)'
  BY <1>1, <1>2 DEF IInv, Orderly, Hooks
<1> QED BY <1>2, <1>3, <1>4 DEF IInv, JobsInv

LEMMA WorkerTakesIInv ==
  ASSUME IInv, WorkerTakes
  PROVE  IInv'
<1>1. /\ pool # << >> /\ pool \in Seq(Calls) /\ Len(pool) \in Nat /\ DOMAIN pool = 1..Len(pool)
      /\ pool' = Tail(pool)
      /\ UNCHANGED <<sync, socket, sent, inbox, at, alive, sessions, greeted, task>>
  BY LenProperties DEF WorkerTakes, IInv, TypeOK
<1>2. PICK c \in Conns, h \in Hooks : pool[1] = <<c, h>> /\ Len(pool) >= 1
  <2>1. Len(pool) >= 1
    BY <1>1, EmptySeq, LenProperties
  <2>2. pool[1] \in Calls
    BY <1>1, <2>1, ElementOfSeq
  <2> QED BY <2>1, <2>2 DEF Calls
<1>3. /\ job[c][h] = "queued"
      /\ job' = [job EXCEPT ![c][h] = "running"]
  <2>1. /\ 1 \in DOMAIN pool /\ Head(pool) = pool[1]
        /\ pool[1][1] = c /\ pool[1][2] = h
    BY <1>1, <1>2
  <2>2. job[pool[1][1]][pool[1][2]] = "queued"
    BY <2>1 DEF IInv, TypeOK
  <2>3. job' = [job EXCEPT ![Head(pool)[1]][Head(pool)[2]] = "running"]
    BY DEF WorkerTakes
  <2> QED BY <2>1, <2>2, <2>3
<1>4. /\ job' \in [Conns -> [Hooks -> {"none", "queued"} \cup Ran]]
      /\ job'[c][h] = "running"
      /\ \A d \in Conns, g \in Hooks : d # c \/ g # h => job'[d][g] = job[d][g]
  BY <1>3 DEF IInv, TypeOK, Ran
<1>5. /\ pool' \in Seq(Calls) /\ DOMAIN pool' = 1..(Len(pool) - 1)
      /\ \A i \in 1..(Len(pool) - 1) : pool'[i] = pool[i + 1]
  BY <1>1, HeadTailProperties, LenProperties
<1>6. ASSUME NEW i \in DOMAIN pool'
      PROVE  job'[pool'[i][1]][pool'[i][2]] = "queued"
  <2>1. i + 1 \in 1..Len(pool) /\ i + 1 # 1 /\ 1 \in 1..Len(pool) /\ pool'[i] = pool[i + 1]
    BY <1>1, <1>2, <1>5
  <2>2. PICK d \in Conns, g \in Hooks : pool[i + 1] = <<d, g>>
    BY <2>1, <1>1, ElementOfSeq DEF Calls
  <2>3. job[pool[i + 1][1]][pool[i + 1][2]] = "queued" /\ pool[i + 1] # pool[1]
    BY <2>1, <1>1 DEF IInv, TypeOK, WaitsOnce
  <2>4. job[d][g] = "queued" /\ (d # c \/ g # h)
    BY <2>2, <2>3, <1>2
  <2> QED BY <2>1, <2>2, <2>4, <1>4
<1>7. WaitsOnce'
  <2> SUFFICES ASSUME NEW i \in 1..(Len(pool) - 1), NEW j \in 1..(Len(pool) - 1),
                      pool'[i] = pool'[j]
               PROVE  i = j
    BY <1>5 DEF WaitsOnce
  <2>1. /\ i + 1 \in DOMAIN pool /\ j + 1 \in DOMAIN pool
        /\ pool[i + 1] = pool[j + 1]
    BY <1>1, <1>5
  <2>2. i + 1 = j + 1
    BY <2>1 DEF IInv, WaitsOnce
  <2> QED BY <2>2, <1>1
<1>8. TypeOK'
  BY <1>1, <1>4, <1>5, <1>6 DEF IInv, TypeOK
<1>9. ASSUME NEW d \in Conns PROVE Orderly(d)'
  BY <1>1, <1>3, <1>4 DEF IInv, Orderly, Hooks
<1> QED BY <1>7, <1>8, <1>9 DEF IInv

(* The on_connect task's own steps.  Its cancellation takes its call out   *)
(* of the pool, wherever it waits there.                                   *)
LEMMA ConnectTaskIInv ==
  ASSUME IInv, NEW c \in Conns, ConnectTask(c)
  PROVE  IInv'
<1>1. CASE TaskBegins(c)
  <2>1. /\ task[c] = "created" /\ job[c]["connect"] = "none" /\ "connect" \in Hooks
        /\ task' = [task EXCEPT ![c] = "running"] /\ Call(c, "connect")
        /\ UNCHANGED <<sync, socket, sent, inbox, at, alive, sessions, greeted>>
    BY <1>1 DEF TaskBegins, Hooks, IInv, Orderly
  <2>2. /\ JobsInv'
        /\ \A d \in Conns, g \in Hooks : d # c \/ g # "connect" => job'[d][g] = job[d][g]
    BY <2>1, JobsInvFromIInv, CallProperties
  <2>3. TypeOK'
    BY <2>1, <2>2 DEF IInv, TypeOK, JobsInv
  <2>4. ASSUME NEW d \in Conns PROVE Orderly(d)'
    BY <2>1, <2>2 DEF IInv, TypeOK, Orderly, Hooks
  <2> QED BY <2>2, <2>3, <2>4 DEF IInv, JobsInv
<1>2. CASE TaskEnds(c)
  <2>1. TypeOK'
    BY <1>2 DEF IInv, TypeOK, TaskEnds
  <2>2. ASSUME NEW d \in Conns PROVE Orderly(d)'
    BY <1>2 DEF IInv, TypeOK, Orderly, TaskEnds
  <2> QED BY <1>2, <2>1, <2>2 DEF IInv, WaitsOnce, TaskEnds
<1>3. CASE TaskCancelled(c)
  <2>1. /\ task[c] = "cancelling" /\ task' = [task EXCEPT ![c] = "finished"]
        /\ pool' = RemoveFirst(pool, <<c, "connect">>)
        /\ UNCHANGED <<sync, socket, sent, inbox, at, alive, sessions, greeted>>
        /\ pool \in Seq(Calls) /\ Len(pool) \in Nat /\ DOMAIN pool = 1..Len(pool)
    BY <1>3, LenProperties DEF TaskCancelled, IInv, TypeOK
  <2>2. /\ job' \in [Conns -> [Hooks -> {"none", "queued"} \cup Ran]]
        /\ job'[c]["connect"] # "queued"
        /\ ~ sync => job'[c]["connect"] # "running"
        /\ \A d \in Conns, g \in Hooks : d # c \/ g # "connect" => job'[d][g] = job[d][g]
    <3>1. PICK new \in {"none", "queued"} \cup Ran :
            /\ job' = [job EXCEPT ![c]["connect"] = new]
            /\ new # "queued" /\ (~ sync => new # "running")
      <4>1. job[c]["connect"] \in {"none", "queued"} \cup Ran
        BY DEF IInv, TypeOK, Hooks
      <4>2. job' = [job EXCEPT ![c]["connect"] =
                     IF job[c]["connect"] = "queued" \/ (job[c]["connect"] = "running" /\ ~ sync)
                     THEN "cut" ELSE job[c]["connect"]]
        BY <1>3 DEF TaskCancelled
      <4> DEFINE new == IF job[c]["connect"] = "queued" \/ (job[c]["connect"] = "running" /\ ~ sync)
                        THEN "cut" ELSE job[c]["connect"]
      <4>3. /\ new \in {"none", "queued"} \cup Ran
            /\ new # "queued" /\ (~ sync => new # "running")
        BY <4>1 DEF Ran
      <4>4. job' = [job EXCEPT ![c]["connect"] = new]
        BY <4>2
      <4> HIDE DEF new
      <4> QED BY <4>3, <4>4
    <3> QED BY <3>1 DEF IInv, TypeOK, Hooks
  <2>3. /\ pool' \in Seq(Calls)
        /\ \/ pool' = pool /\ \A i \in 1..Len(pool) : pool[i] # <<c, "connect">>
           \/ \E k \in 1..Len(pool) :
                /\ pool[k] = <<c, "connect">>
                /\ Len(pool') = Len(pool) - 1
                /\ \A j \in 1..(Len(pool) - 1) : pool'[j] = pool[IF j < k THEN j ELSE j + 1]
    <3> DEFINE x == <<c, "connect">>
    <3> HIDE DEF x
    <3>1. /\ RemoveFirst(pool, x) \in Seq(Calls)
          /\ \/ RemoveFirst(pool, x) = pool /\ \A i \in 1..Len(pool) : pool[i] # x
             \/ \E k \in 1..Len(pool) :
                  /\ pool[k] = x
                  /\ Len(RemoveFirst(pool, x)) = Len(pool) - 1
                  /\ \A j \in 1..(Len(pool) - 1) :
                       RemoveFirst(pool, x)[j] = pool[IF j < k THEN j ELSE j + 1]
      <4>1. pool \in Seq(Calls)
        BY <2>1
      <4> QED BY ONLY <4>1, RemoveFirstProperties
    <3>2. pool' = RemoveFirst(pool, x)
      BY <2>1 DEF x
    <3>3. /\ pool' \in Seq(Calls)
          /\ \/ pool' = pool /\ \A i \in 1..Len(pool) : pool[i] # x
             \/ \E k \in 1..Len(pool) :
                  /\ pool[k] = x
                  /\ Len(pool') = Len(pool) - 1
                  /\ \A j \in 1..(Len(pool) - 1) : pool'[j] = pool[IF j < k THEN j ELSE j + 1]
      BY <3>1, <3>2
    <3> QED BY <3>3 DEF x
  <2>4. DOMAIN pool' = 1..Len(pool') /\ Len(pool') \in Nat
    BY <2>3, LenProperties
  <2>5. PICK was \in [DOMAIN pool' -> DOMAIN pool] :
          /\ \A j \in DOMAIN pool' : pool'[j] = pool[was[j]] /\ pool[was[j]] # <<c, "connect">>
          /\ \A i, j \in DOMAIN pool' : was[i] = was[j] => i = j
    <3>1. CASE pool' = pool /\ \A i \in 1..Len(pool) : pool[i] # <<c, "connect">>
      <4> DEFINE f == [j \in DOMAIN pool' |-> j]
      <4>1. f \in [DOMAIN pool' -> DOMAIN pool]
        BY <3>1
      <4>2. /\ \A j \in DOMAIN pool' : pool'[j] = pool[f[j]] /\ pool[f[j]] # <<c, "connect">>
            /\ \A i, j \in DOMAIN pool' : f[i] = f[j] => i = j
        BY <3>1, <2>1
      <4> HIDE DEF f
      <4> QED BY <4>1, <4>2
    <3>2. ASSUME NEW k \in 1..Len(pool), pool[k] = <<c, "connect">>,
                 Len(pool') = Len(pool) - 1,
                 \A j \in 1..(Len(pool) - 1) : pool'[j] = pool[IF j < k THEN j ELSE j + 1]
          PROVE  \E f \in [DOMAIN pool' -> DOMAIN pool] :
                   /\ \A j \in DOMAIN pool' : pool'[j] = pool[f[j]] /\ pool[f[j]] # <<c, "connect">>
                   /\ \A i, j \in DOMAIN pool' : f[i] = f[j] => i = j
      <4> DEFINE f == [j \in DOMAIN pool' |-> IF j < k THEN j ELSE j + 1]
      <4>1. /\ \A j \in DOMAIN pool' : f[j] \in DOMAIN pool /\ f[j] # k
            /\ \A i, j \in DOMAIN pool' : f[i] = f[j] => i = j
        <5>1. PICK m, n : m = Len(pool) /\ n = Len(pool')
          OBVIOUS
        <5>2. /\ m \in Nat /\ n = m - 1 /\ k \in 1..m
              /\ DOMAIN pool = 1..m /\ DOMAIN pool' = 1..n
          BY <2>1, <2>4, <3>2, <5>1
        <5>3. \A j \in 1..n : f[j] = IF j < k THEN j ELSE j + 1
          BY <5>2
        <5> HIDE DEF f
        <5> QED BY ONLY <5>2, <5>3
      <4>2. f \in [DOMAIN pool' -> DOMAIN pool]
        BY <4>1
      <4>3. \A j \in DOMAIN pool' : pool'[j] = pool[f[j]]
        BY <3>2, <2>4
      <4>4. \A j \in DOMAIN pool' : pool[f[j]] # <<c, "connect">>
        <5> SUFFICES ASSUME NEW j \in DOMAIN pool' PROVE pool[f[j]] # pool[k]
          BY <3>2
        <5>1. f[j] \in DOMAIN pool /\ k \in DOMAIN pool /\ f[j] # k
          BY <4>1, <2>1
        <5> HIDE DEF f
        <5> QED BY <5>1 DEF IInv, WaitsOnce
      <4> HIDE DEF f
      <4> QED BY <4>1, <4>2, <4>3, <4>4
    <3> QED BY <3>1, <3>2, <2>3
  <2>6. ASSUME NEW i \in DOMAIN pool'
        PROVE  job'[pool'[i][1]][pool'[i][2]] = "queued"
    <3>1. was[i] \in DOMAIN pool /\ pool'[i] = pool[was[i]] /\ pool[was[i]] # <<c, "connect">>
      BY <2>5
    <3>2. PICK d \in Conns, g \in Hooks : pool[was[i]] = <<d, g>>
      BY <3>1, <2>1, ElementOfSeq DEF Calls
    <3>3. job[d][g] = "queued"
      BY <3>1, <3>2 DEF IInv, TypeOK
    <3> QED BY <3>1, <3>2, <3>3, <2>2
  <2>7. WaitsOnce'
    BY <2>5 DEF IInv, WaitsOnce
  <2>8. TypeOK'
    BY <2>1, <2>2, <2>3, <2>6 DEF IInv, TypeOK
  <2>9. ASSUME NEW d \in Conns PROVE Orderly(d)'
    BY <2>1, <2>2 DEF IInv, TypeOK, Orderly, Hooks
  <2> QED BY <2>7, <2>8, <2>9 DEF IInv
<1> QED BY <1>1, <1>2, <1>3 DEF ConnectTask

LEMMA NextIInv == IInv /\ [Next]_vars => IInv'
<1> SUFFICES ASSUME IInv, [Next]_vars PROVE IInv'
  OBVIOUS
<1>1. CASE WorkerTakes
  BY <1>1, WorkerTakesIInv
<1>2. ASSUME NEW c \in Conns,
             Accept(c) \/ Client(c) \/ Handler(c) \/ ConnectTask(c) \/ SendFails(c)
      PROVE  IInv'
  BY <1>2, AcceptIInv, ClientIInv, HandlerIInv, ConnectTaskIInv, SendFailsIInv
<1>3. ASSUME NEW c \in Conns, NEW h \in Hooks, HookReturns(c, h) PROVE IInv'
  BY <1>3, HookReturnsIInv
<1>4. CASE UNCHANGED vars
  BY <1>4 DEF vars, IInv, TypeOK, WaitsOnce, Orderly
<1> QED BY <1>1, <1>2, <1>3, <1>4 DEF Next

(* The handlers, the tasks, the pool and the clients keep the invariant,   *)
(* whatever order they run in (TrexServer._handle).                        *)
THEOREM SpecIInv == Spec => []IInv
<1> QED BY InitIInv, NextIInv, PTL DEF Spec

(* The types of the connections' states, and a call that waits in the pool *)
(* is marked as waiting.                                                   *)
THEOREM SpecTypeOK == Spec => []TypeOK
<1>1. IInv => TypeOK
  BY DEF IInv
<1> QED BY <1>1, SpecIInv, PTL

(* Without a pool on_disconnect starts when on_connect has ended or was    *)
(* cut: the finally block awaits the cancelled task first (server.py).     *)
THEOREM SpecDisconnectComesLast == Spec => []DisconnectComesLast
<1>1. IInv => DisconnectComesLast
  <2> SUFFICES ASSUME IInv, ~ sync, NEW c \in Conns, job[c]["disconnect"] \in Ran
               PROVE  job[c]["connect"] \in {"none", "done", "cut"}
    BY DEF DisconnectComesLast
  <2>1. task[c] = "finished"
    BY DEF IInv, Orderly, Ran
  <2> QED BY <2>1 DEF IInv, Orderly, TypeOK, Ran, Hooks
<1> QED BY <1>1, SpecIInv, PTL

(* No step begins on_connect once on_disconnect was called, however long   *)
(* its call has waited in the pool (TrexServer._handle, SyncServer).       *)
THEOREM SpecNoLateConnect == Spec => NoLateConnect
<1>1. ASSUME IInv, [Next]_vars, NEW c \in Conns,
             job[c]["disconnect"] # "none", job'[c]["connect"] = "running"
      PROVE  job[c]["connect"] = "running"
  <2>1. /\ task[c] = "finished" /\ job[c]["connect"] # "queued" /\ "connect" \in Hooks
        /\ job \in [Conns -> [Hooks -> {"none", "queued"} \cup Ran]]
    BY <1>1 DEF IInv, Orderly, TypeOK, Hooks
  <2>2. CASE UNCHANGED job
    BY <2>2, <1>1
  <2>3. ASSUME NEW d \in Conns, NEW h \in Hooks, Call(d, h), h # "connect" \/ d # c
        PROVE  job[c]["connect"] = "running"
    BY <2>1, <2>3, <1>1 DEF Call
  <2>4. ASSUME NEW d \in Conns,
               FirstFrame(d) \/ Receive(d) \/ Leave(d) \/ TaskBegins(d)
        PROVE  job[c]["connect"] = "running"
    <3>1. "request" \in Hooks /\ "disconnect" \in Hooks
      BY DEF Hooks
    <3> QED BY <2>1, <2>2, <2>3, <2>4, <3>1 DEF FirstFrame, Receive, Leave, TaskBegins
  <2>5. ASSUME NEW d \in Conns, FirstFrameDone(d) \/ Dispatched(d)
        PROVE  job[c]["connect"] = "running"
    BY <2>1, <2>5, <1>1 DEF FirstFrameDone, Dispatched
  <2>6. ASSUME NEW d \in Conns, TaskCancelled(d)
        PROVE  job[c]["connect"] = "running"
    <3>1. d # c
      BY <2>1, <2>6 DEF TaskCancelled
    <3> QED BY <2>1, <2>6, <3>1, <1>1 DEF TaskCancelled
  <2>7. CASE WorkerTakes
    <3>1. /\ pool # << >> /\ pool \in Seq(Calls) /\ 1 \in DOMAIN pool /\ Head(pool) = pool[1]
      BY <2>7, <1>1, EmptySeq, LenProperties DEF WorkerTakes, IInv, TypeOK
    <3>2. pool[1] \in Calls /\ job[pool[1][1]][pool[1][2]] = "queued"
      BY <3>1, <1>1, LenProperties, ElementOfSeq DEF IInv, TypeOK
    <3>3. PICK d \in Conns, h \in Hooks : pool[1] = <<d, h>>
      BY <3>2 DEF Calls
    <3>4. d # c \/ h # "connect"
      BY <3>2, <3>3, <2>1
    <3>5. job' = [job EXCEPT ![d][h] = "running"]
      <4>1. job' = [job EXCEPT ![Head(pool)[1]][Head(pool)[2]] = "running"]
        BY <2>7 DEF WorkerTakes
      <4>2. Head(pool)[1] = d /\ Head(pool)[2] = h
        BY <3>1, <3>3
      <4> QED BY <4>1, <4>2
    <3> QED BY <3>4, <3>5, <2>1, <1>1
  <2>8. ASSUME NEW d \in Conns, NEW h \in Hooks, HookReturns(d, h)
        PROVE  job[c]["connect"] = "running"
    BY <2>1, <2>8, <1>1 DEF HookReturns
  <2> QED BY <2>2, <2>4, <2>5, <2>6, <2>7, <2>8, <1>1
          DEF Next, vars, Handler, Client, ConnectTask, Accept, ClientGoes, ClientSends, NoHello,
              Gone, Left, SendFails, TaskEnds, Register, CleanUp
<1>2. IInv /\ [Next]_vars =>
        [\A c \in Conns : job[c]["disconnect"] # "none" /\ job'[c]["connect"] = "running"
                             => job[c]["connect"] = "running"]_vars
  BY <1>1
<1> QED BY <1>2, SpecIInv, PTL DEF Spec, NoLateConnect

-----------------------------------------------------------------------------
(* seed() and push(), on a machine whose local time is UTC.                *)
OnUTC == Offset = 0

Waits(i) == \E n \in DOMAIN todo : todo[n] = i

(* The rows up to the newest bar: those that a value made without its bar, *)
(* have NULLs.                                                             *)
RowsInv ==
  /\ \A t \in Times : rows[t] # "none" => t <= clock
  /\ \A t \in Times : rows[t] = "null" => t \in unsaved
  /\ \A t \in unsaved : t <= clock /\ rows[t] # "candle"
  /\ \A i \in Seeded, t \in Times : values[i][t] # NoValue => rows[t] # "none"

(* Where the program is, and what it has at hand there.                    *)
WorkInv ==
  /\ \A m, n \in DOMAIN todo : todo[m] = todo[n] => m = n
  /\ pc \in {"down", "up"} =>
       /\ bars = << >> /\ fed = 0 /\ todo = << >> /\ ~ booted
       /\ engine = NewEngine /\ pending = NoValues
  /\ pc \in {"feed", "saved"} => bars = FetchBars /\ bars # << >>
  /\ pc = "feed" =>
       /\ booted <=> fed > 0
       /\ todo # << >> => fed > 1 /\ candle = <<bars[fed]>>
  /\ pc = "saved" => fed = Len(bars) /\ todo = << >> /\ booted
  /\ pc = "ready" /\ todo # << >> =>
       /\ candle = <<[time |-> clock, real |-> TRUE]>> /\ clock \in Times
       /\ rows[clock] = "candle" \/ clock \in unsaved
  /\ pc = "ready" /\ ~ booted => todo = << >> /\ (Seeded # {} => FetchBars = << >>)
  /\ pc = "ready" /\ booted /\ unsaved = {} =>
       Len(FetchBars) > (IF todo = << >> THEN 0 ELSE 1)

(* How many of the stored bars an indicator has consumed, the first one,   *)
(* which is never fed, among them.                                         *)
Through(i) ==
  (IF pc = "ready" THEN Len(FetchBars) ELSE fed) - (IF Waits(i) THEN 1 ELSE 0)

(* The window over the first n of these bars.                              *)
WindowOf(s, n, p) == LastOf(SubSeq(s, 2, n), p)

(* As long as every bar is saved, the windows are over the stored bars.    *)
WindowInv ==
  /\ \A i \in Seeded : engine[i].part = << >>
  /\ pc \in {"feed", "saved"} \/ (pc = "ready" /\ unsaved = {}) =>
       \A i \in Seeded : engine[i].window = WindowOf(FetchBars, Through(i), Period[i])

(* Whether or not it is, they are full when the candles suffice.           *)
LengthInv ==
  pc = "ready" =>
    \A i \in Seeded :
      \/ Len(engine[i].window) >= Period[i]
      \/ Len(engine[i].window) + 1 >= Len(Stored(IF Waits(i) THEN clock - 1 ELSE clock))

(* seed() puts aside the values of the bars fed that it does not know.     *)
PendingInv ==
  pc = "feed" =>
    /\ \A i \in Names, t \in Times : pending[i][t] # NoValue =>
         /\ i \in Seeded
         /\ \E k \in DOMAIN bars : /\ bars[k].time = t /\ k > Period[i] /\ k <= Through(i)
                                   /\ pending[i][t] = WindowOf(bars, k, Period[i])
    /\ \A i \in Seeded : \A k \in DOMAIN bars :
         k > Period[i] /\ k <= Through(i) /\ bars[k].time > known[i] =>
           pending[i][bars[k].time] # NoValue

KnownInv ==
  pc = "feed" =>
    \A i \in Seeded : known[i] = 0 \/ (known[i] \in Times /\ values[i][known[i]] # NoValue)

(* No value is missing before the newest one that is stored, and none at   *)
(* all once the seed is saved, but the one that is being computed.         *)
Has(i, t) == values[i][t] # NoValue \/ t \in lost[i]

Owed(i, t) == rows[t] = "candle" /\ Len(Stored(t)) > Period[i]

CompleteInv ==
  /\ \A i \in Seeded, t, u \in Times :
       Owed(i, t) /\ t <= u /\ values[i][u] # NoValue => Has(i, t)
  /\ pc \in {"saved", "ready"} =>
       \A i \in Seeded, t \in Times :
         Owed(i, t) => Has(i, t) \/ (Waits(i) /\ t = clock)

AutoInv ==
  /\ AutoTypeOK /\ RowsInv /\ WorkInv /\ WindowInv /\ LengthInv /\ PendingInv /\ KnownInv
  /\ CompleteInv /\ ValuesAreRight /\ MemoryIsTail

-----------------------------------------------------------------------------
(* Sets in ascending order: each element is at its rank.                   *)
UpTo(T, t) == {u \in T : u <= t}

LEMMA Ranks ==
  ASSUME NEW T \in SUBSET Int, IsFiniteSet(T)
  PROVE  /\ \A t \in Int : /\ IsFiniteSet(UpTo(T, t))
                           /\ Cardinality(UpTo(T, t)) \in 0..Cardinality(T)
         /\ \A t \in T : Cardinality(UpTo(T, t)) \in 1..Cardinality(T)
         /\ \A t \in Int, u \in T : t < u => Cardinality(UpTo(T, t)) < Cardinality(UpTo(T, u))
<1>1. ASSUME NEW t \in Int
      PROVE  /\ IsFiniteSet(UpTo(T, t)) /\ Cardinality(UpTo(T, t)) \in Nat
             /\ Cardinality(UpTo(T, t)) <= Cardinality(T) /\ Cardinality(T) \in Nat
  BY FS_Subset, FS_CardinalityType, UpTo(T, t) \in SUBSET T DEF UpTo
<1>2. ASSUME NEW t \in Int, NEW u \in T, t < u
      PROVE  Cardinality(UpTo(T, t)) < Cardinality(UpTo(T, u))
  <2>2. u \in Int /\ \A v \in T : v \in Int
    OBVIOUS
  <2>4. \A v \in T : v <= t => v <= u
    BY <1>2, <2>2
  <2>5. u <= u /\ ~ (u <= t)
    BY <1>2, <2>2
  <2>1. UpTo(T, t) \in SUBSET UpTo(T, u) /\ u \in UpTo(T, u) /\ u \notin UpTo(T, t)
    BY <2>4, <2>5, Zenon DEF UpTo
  <2>3. /\ IsFiniteSet(UpTo(T, u)) /\ Cardinality(UpTo(T, t)) \in Nat
        /\ Cardinality(UpTo(T, u)) \in Nat
    BY <2>2, <1>1
  <2> QED
    BY <2>1, <2>3, FS_Subset
<1>3. ASSUME NEW t \in T
      PROVE  Cardinality(UpTo(T, t)) # 0
  <2>1. t \in Int /\ t \in UpTo(T, t)
    BY DEF UpTo
  <2> QED
    BY <2>1, <1>1, FS_EmptySet
<1> QED
  BY <1>1, <1>2, <1>3

LEMMA AscendingFacts ==
  ASSUME NEW T \in SUBSET Int, IsFiniteSet(T)
  PROVE  /\ Ascending(T) \in Seq(T) /\ Len(Ascending(T)) = Cardinality(T)
         /\ Cardinality(T) \in Nat /\ DOMAIN Ascending(T) = 1..Cardinality(T)
         /\ \A n \in 1..Cardinality(T) : Cardinality(UpTo(T, Ascending(T)[n])) = n
         /\ \A t \in T : /\ Cardinality(UpTo(T, t)) \in 1..Cardinality(T)
                         /\ Ascending(T)[Cardinality(UpTo(T, t))] = t
         /\ \A m, n \in 1..Cardinality(T) : m < n => Ascending(T)[m] < Ascending(T)[n]
<1> DEFINE N == Cardinality(T)
           rank == [t \in T |-> Cardinality(UpTo(T, t))]
<1>1. N \in Nat
  BY FS_CardinalityType
<1>2. rank \in [T -> 1..N]
  BY Ranks
<1>3. \A t, u \in T : rank[t] = rank[u] => t = u
  <2> SUFFICES ASSUME NEW t \in T, NEW u \in T, rank[t] = rank[u]
               PROVE  t = u
    OBVIOUS
  <2>1. t \in Int /\ u \in Int /\ rank[t] \in Int /\ rank[u] \in Int
    BY <1>2
  <2>2. (t < u => rank[t] < rank[u]) /\ (u < t => rank[u] < rank[t])
    BY <2>1, Ranks
  <2> QED
    BY <2>1, <2>2
<1>4. rank \in Injection(T, 1..N)
  BY <1>2, <1>3 DEF Injection, IsInjective
<1>5. IsFiniteSet(1..N) /\ Cardinality(1..N) = N
  BY <1>1, FS_Interval
<1>6. rank \in Surjection(T, 1..N)
  <2> HIDE DEF rank
  <2> QED
    BY <1>4, <1>5, FS_Injection
<1>7. \A n \in 1..N : \E t \in T : Cardinality(UpTo(T, t)) = n
  BY <1>6 DEF Surjection
<1>8. ASSUME NEW n \in 1..N
      PROVE  Ascending(T)[n] \in T /\ Cardinality(UpTo(T, Ascending(T)[n])) = n
  <2>1. Ascending(T)[n] = CHOOSE t \in T : Cardinality(UpTo(T, t)) = n
    BY DEF Ascending, UpTo
  <2> QED
    BY <2>1, <1>7
<1>9. Ascending(T) \in [1..N -> T]
  <2> DEFINE C(n) == CHOOSE t \in T : Cardinality({u \in T : u <= t}) = n
  <2>1. Ascending(T) = [n \in 1..N |-> C(n)]
    BY DEF Ascending
  <2>2. \A n \in 1..N : C(n) \in T
    BY <1>7 DEF UpTo
  <2> HIDE DEF N, C
  <2> QED
    BY <2>1, <2>2
<1>10. Ascending(T) \in Seq(T) /\ Len(Ascending(T)) = N /\ DOMAIN Ascending(T) = 1..N
  <2> HIDE DEF N
  <2> QED
    BY <1>1, <1>9, SeqDef, LenProperties
<1>11. ASSUME NEW t \in T
       PROVE  /\ Cardinality(UpTo(T, t)) \in 1..N
              /\ Ascending(T)[Cardinality(UpTo(T, t))] = t
  BY <1>2, <1>3, <1>8
<1>12. ASSUME NEW m \in 1..N, NEW n \in 1..N, m < n
       PROVE  Ascending(T)[m] < Ascending(T)[n]
  <2> DEFINE a == Ascending(T)[m]
             b == Ascending(T)[n]
  <2>1. a \in T /\ b \in T /\ rank[a] = m /\ rank[b] = n
    BY <1>8
  <2>2. a \in Int /\ b \in Int
    BY <2>1
  <2>3. b < a => rank[b] < rank[a]
    BY <2>1, <2>2, Ranks
  <2> HIDE DEF a, b, rank
  <2>4. a # b /\ ~ (b < a)
    BY <2>1, <2>3, <1>12
  <2>5. a < b
    BY <2>2, <2>4
  <2> QED
    BY <2>5 DEF a, b
<1> QED
  BY <1>1, <1>8, <1>10, <1>11, <1>12

(* An element above all others comes last.                                 *)
LEMMA AscendingPlus ==
  ASSUME NEW T \in SUBSET Int, IsFiniteSet(T), NEW m \in Int, \A t \in T : t < m
  PROVE  Ascending(T \cup {m}) = Append(Ascending(T), m)
<1> DEFINE U == T \cup {m}
           N == Cardinality(T)
           a == Ascending(T)
           b == Ascending(U)
<1>1. m \notin T /\ U \in SUBSET Int
  OBVIOUS
<1>2. IsFiniteSet(U) /\ Cardinality(U) = N + 1 /\ N \in Nat
  BY <1>1, FS_AddElement, FS_CardinalityType
<1>3. ASSUME NEW t \in T
      PROVE  UpTo(U, t) = UpTo(T, t)
  <2>1. t \in Int /\ ~ (m <= t)
    OBVIOUS
  <2> QED
    BY <2>1 DEF UpTo
<1>4. UpTo(U, m) = U
  <2>1. m <= m /\ \A t \in T : t <= m
    <3>1. \A t \in T : t \in Int
      OBVIOUS
    <3> QED
      BY <3>1
  <2> QED
    BY <2>1, Zenon DEF UpTo
<1>5. /\ a \in Seq(T) /\ Len(a) = N /\ DOMAIN a = 1..N
      /\ \A n \in 1..N : a[n] \in T /\ Cardinality(UpTo(T, a[n])) = n
  BY AscendingFacts
<1>6. /\ b \in Seq(U) /\ Len(b) = N + 1 /\ DOMAIN b = 1..(N + 1)
      /\ \A t \in U : b[Cardinality(UpTo(U, t))] = t
  BY <1>1, <1>2, AscendingFacts
<1>7. b[N + 1] = m
  BY <1>2, <1>4, <1>6
<1>8. \A n \in 1..N : b[n] = a[n]
  BY <1>3, <1>5, <1>6
<1> DEFINE c == Append(a, m)
<1>9. c \in Seq(U) /\ Len(c) = N + 1 /\ (\A n \in 1..N : c[n] = a[n]) /\ c[N + 1] = m
  <2>1. a \in Seq(U)
    BY <1>5
  <2> HIDE DEF a, U, N
  <2> QED
    BY <2>1, <1>2, <1>5, AppendProperties, m \in U DEF U
<1>10. b = c
  <2> HIDE DEF a, b, c, U, N
  <2>1. \A n \in 1..(N + 1) : b[n] = c[n]
    BY <1>2, <1>7, <1>8, <1>9
  <2> QED
    BY <2>1, <1>2, <1>6, <1>9, SeqEqual
<1> QED
  BY <1>10

(* The elements up to a bound come first.                                  *)
LEMMA AscendingUpTo ==
  ASSUME NEW T \in SUBSET Int, IsFiniteSet(T), NEW k \in 1..Cardinality(T)
  PROVE  Ascending(UpTo(T, Ascending(T)[k])) = SubSeq(Ascending(T), 1, k)
<1> DEFINE a == Ascending(T)
           N == Cardinality(T)
           x == a[k]
           U == UpTo(T, x)
           b == Ascending(U)
           c == SubSeq(a, 1, k)
<1>1. /\ a \in Seq(T) /\ Len(a) = N /\ N \in Nat
      /\ \A n \in 1..N : a[n] \in T /\ Cardinality(UpTo(T, a[n])) = n
      /\ \A m, n \in 1..N : m < n => a[m] < a[n]
  BY AscendingFacts
<1>2. x \in T /\ x \in Int /\ Cardinality(U) = k
  BY <1>1
<1>3. U \in SUBSET T /\ U \in SUBSET Int /\ IsFiniteSet(U)
  BY <1>2, FS_Subset DEF UpTo
<1>4. ASSUME NEW n \in 1..k
      PROVE  a[n] \in U /\ UpTo(U, a[n]) = UpTo(T, a[n])
  <2>4. n \in 1..N /\ k \in 1..N
    BY <1>1
  <2>5. a[n] \in T /\ a[n] \in Int
    BY <2>4, <1>1
  <2>1. n \in 1..N /\ (n < k => a[n] < x) /\ a[n] \in T /\ a[n] \in Int
    <3> HIDE DEF N, a
    <3> QED
      BY <1>1, <2>4, <2>5
  <2>2. a[n] <= x
    BY <2>1, <1>2
  <2>3. ASSUME NEW u \in T, u <= a[n]
        PROVE  u <= x
    BY <2>1, <2>2, <2>3, <1>2, u \in Int
  <2> QED
    BY <2>1, <2>2, <2>3 DEF UpTo
<1>5. /\ b \in Seq(U) /\ Len(b) = k
      /\ \A t \in U : b[Cardinality(UpTo(U, t))] = t
  BY <1>2, <1>3, AscendingFacts
<1>6. \A n \in 1..k : b[n] = a[n]
  BY <1>1, <1>4, <1>5
<1>7. Len(c) = k /\ c \in Seq(T) /\ \A n \in 1..k : c[n] = a[n]
  <2> HIDE DEF a, N
  <2>1. k \in 1..N
    BY DEF N
  <2>2. \A i \in 1..k : a[i] \in T
    BY <2>1, <1>1
  <2> QED
    BY <2>1, <2>2, <1>1, SubSeqProperties
<1>8. b \in Seq(T)
  BY <1>3, <1>5
<1>9. b = c
  <2> HIDE DEF b, c, a, U, x, N
  <2> QED
    BY <1>5, <1>6, <1>7, <1>8, SeqEqual
<1> QED
  BY <1>9
-----------------------------------------------------------------------------
(* The bars and candles that the rows r hold.                              *)
RowStates == {"none", "candle", "null"}

SavedIn(r) == {t \in Times : r[t] # "none"}

CandlesIn(r, t) == {u \in Times : r[u] = "candle" /\ u <= t}

BarsIn(r) ==
  [n \in DOMAIN Ascending(SavedIn(r)) |->
     [time |-> Ascending(SavedIn(r))[n], real |-> r[Ascending(SavedIn(r))[n]] = "candle"]]

StoredIn(r, t) ==
  [n \in DOMAIN Ascending(CandlesIn(r, t)) |->
     [time |-> Ascending(CandlesIn(r, t))[n], real |-> TRUE]]

LEMMA OfRows ==
  /\ FetchBars = BarsIn(rows) /\ FetchBars' = BarsIn(rows')
  /\ \A t : Stored(t) = StoredIn(rows, t)
  /\ \A t : Stored(t)' = StoredIn(rows', t)
<1>1. FetchBars = BarsIn(rows)
  BY DEF FetchBars, BarsIn, SavedIn
<1>2. FetchBars' = BarsIn(rows')
  BY DEF FetchBars, BarsIn, SavedIn
<1>3. ASSUME NEW t PROVE Stored(t) = StoredIn(rows, t)
  BY DEF Stored, StoredIn, CandlesIn
<1>4. ASSUME NEW t PROVE Stored(t)' = StoredIn(rows', t)
  BY DEF Stored, StoredIn, CandlesIn
<1> QED
  BY <1>1, <1>2, <1>3, <1>4

LEMMA TimesAreNumbers ==
  ASSUME OnUTC
  PROVE  Times = 1..MaxTime /\ IsFiniteSet(Times) /\ Times \in SUBSET Int /\ MaxTime \in Nat
<1>1. Times = 1..MaxTime /\ MaxTime \in Nat
  BY BoundsAssumption DEF OnUTC, Times
<1> QED
  BY <1>1, FS_Interval

LEMMA SetsOfTimes ==
  ASSUME OnUTC, NEW r, NEW t
  PROVE  /\ SavedIn(r) \in SUBSET Times /\ SavedIn(r) \in SUBSET Int /\ IsFiniteSet(SavedIn(r))
         /\ CandlesIn(r, t) \in SUBSET Times /\ CandlesIn(r, t) \in SUBSET Int
         /\ IsFiniteSet(CandlesIn(r, t))
         /\ CandlesIn(r, t) \in SUBSET SavedIn(r)
<1>1. /\ SavedIn(r) \in SUBSET Times /\ CandlesIn(r, t) \in SUBSET Times
      /\ CandlesIn(r, t) \in SUBSET SavedIn(r)
  BY DEF SavedIn, CandlesIn
<1> QED
  BY <1>1, TimesAreNumbers, FS_Subset

LEMMA BarsFacts ==
  ASSUME OnUTC, NEW r
  PROVE  /\ BarsIn(r) \in Seq(Candles) /\ Len(BarsIn(r)) = Cardinality(SavedIn(r))
         /\ Len(BarsIn(r)) \in Nat /\ DOMAIN BarsIn(r) = 1..Len(BarsIn(r))
         /\ \A k \in 1..Len(BarsIn(r)) :
              /\ BarsIn(r)[k].time = Ascending(SavedIn(r))[k]
              /\ BarsIn(r)[k] \in Candles
              /\ BarsIn(r)[k].time \in SavedIn(r) /\ BarsIn(r)[k].time \in Times
              /\ BarsIn(r)[k] = [time |-> BarsIn(r)[k].time, real |-> r[BarsIn(r)[k].time] = "candle"]
         /\ \A j, k \in 1..Len(BarsIn(r)) : j < k => BarsIn(r)[j].time < BarsIn(r)[k].time
         /\ \A t \in SavedIn(r) : \E k \in 1..Len(BarsIn(r)) : BarsIn(r)[k].time = t
<1> DEFINE S == SavedIn(r)
           a == Ascending(S)
           N == Cardinality(S)
           b == BarsIn(r)
<1>1. S \in SUBSET Times /\ S \in SUBSET Int /\ IsFiniteSet(S)
  BY SetsOfTimes
<1>2. /\ N \in Nat /\ DOMAIN a = 1..N /\ \A k \in 1..N : a[k] \in S
      /\ \A t \in S : \E k \in 1..N : a[k] = t
      /\ \A j, k \in 1..N : j < k => a[j] < a[k]
  <2> HIDE DEF S
  <2>1. a \in Seq(S) /\ Len(a) = N /\ N \in Nat
    BY <1>1, AscendingFacts
  <2>2. \A k \in 1..N : a[k] \in S
    <3> HIDE DEF a, N
    <3> QED
      BY <2>1, ElementOfSeq
  <2> QED
    BY <1>1, <2>1, <2>2, AscendingFacts
<1>3. b = [k \in 1..N |-> [time |-> a[k], real |-> r[a[k]] = "candle"]]
  BY <1>2 DEF BarsIn
<1> HIDE DEF S, a, N, b
<1>4. b \in [1..N -> Candles]
  <2>1. \A k \in 1..N : [time |-> a[k], real |-> r[a[k]] = "candle"] \in Candles
    BY <1>1, <1>2 DEF Candles
  <2> QED
    BY <1>3, <2>1
<1>5. b \in Seq(Candles) /\ Len(b) = N /\ DOMAIN b = 1..N
  BY <1>2, <1>4, SeqDef, LenProperties
<1>6. \A k \in 1..N : /\ b[k].time = a[k] /\ b[k] \in Candles
                      /\ b[k].time \in S /\ b[k].time \in Times
                      /\ b[k] = [time |-> b[k].time, real |-> r[b[k].time] = "candle"]
  BY <1>1, <1>2, <1>3, <1>4
<1>7. ASSUME NEW t \in S
      PROVE  \E k \in 1..N : b[k].time = t
  <2>1. PICK k \in 1..N : a[k] = t
    BY <1>2
  <2> QED
    BY <2>1, <1>6
<1>8. \A j, k \in 1..N : j < k => b[j].time < b[k].time
  BY <1>2, <1>6
<1> QED
  BY <1>2, <1>5, <1>6, <1>7, <1>8 DEF b, N, S, a

LEMMA StoredFacts ==
  ASSUME OnUTC, NEW r, NEW t
  PROVE  /\ StoredIn(r, t) \in Seq(Candles)
         /\ Len(StoredIn(r, t)) = Cardinality(CandlesIn(r, t))
         /\ Len(StoredIn(r, t)) \in Nat
<1> DEFINE S == CandlesIn(r, t)
           a == Ascending(S)
           N == Cardinality(S)
           b == StoredIn(r, t)
<1>1. S \in SUBSET Times /\ S \in SUBSET Int /\ IsFiniteSet(S)
  BY SetsOfTimes
<1>2. N \in Nat /\ DOMAIN a = 1..N /\ \A k \in 1..N : a[k] \in S
  <2> HIDE DEF S
  <2>1. a \in Seq(S) /\ Len(a) = N /\ N \in Nat /\ DOMAIN a = 1..N
    BY <1>1, AscendingFacts
  <2> HIDE DEF a, N
  <2> QED
    BY <2>1, ElementOfSeq
<1>3. b = [k \in 1..N |-> [time |-> a[k], real |-> TRUE]]
  BY <1>2 DEF StoredIn
<1> HIDE DEF S, a, N, b
<1>4. b \in [1..N -> Candles]
  <2>1. \A k \in 1..N : [time |-> a[k], real |-> TRUE] \in Candles
    BY <1>1, <1>2 DEF Candles
  <2> QED
    BY <1>3, <2>1
<1>5. b \in Seq(Candles) /\ Len(b) = N
  BY <1>2, <1>4, SeqDef, LenProperties
<1> QED
  BY <1>2, <1>5 DEF b, N, S

(* A candle newer than all others is the last bar.                         *)
LEMMA BarsPlus ==
  ASSUME OnUTC, NEW r \in [Times -> RowStates], NEW m \in Times, \A t \in SavedIn(r) : t < m
  PROVE  BarsIn([r EXCEPT ![m] = "candle"]) = Append(BarsIn(r), [time |-> m, real |-> TRUE])
<1> DEFINE q == [r EXCEPT ![m] = "candle"]
           N == Len(BarsIn(r))
           c == Append(BarsIn(r), [time |-> m, real |-> TRUE])
<1>0. /\ Times \in SUBSET Int /\ m \in Int
      /\ SavedIn(r) \in SUBSET Int /\ IsFiniteSet(SavedIn(r))
  BY TimesAreNumbers, SetsOfTimes
<1>1. SavedIn(q) = SavedIn(r) \cup {m} /\ m \notin SavedIn(r)
  <2>1. m \notin SavedIn(r)
    BY <1>0
  <2> QED
    BY <2>1 DEF SavedIn
<1>2. Ascending(SavedIn(q)) = Append(Ascending(SavedIn(r)), m)
  BY <1>0, <1>1, AscendingPlus
<1>3. Cardinality(SavedIn(q)) = Cardinality(SavedIn(r)) + 1
  BY <1>0, <1>1, FS_AddElement
<1>4. /\ BarsIn(r) \in Seq(Candles) /\ N = Cardinality(SavedIn(r)) /\ N \in Nat
      /\ \A k \in 1..N :
           /\ BarsIn(r)[k].time = Ascending(SavedIn(r))[k]
           /\ BarsIn(r)[k].time \in SavedIn(r)
           /\ BarsIn(r)[k] = [time |-> BarsIn(r)[k].time,
                              real |-> r[BarsIn(r)[k].time] = "candle"]
  BY BarsFacts
<1>5. /\ BarsIn(q) \in Seq(Candles) /\ Len(BarsIn(q)) = N + 1
      /\ \A k \in 1..(N + 1) :
           /\ BarsIn(q)[k].time = Ascending(SavedIn(q))[k]
           /\ BarsIn(q)[k] = [time |-> BarsIn(q)[k].time,
                              real |-> q[BarsIn(q)[k].time] = "candle"]
  <2> HIDE DEF q, N
  <2>1. Len(BarsIn(q)) = N + 1
    BY <1>3, <1>4, BarsFacts
  <2>2. /\ BarsIn(q) \in Seq(Candles)
        /\ \A k \in 1..Len(BarsIn(q)) :
             /\ BarsIn(q)[k].time = Ascending(SavedIn(q))[k]
             /\ BarsIn(q)[k] = [time |-> BarsIn(q)[k].time,
                                real |-> q[BarsIn(q)[k].time] = "candle"]
    BY BarsFacts
  <2> QED
    BY <2>1, <2>2
<1>6. /\ Ascending(SavedIn(r)) \in Seq(Int) /\ Len(Ascending(SavedIn(r))) = N
  BY <1>0, <1>4, AscendingFacts, SeqMonotonic
<1>7. /\ \A k \in 1..N : Ascending(SavedIn(q))[k] = Ascending(SavedIn(r))[k]
      /\ Ascending(SavedIn(q))[N + 1] = m
  <2> DEFINE a == Ascending(SavedIn(r))
  <2>1. a \in Seq(Int) /\ Len(a) = N /\ N \in Nat
    BY <1>4, <1>6
  <2> HIDE DEF a, N
  <2>2. (\A k \in 1..N : Append(a, m)[k] = a[k]) /\ Append(a, m)[N + 1] = m
    BY <2>1, <1>0, AppendProperties
  <2> QED
    BY <2>2, <1>2 DEF a
<1>8. [time |-> m, real |-> TRUE] \in Candles
  BY DEF Candles
<1>9. /\ c \in Seq(Candles) /\ Len(c) = N + 1
      /\ \A k \in 1..N : c[k] = BarsIn(r)[k]
      /\ c[N + 1] = [time |-> m, real |-> TRUE]
  <2> HIDE DEF N
  <2>1. BarsIn(r) \in Seq(Candles) /\ N = Len(BarsIn(r))
    BY <1>4 DEF N
  <2> QED
    BY <1>8, <2>1, AppendProperties
<1>10. ASSUME NEW k \in 1..N
       PROVE  BarsIn(q)[k] = c[k]
  <2>1. k \in 1..(N + 1)
    BY <1>4
  <2>2. BarsIn(q)[k].time = BarsIn(r)[k].time /\ BarsIn(r)[k].time \in SavedIn(r)
    BY <2>1, <1>4, <1>5, <1>7
  <2>3. q[BarsIn(r)[k].time] = r[BarsIn(r)[k].time]
    <3>1. BarsIn(r)[k].time # m /\ BarsIn(r)[k].time \in Times
      BY <2>2, <1>1 DEF SavedIn
    <3> QED
      BY <3>1
  <2> HIDE DEF q, N, c
  <2> DEFINE x == BarsIn(r)[k].time
  <2>4. BarsIn(q)[k] = [time |-> x, real |-> q[x] = "candle"]
    BY <2>1, <2>2, <1>5
  <2>5. BarsIn(r)[k] = [time |-> x, real |-> r[x] = "candle"]
    BY <1>4
  <2>6. BarsIn(q)[k] = BarsIn(r)[k]
    <3> HIDE DEF x
    <3>1. q[x] = r[x]
      BY <2>3 DEF x
    <3> QED
      BY <3>1, <2>4, <2>5
  <2> QED
    BY <2>6, <1>9
<1>11. BarsIn(q)[N + 1] = c[N + 1]
  <2>1. N + 1 \in 1..(N + 1)
    BY <1>4
  <2>2. q[m] = "candle"
    OBVIOUS
  <2>3. BarsIn(q)[N + 1].time = m
    BY <2>1, <1>5, <1>7
  <2>4. BarsIn(q)[N + 1] = [time |-> m, real |-> TRUE]
    BY <2>1, <2>2, <2>3, <1>5
  <2> QED
    BY <2>4, <1>9
<1>12. \A k \in 1..(N + 1) : BarsIn(q)[k] = c[k]
  <2> HIDE DEF q, N, c
  <2> QED
    BY <1>4, <1>10, <1>11
<1>13. BarsIn(q) = c
  <2> HIDE DEF q, N, c
  <2> QED
    BY <1>5, <1>9, <1>12, SeqEqual
<1> QED
  BY <1>13

(* What is stored up to a bar, if all of it are candles.                   *)
LEMMA StoredIsBars ==
  ASSUME OnUTC, NEW r, NEW k \in 1..Len(BarsIn(r)),
         \A u \in SavedIn(r) : u <= BarsIn(r)[k].time => r[u] = "candle"
  PROVE  StoredIn(r, BarsIn(r)[k].time) = SubSeq(BarsIn(r), 1, k)
<1> DEFINE t == BarsIn(r)[k].time
           S == SavedIn(r)
           C == CandlesIn(r, t)
           a == Ascending(S)
           b == BarsIn(r)
           N == Len(b)
<1>1. /\ b \in Seq(Candles) /\ N = Cardinality(S) /\ N \in Nat
      /\ \A n \in 1..N : b[n].time = a[n] /\ b[n] \in Candles /\ b[n].time \in S
      /\ \A n \in 1..N : b[n] = [time |-> b[n].time, real |-> r[b[n].time] = "candle"]
      /\ \A m, n \in 1..N : m < n => b[m].time < b[n].time
  BY BarsFacts
<1>2. k \in 1..N
  OBVIOUS
<1>3. S \in SUBSET Int /\ IsFiniteSet(S) /\ t = a[k] /\ t \in S
  BY <1>1, <1>2, SetsOfTimes
<1>4. C = UpTo(S, t)
  <2>1. \A u \in S : u <= t => r[u] = "candle"
    OBVIOUS
  <2>2. \A u \in Times : r[u] = "candle" => u \in S
    BY DEF SavedIn
  <2>3. \A u \in S : u \in Times
    BY DEF SavedIn
  <2> HIDE DEF S, t
  <2> QED
    BY <2>1, <2>2, <2>3 DEF CandlesIn, UpTo
<1>5. Ascending(C) = SubSeq(a, 1, k)
  <2>1. k \in 1..Cardinality(S)
    BY <1>1, <1>2
  <2> HIDE DEF S
  <2> QED
    BY <1>3, <1>4, <2>1, AscendingUpTo
<1>6. a \in Seq(S) /\ Len(a) = N
  <2> HIDE DEF S
  <2> QED
    BY <1>1, <1>3, AscendingFacts
<1>7. /\ SubSeq(a, 1, k) \in Seq(S) /\ Len(SubSeq(a, 1, k)) = k
      /\ DOMAIN SubSeq(a, 1, k) = 1..k
      /\ \A n \in 1..k : SubSeq(a, 1, k)[n] = a[n]
  <2> HIDE DEF a, S, N, b, t, C
  <2>1. \A n \in 1..k : a[n] \in S
    BY <1>1, <1>2, <1>6, ElementOfSeq
  <2>2. SubSeq(a, 1, k) \in Seq(S) /\ Len(SubSeq(a, 1, k)) = k
    BY <1>1, <1>2, <2>1, SubSeqProperties
  <2> QED
    BY <1>1, <1>2, <2>1, <2>2, SubSeqProperties, LenProperties
<1>8. /\ SubSeq(b, 1, k) \in Seq(Candles) /\ Len(SubSeq(b, 1, k)) = k
      /\ \A n \in 1..k : SubSeq(b, 1, k)[n] = b[n]
  <2> HIDE DEF a, S, N, b, t, C
  <2>1. \A n \in 1..k : b[n] \in Candles
    BY <1>1, <1>2
  <2> QED
    BY <1>1, <1>2, <2>1, SubSeqProperties
<1>9. StoredIn(r, t) = [n \in 1..k |-> [time |-> a[n], real |-> TRUE]]
  <2>1. StoredIn(r, t) = [n \in 1..k |-> [time |-> SubSeq(a, 1, k)[n], real |-> TRUE]]
    BY <1>5, <1>7 DEF StoredIn
  <2> HIDE DEF a, t
  <2> QED
    BY <1>7, <2>1
<1>10. ASSUME NEW n \in 1..k
       PROVE  b[n] = [time |-> a[n], real |-> TRUE]
  <2>1. n \in 1..N /\ (n < k => b[n].time < t) /\ b[n].time \in S
    <3>1. n \in 1..N
      BY <1>1, <1>2
    <3> QED
      BY <3>1, <1>1, <1>2
  <2>2. b[n].time <= t
    <3>1. b[n].time \in Int /\ t \in Int
      BY <1>3, <2>1
    <3>2. n = k \/ n < k
      BY <1>1, <1>2
    <3> QED
      BY <2>1, <3>1, <3>2
  <2>3. r[b[n].time] = "candle"
    BY <2>1, <2>2
  <2>4. b[n] = [time |-> b[n].time, real |-> r[b[n].time] = "candle"] /\ b[n].time = a[n]
    BY <1>1, <2>1
  <2> HIDE DEF b, a
  <2> QED
    BY <2>3, <2>4
<1>11. StoredIn(r, t) \in Seq(Candles) /\ Len(StoredIn(r, t)) = k
  <2>1. StoredIn(r, t) \in [1..k -> Candles]
    <3>1. \A n \in 1..k : [time |-> a[n], real |-> TRUE] \in Candles
      <4>1. \A n \in 1..k : b[n] \in Candles
        BY <1>1, <1>2
      <4> HIDE DEF a, b
      <4> QED
        BY <4>1, <1>10
    <3> HIDE DEF a, t
    <3> QED
      BY <3>1, <1>9
  <2> HIDE DEF t
  <2> QED
    BY <2>1, <1>1, <1>2, SeqDef, LenProperties
<1>12. \A n \in 1..k : StoredIn(r, t)[n] = SubSeq(b, 1, k)[n]
  <2> HIDE DEF a, b, t
  <2> QED
    BY <1>8, <1>9, <1>10
<1>13. StoredIn(r, t) = SubSeq(b, 1, k)
  <2> HIDE DEF b, t
  <2> QED
    BY <1>8, <1>11, <1>12, SeqEqual
<1> QED
  BY <1>13

(* How many candles there are up to a time.                                *)
LEMMA StoredCounts ==
  ASSUME OnUTC, NEW r
  PROVE  /\ \A t : Len(StoredIn(r, t)) \in Nat
         /\ \A t : Len(StoredIn(r, t)) <= Len(BarsIn(r))
         /\ \A k \in 1..Len(BarsIn(r)) : Len(StoredIn(r, BarsIn(r)[k].time)) <= k
         /\ \A t \in Int : Len(StoredIn(r, t)) <= Len(StoredIn(r, t - 1)) + 1
         /\ \A t \in Int : r[t] # "candle" => Len(StoredIn(r, t)) <= Len(StoredIn(r, t - 1))
<1> DEFINE S == SavedIn(r)
           C(t) == CandlesIn(r, t)
<1>1. ASSUME NEW t
      PROVE  /\ Len(StoredIn(r, t)) = Cardinality(C(t)) /\ Len(StoredIn(r, t)) \in Nat
             /\ IsFiniteSet(C(t)) /\ C(t) \in SUBSET S
  BY StoredFacts, SetsOfTimes
<1>2. IsFiniteSet(S) /\ S \in SUBSET Int /\ Len(BarsIn(r)) = Cardinality(S)
  BY SetsOfTimes, BarsFacts
<1>3. ASSUME NEW t
      PROVE  Len(StoredIn(r, t)) <= Len(BarsIn(r))
  BY <1>1, <1>2, FS_Subset
<1>4. ASSUME NEW k \in 1..Len(BarsIn(r))
      PROVE  Len(StoredIn(r, BarsIn(r)[k].time)) <= k
  <2> DEFINE t == BarsIn(r)[k].time
  <2>1. t = Ascending(S)[k] /\ t \in S
    BY BarsFacts
  <2>2. Cardinality(UpTo(S, t)) = k
    <3> HIDE DEF S
    <3> QED
      BY <1>2, <2>1, AscendingFacts
  <2>3. C(t) \in SUBSET UpTo(S, t)
    BY DEF CandlesIn, SavedIn, UpTo
  <2>4. IsFiniteSet(UpTo(S, t))
    <3>1. UpTo(S, t) \in SUBSET S
      BY DEF UpTo
    <3> QED
      BY <3>1, <1>2, FS_Subset
  <2>5. Cardinality(C(t)) <= k
    <3> HIDE DEF t, C, S
    <3> QED
      BY <2>2, <2>3, <2>4, FS_Subset
  <2> QED
    BY <2>5, <1>1
<1>5. ASSUME NEW t \in Int
      PROVE  /\ Cardinality(C(t)) <= Cardinality(C(t - 1)) + 1
             /\ r[t] # "candle" => Cardinality(C(t)) <= Cardinality(C(t - 1))
  <2>1. \A u \in Times : u \in Int /\ (u <= t => u <= t - 1 \/ u = t)
    BY TimesAreNumbers
  <2>2. C(t) \in SUBSET (C(t - 1) \cup {t}) /\ (r[t] # "candle" => C(t) \in SUBSET C(t - 1))
    BY <2>1 DEF CandlesIn
  <2>3. IsFiniteSet(C(t - 1)) /\ Cardinality(C(t - 1)) \in Nat /\ Cardinality(C(t)) \in Nat
    BY <1>1, FS_CardinalityType
  <2>4. /\ IsFiniteSet(C(t - 1) \cup {t})
        /\ Cardinality(C(t - 1) \cup {t}) <= Cardinality(C(t - 1)) + 1
        /\ Cardinality(C(t - 1) \cup {t}) \in Nat
    <3> HIDE DEF C
    <3> QED
      BY <2>3, FS_AddElement
  <2> HIDE DEF C
  <2> QED
    BY <2>2, <2>3, <2>4, FS_Subset
<1> QED
  BY <1>1, <1>3, <1>4, <1>5

LEMMA StoredSame ==
  ASSUME NEW r, NEW q, NEW t,
         \A u \in Times : u <= t => (r[u] = "candle" <=> q[u] = "candle")
  PROVE  StoredIn(r, t) = StoredIn(q, t)
<1>1. CandlesIn(r, t) = CandlesIn(q, t)
  BY DEF CandlesIn
<1> QED
  BY <1>1 DEF StoredIn

(* The candles up to a time that no row is beyond, if all rows are candles.*)
LEMMA StoredAll ==
  ASSUME OnUTC, NEW r, NEW b,
         \A u \in SavedIn(r) : u <= b /\ r[u] = "candle"
  PROVE  StoredIn(r, b) = BarsIn(r)
<1>1. CandlesIn(r, b) = SavedIn(r)
  BY DEF CandlesIn, SavedIn
<1> DEFINE a == Ascending(SavedIn(r))
<1>2. \A n \in DOMAIN a : a[n] \in SavedIn(r)
  <2>1. a \in Seq(SavedIn(r)) /\ DOMAIN a = 1..Len(a)
    BY SetsOfTimes, AscendingFacts, LenProperties
  <2> HIDE DEF a
  <2> QED
    BY <2>1, ElementOfSeq
<1>3. \A n \in DOMAIN a : (r[a[n]] = "candle") = TRUE
  BY <1>2
<1>4. StoredIn(r, b) = [n \in DOMAIN a |-> [time |-> a[n], real |-> TRUE]]
  BY <1>1 DEF StoredIn
<1>5. BarsIn(r) = [n \in DOMAIN a |-> [time |-> a[n], real |-> r[a[n]] = "candle"]]
  BY DEF BarsIn
<1> HIDE DEF a
<1> QED
  BY <1>3, <1>4, <1>5
-----------------------------------------------------------------------------
(* The end of a sequence, and the windows over one.                        *)
LEMMA LastOfFacts ==
  ASSUME NEW S, NEW s \in Seq(S), NEW n \in Nat
  PROVE  /\ LastOf(s, n) \in Seq(S)
         /\ Len(LastOf(s, n)) = (IF Len(s) > n THEN n ELSE Len(s))
         /\ Len(LastOf(s, n)) \in Nat /\ Len(LastOf(s, n)) <= n
         /\ \A i \in 1..Len(LastOf(s, n)) :
              LastOf(s, n)[i] = s[Len(s) - Len(LastOf(s, n)) + i]
<1>1. Len(s) \in Nat /\ \A i \in 1..Len(s) : s[i] \in S
  BY LenProperties, ElementOfSeq
<1>2. CASE Len(s) > n
  <2> DEFINE m == Len(s) - n + 1
             c == SubSeq(s, m, Len(s))
  <2>1. m \in Int /\ Len(s) \in Int /\ \A i \in m..Len(s) : s[i] \in S
    BY <1>1, <1>2
  <2>2. /\ c \in Seq(S) /\ Len(c) = (IF m <= Len(s) THEN Len(s) - m + 1 ELSE 0)
        /\ \A i \in 1..(Len(s) - m + 1) : c[i] = s[m + i - 1]
    <3> HIDE DEF m
    <3> QED
      BY <2>1, SubSeqProperties
  <2>3. LastOf(s, n) = c
    BY <1>2 DEF LastOf
  <2>4. Len(c) = n
    BY <1>1, <1>2, <2>2
  <2>5. \A i \in 1..n : c[i] = s[Len(s) - n + i]
    <3> SUFFICES ASSUME NEW i \in 1..n
                 PROVE  c[i] = s[Len(s) - n + i]
      OBVIOUS
    <3>1. i \in 1..(Len(s) - m + 1) /\ m + i - 1 = Len(s) - n + i
      BY <1>1
    <3> HIDE DEF c, m
    <3> QED
      BY <3>1, <2>2
  <2> HIDE DEF c
  <2> QED
    BY <1>1, <1>2, <2>2, <2>3, <2>4, <2>5
<1>3. CASE ~ (Len(s) > n)
  BY <1>1, <1>3 DEF LastOf
<1> QED
  BY <1>2, <1>3

LEMMA WindowFacts ==
  ASSUME NEW S, NEW s \in Seq(S), NEW n \in 0..Len(s), NEW p \in Nat
  PROVE  /\ WindowOf(s, n, p) \in Seq(S)
         /\ Len(WindowOf(s, n, p)) = (IF n > p THEN p ELSE IF n > 0 THEN n - 1 ELSE 0)
         /\ \A i \in 1..Len(WindowOf(s, n, p)) :
              WindowOf(s, n, p)[i] = s[n - Len(WindowOf(s, n, p)) + i]
<1> DEFINE c == SubSeq(s, 2, n)
           N == IF n > 0 THEN n - 1 ELSE 0
<1>1. Len(s) \in Nat /\ n \in Nat /\ \A i \in 2..n : s[i] \in S
  BY LenProperties, ElementOfSeq
<1>2. c \in Seq(S) /\ Len(c) = N /\ \A i \in 1..N : c[i] = s[i + 1]
  <2>1. /\ c \in Seq(S) /\ Len(c) = (IF 2 <= n THEN n - 2 + 1 ELSE 0)
        /\ \A i \in 1..(n - 2 + 1) : c[i] = s[2 + i - 1]
    BY <1>1, SubSeqProperties
  <2>2. Len(c) = N
    BY <1>1, <2>1
  <2>3. ASSUME NEW i \in 1..N PROVE c[i] = s[i + 1]
    <3>1. i \in 1..(n - 2 + 1) /\ 2 + i - 1 = i + 1
      BY <1>1
    <3> HIDE DEF c
    <3> QED
      BY <2>1, <3>1
  <2> QED
    BY <2>1, <2>2, <2>3
<1> DEFINE w == LastOf(c, p)
<1>3. /\ w \in Seq(S) /\ Len(w) = (IF N > p THEN p ELSE N) /\ Len(w) \in Nat
      /\ \A i \in 1..Len(w) : w[i] = c[N - Len(w) + i]
  <2> HIDE DEF c, N
  <2> QED
    BY <1>2, LastOfFacts
<1>4. Len(w) = (IF n > p THEN p ELSE N)
  BY <1>1, <1>3
<1>5. ASSUME NEW i \in 1..Len(w)
      PROVE  w[i] = s[n - Len(w) + i]
  <2>1. N - Len(w) + i \in 1..N /\ (N - Len(w) + i) + 1 = n - Len(w) + i
    BY <1>1, <1>3
  <2> HIDE DEF w, c, N
  <2> QED
    BY <2>1, <1>2, <1>3
<1> QED
  BY <1>3, <1>4, <1>5 DEF WindowOf

(* A bar more.                                                             *)
LEMMA WindowNext ==
  ASSUME NEW S, NEW s \in Seq(S), NEW n \in 1..Len(s), NEW p \in Nat \ {0}, n + 1 \in 1..Len(s)
  PROVE  LastOf(WindowOf(s, n, p) \o <<s[n + 1]>>, p) = WindowOf(s, n + 1, p)
<1> DEFINE v == WindowOf(s, n, p)
           w == WindowOf(s, n + 1, p)
           c == v \o <<s[n + 1]>>
           d == LastOf(c, p)
           N == IF n > p THEN p ELSE n - 1
<1>1. /\ v \in Seq(S) /\ Len(v) = N /\ N \in Nat
      /\ \A i \in 1..N : v[i] = s[n - N + i]
  <2>1. s \in Seq(S) /\ n \in 0..Len(s) /\ p \in Nat /\ n > 0
    BY LenProperties
  <2>2. /\ WindowOf(s, n, p) \in Seq(S)
        /\ Len(WindowOf(s, n, p)) = (IF n > p THEN p ELSE IF n > 0 THEN n - 1 ELSE 0)
        /\ \A i \in 1..Len(WindowOf(s, n, p)) :
             WindowOf(s, n, p)[i] = s[n - Len(WindowOf(s, n, p)) + i]
    BY ONLY <2>1, WindowFacts, ZenonT(60)
  <2>3. v = WindowOf(s, n, p)
    OBVIOUS
  <2> HIDE DEF v
  <2> QED
    BY <2>1, <2>2, <2>3
<1> DEFINE M == IF n + 1 > p THEN p ELSE n
<1>2. /\ w \in Seq(S) /\ Len(w) = M /\ M \in Nat
      /\ \A i \in 1..M : w[i] = s[n + 1 - M + i]
  <2> DEFINE m == n + 1
  <2>1. s \in Seq(S) /\ m \in 0..Len(s) /\ p \in Nat /\ m > 0 /\ m - 1 = n
    BY LenProperties
  <2> HIDE DEF m
  <2>2. /\ WindowOf(s, m, p) \in Seq(S)
        /\ Len(WindowOf(s, m, p)) = (IF m > p THEN p ELSE IF m > 0 THEN m - 1 ELSE 0)
        /\ \A i \in 1..Len(WindowOf(s, m, p)) :
             WindowOf(s, m, p)[i] = s[m - Len(WindowOf(s, m, p)) + i]
    BY ONLY <2>1, WindowFacts, ZenonT(60)
  <2>3. w = WindowOf(s, m, p)
    BY DEF m
  <2> HIDE DEF w
  <2>4. Len(w) = M /\ M \in Nat
    BY <2>1, <2>2, <2>3 DEF m
  <2> QED
    BY <2>2, <2>3, <2>4 DEF m
<1>3. s[n + 1] \in S
  BY ElementOfSeq
<1>4. /\ c \in Seq(S) /\ Len(c) = N + 1
      /\ \A i \in 1..N : c[i] = v[i]
      /\ c[N + 1] = s[n + 1]
  <2> HIDE DEF v, N
  <2> QED
    BY <1>1, <1>3
<1>5. /\ d \in Seq(S) /\ Len(d) = (IF N + 1 > p THEN p ELSE N + 1)
      /\ \A i \in 1..Len(d) : d[i] = c[N + 1 - Len(d) + i]
  <2> HIDE DEF c, N
  <2>1. c \in Seq(S) /\ Len(c) = N + 1 /\ p \in Nat
    BY <1>4
  <2>2. /\ d \in Seq(S) /\ Len(d) = (IF Len(c) > p THEN p ELSE Len(c))
        /\ \A i \in 1..Len(d) : d[i] = c[Len(c) - Len(d) + i]
    BY <2>1, LastOfFacts
  <2> HIDE DEF d, M
  <2>3. Len(d) = (IF N + 1 > p THEN p ELSE N + 1) /\ Len(d) \in Nat /\ N \in Nat
    BY <2>1, <2>2, <1>1
  <2>4. \A i \in 1..Len(d) : d[i] = c[N + 1 - Len(d) + i]
    <3>1. \A i \in 1..Len(d) : Len(c) - Len(d) + i = N + 1 - Len(d) + i
      BY <2>1, <2>3
    <3> QED
      BY <3>1, <2>2
  <2> QED
    BY <2>2, <2>3, <2>4
<1>6. Len(d) = M
  BY <1>1, <1>5
<1>7. ASSUME NEW i \in 1..M
      PROVE  d[i] = w[i]
  <2> DEFINE j == N + 1 - M + i
  <2>1. j \in 1..(N + 1) /\ (j = N + 1 <=> i = M)
    BY <1>1, <1>2
  <2>2. d[i] = c[j]
    <3> HIDE DEF d, c
    <3> QED
      BY <1>5, <1>6
  <2>3. CASE i = M
    <3>1. n + 1 - M + i = n + 1
      BY <1>2, <2>3
    <3> HIDE DEF d, c, w, N, M, j
    <3> QED
      BY <2>1, <2>2, <2>3, <3>1, <1>2, <1>4
  <2>4. CASE i # M
    <3>1. j \in 1..N
      BY <1>1, <2>1, <2>4
    <3>2. n - N + j = n + 1 - M + i
      BY <1>1, <1>2
    <3> HIDE DEF d, c, w, v, N, M, j
    <3>3. c[j] = s[n - N + j]
      BY <3>1, <1>1, <1>4
    <3>4. w[i] = s[n + 1 - M + i]
      BY <1>2
    <3> QED
      BY <2>2, <3>2, <3>3, <3>4
  <2> QED
    BY <2>3, <2>4
<1> HIDE DEF c, d, w, M
<1>8. d = w
  BY <1>2, <1>5, <1>6, <1>7, SeqEqual
<1> QED
  BY <1>8 DEF d, w, c

(* What comes behind the first n bars does not change a window over them.  *)
LEMMA WindowAppended ==
  ASSUME NEW S, NEW s \in Seq(S), NEW b \in S, NEW n \in 0..Len(s), NEW p \in Nat
  PROVE  WindowOf(Append(s, b), n, p) = WindowOf(s, n, p)
<1> DEFINE t == Append(s, b)
           v == WindowOf(s, n, p)
           w == WindowOf(t, n, p)
<1>1. /\ t \in Seq(S) /\ Len(t) = Len(s) + 1 /\ Len(s) \in Nat
      /\ \A i \in 1..Len(s) : t[i] = s[i]
  BY AppendProperties, LenProperties
<1>2. /\ v \in Seq(S) /\ Len(v) = (IF n > p THEN p ELSE IF n > 0 THEN n - 1 ELSE 0)
      /\ \A i \in 1..Len(v) : v[i] = s[n - Len(v) + i]
  BY WindowFacts
<1>3. /\ w \in Seq(S) /\ Len(w) = (IF n > p THEN p ELSE IF n > 0 THEN n - 1 ELSE 0)
      /\ \A i \in 1..Len(w) : w[i] = t[n - Len(w) + i]
  <2>1. n \in 0..Len(t)
    BY <1>1
  <2> HIDE DEF t
  <2> QED
    BY <1>1, <2>1, WindowFacts
<1> HIDE DEF t, v, w
<1>4. Len(v) = Len(w) /\ Len(v) \in Nat
  BY <1>1, <1>2, <1>3
<1>5. ASSUME NEW i \in 1..Len(v)
      PROVE  v[i] = w[i]
  <2>1. n - Len(v) + i \in 1..Len(s)
    BY <1>1, <1>2, <1>4
  <2> QED
    BY <2>1, <1>1, <1>2, <1>3, <1>4
<1>6. v = w
  BY <1>2, <1>3, <1>4, <1>5, SeqEqual
<1> QED
  BY <1>6 DEF t, v, w

(* A full window is the end of the bars it goes over.                      *)
LEMMA WindowIsEnd ==
  ASSUME NEW S, NEW s \in Seq(S), NEW k \in 1..Len(s), NEW p \in Nat, k > p
  PROVE  /\ LastOf(SubSeq(s, 1, k), p) = WindowOf(s, k, p)
         /\ Len(SubSeq(s, 1, k)) = k
<1> DEFINE c == SubSeq(s, 1, k)
           v == LastOf(c, p)
           w == WindowOf(s, k, p)
<1>1. Len(s) \in Nat /\ \A i \in 1..k : s[i] \in S
  BY LenProperties, ElementOfSeq
<1>2. c \in Seq(S) /\ Len(c) = k /\ \A i \in 1..k : c[i] = s[i]
  BY <1>1, SubSeqProperties
<1>3. /\ v \in Seq(S) /\ Len(v) = p
      /\ \A i \in 1..p : v[i] = c[k - p + i]
  <2>1. /\ v \in Seq(S) /\ Len(v) = (IF k > p THEN p ELSE k)
        /\ \A i \in 1..Len(v) : v[i] = c[k - Len(v) + i]
    <3> HIDE DEF c
    <3> QED
      BY <1>2, LastOfFacts
  <2> HIDE DEF v
  <2> QED
    BY <2>1
<1>4. /\ w \in Seq(S) /\ Len(w) = p
      /\ \A i \in 1..p : w[i] = s[k - p + i]
  <2>1. k \in 0..Len(s)
    BY <1>1
  <2>2. /\ w \in Seq(S) /\ Len(w) = (IF k > p THEN p ELSE IF k > 0 THEN k - 1 ELSE 0)
        /\ \A i \in 1..Len(w) : w[i] = s[k - Len(w) + i]
    BY <2>1, WindowFacts
  <2> HIDE DEF w
  <2> QED
    BY <2>2
<1> HIDE DEF c, v, w
<1>5. ASSUME NEW i \in 1..p
      PROVE  v[i] = w[i]
  <2>1. k - p + i \in 1..k
    BY <1>1
  <2> QED
    BY <2>1, <1>2, <1>3, <1>4
<1>6. v = w
  BY <1>3, <1>4, <1>5, SeqEqual
<1> QED
  BY <1>2, <1>6 DEF c, v, w
-----------------------------------------------------------------------------
LEMMA SameRows ==
  ASSUME rows' = rows
  PROVE  FetchBars' = FetchBars /\ \A t : Stored(t)' = Stored(t)
BY OfRows

LEMMA SameCandles ==
  ASSUME \A u \in Times : rows'[u] = "candle" <=> rows[u] = "candle"
  PROVE  \A t : Stored(t)' = Stored(t)
<1>1. \A t : StoredIn(rows', t) = StoredIn(rows, t)
  BY StoredSame
<1> QED
  BY <1>1, OfRows

LEMMA EmptyFacts ==
  /\ << >> \in Seq(Candles) /\ << >> \in Seq(Names) /\ << >> \in Seq(Times)
  /\ 0 \in 0..Len(<< >>)
BY EmptySeq

LEMMA NewEngineFacts ==
  /\ NewEngine \in [Names -> [part : Seq(Candles), window : Seq(Candles)]]
  /\ \A i \in Names : NewEngine[i].part = << >> /\ NewEngine[i].window = << >>
BY EmptySeq DEF NewEngine

LEMMA NoValuesFacts ==
  /\ NoValues \in [Names -> [Times -> Seq(Candles) \cup {NoValue}]]
  /\ \A i \in Names, t \in Times : NoValues[i][t] = NoValue
BY DEF NoValues

LEMMA SeededFacts == Seeded \subseteq Names /\ \A i \in Seeded : Frame[i] = 1
BY DEF Seeded

LEMMA AutoInitInv == OnUTC /\ AutoInit => AutoInv
<1> SUFFICES ASSUME OnUTC, AutoInit PROVE AutoInv
  OBVIOUS
<1>1. MaxTime \in Nat
  BY TimesAreNumbers
<1>2. AutoTypeOK
  <2>1. clock \in 0..MaxTime /\ fed \in 0..Len(bars)
    BY <1>1, EmptyFacts DEF AutoInit
  <2>2. /\ engine \in [Names -> [part : Seq(Candles), window : Seq(Candles)]]
        /\ values \in [Names -> [Times -> Seq(Candles) \cup {NoValue}]]
        /\ pending \in [Names -> [Times -> Seq(Candles) \cup {NoValue}]]
    BY NewEngineFacts, NoValuesFacts DEF AutoInit
  <2>3. /\ rows \in [Times -> {"none", "candle", "null"}] /\ known \in [Names -> Nat]
        /\ lost \in [Names -> SUBSET Times]
    BY DEF AutoInit
  <2> QED
    BY <2>1, <2>2, <2>3, EmptyFacts DEF AutoTypeOK, AutoInit
<1>3. RowsInv
  BY NoValuesFacts, SeededFacts DEF RowsInv, AutoInit
<1>4. WorkInv
  BY DEF WorkInv, AutoInit
<1>5. WindowInv
  BY NewEngineFacts, SeededFacts DEF WindowInv, AutoInit
<1>6. LengthInv /\ PendingInv /\ KnownInv /\ MemoryIsTail
  BY DEF LengthInv, PendingInv, KnownInv, MemoryIsTail, AutoInit
<1>7. CompleteInv
  BY DEF CompleteInv, Owed, AutoInit
<1>8. ValuesAreRight
  BY NoValuesFacts, SeededFacts DEF ValuesAreRight, AutoInit
<1> QED
  BY <1>2, <1>3, <1>4, <1>5, <1>6, <1>7, <1>8 DEF AutoInv

(* What is stored stays as it was, and the program is not at work.         *)
LEMMA StoredKept ==
  ASSUME AutoInv, rows' = rows, values' = values, lost' = lost, unsaved' = unsaved,
         clock <= clock', clock' \in Int
  PROVE  /\ RowsInv' /\ ValuesAreRight'
         /\ pc' \notin {"saved", "ready"} => CompleteInv'
         /\ \A i, t : Owed(i, t)' = Owed(i, t) /\ Has(i, t)' = Has(i, t)
         /\ FetchBars' = FetchBars /\ \A t : Stored(t)' = Stored(t)
<1>1. FetchBars' = FetchBars /\ \A t : Stored(t)' = Stored(t)
  BY SameRows
<1>2. ASSUME NEW i, NEW t
      PROVE  Owed(i, t)' = Owed(i, t) /\ Has(i, t)' = Has(i, t)
  <2>1. Stored(t)' = Stored(t)
    BY <1>1
  <2> HIDE DEF Stored
  <2> QED
    BY <2>1 DEF Owed, Has
<1>3. RowsInv'
  <2>1. RowsInv /\ unsaved \subseteq Times
    BY DEF AutoInv, AutoTypeOK
  <2>2. clock \in Int /\ \A t \in Times : t \in Int
    BY DEF AutoInv, AutoTypeOK, Times
  <2>3. \A t \in Times : t <= clock => t <= clock'
    BY <2>2
  <2> QED
    BY <2>1, <2>3 DEF RowsInv
<1>4. ValuesAreRight'
  <2>1. ValuesAreRight
    BY DEF AutoInv
  <2> QED
    BY <1>1, <2>1 DEF ValuesAreRight
<1>5. ASSUME pc' \notin {"saved", "ready"} PROVE CompleteInv'
  <2>1. CompleteInv
    BY DEF AutoInv
  <2> QED
    BY <1>2, <1>5, <2>1 DEF CompleteInv
<1> QED
  BY <1>1, <1>2, <1>3, <1>4, <1>5

LEMMA StartAuto ==
  ASSUME OnUTC, AutoInv, Start
  PROVE  AutoInv'
<1>1. /\ pc = "down" /\ pc' = "up" /\ runs' = runs + 1
      /\ UNCHANGED <<rows, values, clock, bars, fed, candle, todo, engine, booted, known,
                     pending, memory, lost, unsaved>>
  BY DEF Start
<1>2. AutoTypeOK /\ WorkInv /\ WindowInv /\ clock \in Int
  BY DEF AutoInv, AutoTypeOK
<1>3. RowsInv' /\ ValuesAreRight' /\ CompleteInv'
  BY <1>1, <1>2, StoredKept
<1>4. AutoTypeOK'
  BY <1>1, <1>2 DEF AutoTypeOK
<1>5. WorkInv'
  BY <1>1, <1>2 DEF WorkInv
<1>6. WindowInv'
  BY <1>1, <1>2 DEF WindowInv
<1>7. LengthInv' /\ PendingInv' /\ KnownInv' /\ MemoryIsTail'
  BY <1>1 DEF LengthInv, PendingInv, KnownInv, MemoryIsTail
<1> QED
  BY <1>3, <1>4, <1>5, <1>6, <1>7 DEF AutoInv

LEMMA CrashAuto ==
  ASSUME OnUTC, AutoInv, Crash
  PROVE  AutoInv'
<1>1. /\ pc' = "down" /\ bars' = << >> /\ fed' = 0 /\ candle' = << >> /\ todo' = << >>
      /\ engine' = NewEngine /\ booted' = FALSE
      /\ known' = [i \in Names |-> 0] /\ pending' = NoValues /\ memory' = << >>
      /\ UNCHANGED <<rows, values, runs, clock, lost, unsaved>>
  BY DEF Crash
<1>2. AutoTypeOK /\ clock \in Int
  BY DEF AutoInv, AutoTypeOK
<1>3. RowsInv' /\ ValuesAreRight' /\ CompleteInv'
  BY <1>1, <1>2, StoredKept
<1>4. AutoTypeOK'
  <2>1. fed' \in 0..Len(bars')
    BY <1>1, EmptyFacts
  <2>2. /\ engine' \in [Names -> [part : Seq(Candles), window : Seq(Candles)]]
        /\ pending' \in [Names -> [Times -> Seq(Candles) \cup {NoValue}]]
    BY <1>1, NewEngineFacts, NoValuesFacts
  <2>3. known' \in [Names -> Nat]
    BY <1>1
  <2> QED
    BY <1>1, <1>2, <2>1, <2>2, <2>3, EmptyFacts DEF AutoTypeOK
<1>5. WorkInv'
  <2>1. NewEngine' = NewEngine /\ NoValues' = NoValues
    BY DEF NewEngine, NoValues
  <2> QED
    BY <1>1, <2>1 DEF WorkInv
<1>6. WindowInv'
  BY <1>1, NewEngineFacts, SeededFacts DEF WindowInv
<1>7. LengthInv' /\ PendingInv' /\ KnownInv' /\ MemoryIsTail'
  BY <1>1 DEF LengthInv, PendingInv, KnownInv, MemoryIsTail
<1> QED
  BY <1>3, <1>4, <1>5, <1>6, <1>7 DEF AutoInv

LEMMA MissedAuto ==
  ASSUME OnUTC, AutoInv, Missed
  PROVE  AutoInv'
<1>1. /\ pc # "ready" /\ clock < MaxTime /\ clock' = clock + 1 /\ pc' = pc
      /\ UNCHANGED <<rows, values, runs, bars, fed, candle, todo, engine, booted,
                     known, pending, memory, lost, unsaved>>
  BY DEF Missed
<1>2. AutoTypeOK /\ WorkInv /\ WindowInv /\ PendingInv /\ KnownInv /\ CompleteInv
  BY DEF AutoInv
<1>3. clock \in 0..MaxTime /\ MaxTime \in Nat
  BY <1>2, TimesAreNumbers DEF AutoTypeOK
<1>4. clock <= clock' /\ clock' \in Int /\ clock' \in 0..MaxTime
  BY <1>1, <1>3
<1>5. /\ RowsInv' /\ ValuesAreRight'
      /\ \A i, t : Owed(i, t)' = Owed(i, t) /\ Has(i, t)' = Has(i, t)
      /\ FetchBars' = FetchBars
  BY <1>1, <1>4, StoredKept
<1>6. AutoTypeOK'
  BY <1>1, <1>2, <1>4 DEF AutoTypeOK
<1>7. WorkInv'
  BY <1>1, <1>2, <1>5 DEF WorkInv
<1>8. \A i : Waits(i)' = Waits(i) /\ Through(i)' = Through(i)
  BY <1>1, <1>5 DEF Through, Waits
<1>9. WindowInv'
  BY <1>1, <1>2, <1>5, <1>8 DEF WindowInv
<1>10. LengthInv' /\ MemoryIsTail'
  BY <1>1 DEF LengthInv, MemoryIsTail
<1>11. PendingInv' /\ KnownInv'
  BY <1>1, <1>2, <1>8 DEF PendingInv, KnownInv
<1>12. CompleteInv'
  <2>1. pc = "saved" => \A i : ~ Waits(i)
    BY <1>2 DEF WorkInv, Waits
  <2> QED
    BY <1>1, <1>2, <1>5, <1>8, <2>1 DEF CompleteInv
<1> QED
  BY <1>5, <1>6, <1>7, <1>9, <1>10, <1>11, <1>12 DEF AutoInv
-----------------------------------------------------------------------------
(* seed().                                                                 *)
LEMMA LastTimeFacts ==
  ASSUME OnUTC, NEW i \in Names
  PROVE  /\ LastTime(i) \in Nat
         /\ LastTime(i) = 0 \/ (LastTime(i) \in Times /\ values[i][LastTime(i)] # NoValue)
<1> DEFINE ts == {t \in Times : values[i][t] # NoValue}
<1>1. CASE ts = {}
  BY <1>1 DEF LastTime
<1>2. CASE ts # {}
  <2> DEFINE a == Ascending(ts)
             N == Cardinality(ts)
  <2>1. ts \in SUBSET Times /\ Times \in SUBSET Int /\ IsFiniteSet(ts) /\ Times = 1..MaxTime
    BY TimesAreNumbers, FS_Subset
  <2>2. /\ a \in Seq(ts) /\ Len(a) = N /\ N \in Nat
        /\ \A t \in ts : \E k \in 1..N : a[k] = t
        /\ \A m, n \in 1..N : m < n => a[m] < a[n]
    <3>1. ts \in SUBSET Int
      BY <2>1
    <3> HIDE DEF ts
    <3> QED
      BY <3>1, <2>1, AscendingFacts
  <2>3. N \in 1..N
    <3>1. PICK t \in ts : TRUE
      BY <1>2
    <3> QED
      BY <3>1, <2>2
  <2>4. a[N] \in ts
    <3> HIDE DEF a, ts
    <3> QED
      BY <2>2, <2>3, ElementOfSeq
  <2>5. ASSUME NEW u \in ts
        PROVE  u <= a[N]
    <3>1. PICK k \in 1..N : a[k] = u
      BY <2>2
    <3>2. k = N \/ a[k] < a[N]
      BY <2>2, <2>3
    <3>3. u \in Int /\ a[N] \in Int
      BY <2>1, <2>4
    <3> HIDE DEF a, N
    <3> QED
      BY <3>1, <3>2, <3>3
  <2>6. LastTime(i) = CHOOSE t \in ts : \A u \in ts : u <= t
    BY <1>2 DEF LastTime
  <2>7. LastTime(i) \in ts
    <3>1. \E t \in ts : \A u \in ts : u <= t
      BY <2>4, <2>5
    <3> HIDE DEF ts
    <3> QED
      BY <2>6, <3>1
  <2> QED
    BY <2>1, <2>7
<1> QED
  BY <1>1, <1>2

LEMMA EmptyWindow ==
  ASSUME NEW S, NEW s \in Seq(S), NEW n \in 0..Len(s), n <= 1, NEW p \in Nat
  PROVE  WindowOf(s, n, p) = << >>
<1>1. Len(s) \in Nat
  BY LenProperties
<1>2. WindowOf(s, n, p) \in Seq(S) /\ Len(WindowOf(s, n, p)) = 0
  <2>1. /\ WindowOf(s, n, p) \in Seq(S)
        /\ Len(WindowOf(s, n, p)) = (IF n > p THEN p ELSE IF n > 0 THEN n - 1 ELSE 0)
    BY WindowFacts
  <2>2. n = 0 \/ n = 1
    BY <1>1
  <2> QED
    BY <2>1, <2>2
<1> QED
  BY <1>2, EmptySeq

LEMMA TimesOfFacts ==
  ASSUME NEW s \in Seq(Candles)
  PROVE  /\ TimesOf(s) \in Seq(Times) /\ Len(TimesOf(s)) = Len(s) /\ Len(s) \in Nat
         /\ \A i \in 1..Len(s) : TimesOf(s)[i] = s[i].time
<1>1. Len(s) \in Nat /\ DOMAIN s = 1..Len(s) /\ \A i \in 1..Len(s) : s[i] \in Candles
  BY LenProperties, ElementOfSeq
<1>2. TimesOf(s) \in [1..Len(s) -> Times]
  BY <1>1 DEF TimesOf, Candles
<1> QED
  BY <1>1, <1>2, SeqDef, LenProperties DEF TimesOf

LEMMA TailOfTimes ==
  ASSUME NEW s \in Seq(Candles), NEW n \in Nat
  PROVE  LET m == LastOf(TimesOf(s), n)
         IN  /\ m \in Seq(Times) /\ m = LastOf(TimesOf(s), Len(m))
             /\ Len(m) >= Len(LastOf(s, n))
<1> DEFINE t == TimesOf(s)
           m == LastOf(t, n)
<1>1. t \in Seq(Times) /\ Len(t) = Len(s) /\ Len(s) \in Nat
  BY TimesOfFacts
<1> HIDE DEF t
<1>2. /\ m \in Seq(Times) /\ Len(m) = (IF Len(t) > n THEN n ELSE Len(t))
  BY <1>1, LastOfFacts
<1>3. Len(LastOf(s, n)) = (IF Len(s) > n THEN n ELSE Len(s))
  BY LastOfFacts
<1>4. LastOf(t, Len(m)) = m
  <2>1. CASE Len(t) > n
    BY <1>1, <1>2, <2>1 DEF LastOf
  <2>2. CASE ~ (Len(t) > n)
    <3>1. m = t
      BY <2>2 DEF LastOf
    <3>2. ~ (Len(t) > Len(t))
      BY <1>1
    <3> QED
      BY <3>1, <3>2 DEF LastOf
  <2> QED
    BY <2>1, <2>2
<1> HIDE DEF m
<1>5. Len(m) >= Len(LastOf(s, n))
  BY <1>1, <1>2, <1>3
<1> QED
  BY <1>2, <1>4, <1>5 DEF m, t

(* As long as every bar is saved, the rows are the candles.                *)
LEMMA AllCandles ==
  ASSUME OnUTC, AutoTypeOK, RowsInv, unsaved = {}
  PROVE  /\ \A u \in SavedIn(rows) : rows[u] = "candle" /\ u <= clock
         /\ Stored(MaxTime) = FetchBars /\ Stored(clock) = FetchBars
<1>1. \A u \in SavedIn(rows) : rows[u] = "candle" /\ u <= clock /\ u <= MaxTime
  BY TimesAreNumbers DEF AutoTypeOK, RowsInv, SavedIn
<1>2. StoredIn(rows, MaxTime) = BarsIn(rows) /\ StoredIn(rows, clock) = BarsIn(rows)
  BY <1>1, StoredAll
<1> QED
  BY <1>1, <1>2, OfRows

LEMMA FetchFacts ==
  ASSUME OnUTC
  PROVE  FetchBars \in Seq(Candles) /\ Len(FetchBars) \in Nat
BY BarsFacts, OfRows

LEMMA SeedFetchAuto ==
  ASSUME OnUTC, AutoInv, SeedFetch
  PROVE  AutoInv'
<1>1. /\ pc = "up"
      /\ UNCHANGED <<rows, values, runs, clock, fed, candle, todo, engine, booted,
                     pending, lost, unsaved>>
  BY DEF SeedFetch
<1>2. AutoTypeOK /\ WorkInv /\ RowsInv /\ clock \in Int
  BY DEF AutoInv, AutoTypeOK
<1>3. /\ RowsInv' /\ ValuesAreRight' /\ (pc' \notin {"saved", "ready"} => CompleteInv')
      /\ \A i, t : Owed(i, t)' = Owed(i, t) /\ Has(i, t)' = Has(i, t)
      /\ FetchBars' = FetchBars /\ \A t : Stored(t)' = Stored(t)
  BY <1>1, <1>2, StoredKept
<1>4. /\ bars = << >> /\ fed = 0 /\ todo = << >> /\ ~ booted
      /\ engine = NewEngine /\ pending = NoValues
  BY <1>1, <1>2 DEF WorkInv
<1>5. FetchBars \in Seq(Candles) /\ Len(FetchBars) \in Nat
  BY FetchFacts
<1>6. \A i : ~ Waits(i)'
  BY <1>1, <1>4 DEF Waits
<1>7. CASE Seeded # {} /\ FetchBars # << >>
  <2>1. pc' = "feed" /\ bars' = FetchBars /\ memory' = memory
    BY <1>7 DEF SeedFetch
  <2>2. PICK asked \in SUBSET Seeded :
          known' = [i \in Names |-> IF i \in asked THEN LastTime(i) ELSE 0]
    BY <1>7, Zenon DEF SeedFetch
  <2>3. \A i \in Names : known'[i] = LastTime(i) \/ known'[i] = 0
    BY <2>2
  <2>4. AutoTypeOK'
    <3>1. known' \in [Names -> Nat]
      BY <2>2, LastTimeFacts
    <3>2. fed' \in 0..Len(bars')
      BY <1>1, <1>4, <1>5, <2>1
    <3> QED
      BY <1>1, <1>2, <1>5, <2>1, <3>1, <3>2 DEF AutoTypeOK
  <2>5. WorkInv'
    BY <1>1, <1>3, <1>4, <1>7, <2>1 DEF WorkInv
  <2>6. ASSUME NEW i PROVE Through(i)' = 0
    <3>1. ~ Waits(i)' /\ fed' = 0 /\ pc' # "ready"
      BY <1>1, <1>4, <1>6, <2>1
    <3>2. Through(i)' = 0 - 0
      BY <3>1 DEF Through
    <3> QED
      BY <3>2
  <2>7. WindowInv'
    <3>1. \A i \in Seeded : engine'[i].part = << >> /\ engine'[i].window = << >>
      BY <1>1, <1>4, NewEngineFacts, SeededFacts
    <3>2. \A i \in Seeded : WindowOf(FetchBars, 0, Period[i]) = << >>
      BY <1>5, EmptyWindow, PeriodAssumption, SeededFacts
    <3> QED
      BY <1>3, <2>6, <3>1, <3>2 DEF WindowInv
  <2>8. PendingInv'
    <3>1. \A i \in Names, t \in Times : pending'[i][t] = NoValue
      BY <1>1, <1>4, NoValuesFacts
    <3>2. DOMAIN bars' = 1..Len(FetchBars)
      BY <1>5, <2>1, LenProperties
    <3>3. ~ \E k \in DOMAIN bars' : k <= 0
      BY <1>5, <3>2
    <3> QED
      BY <2>6, <3>1, <3>3 DEF PendingInv
  <2>9. KnownInv'
    <3>1. \A i \in Seeded : known'[i] = 0 \/ (known'[i] \in Times /\ values[i][known'[i]] # NoValue)
      BY <2>3, LastTimeFacts, SeededFacts
    <3> QED
      BY <1>1, <3>1 DEF KnownInv
  <2>10. LengthInv' /\ MemoryIsTail' /\ CompleteInv'
    BY <1>3, <2>1 DEF LengthInv, MemoryIsTail
  <2> QED
    BY <1>3, <2>4, <2>5, <2>7, <2>8, <2>9, <2>10 DEF AutoInv
<1>8. CASE Seeded = {} \/ FetchBars = << >>
  <2>1. /\ pc' = "ready" /\ memory' = LastOf(TimesOf(FetchBars), Snapshot)
        /\ UNCHANGED <<bars, known>>
    BY <1>8 DEF SeedFetch
  <2>2. Seeded # {} => Len(FetchBars) = 0
    BY <1>5, <1>8, EmptySeq
  <2>3. Snapshot \in Nat
    BY SizesAssumption
  <2>4. AutoTypeOK'
    <3>1. memory' \in Seq(Times)
      BY <1>5, <2>1, <2>3, TailOfTimes
    <3> QED
      BY <1>1, <1>2, <2>1, <3>1 DEF AutoTypeOK
  <2>5. WorkInv'
    BY <1>1, <1>3, <1>4, <1>8, <2>1 DEF WorkInv
  <2>6. \A i \in Seeded : Through(i)' = 0
    BY <1>3, <1>6, <2>1, <2>2 DEF Through
  <2>7. \A i \in Seeded : engine'[i].part = << >> /\ engine'[i].window = << >>
    BY <1>1, <1>4, NewEngineFacts, SeededFacts
  <2>8. WindowInv'
    <3>2. \A i \in Seeded : WindowOf(FetchBars, 0, Period[i]) = << >>
      BY <1>5, EmptyWindow, PeriodAssumption, SeededFacts
    <3> QED
      BY <1>3, <2>6, <2>7, <3>2 DEF WindowInv
  <2>9. Seeded # {} => \A t : Len(Stored(t)) \in Nat /\ Len(Stored(t)) <= 0
    BY <2>2, StoredCounts, OfRows
  <2>10. LengthInv'
    <3>1. ASSUME NEW i \in Seeded, NEW t
          PROVE  Len(engine'[i].window) + 1 >= Len(Stored(t))
      BY <2>7, <2>9, EmptyFacts
    <3> QED
      BY <1>3, <3>1 DEF LengthInv
  <2>11. CompleteInv'
    <3>1. ASSUME NEW i \in Seeded, NEW t
          PROVE  ~ Owed(i, t)
      <4>1. Period[i] \in Nat
        BY PeriodAssumption, SeededFacts
      <4> QED
        BY <2>9, <4>1 DEF Owed
    <3> QED
      BY <1>3, <3>1 DEF CompleteInv
  <2>12. MemoryIsTail'
    <3> SUFFICES ASSUME unsaved' = {}
                 PROVE  /\ memory' = LastOf(TimesOf(Stored(MaxTime)'), Len(memory'))
                        /\ Len(memory') >= Len(LastOf(Stored(MaxTime)', Snapshot))
      BY DEF MemoryIsTail
    <3>1. Stored(MaxTime)' = FetchBars
      BY <1>1, <1>2, <1>3, AllCandles
    <3>2. /\ memory' = LastOf(TimesOf(FetchBars), Len(memory'))
          /\ Len(memory') >= Len(LastOf(FetchBars, Snapshot))
      BY <1>5, <2>1, <2>3, TailOfTimes
    <3> QED
      BY <3>1, <3>2
  <2>13. PendingInv' /\ KnownInv'
    BY <2>1 DEF PendingInv, KnownInv
  <2> QED
    BY <1>3, <2>4, <2>5, <2>8, <2>10, <2>11, <2>12, <2>13 DEF AutoInv
<1> QED
  BY <1>7, <1>8

LEMMA IndsFacts ==
  /\ Inds \in Seq(Names)
  /\ \A m, n \in DOMAIN Inds : Inds[m] = Inds[n] => m = n
  /\ \A i \in Names : \E n \in DOMAIN Inds : Inds[n] = i
BY IndsAssumption DEF IsInjective, Names, Range

LEMMA SeedFeedAuto ==
  ASSUME OnUTC, AutoInv, SeedFeed
  PROVE  AutoInv'
<1>1. /\ pc = "feed" /\ pc' = pc /\ todo = << >> /\ fed < Len(bars)
      /\ fed' = fed + 1 /\ booted' = TRUE
      /\ booted => candle' = <<bars[fed + 1]>> /\ todo' = Inds
      /\ ~ booted => candle' = candle /\ todo' = todo
      /\ UNCHANGED <<rows, values, runs, clock, bars, engine, known, pending, memory,
                     lost, unsaved>>
  BY DEF SeedFeed, Provide
<1>2. AutoTypeOK /\ WorkInv /\ WindowInv /\ PendingInv /\ KnownInv /\ clock \in Int
  BY DEF AutoInv, AutoTypeOK
<1>3. /\ RowsInv' /\ ValuesAreRight' /\ CompleteInv'
      /\ FetchBars' = FetchBars
  BY <1>1, <1>2, StoredKept
<1>4. /\ bars = FetchBars /\ bars \in Seq(Candles) /\ Len(bars) \in Nat
      /\ DOMAIN bars = 1..Len(bars) /\ fed \in 0..Len(bars) /\ fed \in Nat
      /\ (booted <=> fed > 0)
  BY <1>1, <1>2, FetchFacts, LenProperties DEF WorkInv, AutoTypeOK
<1>5. AutoTypeOK'
  <2>1. fed' \in 0..Len(bars')
    BY <1>1, <1>4
  <2>2. bars[fed + 1] \in Candles
    BY <1>1, <1>4, ElementOfSeq
  <2>3. candle' \in Seq(Candles) /\ todo' \in Seq(Names)
    <3>1. candle \in Seq(Candles) /\ todo \in Seq(Names) /\ booted \in BOOLEAN
      BY <1>2 DEF AutoTypeOK
    <3>2. CASE booted
      <4>1. candle' = <<bars[fed + 1]>> /\ todo' = Inds
        BY <1>1, <3>2
      <4> QED
        BY <2>2, <4>1, IndsFacts
    <3>3. CASE ~ booted
      BY <1>1, <3>1, <3>3
    <3> QED
      BY <3>1, <3>2, <3>3
  <2> QED
    BY <1>1, <1>2, <2>1, <2>3 DEF AutoTypeOK
<1>6. WorkInv'
  <2>1. \A m, n \in DOMAIN todo' : todo'[m] = todo'[n] => m = n
    BY <1>1, <1>2, IndsFacts DEF WorkInv, AutoTypeOK
  <2>2. fed' > 0 /\ (todo' # << >> => fed' > 1 /\ candle' = <<bars'[fed']>>)
    BY <1>1, <1>2, <1>4 DEF AutoTypeOK
  <2> QED
    BY <1>1, <1>2, <1>3, <2>1, <2>2 DEF WorkInv
<1>7. ASSUME NEW i \in Names
      PROVE  /\ Through(i) = fed
             /\ Through(i)' = (IF fed = 0 THEN 1 ELSE fed)
  <2>1. ~ Waits(i)
    BY <1>1 DEF Waits
  <2>2. Through(i) = fed - 0
    BY <1>1, <2>1 DEF Through
  <2>3. CASE booted
    <3>1. Waits(i)'
      BY <1>1, <2>3, IndsFacts DEF Waits
    <3>2. Through(i)' = fed' - 1
      BY <1>1, <3>1 DEF Through
    <3> QED
      BY <1>1, <1>4, <2>2, <2>3, <3>2
  <2>4. CASE ~ booted
    <3>1. ~ Waits(i)'
      BY <1>1, <2>4 DEF Waits
    <3>2. Through(i)' = fed' - 0
      BY <1>1, <3>1 DEF Through
    <3> QED
      BY <1>1, <1>4, <2>2, <2>4, <3>2
  <2> QED
    BY <2>3, <2>4
<1>8. WindowInv'
  <2>1. ASSUME NEW i \in Seeded
        PROVE  engine'[i].window = WindowOf(FetchBars', Through(i)', Period[i])
    <3>1. i \in Names /\ Period[i] \in Nat
      BY PeriodAssumption, SeededFacts
    <3>2. engine[i].window = WindowOf(bars, fed, Period[i])
      BY <1>1, <1>2, <1>4, <1>7, <3>1 DEF WindowInv
    <3>3. CASE fed = 0
      <4>1. 0 \in 0..Len(bars) /\ 1 \in 0..Len(bars)
        BY <1>1, <1>4, <3>3
      <4>2. WindowOf(bars, 0, Period[i]) = << >> /\ WindowOf(bars, 1, Period[i]) = << >>
        BY <1>4, <3>1, <4>1, EmptyWindow
      <4>3. Through(i)' = 1
        BY <1>7, <3>1, <3>3
      <4> QED
        BY <1>1, <1>3, <1>4, <3>2, <3>3, <4>2, <4>3
    <3>4. CASE fed # 0
      <4>1. Through(i)' = fed
        BY <1>7, <3>1, <3>4
      <4> QED
        BY <1>1, <1>3, <1>4, <3>2, <4>1
    <3> QED
      BY <3>3, <3>4
  <2>2. \A i \in Seeded : engine'[i].part = << >>
    BY <1>1, <1>2 DEF WindowInv
  <2> QED
    BY <2>1, <2>2 DEF WindowInv
<1>9. PendingInv'
  <2>1. \A i \in Names : \A k \in DOMAIN bars :
          (\E p \in Nat \ {0} : k > p) => (k <= Through(i)' <=> k <= Through(i))
    BY <1>4, <1>7
  <2>2. \A i \in Names, k \in DOMAIN bars :
          k > Period[i] => (k <= Through(i)' <=> k <= Through(i))
    BY <2>1, PeriodAssumption
  <2>3. Seeded \subseteq Names
    BY SeededFacts
  <2>4. ASSUME NEW i \in Names, NEW t \in Times, pending'[i][t] # NoValue
        PROVE  /\ i \in Seeded
               /\ \E k \in DOMAIN bars' :
                    /\ bars'[k].time = t /\ k > Period[i] /\ k <= Through(i)'
                    /\ pending'[i][t] = WindowOf(bars', k, Period[i])
    BY <1>1, <1>2, <2>2, <2>4 DEF PendingInv
  <2>5. ASSUME NEW i \in Seeded, NEW k \in DOMAIN bars',
               k > Period[i], k <= Through(i)', bars'[k].time > known'[i]
        PROVE  pending'[i][bars'[k].time] # NoValue
    BY <1>1, <1>2, <2>2, <2>3, <2>5 DEF PendingInv
  <2> QED
    BY <2>4, <2>5 DEF PendingInv
<1>10. LengthInv' /\ KnownInv' /\ MemoryIsTail'
  BY <1>1, <1>2 DEF LengthInv, KnownInv, MemoryIsTail
<1> QED
  BY <1>3, <1>5, <1>6, <1>8, <1>9, <1>10 DEF AutoInv

(* The value of a bar is that of the candles up to it, if all that is      *)
(* stored before it are candles.                                           *)
LEMMA RightBar ==
  ASSUME OnUTC, AutoTypeOK, RowsInv, NEW k \in 1..Len(FetchBars), NEW p \in Nat, k > p,
         \A u \in unsaved : FetchBars[k].time < u
  PROVE  /\ rows[FetchBars[k].time] = "candle"
         /\ Len(Stored(FetchBars[k].time)) > p
         /\ LastOf(Stored(FetchBars[k].time), p) = WindowOf(FetchBars, k, p)
<1> DEFINE t == FetchBars[k].time
<1>1. FetchBars = BarsIn(rows) /\ Stored(t) = StoredIn(rows, t)
  BY OfRows
<1>2. t \in SavedIn(rows) /\ t \in Times /\ t \in Int
  BY <1>1, BarsFacts, TimesAreNumbers
<1>3. ASSUME NEW u \in SavedIn(rows), u <= t
      PROVE  rows[u] = "candle"
  <2>1. u \in Times /\ rows[u] \in {"candle", "null"}
    BY DEF SavedIn, AutoTypeOK
  <2>2. u \notin unsaved
    BY <1>2, <1>3, <2>1, TimesAreNumbers
  <2> QED
    BY <2>1, <2>2 DEF RowsInv
<1>4. Stored(t) = SubSeq(FetchBars, 1, k)
  <2>1. k \in 1..Len(BarsIn(rows))
    BY <1>1
  <2>2. \A u \in SavedIn(rows) : u <= BarsIn(rows)[k].time => rows[u] = "candle"
    BY <1>1, <1>3
  <2>3. StoredIn(rows, BarsIn(rows)[k].time) = SubSeq(BarsIn(rows), 1, k)
    BY <2>1, <2>2, StoredIsBars
  <2> QED
    BY <1>1, <2>3
<1>5. /\ LastOf(SubSeq(FetchBars, 1, k), p) = WindowOf(FetchBars, k, p)
      /\ Len(SubSeq(FetchBars, 1, k)) = k
  BY FetchFacts, WindowIsEnd
<1>6. rows[t] = "candle"
  BY <1>2, <1>3
<1> HIDE DEF t
<1>7. Len(Stored(t)) > p
  BY <1>4, <1>5
<1> QED
  BY <1>4, <1>5, <1>6, <1>7 DEF t

(* The place of a row among the bars.                                      *)
LEMMA PlaceOf ==
  ASSUME OnUTC, NEW t \in Times, rows[t] # "none"
  PROVE  \E k \in 1..Len(FetchBars) : FetchBars[k].time = t /\ Len(Stored(t)) <= k
<1>1. t \in SavedIn(rows)
  BY DEF SavedIn
<1>2. PICK k \in 1..Len(FetchBars) : FetchBars[k].time = t
  BY <1>1, BarsFacts, OfRows
<1>3. Len(Stored(FetchBars[k].time)) <= k
  BY StoredCounts, OfRows
<1> QED
  BY <1>2, <1>3

LEMMA SeedSaveAuto ==
  ASSUME OnUTC, AutoInv, SeedSave
  PROVE  AutoInv'
<1> DEFINE due == [i \in Names |-> {t \in Times : pending[i][t] # NoValue}]
<1>1. /\ pc = "feed" /\ todo = << >> /\ fed = Len(bars) /\ pc' = "saved"
      /\ UNCHANGED <<runs, clock, bars, fed, candle, todo, engine, booted, known, pending,
                     memory, unsaved>>
  BY DEF SeedSave
<1>2. \/ /\ values' = [i \in Names |-> [t \in Times |->
                         IF t \in due[i] THEN pending[i][t] ELSE values[i][t]]]
         /\ rows' = WithRows(UNION {due[i] : i \in Names})
         /\ lost' = [i \in Names |-> lost[i] \ due[i]]
      \/ /\ lost' = [i \in Names |-> lost[i] \cup due[i]]
         /\ UNCHANGED <<rows, values>>
  BY Zenon DEF SeedSave
<1>3. /\ AutoTypeOK /\ RowsInv /\ WorkInv /\ WindowInv /\ PendingInv /\ KnownInv
      /\ CompleteInv /\ ValuesAreRight
  BY DEF AutoInv
<1>4. /\ bars = FetchBars /\ bars # << >> /\ bars \in Seq(Candles) /\ Len(bars) \in Nat
      /\ DOMAIN bars = 1..Len(bars) /\ Len(bars) # 0
  BY <1>1, <1>3, FetchFacts, LenProperties, EmptySeq DEF WorkInv
<1>5. ASSUME NEW i \in Names, NEW t \in due[i]
      PROVE  /\ i \in Seeded /\ t \in Times /\ rows[t] # "none"
             /\ \E k \in 1..Len(bars) : /\ bars[k].time = t /\ k > Period[i]
                                        /\ pending[i][t] = WindowOf(bars, k, Period[i])
  <2>1. t \in Times /\ pending[i][t] # NoValue
    OBVIOUS
  <2>2. /\ i \in Seeded
        /\ \E k \in 1..Len(bars) : /\ bars[k].time = t /\ k > Period[i]
                                   /\ pending[i][t] = WindowOf(bars, k, Period[i])
    BY <1>1, <1>3, <1>4, <2>1 DEF PendingInv
  <2>3. PICK k \in 1..Len(bars) : bars[k].time = t
    BY <2>2
  <2>4. bars[k].time \in SavedIn(rows)
    BY <1>4, BarsFacts, OfRows
  <2>5. rows[t] # "none"
    BY <2>3, <2>4 DEF SavedIn
  <2> QED
    BY <2>1, <2>2, <2>5
<1>6. rows' = rows
  <2>1. \A t \in UNION {due[i] : i \in Names} : rows[t] # "none"
    <3> HIDE DEF due
    <3> QED
      BY <1>5
  <2>2. WithRows(UNION {due[i] : i \in Names}) = [t \in Times |-> rows[t]]
    <3> HIDE DEF due
    <3> QED
      BY <2>1 DEF WithRows
  <2> QED
    BY <1>2, <1>3, <2>2 DEF AutoTypeOK
<1>7. /\ FetchBars' = FetchBars /\ \A t : Stored(t)' = Stored(t)
      /\ \A i, t : Owed(i, t)' = Owed(i, t)
  <2>1. FetchBars' = FetchBars /\ \A t : Stored(t)' = Stored(t)
    BY <1>6, SameRows
  <2> QED
    BY <1>6, <2>1 DEF Owed
<1>8. \A i \in Names, t \in Times :
        /\ values'[i][t] # NoValue => values[i][t] # NoValue \/ t \in due[i]
        /\ values'[i][t] = values[i][t] \/ (t \in due[i] /\ values'[i][t] = pending[i][t])
        /\ Has(i, t) => Has(i, t)'
        /\ t \in due[i] => Has(i, t)'
  <2>1. /\ values \in [Names -> [Times -> Seq(Candles) \cup {NoValue}]]
        /\ lost \in [Names -> SUBSET Times]
    BY <1>3 DEF AutoTypeOK
  <2>2. \A i \in Names, t \in Times : t \in due[i] <=> pending[i][t] # NoValue
    OBVIOUS
  <2> HIDE DEF due
  <2>3. CASE /\ values' = [i \in Names |-> [t \in Times |->
                            IF t \in due[i] THEN pending[i][t] ELSE values[i][t]]]
             /\ lost' = [i \in Names |-> lost[i] \ due[i]]
    <3>1. \A i \in Names, t \in Times :
            /\ values'[i][t] = (IF t \in due[i] THEN pending[i][t] ELSE values[i][t])
            /\ t \in lost'[i] <=> t \in lost[i] /\ t \notin due[i]
      BY <2>3
    <3> QED
      BY <2>2, <3>1 DEF Has
  <2>4. CASE lost' = [i \in Names |-> lost[i] \cup due[i]] /\ values' = values
    <3>1. \A i \in Names, t \in Times :
            t \in lost'[i] <=> t \in lost[i] \/ t \in due[i]
      BY <2>4
    <3> QED
      BY <2>4, <3>1 DEF Has
  <2> QED
    BY <1>2, <2>3, <2>4 DEF due
<1>9. AutoTypeOK'
  <2>1. values' \in [Names -> [Times -> Seq(Candles) \cup {NoValue}]]
    <3>1. /\ values \in [Names -> [Times -> Seq(Candles) \cup {NoValue}]]
          /\ pending \in [Names -> [Times -> Seq(Candles) \cup {NoValue}]]
      BY <1>3 DEF AutoTypeOK
    <3> HIDE DEF due
    <3>2. CASE values' = values
      BY <3>1, <3>2
    <3>3. CASE values' = [i \in Names |-> [t \in Times |->
                            IF t \in due[i] THEN pending[i][t] ELSE values[i][t]]]
      <4>1. \A i \in Names : \A t \in Times :
              (IF t \in due[i] THEN pending[i][t] ELSE values[i][t])
                \in Seq(Candles) \cup {NoValue}
        BY <3>1
      <4> QED
        BY <3>3, <4>1
    <3> QED
      BY <1>2, <3>2, <3>3 DEF due
  <2>2. lost' \in [Names -> SUBSET Times]
    <3>1. lost \in [Names -> SUBSET Times] /\ \A i \in Names : due[i] \subseteq Times
      BY <1>3 DEF AutoTypeOK
    <3> HIDE DEF due
    <3>2. \/ lost' = [i \in Names |-> lost[i] \ due[i]]
          \/ lost' = [i \in Names |-> lost[i] \cup due[i]]
      BY <1>2 DEF due
    <3> QED
      BY <3>1, <3>2
  <2> HIDE DEF due
  <2> QED
    BY <1>1, <1>3, <1>6, <2>1, <2>2 DEF AutoTypeOK
<1>10. RowsInv'
  <2>1. ASSUME NEW i \in Seeded, NEW t \in Times, values'[i][t] # NoValue
        PROVE  rows[t] # "none"
    BY <1>3, <1>5, <1>8, <2>1, SeededFacts DEF RowsInv
  <2> HIDE DEF due
  <2> QED
    BY <1>1, <1>3, <1>6, <2>1 DEF RowsInv
<1>11. WorkInv'
  <2>1. booted
    BY <1>1, <1>3, <1>4 DEF WorkInv
  <2> HIDE DEF due
  <2> QED
    BY <1>1, <1>3, <1>4, <1>7, <2>1 DEF WorkInv
<1>12. WindowInv'
  <2>1. ASSUME NEW i PROVE Through(i)' = Through(i)
    <3>1. Waits(i)' = Waits(i)
      BY <1>1 DEF Waits
    <3> QED
      BY <1>1, <3>1 DEF Through
  <2> HIDE DEF due
  <2> QED
    BY <1>1, <1>3, <1>7, <2>1 DEF WindowInv
<1>13. LengthInv' /\ PendingInv' /\ KnownInv' /\ MemoryIsTail'
  BY <1>1 DEF LengthInv, PendingInv, KnownInv, MemoryIsTail
<1>14. ASSUME NEW i \in Seeded, NEW t \in Times, Owed(i, t)
       PROVE  Has(i, t)'
  <2>1. i \in Names /\ Period[i] \in Nat /\ known[i] \in Nat /\ t \in Int /\ t > 0
    BY <1>3, PeriodAssumption, SeededFacts, TimesAreNumbers DEF AutoTypeOK
  <2>2. CASE t > known[i]
    <3>1. PICK k \in 1..Len(bars) : bars[k].time = t /\ Len(Stored(t)) <= k
      BY <1>4, <1>14, PlaceOf DEF Owed
    <3>2. Len(Stored(t)) > Period[i] /\ Len(Stored(t)) \in Nat
      BY <1>14, StoredCounts, OfRows DEF Owed
    <3>3. k > Period[i]
      BY <2>1, <3>1, <3>2
    <3>4. k <= Through(i)
      <4>1. ~ Waits(i)
        BY <1>1 DEF Waits
      <4>2. Through(i) = fed - 0
        BY <1>1, <4>1 DEF Through
      <4> QED
        BY <1>1, <1>4, <4>2
    <3>5. pending[i][t] # NoValue
      BY <1>1, <1>3, <1>4, <2>2, <3>1, <3>3, <3>4 DEF PendingInv
    <3> QED
      BY <1>8, <2>1, <3>5
  <2>3. CASE ~ (t > known[i])
    <3>1. known[i] \in Times /\ values[i][known[i]] # NoValue /\ t <= known[i]
      BY <1>1, <1>3, <2>1, <2>3 DEF KnownInv
    <3>2. Has(i, t)
      BY <1>3, <1>14, <3>1 DEF CompleteInv
    <3> QED
      BY <1>8, <2>1, <3>2
  <2> QED
    BY <2>2, <2>3
<1>15. CompleteInv'
  <2> HIDE DEF due
  <2> QED
    BY <1>7, <1>14 DEF CompleteInv
<1>16. ValuesAreRight'
  <2> SUFFICES ASSUME NEW i \in Seeded, NEW t \in Times, values'[i][t] # NoValue,
                      \A u \in unsaved : t < u
               PROVE  /\ rows[t] = "candle" /\ Len(Stored(t)) > Period[i]
                      /\ values'[i][t] = LastOf(Stored(t), Period[i])
    BY <1>1, <1>6, <1>7 DEF ValuesAreRight
  <2>1. i \in Names /\ Period[i] \in Nat
    BY PeriodAssumption, SeededFacts
  <2>2. CASE values'[i][t] = values[i][t]
    BY <1>3, <2>2 DEF ValuesAreRight
  <2>3. CASE t \in due[i] /\ values'[i][t] = pending[i][t]
    <3>1. PICK k \in 1..Len(bars) : /\ bars[k].time = t /\ k > Period[i]
                                    /\ pending[i][t] = WindowOf(bars, k, Period[i])
      BY <1>5, <2>1, <2>3
    <3> HIDE DEF due
    <3>2. /\ rows[bars[k].time] = "candle" /\ Len(Stored(bars[k].time)) > Period[i]
          /\ LastOf(Stored(bars[k].time), Period[i]) = WindowOf(bars, k, Period[i])
      BY <1>3, <1>4, <2>1, <3>1, RightBar
    <3> QED
      BY <2>3, <3>1, <3>2
  <2> QED
    BY <1>8, <2>1, <2>2, <2>3
<1> QED
  BY <1>9, <1>10, <1>11, <1>12, <1>13, <1>15, <1>16 DEF AutoInv

LEMMA SeedEndAuto ==
  ASSUME OnUTC, AutoInv, SeedEnd
  PROVE  AutoInv'
<1>1. /\ pc = "saved" /\ pc' = "ready"
      /\ memory' = LastOf(TimesOf(bars), Snapshot) /\ pending' = NoValues
      /\ UNCHANGED <<rows, values, runs, clock, bars, fed, candle, todo, engine, booted,
                     known, lost, unsaved>>
  BY DEF SeedEnd
<1>2. AutoTypeOK /\ RowsInv /\ WorkInv /\ WindowInv /\ CompleteInv /\ clock \in Int
  BY DEF AutoInv, AutoTypeOK
<1>3. /\ RowsInv' /\ ValuesAreRight'
      /\ \A i, t : Owed(i, t)' = Owed(i, t) /\ Has(i, t)' = Has(i, t)
      /\ FetchBars' = FetchBars /\ \A t : Stored(t)' = Stored(t)
  BY <1>1, <1>2, StoredKept
<1>4. /\ bars = FetchBars /\ bars \in Seq(Candles) /\ Len(bars) \in Nat /\ Len(bars) > 0
      /\ fed = Len(bars) /\ todo = << >> /\ booted
  <2>1. bars = FetchBars /\ bars # << >> /\ fed = Len(bars) /\ todo = << >> /\ booted
    BY <1>1, <1>2 DEF WorkInv
  <2> QED
    BY <2>1, FetchFacts, EmptySeq
<1>5. \A i : ~ Waits(i) /\ ~ Waits(i)'
  BY <1>1, <1>4 DEF Waits
<1>6. ASSUME NEW i PROVE Through(i) = Len(bars) /\ Through(i)' = Len(bars)
  <2>1. Through(i) = fed - 0
    BY <1>1, <1>5 DEF Through
  <2>2. Through(i)' = Len(FetchBars') - 0
    BY <1>1, <1>5 DEF Through
  <2> QED
    BY <1>3, <1>4, <2>1, <2>2
<1>7. AutoTypeOK'
  <2>1. memory' \in Seq(Times)
    BY <1>1, <1>4, TailOfTimes, SizesAssumption
  <2> QED
    BY <1>1, <1>2, <2>1, NoValuesFacts DEF AutoTypeOK
<1>8. WorkInv'
  BY <1>1, <1>2, <1>3, <1>4 DEF WorkInv
<1>9. \A i \in Seeded : engine[i].part = << >>
                        /\ engine[i].window = WindowOf(bars, Len(bars), Period[i])
  BY <1>1, <1>2, <1>4, <1>6 DEF WindowInv
<1>10. WindowInv'
  BY <1>1, <1>3, <1>4, <1>6, <1>9 DEF WindowInv
<1>11. LengthInv'
  <2>1. ASSUME NEW i \in Seeded, NEW t
        PROVE  \/ Len(engine'[i].window) >= Period[i]
               \/ Len(engine'[i].window) + 1 >= Len(Stored(t))
    <3>1. Period[i] \in Nat
      BY PeriodAssumption, SeededFacts
    <3>2. Len(Stored(t)) \in Nat /\ Len(Stored(t)) <= Len(bars)
      BY <1>4, StoredCounts, OfRows
    <3>3. Len(bars) \in 0..Len(bars)
      BY <1>4
    <3>4. ASSUME NEW n \in 0..Len(bars), n = Len(bars)
          PROVE  Len(WindowOf(bars, n, Period[i])) =
                   (IF n > Period[i] THEN Period[i] ELSE IF n > 0 THEN n - 1 ELSE 0)
      <4>1. bars \in Seq(Candles) /\ n \in 0..Len(bars) /\ Period[i] \in Nat
        BY <1>4, <3>1, <3>4
      <4> QED
        BY ONLY <4>1, WindowFacts
    <3>5. engine'[i].window = WindowOf(bars, Len(bars), Period[i])
      BY <1>1, <1>9
    <3> QED
      BY <1>4, <3>1, <3>2, <3>3, <3>4, <3>5
  <2> QED
    BY <1>3, <2>1 DEF LengthInv
<1>12. CompleteInv'
  <2>1. \A i \in Seeded, t \in Times : Owed(i, t) => Has(i, t)
    BY <1>1, <1>2, <1>5 DEF CompleteInv
  <2> QED
    BY <1>3, <2>1 DEF CompleteInv
<1>13. MemoryIsTail'
  <2> SUFFICES ASSUME unsaved' = {}
               PROVE  /\ memory' = LastOf(TimesOf(Stored(MaxTime)'), Len(memory'))
                      /\ Len(memory') >= Len(LastOf(Stored(MaxTime)', Snapshot))
    BY DEF MemoryIsTail
  <2>1. Stored(MaxTime)' = bars
    BY <1>1, <1>2, <1>3, <1>4, AllCandles
  <2>2. /\ memory' = LastOf(TimesOf(bars), Len(memory'))
        /\ Len(memory') >= Len(LastOf(bars, Snapshot))
    BY <1>1, <1>4, TailOfTimes, SizesAssumption
  <2> QED
    BY <2>1, <2>2
<1>14. PendingInv' /\ KnownInv'
  BY <1>1 DEF PendingInv, KnownInv
<1> QED
  BY <1>3, <1>7, <1>8, <1>10, <1>11, <1>12, <1>13, <1>14 DEF AutoInv

(* Whoever's turn it is leaves the queue, and only he.                     *)
LEMMA TurnFacts ==
  ASSUME AutoTypeOK, WorkInv, todo # << >>, todo' = Tail(todo)
  PROVE  /\ Head(todo) \in Names /\ todo' \in Seq(Names)
         /\ \A m, n \in DOMAIN todo' : todo'[m] = todo'[n] => m = n
         /\ (Len(todo) = 1 <=> todo' = << >>)
         /\ \A i : i = Head(todo) => Waits(i) /\ ~ Waits(i)'
         /\ \A i : i # Head(todo) => (Waits(i)' <=> Waits(i))
<1>1. /\ todo \in Seq(Names) /\ Len(todo) \in Nat /\ Len(todo) >= 1
      /\ Head(todo) = todo[1] /\ 1 \in DOMAIN todo /\ DOMAIN todo = 1..Len(todo)
      /\ \A m, n \in DOMAIN todo : todo[m] = todo[n] => m = n
  <2>1. todo \in Seq(Names) /\ \A m, n \in DOMAIN todo : todo[m] = todo[n] => m = n
    BY DEF AutoTypeOK, WorkInv
  <2>2. todo # << >>
    OBVIOUS
  <2> QED
    BY ONLY <2>1, <2>2
<1>2. /\ Tail(todo) \in Seq(Names) /\ Len(Tail(todo)) = Len(todo) - 1
      /\ DOMAIN Tail(todo) = 1..(Len(todo) - 1)
      /\ \A n \in 1..(Len(todo) - 1) : Tail(todo)[n] = todo[n + 1]
  BY <1>1
<1>3. Head(todo) \in Names /\ (Len(todo) = 1 <=> Tail(todo) = << >>)
  BY <1>1, <1>2
<1>4. \A m, n \in DOMAIN todo' : todo'[m] = todo'[n] => m = n
  BY <1>1, <1>2
<1>5. ASSUME NEW i, i = Head(todo)
      PROVE  Waits(i) /\ ~ Waits(i)'
  <2>1. Waits(i)
    BY <1>1, <1>5 DEF Waits
  <2>2. ASSUME NEW n \in DOMAIN todo', todo'[n] = i
        PROVE  FALSE
    <3>1. n \in 1..(Len(todo) - 1) /\ n + 1 \in DOMAIN todo /\ todo[n + 1] = todo[1]
      BY <1>1, <1>2, <1>5, <2>2
    <3>2. n + 1 = 1
      BY <1>1, <3>1
    <3> QED
      BY <3>1, <3>2
  <2> QED
    BY <2>1, <2>2 DEF Waits
<1>6. ASSUME NEW i, i # Head(todo)
      PROVE  Waits(i)' <=> Waits(i)
  <2>1. ASSUME NEW n \in DOMAIN todo', todo'[n] = i
        PROVE  Waits(i)
    <3>1. n + 1 \in DOMAIN todo /\ todo[n + 1] = i
      BY <1>1, <1>2, <2>1
    <3> QED
      BY <3>1 DEF Waits
  <2>2. ASSUME NEW n \in DOMAIN todo, todo[n] = i
        PROVE  Waits(i)'
    <3>1. n # 1
      BY <1>1, <1>6, <2>2
    <3>2. n - 1 \in DOMAIN todo' /\ todo'[n - 1] = i
      BY <1>1, <1>2, <2>2, <3>1
    <3> QED
      BY <3>2 DEF Waits
  <2> QED
    BY <2>1, <2>2 DEF Waits
<1> QED
  BY <1>2, <1>3, <1>4, <1>5, <1>6

(* What a turn is taken with, and what it leaves alone.                    *)
LEMMA ConsumeFacts ==
  ASSUME OnUTC, AutoInv, Consume
  PROVE  /\ pc \in {"feed", "ready"} /\ booted
         /\ candle = <<Head(candle)>> /\ Head(candle) \in Candles
         /\ pc = "feed" => fed \in 2..Len(bars) /\ Head(candle) = bars[fed]
         /\ pc = "ready" => Head(candle) = [time |-> clock, real |-> TRUE] /\ clock \in Times
         /\ candle' = (IF todo' = << >> THEN << >> ELSE candle)
         /\ candle' \in Seq(Candles)
         /\ UNCHANGED <<pc, runs, clock, bars, fed, booted, known, memory, unsaved>>
<1>1. /\ todo # << >> /\ todo' = Tail(todo)
      /\ candle' = IF Len(todo) = 1 THEN << >> ELSE candle
      /\ UNCHANGED <<pc, runs, clock, bars, fed, booted, known, memory, unsaved>>
  BY DEF Consume
<1>2. AutoTypeOK /\ WorkInv
  BY DEF AutoInv
<1>3. pc \in {"feed", "ready"} /\ booted
  BY <1>1, <1>2 DEF WorkInv, AutoTypeOK
<1>4. ASSUME pc = "feed"
      PROVE  /\ fed \in 2..Len(bars) /\ candle = <<bars[fed]>>
             /\ bars[fed] \in Candles
  <2>1. fed > 1 /\ candle = <<bars[fed]>> /\ bars \in Seq(Candles) /\ fed \in 0..Len(bars)
    BY <1>1, <1>2, <1>4 DEF WorkInv, AutoTypeOK
  <2>2. Len(bars) \in Nat
    BY <2>1
  <2>3. fed \in 2..Len(bars)
    BY <2>1, <2>2
  <2> QED
    BY <2>1, <2>2, <2>3, ElementOfSeq
<1>5. ASSUME pc = "ready"
      PROVE  candle = <<[time |-> clock, real |-> TRUE]>> /\ clock \in Times
  BY <1>1, <1>2, <1>5 DEF WorkInv
<1>6. candle = <<Head(candle)>> /\ Head(candle) \in Candles
  <2>1. CASE pc = "feed"
    BY <1>4, <2>1
  <2>2. CASE pc = "ready"
    <3>1. [time |-> clock, real |-> TRUE] \in Candles
      BY <1>5, <2>2 DEF Candles
    <3>2. PICK c \in Candles : candle = <<c>>
      BY <1>5, <2>2, <3>1
    <3> QED
      BY <3>2
  <2> QED
    BY <1>3, <2>1, <2>2
<1>7. /\ pc = "feed" => fed \in 2..Len(bars) /\ Head(candle) = bars[fed]
      /\ pc = "ready" => Head(candle) = [time |-> clock, real |-> TRUE] /\ clock \in Times
  BY <1>4, <1>5
<1>8. candle' = (IF todo' = << >> THEN << >> ELSE candle)
  BY <1>1, <1>2, TurnFacts
<1>9. candle' \in Seq(Candles)
  BY <1>2, <1>8, EmptyFacts DEF AutoTypeOK
<1> QED
  BY <1>1, <1>3, <1>6, <1>7, <1>8, <1>9

(* What the indicator gathers is typed.                                    *)
LEMMA GatheredFacts ==
  ASSUME AutoTypeOK, NEW i \in Names, NEW c \in Candles
  PROVE  /\ Gathered(i, c) \in Seq(Candles)
         /\ Window(i, Gathered(i, c)) \in Seq(Candles)
         /\ IsBar(i, Gathered(i, c)) => Head(Gathered(i, c)) \in Candles
         /\ IsBar(i, Gathered(i, c)) /\ Offset = 0 =>
              Stamp(Gathered(i, c)) = Head(Gathered(i, c)).time /\ Stamp(Gathered(i, c)) \in Times
<1>1. engine[i].part \in Seq(Candles) /\ engine[i].window \in Seq(Candles)
  BY DEF AutoTypeOK
<1>2. Gathered(i, c) \in Seq(Candles)
  BY <1>1, EmptyFacts DEF Gathered
<1> DEFINE g == Gathered(i, c)
<1> HIDE DEF g
<1>3. g \in Seq(Candles)
  BY <1>2 DEF g
<1>4. Window(i, g) \in Seq(Candles)
  <2>1. engine[i].window \o g \in Seq(Candles)
    BY <1>1, <1>3
  <2>2. Period[i] * Frame[i] \in Nat
    BY PeriodAssumption, FrameAssumption
  <2> QED
    BY <2>1, <2>2, LastOfFacts DEF Window
<1>5. IsBar(i, g) => Head(g) \in Candles
  BY <1>3, FrameAssumption DEF IsBar
<1>6. IsBar(i, g) /\ Offset = 0 => Stamp(g) = Head(g).time /\ Stamp(g) \in Times
  <2>1. ASSUME IsBar(i, g), Offset = 0
        PROVE  Head(g).time \in Times
    BY <1>5, <2>1 DEF Candles
  <2>2. ASSUME IsBar(i, g), Offset = 0
        PROVE  Head(g).time \in Int
    BY <2>1, <2>2, TimesAreNumbers DEF OnUTC
  <2> QED
    BY <2>1, <2>2 DEF Stamp
<1> QED
  BY <1>2, <1>4, <1>5, <1>6 DEF g

(* A turn that is not that of an indicator of the seeded timeframe.        *)
LEMMA OtherTurn ==
  ASSUME OnUTC, AutoInv, Consume, Head(todo) \notin Seeded
  PROVE  /\ rows' = rows /\ pending' = pending
         /\ values' \in [Names -> [Times -> Seq(Candles) \cup {NoValue}]]
         /\ lost' \in [Names -> SUBSET Times]
         /\ engine' \in [Names -> [part : Seq(Candles), window : Seq(Candles)]]
         /\ \A j \in Seeded : /\ values'[j] = values[j] /\ lost'[j] = lost[j]
                              /\ engine'[j] = engine[j]
<1>1. AutoTypeOK /\ WorkInv /\ todo # << >> /\ todo' = Tail(todo)
  BY DEF AutoInv, Consume
<1>2. PICK i \in Names : i = Head(todo)
  BY <1>1, TurnFacts
<1>3. PICK c \in Candles : c = Head(candle)
  BY ConsumeFacts
<1>4. PICK g \in Seq(Candles) : g = Gathered(i, c)
  BY <1>1, GatheredFacts
<1>5. PICK w \in Seq(Candles) : w = Window(i, g)
  BY <1>1, <1>4, GatheredFacts
<1>6. IsBar(i, g) => Stamp(g) \in Times
  BY <1>1, <1>4, GatheredFacts DEF OnUTC
<1>7. /\ rows' = rows /\ pending' = pending
      /\ \/ /\ IsBar(i, g)
            /\ engine' = [engine EXCEPT ![i] = [part |-> << >>, window |-> w]]
            /\ \/ values' = [values EXCEPT ![i][Stamp(g)] = w] /\ lost' = lost
               \/ values' = values /\ lost' = [lost EXCEPT ![i] = @ \cup {Stamp(g)}]
               \/ values' = values /\ lost' = lost
         \/ /\ engine' = [engine EXCEPT ![i].part = g]
            /\ values' = values /\ lost' = lost
  BY <1>2, <1>3, <1>4, <1>5 DEF Consume, Hook, LiveHook
<1>8. Seeded \subseteq Names /\ i \notin Seeded
  BY <1>2, SeededFacts
<1>9. engine' \in [Names -> [part : Seq(Candles), window : Seq(Candles)]]
  <2>1. [part |-> << >>, window |-> w] \in [part : Seq(Candles), window : Seq(Candles)]
    BY EmptyFacts
  <2>2. engine \in [Names -> [part : Seq(Candles), window : Seq(Candles)]]
    BY <1>1 DEF AutoTypeOK
  <2>3. [engine[i] EXCEPT !.part = g] \in [part : Seq(Candles), window : Seq(Candles)]
    BY <2>2
  <2>4. CASE engine' = [engine EXCEPT ![i] = [part |-> << >>, window |-> w]]
    BY <2>1, <2>2, <2>4
  <2>5. CASE engine' = [engine EXCEPT ![i].part = g]
    BY <2>2, <2>3, <2>5
  <2> QED
    BY <1>7, <2>4, <2>5
<1>10. values' \in [Names -> [Times -> Seq(Candles) \cup {NoValue}]]
  <2>1. values \in [Names -> [Times -> Seq(Candles) \cup {NoValue}]]
    BY <1>1 DEF AutoTypeOK
  <2>2. CASE values' = values
    BY <2>1, <2>2
  <2>3. CASE values' = [values EXCEPT ![i][Stamp(g)] = w]
    <3>1. [values[i] EXCEPT ![Stamp(g)] = w] \in [Times -> Seq(Candles) \cup {NoValue}]
      BY <2>1
    <3> QED
      BY <2>1, <2>3, <3>1
  <2> QED
    BY <1>7, <2>2, <2>3
<1>11. lost' \in [Names -> SUBSET Times]
  <2>1. lost \in [Names -> SUBSET Times]
    BY <1>1 DEF AutoTypeOK
  <2> QED
    BY <1>6, <1>7, <2>1
<1>12. ASSUME NEW j \in Seeded
       PROVE  values'[j] = values[j] /\ lost'[j] = lost[j] /\ engine'[j] = engine[j]
  BY <1>1, <1>7, <1>8 DEF AutoTypeOK
<1> QED
  BY <1>7, <1>9, <1>10, <1>11, <1>12

(* The turn of an indicator of the seeded timeframe: the candle is a bar,  *)
(* and a full window a value.                                              *)
LEMMA SeededTurn ==
  ASSUME OnUTC, AutoInv, Consume, NEW i \in Seeded, i = Head(todo),
         NEW c \in Candles, c = Head(candle),
         NEW w, w = LastOf(engine[i].window \o <<c>>, Period[i])
  PROVE  /\ w \in Seq(Candles) /\ w # NoValue
         /\ Len(w) = (IF Len(engine[i].window) + 1 > Period[i] THEN Period[i]
                      ELSE Len(engine[i].window) + 1)
         /\ engine' = [engine EXCEPT ![i] = [part |-> << >>, window |-> w]]
         /\ engine' \in [Names -> [part : Seq(Candles), window : Seq(Candles)]]
         /\ IF Len(w) = Period[i] THEN Hook(i, c.time, w)
            ELSE UNCHANGED <<rows, values, lost, pending>>
<1>1. AutoTypeOK /\ WindowInv /\ i \in Names /\ Frame[i] = 1
      /\ Period[i] \in Nat \ {0}
  BY SeededFacts, PeriodAssumption DEF AutoInv
<1>2. engine[i].part = << >> /\ engine[i].window \in Seq(Candles)
  BY <1>1 DEF WindowInv, AutoTypeOK
<1>3. c.time \in Times /\ c.time \in Int
  BY TimesAreNumbers DEF Candles
<1>4. Gathered(i, c) = <<c>>
  <2>1. c.time % Frame[i] = 0
    BY <1>1, <1>3
  <2>2. Append(<< >>, c) = <<c>>
    OBVIOUS
  <2> QED
    BY <1>2, <2>1, <2>2 DEF Gathered
<1>5. /\ IsBar(i, <<c>>) /\ Window(i, <<c>>) = w /\ Stamp(<<c>>) = c.time
      /\ Period[i] * Frame[i] = Period[i]
  BY <1>1, <1>3 DEF IsBar, Window, Stamp, OnUTC
<1>6. /\ engine' = [engine EXCEPT ![i] = [part |-> << >>, window |-> w]]
      /\ IF Len(w) = Period[i] THEN Hook(i, c.time, w)
         ELSE UNCHANGED <<rows, values, lost, pending>>
  BY <1>4, <1>5 DEF Consume
<1>7. /\ engine[i].window \o <<c>> \in Seq(Candles)
      /\ Len(engine[i].window \o <<c>>) = Len(engine[i].window) + 1
  BY <1>2
<1>8. /\ w \in Seq(Candles)
      /\ Len(w) = (IF Len(engine[i].window) + 1 > Period[i] THEN Period[i]
                   ELSE Len(engine[i].window) + 1)
  <2>1. Period[i] \in Nat
    BY <1>1
  <2>2. PICK s \in Seq(Candles) : s = engine[i].window \o <<c>>
    BY <1>7
  <2>3. LastOf(s, Period[i]) \in Seq(Candles)
        /\ Len(LastOf(s, Period[i])) = (IF Len(s) > Period[i] THEN Period[i] ELSE Len(s))
    BY <2>1, LastOfFacts
  <2> QED
    BY <1>7, <2>2, <2>3
<1>9. w # NoValue
  BY <1>8, NoValueAssumption
<1>10. engine' \in [Names -> [part : Seq(Candles), window : Seq(Candles)]]
  <2>1. [part |-> << >>, window |-> w] \in [part : Seq(Candles), window : Seq(Candles)]
    BY <1>8, EmptyFacts
  <2> QED
    BY <1>1, <1>6, <2>1 DEF AutoTypeOK
<1> QED
  BY <1>6, <1>8, <1>9, <1>10

LEMMA ConsumeOther ==
  ASSUME OnUTC, AutoInv, Consume, Head(todo) \notin Seeded
  PROVE  AutoInv'
<1>1. /\ AutoTypeOK /\ RowsInv /\ WorkInv /\ WindowInv /\ LengthInv /\ PendingInv
      /\ KnownInv /\ CompleteInv /\ ValuesAreRight /\ MemoryIsTail
      /\ todo # << >> /\ todo' = Tail(todo)
  BY DEF AutoInv, Consume
<1>2. /\ rows' = rows /\ pending' = pending
      /\ \A j \in Seeded : values'[j] = values[j] /\ lost'[j] = lost[j] /\ engine'[j] = engine[j]
  BY OtherTurn
<1>3. /\ pc \in {"feed", "ready"} /\ booted
      /\ pc = "feed" => fed \in 2..Len(bars)
      /\ candle' = (IF todo' = << >> THEN << >> ELSE candle)
      /\ UNCHANGED <<pc, runs, clock, bars, fed, booted, known, memory, unsaved>>
  BY ConsumeFacts
<1>4. FetchBars' = FetchBars /\ \A t : Stored(t)' = Stored(t)
  BY <1>2, SameRows
<1>5. \A j \in Seeded : (Waits(j)' <=> Waits(j)) /\ j \in Names
  BY <1>1, SeededFacts, TurnFacts
<1>6. \A j \in Seeded : Through(j)' = Through(j)
  BY <1>3, <1>4, <1>5 DEF Through
<1>7. \A j \in Seeded : \A t : Owed(j, t)' = Owed(j, t) /\ Has(j, t)' = Has(j, t)
  BY <1>2, <1>4 DEF Owed, Has
<1>8. AutoTypeOK'
  BY <1>1, <1>2, <1>3, OtherTurn, TurnFacts, ConsumeFacts DEF AutoTypeOK
<1>9. RowsInv'
  BY <1>1, <1>2, <1>3 DEF RowsInv
<1>10. WorkInv'
  <2>1. \A m, n \in DOMAIN todo' : todo'[m] = todo'[n] => m = n
    BY <1>1, TurnFacts
  <2>2. CASE pc = "feed"
    BY <1>1, <1>2, <1>3, <1>4, <2>1, <2>2 DEF WorkInv
  <2>3. CASE pc = "ready"
    <3>1. candle = <<[time |-> clock, real |-> TRUE]>> /\ clock \in Times
          /\ (rows[clock] = "candle" \/ clock \in unsaved)
      BY <1>1, <2>3 DEF WorkInv
    <3>2. unsaved = {} => Len(FetchBars) > 1
      BY <1>1, <1>3, <2>3 DEF WorkInv
    <3>3. unsaved' = {} => Len(FetchBars') > (IF todo' = << >> THEN 0 ELSE 1)
      BY <1>3, <1>4, <3>2, FetchFacts
    <3> QED
      BY <1>2, <1>3, <2>1, <2>3, <3>1, <3>3 DEF WorkInv
  <2> QED
    BY <1>3, <2>2, <2>3
<1>11. WindowInv'
  BY <1>1, <1>2, <1>3, <1>4, <1>6 DEF WindowInv
<1>12. LengthInv'
  BY <1>1, <1>2, <1>3, <1>4, <1>5 DEF LengthInv
<1>13. PendingInv'
  BY <1>1, <1>2, <1>3, <1>6 DEF PendingInv
<1>14. KnownInv'
  BY <1>1, <1>2, <1>3 DEF KnownInv
<1>15. CompleteInv'
  BY <1>1, <1>2, <1>3, <1>5, <1>7 DEF CompleteInv
<1>16. ValuesAreRight'
  BY <1>1, <1>2, <1>3, <1>4 DEF ValuesAreRight
<1>17. MemoryIsTail'
  BY <1>1, <1>3, <1>4 DEF MemoryIsTail
<1> QED
  BY <1>8, <1>9, <1>10, <1>11, <1>12, <1>13, <1>14, <1>15, <1>16, <1>17 DEF AutoInv

LEMMA ConsumeFeed ==
  ASSUME OnUTC, AutoInv, Consume, Head(todo) \in Seeded, pc = "feed"
  PROVE  AutoInv'
<1>1. /\ AutoTypeOK /\ RowsInv /\ WorkInv /\ WindowInv /\ LengthInv /\ PendingInv
      /\ KnownInv /\ CompleteInv /\ ValuesAreRight /\ MemoryIsTail
      /\ todo # << >> /\ todo' = Tail(todo)
  BY DEF AutoInv, Consume
<1>2. PICK i \in Seeded : i = Head(todo)
  OBVIOUS
<1>3. /\ booted /\ Head(candle) \in Candles
      /\ fed \in 2..Len(bars) /\ Head(candle) = bars[fed]
      /\ candle' = (IF todo' = << >> THEN << >> ELSE candle)
      /\ UNCHANGED <<pc, runs, clock, bars, fed, booted, known, memory, unsaved>>
  BY ConsumeFacts
<1>4. PICK c \in Candles : c = Head(candle) /\ c = bars[fed]
  BY <1>3
<1>5. PICK w : w = LastOf(engine[i].window \o <<c>>, Period[i])
  OBVIOUS
<1>6. /\ i \in Names /\ Period[i] \in Nat \ {0}
      /\ bars = FetchBars /\ bars \in Seq(Candles) /\ Len(bars) \in Nat
      /\ fed \in Nat /\ fed \in 1..Len(bars) /\ fed - 1 \in 1..Len(bars)
      /\ fed \in DOMAIN bars /\ DOMAIN bars = 1..Len(bars)
  BY <1>1, <1>3, SeededFacts, PeriodAssumption, FetchFacts, LenProperties DEF WorkInv
<1>7. Waits(i) /\ ~ Waits(i)' /\ \A j : j # i => (Waits(j)' <=> Waits(j))
  BY <1>1, <1>2, TurnFacts
<1>8. /\ Through(i) = fed - 1 /\ Through(i)' = fed
      /\ \A j : j # i => Through(j)' = Through(j)
  <2>1. Through(i)' = fed' - 0
    BY <1>3, <1>7 DEF Through
  <2>2. Through(i) = fed - 1
    BY <1>7 DEF Through
  <2>3. \A j : j # i => Through(j)' = Through(j)
    BY <1>3, <1>7 DEF Through
  <2> QED
    BY <1>3, <1>6, <2>1, <2>2, <2>3
<1>9. /\ w = WindowOf(bars, fed, Period[i])
      /\ Len(w) = Period[i] <=> fed > Period[i]
  <2>1. engine[i].window = WindowOf(bars, fed - 1, Period[i])
    BY <1>1, <1>6, <1>8 DEF WindowInv
  <2>2. /\ fed - 1 \in 1..Len(bars) /\ (fed - 1) + 1 \in 1..Len(bars) /\ (fed - 1) + 1 = fed
        /\ bars[(fed - 1) + 1] = c
    BY <1>3, <1>4, <1>6
  <2>3. ASSUME NEW n \in 1..Len(bars), n = fed - 1
        PROVE  LastOf(WindowOf(bars, n, Period[i]) \o <<bars[n + 1]>>, Period[i])
                 = WindowOf(bars, n + 1, Period[i])
    <3>1. n + 1 \in 1..Len(bars)
      BY <2>2, <2>3
    <3> QED
      BY <1>6, <3>1, WindowNext
  <2>4. w = WindowOf(bars, fed, Period[i])
    BY <1>5, <2>1, <2>2, <2>3
  <2>5. fed \in 0..Len(bars)
    BY <1>6
  <2>6. Len(w) = (IF fed > Period[i] THEN Period[i] ELSE IF fed > 0 THEN fed - 1 ELSE 0)
    <3>1. bars \in Seq(Candles) /\ fed \in 0..Len(bars) /\ Period[i] \in Nat
      BY <1>6, <2>5
    <3>2. Len(WindowOf(bars, fed, Period[i])) =
            (IF fed > Period[i] THEN Period[i] ELSE IF fed > 0 THEN fed - 1 ELSE 0)
      BY ONLY <3>1, WindowFacts
    <3> QED
      BY <2>4, <3>2
  <2> QED
    BY <1>6, <2>4, <2>6
<1>10. /\ w # NoValue
       /\ engine' = [engine EXCEPT ![i] = [part |-> << >>, window |-> w]]
       /\ engine' \in [Names -> [part : Seq(Candles), window : Seq(Candles)]]
       /\ w \in Seq(Candles)
       /\ UNCHANGED <<rows, values, lost>>
       /\ pending' = IF fed > Period[i] /\ c.time > known[i]
                     THEN [pending EXCEPT ![i][c.time] = w] ELSE pending
  <2>1. /\ w # NoValue /\ w \in Seq(Candles)
        /\ engine' = [engine EXCEPT ![i] = [part |-> << >>, window |-> w]]
        /\ engine' \in [Names -> [part : Seq(Candles), window : Seq(Candles)]]
        /\ IF Len(w) = Period[i] THEN Hook(i, c.time, w)
           ELSE UNCHANGED <<rows, values, lost, pending>>
    BY <1>2, <1>4, <1>5, SeededTurn
  <2> QED
    BY <1>9, <2>1 DEF Hook, SeedHook
<1>11. FetchBars' = FetchBars /\ \A t : Stored(t)' = Stored(t)
  BY <1>10, SameRows
<1>12. \A j, t : Owed(j, t)' = Owed(j, t) /\ Has(j, t)' = Has(j, t)
  BY <1>10, <1>11 DEF Owed, Has
<1>13. /\ pending' \in [Names -> [Times -> Seq(Candles) \cup {NoValue}]]
       /\ \A j \in Names, t \in Times :
            pending'[j][t] = pending[j][t]
            \/ (j = i /\ t = c.time /\ fed > Period[i] /\ pending'[j][t] = w)
       /\ fed > Period[i] /\ c.time > known[i] => pending'[i][c.time] # NoValue
  <2>1. /\ pending \in [Names -> [Times -> Seq(Candles) \cup {NoValue}]]
        /\ c.time \in Times
    BY <1>1 DEF AutoTypeOK, Candles
  <2>2. CASE fed > Period[i] /\ c.time > known[i]
    <3>1. pending' = [pending EXCEPT ![i][c.time] = w]
      BY <1>10, <2>2
    <3>2. [pending[i] EXCEPT ![c.time] = w] \in [Times -> Seq(Candles) \cup {NoValue}]
      BY <1>6, <1>10, <2>1
    <3> QED
      BY <1>6, <1>10, <2>1, <2>2, <3>1, <3>2
  <2>3. CASE ~ (fed > Period[i] /\ c.time > known[i])
    <3>1. pending' = pending
      BY <1>10, <2>3
    <3> QED
      BY <2>1, <2>3, <3>1
  <2> QED
    BY <2>2, <2>3
<1>14. AutoTypeOK'
  BY <1>1, <1>3, <1>10, <1>13, TurnFacts, ConsumeFacts DEF AutoTypeOK
<1>15. RowsInv'
  BY <1>1, <1>3, <1>10 DEF RowsInv
<1>16. WorkInv'
  BY <1>1, <1>3, <1>11, TurnFacts DEF WorkInv
<1>17. WindowInv'
  <2>1. \A j \in Seeded : j \in Names
    BY SeededFacts
  <2>2. ASSUME NEW j \in Seeded
        PROVE  /\ engine'[j].part = << >>
               /\ engine'[j].window = WindowOf(FetchBars', Through(j)', Period[j])
    <3>1. CASE j = i
      BY <1>1, <1>6, <1>8, <1>9, <1>10, <1>11, <3>1 DEF AutoTypeOK
    <3>2. CASE j # i
      BY <1>1, <1>8, <1>10, <1>11, <2>1, <3>2 DEF AutoTypeOK, WindowInv
    <3> QED
      BY <3>1, <3>2
  <2> QED
    BY <2>2 DEF WindowInv
<1>18. PendingInv'
  <2>1. ASSUME NEW j \in Names, NEW t \in Times, pending'[j][t] # NoValue
        PROVE  /\ j \in Seeded
               /\ \E k \in DOMAIN bars :
                    /\ bars[k].time = t /\ k > Period[j] /\ k <= Through(j)'
                    /\ pending'[j][t] = WindowOf(bars, k, Period[j])
    <3>1. CASE pending'[j][t] = pending[j][t]
      <4>1. /\ j \in Seeded
            /\ \E k \in DOMAIN bars :
                 /\ bars[k].time = t /\ k > Period[j] /\ k <= Through(j)
                 /\ pending[j][t] = WindowOf(bars, k, Period[j])
        BY <1>1, <2>1, <3>1 DEF PendingInv
      <4>2. \A k \in DOMAIN bars : k <= Through(j) => k <= Through(j)'
        BY <1>6, <1>8
      <4> QED
        BY <3>1, <4>1, <4>2
    <3>2. CASE j = i /\ t = c.time /\ fed > Period[i] /\ pending'[j][t] = w
      <4>1. fed \in DOMAIN bars /\ bars[fed].time = t /\ fed <= Through(j)'
        BY <1>4, <1>6, <1>8, <3>2
      <4> QED
        BY <1>9, <3>2, <4>1
    <3> QED
      BY <1>13, <3>1, <3>2
  <2>2. ASSUME NEW j \in Seeded, NEW k \in DOMAIN bars,
               k > Period[j], k <= Through(j)', bars[k].time > known[j]
        PROVE  pending'[j][bars[k].time] # NoValue
    <3>1. j \in Names /\ bars[k].time \in Times
      BY <1>6, SeededFacts, BarsFacts, OfRows
    <3>2. CASE j = i /\ k = fed
      BY <1>4, <1>13, <2>2, <3>2
    <3>3. CASE ~ (j = i /\ k = fed)
      <4>1. k <= Through(j)
        BY <1>6, <1>8, <2>2, <3>3
      <4>2. pending[j][bars[k].time] # NoValue
        BY <1>1, <2>2, <4>1 DEF PendingInv
      <4> QED
        BY <1>10, <1>13, <3>1, <4>2
    <3> QED
      BY <3>2, <3>3
  <2> QED
    BY <1>3, <2>1, <2>2 DEF PendingInv
<1>19. KnownInv'
  BY <1>1, <1>3, <1>10 DEF KnownInv
<1>20. CompleteInv'
  BY <1>1, <1>3, <1>10, <1>12 DEF CompleteInv
<1>21. ValuesAreRight'
  BY <1>1, <1>3, <1>10, <1>11 DEF ValuesAreRight
<1>22. MemoryIsTail' /\ LengthInv'
  BY <1>3 DEF MemoryIsTail, LengthInv
<1> QED
  BY <1>14, <1>15, <1>16, <1>17, <1>18, <1>19, <1>20, <1>21, <1>22 DEF AutoInv

LEMMA ConsumeReady ==
  ASSUME OnUTC, AutoInv, Consume, Head(todo) \in Seeded, pc = "ready"
  PROVE  AutoInv'
<1>1. /\ AutoTypeOK /\ RowsInv /\ WorkInv /\ WindowInv /\ LengthInv /\ PendingInv
      /\ KnownInv /\ CompleteInv /\ ValuesAreRight /\ MemoryIsTail
      /\ todo # << >> /\ todo' = Tail(todo)
  BY DEF AutoInv, Consume
<1>2. PICK i \in Seeded : i = Head(todo)
  OBVIOUS
<1>3. /\ booted /\ Head(candle) \in Candles /\ clock \in Times
      /\ Head(candle) = [time |-> clock, real |-> TRUE]
      /\ candle' = (IF todo' = << >> THEN << >> ELSE candle)
      /\ pc' = "ready"
      /\ UNCHANGED <<pc, runs, clock, bars, fed, booted, known, memory, unsaved>>
  BY ConsumeFacts
<1>4. PICK c \in Candles : c = Head(candle) /\ c = [time |-> clock, real |-> TRUE]
  BY <1>3
<1>5. PICK w : w = LastOf(engine[i].window \o <<c>>, Period[i])
  OBVIOUS
<1>6. /\ i \in Names /\ Period[i] \in Nat \ {0} /\ Len(FetchBars) \in Nat
      /\ clock \in Int /\ engine[i].window \in Seq(Candles)
  BY <1>1, <1>3, SeededFacts, PeriodAssumption, FetchFacts, TimesAreNumbers DEF AutoTypeOK
<1>7. Waits(i) /\ ~ Waits(i)' /\ \A j : j # i => (Waits(j)' <=> Waits(j))
  BY <1>1, <1>2, TurnFacts
<1>8. /\ rows[clock] = "candle" \/ clock \in unsaved
      /\ unsaved = {} => Len(FetchBars) > 1
      /\ clock \in unsaved => rows[clock] # "candle"
  <2>1. rows[clock] = "candle" \/ clock \in unsaved
    BY <1>1, <1>3 DEF WorkInv
  <2>2. unsaved = {} => Len(FetchBars) > 1
    BY <1>1, <1>3 DEF WorkInv
  <2> QED
    BY <1>1, <2>1, <2>2 DEF RowsInv
<1>9. /\ w \in Seq(Candles) /\ w # NoValue
      /\ Len(w) = (IF Len(engine[i].window) + 1 > Period[i] THEN Period[i]
                   ELSE Len(engine[i].window) + 1)
      /\ engine' = [engine EXCEPT ![i] = [part |-> << >>, window |-> w]]
      /\ engine' \in [Names -> [part : Seq(Candles), window : Seq(Candles)]]
      /\ IF Len(w) = Period[i] THEN LiveHook(i, clock, w)
         ELSE UNCHANGED <<rows, values, lost, pending>>
  <2>1. /\ w \in Seq(Candles) /\ w # NoValue
        /\ Len(w) = (IF Len(engine[i].window) + 1 > Period[i] THEN Period[i]
                     ELSE Len(engine[i].window) + 1)
        /\ engine' = [engine EXCEPT ![i] = [part |-> << >>, window |-> w]]
        /\ engine' \in [Names -> [part : Seq(Candles), window : Seq(Candles)]]
        /\ IF Len(w) = Period[i] THEN Hook(i, c.time, w)
           ELSE UNCHANGED <<rows, values, lost, pending>>
    <3>1. c = Head(candle)
      BY <1>4
    <3>2. OnUTC /\ AutoInv /\ Consume
      OBVIOUS
    <3> QED
      BY ONLY <1>2, <1>5, <3>1, <3>2, SeededTurn
  <2>2. c.time = clock
    BY <1>4
  <2> QED
    BY <2>1, <2>2 DEF Hook
<1>10. /\ pending' = pending
       /\ rows' = rows \/ rows' = WithRows({clock})
       /\ values' = values
          \/ (Len(w) = Period[i] /\ rows' = WithRows({clock})
              /\ values' = [values EXCEPT ![i][clock] = w])
       /\ lost' = lost \/ lost' = [lost EXCEPT ![i] = @ \cup {clock}]
       /\ Len(w) = Period[i] =>
            values' = [values EXCEPT ![i][clock] = w]
            \/ lost' = [lost EXCEPT ![i] = @ \cup {clock}]
  BY <1>9 DEF LiveHook
<1>11. /\ rows' \in [Times -> {"none", "candle", "null"}]
       /\ \A u \in Times : /\ rows'[u] = "candle" <=> rows[u] = "candle"
                           /\ rows'[u] # rows[u] => u \in unsaved /\ u = clock
                           /\ rows[u] # "none" => rows'[u] # "none"
       /\ rows' = WithRows({clock}) => rows'[clock] # "none"
  <2>1. rows \in [Times -> {"none", "candle", "null"}]
    BY <1>1 DEF AutoTypeOK
  <2>2. CASE rows' = rows
    <3>1. rows' = WithRows({clock}) => rows'[clock] # "none"
      BY <1>3, <2>1 DEF WithRows
    <3> QED
      BY <2>1, <2>2, <3>1
  <2>3. CASE rows' = WithRows({clock})
    BY <1>3, <1>8, <2>1, <2>3 DEF WithRows
  <2> QED
    BY <1>10, <2>2, <2>3
<1>12. \A t : Stored(t)' = Stored(t)
  BY <1>11, SameCandles
<1>13. unsaved = {} => rows' = rows /\ FetchBars' = FetchBars
  <2>1. unsaved = {} => rows' = rows
    BY <1>1, <1>11 DEF AutoTypeOK
  <2> QED
    BY <2>1, SameRows
<1>14. \A j \in Names, t \in Times :
         /\ values'[j][t] = values[j][t]
            \/ (j = i /\ t = clock /\ Len(w) = Period[i] /\ values'[j][t] = w
                /\ rows'[t] # "none")
         /\ values[j][t] # NoValue => values'[j][t] # NoValue
         /\ Has(j, t) => Has(j, t)'
         /\ Len(w) = Period[i] => Has(i, clock)'
  <2>1. /\ values \in [Names -> [Times -> Seq(Candles) \cup {NoValue}]]
        /\ lost \in [Names -> SUBSET Times]
    BY <1>1 DEF AutoTypeOK
  <2>2. \A j \in Names, t \in Times :
          values'[j][t] = values[j][t]
            \/ (j = i /\ t = clock /\ Len(w) = Period[i] /\ values'[j][t] = w
                /\ rows'[t] # "none")
    BY <1>10, <1>11, <2>1
  <2>3. \A j \in Names : lost[j] \subseteq lost'[j]
    BY <1>10, <2>1
  <2>4. values' = [values EXCEPT ![i][clock] = w] => values'[i][clock] # NoValue
    BY <1>3, <1>6, <1>9, <2>1
  <2>5. lost' = [lost EXCEPT ![i] = @ \cup {clock}] => clock \in lost'[i]
    BY <1>6, <2>1
  <2>6. Len(w) = Period[i] => Has(i, clock)'
    BY <1>3, <1>10, <2>4, <2>5 DEF Has
  <2> QED
    BY <1>9, <2>2, <2>3, <2>6 DEF Has
<1>15. \A j \in Seeded, t \in Times : Owed(j, t)' <=> Owed(j, t)
  BY <1>11, <1>12 DEF Owed
<1>16. AutoTypeOK'
  <2>1. values' \in [Names -> [Times -> Seq(Candles) \cup {NoValue}]]
    <3>1. values \in [Names -> [Times -> Seq(Candles) \cup {NoValue}]]
      BY <1>1 DEF AutoTypeOK
    <3>2. CASE values' = values
      BY <3>1, <3>2
    <3>3. CASE values' = [values EXCEPT ![i][clock] = w]
      <4>1. [values[i] EXCEPT ![clock] = w] \in [Times -> Seq(Candles) \cup {NoValue}]
        BY <1>6, <1>9, <3>1
      <4> QED
        BY <3>1, <3>3, <4>1
    <3> QED
      BY <1>10, <3>2, <3>3
  <2>2. lost' \in [Names -> SUBSET Times]
    <3>1. lost \in [Names -> SUBSET Times]
      BY <1>1 DEF AutoTypeOK
    <3> QED
      BY <1>3, <1>6, <1>10, <3>1
  <2> QED
    BY <1>1, <1>3, <1>9, <1>10, <1>11, <2>1, <2>2, TurnFacts, ConsumeFacts DEF AutoTypeOK
<1>17. RowsInv'
  <2>1. \A t \in Times : rows'[t] # "none" => t <= clock
    BY <1>1, <1>6, <1>11 DEF RowsInv
  <2>2. \A t \in Times : rows'[t] = "null" => t \in unsaved
    BY <1>1, <1>11 DEF RowsInv
  <2>3. \A t \in unsaved : t <= clock /\ rows'[t] # "candle"
    BY <1>1, <1>11 DEF RowsInv, AutoTypeOK
  <2>4. \A j \in Seeded, t \in Times : values'[j][t] # NoValue => rows'[t] # "none"
    BY <1>1, <1>11, <1>14, SeededFacts DEF RowsInv
  <2> QED
    BY <1>3, <2>1, <2>2, <2>3, <2>4 DEF RowsInv
<1>18. WorkInv'
  <2>1. \A m, n \in DOMAIN todo' : todo'[m] = todo'[n] => m = n
    BY <1>1, TurnFacts
  <2>2. candle = <<[time |-> clock, real |-> TRUE]>>
    BY <1>1, <1>3 DEF WorkInv
  <2>3. unsaved' = {} => Len(FetchBars') > (IF todo' = << >> THEN 0 ELSE 1)
    BY <1>3, <1>6, <1>8, <1>13
  <2>4. rows'[clock] = "candle" \/ clock \in unsaved
    BY <1>3, <1>8, <1>11
  <2> QED
    BY <1>3, <2>1, <2>2, <2>3, <2>4 DEF WorkInv
<1>19. unsaved = {} =>
         /\ Through(i) = Len(FetchBars) - 1 /\ Through(i)' = Len(FetchBars)
         /\ \A j : j # i => Through(j)' = Through(j)
  <2>1. Through(i)' = Len(FetchBars') - 0
    BY <1>3, <1>7 DEF Through
  <2>2. Through(i) = Len(FetchBars) - 1
    BY <1>7 DEF Through
  <2>3. unsaved = {} => \A j : j # i => Through(j)' = Through(j)
    BY <1>3, <1>7, <1>13 DEF Through
  <2> QED
    BY <1>6, <1>13, <2>1, <2>2, <2>3
<1>20. ASSUME unsaved = {}
       PROVE  /\ w = WindowOf(FetchBars, Len(FetchBars), Period[i])
              /\ Len(w) = Period[i] => Len(FetchBars) > Period[i]
              /\ FetchBars[Len(FetchBars)].time = clock
  <2>1. PICK s \in Seq(Candles) : s = FetchBars
    BY FetchFacts
  <2>2. PICK n \in 1..Len(s) : n + 1 = Len(s)
    <3>1. Len(s) - 1 \in 1..Len(s) /\ (Len(s) - 1) + 1 = Len(s)
      BY <1>6, <1>8, <1>20, <2>1
    <3> QED
      BY <3>1
  <2>3. n + 1 \in 1..Len(s) /\ n + 1 \in 0..Len(s) /\ Len(s) \in Nat /\ n \in Nat
    BY <1>6, <2>1, <2>2
  <2>4. s[n + 1].time = clock /\ s[n + 1] = c
    <3>1. PICK k \in 1..Len(s) : s[k].time = clock
      <4>1. clock \in SavedIn(rows)
        BY <1>3, <1>8, <1>20 DEF SavedIn
      <4> QED
        BY <2>1, <4>1, BarsFacts, OfRows
    <3>2. \A m \in 1..Len(s) : s[m].time <= clock /\ s[m].time \in Int
      <4>1. \A m \in 1..Len(s) : s[m].time \in SavedIn(rows) /\ s[m].time \in Times
        BY <2>1, BarsFacts, OfRows
      <4> QED
        BY <1>1, <4>1, TimesAreNumbers DEF SavedIn, RowsInv
    <3>3. ~ (k < n + 1)
      <4>1. k < n + 1 => s[k].time < s[n + 1].time
        BY <2>1, <2>3, BarsFacts, OfRows
      <4> QED
        BY <1>6, <2>3, <3>1, <3>2, <4>1
    <3>4. k = n + 1
      BY <2>2, <2>3, <3>3
    <3>5. s[k] = [time |-> s[k].time, real |-> rows[s[k].time] = "candle"]
      BY <2>1, BarsFacts, OfRows
    <3>6. rows[clock] = "candle"
      BY <1>8, <1>20
    <3> QED
      BY <1>4, <3>1, <3>4, <3>5, <3>6
  <2>5. engine[i].window = WindowOf(s, n, Period[i])
    <3>1. engine[i].window = WindowOf(FetchBars, Through(i), Period[i])
      BY <1>1, <1>3, <1>20 DEF WindowInv
    <3>2. Through(i) = n
      BY <1>6, <1>19, <1>20, <2>1, <2>2
    <3> QED
      BY <2>1, <3>1, <3>2
  <2>6. w = WindowOf(s, n + 1, Period[i])
    <3>1. LastOf(WindowOf(s, n, Period[i]) \o <<s[n + 1]>>, Period[i]) = WindowOf(s, n + 1, Period[i])
      BY <1>6, <2>3, WindowNext
    <3> QED
      BY <1>5, <2>4, <2>5, <3>1
  <2>7. Len(w) = Period[i] => n + 1 > Period[i]
    <3>1. Period[i] \in Nat /\ n + 1 \in 0..Len(s)
      BY <1>6, <2>3
    <3>2. \A m \in 0..Len(s) :
            Len(WindowOf(s, m, Period[i])) =
              (IF m > Period[i] THEN Period[i] ELSE IF m > 0 THEN m - 1 ELSE 0)
      BY ONLY <3>1, WindowFacts
    <3> QED
      BY <1>6, <2>3, <2>6, <3>1, <3>2
  <2> QED
    BY <2>1, <2>2, <2>4, <2>6, <2>7
<1>21. WindowInv'
  <2>1. ASSUME NEW j \in Seeded
        PROVE  /\ engine'[j].part = << >>
               /\ unsaved = {} =>
                    engine'[j].window = WindowOf(FetchBars', Through(j)', Period[j])
    <3>1. CASE j = i
      <4>1. engine'[j] = [part |-> << >>, window |-> w]
        BY <1>1, <1>6, <1>9, <3>1 DEF AutoTypeOK
      <4> QED
        BY <1>13, <1>19, <1>20, <3>1, <4>1
    <3>2. CASE j # i
      <4>1. engine'[j] = engine[j]
        BY <1>1, <1>9, <3>2, SeededFacts DEF AutoTypeOK
      <4> QED
        BY <1>1, <1>3, <1>13, <1>19, <3>2, <4>1 DEF WindowInv
    <3> QED
      BY <3>1, <3>2
  <2> QED
    BY <1>3, <2>1 DEF WindowInv
<1>22. Len(w) >= Period[i] \/ Len(w) + 1 >= Len(Stored(clock))
  <2>1. \/ Len(engine[i].window) >= Period[i]
        \/ Len(engine[i].window) + 1 >= Len(Stored(clock - 1))
    BY <1>1, <1>3, <1>7 DEF LengthInv
  <2>2. /\ Len(Stored(clock)) \in Nat /\ Len(Stored(clock - 1)) \in Nat
        /\ Len(Stored(clock)) <= Len(Stored(clock - 1)) + 1
    BY <1>6, StoredCounts, OfRows
  <2>3. Len(engine[i].window) \in Nat
    BY <1>6
  <2>4. /\ Period[i] \in Nat
        /\ Len(w) = (IF Len(engine[i].window) + 1 > Period[i] THEN Period[i]
                     ELSE Len(engine[i].window) + 1)
    BY <1>6, <1>9
  <2> QED
    BY ONLY <2>1, <2>2, <2>3, <2>4
<1>23. LengthInv'
  <2>1. ASSUME NEW j \in Seeded
        PROVE  \/ Len(engine'[j].window) >= Period[j]
               \/ Len(engine'[j].window) + 1 >=
                    Len(Stored(IF Waits(j)' THEN clock - 1 ELSE clock))
    <3>1. CASE j = i
      <4>1. engine'[j] = [part |-> << >>, window |-> w]
        BY <1>1, <1>6, <1>9, <3>1 DEF AutoTypeOK
      <4> QED
        BY <1>7, <1>22, <3>1, <4>1
    <3>2. CASE j # i
      <4>1. engine'[j] = engine[j]
        BY <1>1, <1>9, <3>2, SeededFacts DEF AutoTypeOK
      <4> QED
        BY <1>1, <1>3, <1>7, <3>2, <4>1 DEF LengthInv
    <3> QED
      BY <3>1, <3>2
  <2> QED
    BY <1>3, <1>12, <2>1 DEF LengthInv
<1>24. CompleteInv'
  <2>1. ASSUME NEW j \in Seeded, NEW t \in Times, Owed(j, t)
        PROVE  Has(j, t)' \/ (Waits(j)' /\ t = clock)
    <3>1. Has(j, t) \/ (Waits(j) /\ t = clock)
      BY <1>1, <1>3, <2>1 DEF CompleteInv
    <3>2. CASE Has(j, t)
      BY <1>14, <3>2, SeededFacts
    <3>3. CASE j = i /\ t = clock
      <4>1. Len(Stored(clock)) > Period[i] /\ Len(Stored(clock)) \in Nat
        BY <2>1, <3>3, StoredCounts, OfRows DEF Owed
      <4>2. Len(w) = Period[i]
        BY <1>6, <1>9, <1>22, <4>1
      <4> QED
        BY <1>6, <1>3, <1>14, <3>3, <4>2
    <3>4. CASE j # i /\ Waits(j) /\ t = clock
      BY <1>7, <3>4
    <3> QED
      BY <3>1, <3>2, <3>3, <3>4
  <2>2. ASSUME NEW j \in Seeded, NEW t \in Times, NEW u \in Times,
               Owed(j, t), t <= u, values'[j][u] # NoValue
        PROVE  Has(j, t)'
    <3>1. j \in Names
      BY SeededFacts
    <3>2. CASE values'[j][u] = values[j][u]
      <4>1. Has(j, t)
        BY <1>1, <2>2, <3>2 DEF CompleteInv
      <4> QED
        BY <1>14, <3>1, <4>1
    <3>3. CASE j = i /\ u = clock /\ Len(w) = Period[i]
      <4>1. Has(j, t)' \/ t = clock
        BY <2>1, <2>2
      <4> QED
        BY <1>3, <1>6, <1>14, <3>3, <4>1
    <3> QED
      BY <1>14, <3>1, <3>2, <3>3
  <2> QED
    BY <1>3, <1>15, <2>1, <2>2 DEF CompleteInv
<1>25. ValuesAreRight'
  <2> SUFFICES ASSUME NEW j \in Seeded, NEW t \in Times, values'[j][t] # NoValue,
                      \A u \in unsaved : t < u
               PROVE  /\ rows[t] = "candle" /\ Len(Stored(t)) > Period[j]
                      /\ values'[j][t] = LastOf(Stored(t), Period[j])
    BY <1>3, <1>11, <1>12 DEF ValuesAreRight
  <2>1. CASE values'[j][t] = values[j][t]
    BY <1>1, <2>1 DEF ValuesAreRight
  <2>2. CASE j = i /\ t = clock /\ Len(w) = Period[i] /\ values'[j][t] = w
    <3>1. unsaved = {}
      <4>1. \A u \in unsaved : u <= clock /\ u \in Times
        BY <1>1 DEF RowsInv, AutoTypeOK
      <4> QED
        BY <1>6, <2>2, <4>1, TimesAreNumbers
    <3>2. PICK k \in 1..Len(FetchBars) : k = Len(FetchBars)
      <4>1. Len(FetchBars) \in 1..Len(FetchBars)
        BY <1>6, <1>8, <3>1
      <4> QED
        BY <4>1
    <3>3. /\ k > Period[i] /\ FetchBars[k].time = clock /\ Period[i] \in Nat
          /\ w = WindowOf(FetchBars, k, Period[i])
      BY <1>6, <1>20, <2>2, <3>1, <3>2
    <3>4. \A u \in unsaved : FetchBars[k].time < u
      BY <3>1
    <3>5. /\ rows[FetchBars[k].time] = "candle"
          /\ Len(Stored(FetchBars[k].time)) > Period[i]
          /\ LastOf(Stored(FetchBars[k].time), Period[i]) = WindowOf(FetchBars, k, Period[i])
      BY <1>1, <3>3, <3>4, RightBar
    <3> QED
      BY <2>2, <3>3, <3>5
  <2> QED
    BY <1>14, <2>1, <2>2, SeededFacts
<1>26. MemoryIsTail'
  BY <1>1, <1>3, <1>12 DEF MemoryIsTail
<1>27. PendingInv' /\ KnownInv'
  BY <1>3 DEF PendingInv, KnownInv
<1> QED
  BY <1>16, <1>17, <1>18, <1>21, <1>23, <1>24, <1>25, <1>26, <1>27 DEF AutoInv

LEMMA ConsumeAuto ==
  ASSUME OnUTC, AutoInv, Consume
  PROVE  AutoInv'
<1>1. pc \in {"feed", "ready"}
  BY ConsumeFacts
<1> QED
  BY <1>1, ConsumeOther, ConsumeFeed, ConsumeReady

(* A time more, at the end of the memory.                                  *)
LEMMA TailAppended ==
  ASSUME NEW s \in Seq(Candles), NEW b \in Candles, NEW m \in Seq(Times), NEW n \in Nat,
         m = LastOf(TimesOf(s), Len(m)), Len(m) >= Len(LastOf(s, n))
  PROVE  /\ Append(m, b.time) = LastOf(TimesOf(Append(s, b)), Len(Append(m, b.time)))
         /\ Len(Append(m, b.time)) >= Len(LastOf(Append(s, b), n))
<1> DEFINE x == TimesOf(Append(s, b))
           L == Len(m)
           N == Len(s)
           e == LastOf(x, L + 1)
           d == Append(m, b.time)
<1>1. /\ Append(s, b) \in Seq(Candles) /\ Len(Append(s, b)) = N + 1 /\ N \in Nat /\ L \in Nat
      /\ \A i \in 1..N : Append(s, b)[i] = s[i]
      /\ Append(s, b)[N + 1] = b /\ b.time \in Times
  BY DEF Candles
<1>2. /\ x \in Seq(Times) /\ Len(x) = N + 1
      /\ \A i \in 1..(N + 1) : x[i] = Append(s, b)[i].time
  BY <1>1, TimesOfFacts
<1>3. /\ TimesOf(s) \in Seq(Times) /\ Len(TimesOf(s)) = N
      /\ \A i \in 1..N : TimesOf(s)[i] = s[i].time
  BY TimesOfFacts
<1> HIDE DEF x
<1>4. /\ L = Len(LastOf(TimesOf(s), L)) /\ L <= N
      /\ \A i \in 1..L : m[i] = TimesOf(s)[N - L + i]
  <2>1. PICK u \in Seq(Times) : u = TimesOf(s)
    BY <1>3
  <2>2. PICK v : v = LastOf(u, L)
    OBVIOUS
  <2>3. v = m /\ Len(v) = L
    BY <2>1, <2>2
  <2>4. /\ Len(v) = (IF Len(u) > L THEN L ELSE Len(u))
        /\ \A i \in 1..Len(v) : v[i] = u[Len(u) - Len(v) + i]
    <3>1. L \in Nat /\ u \in Seq(Times)
      BY <1>1
    <3>2. ASSUME NEW k \in Nat, NEW y, y = LastOf(u, k)
          PROVE  /\ Len(y) = (IF Len(u) > k THEN k ELSE Len(u))
                 /\ \A i \in 1..Len(y) : y[i] = u[Len(u) - Len(y) + i]
      BY ONLY <3>1, <3>2, LastOfFacts
    <3> QED
      BY ONLY <2>2, <3>1, <3>2
  <2>5. L <= N
    BY ONLY <1>1, <1>3, <2>1, <2>3, <2>4
  <2>6. \A i \in 1..L : m[i] = TimesOf(s)[N - L + i]
    BY ONLY <1>3, <2>1, <2>3, <2>4
  <2>7. L = Len(LastOf(TimesOf(s), L))
    BY <2>1, <2>2, <2>3
  <2> QED
    BY <2>5, <2>6, <2>7
<1>5. /\ e \in Seq(Times) /\ Len(e) = L + 1
      /\ \A i \in 1..(L + 1) : e[i] = x[N - L + i]
  <2>1. L + 1 \in Nat
    BY <1>1
  <2>2. PICK v : v = e
    OBVIOUS
  <2>3. /\ v \in Seq(Times)
        /\ Len(v) = (IF Len(x) > L + 1 THEN L + 1 ELSE Len(x))
        /\ \A i \in 1..Len(v) : v[i] = x[Len(x) - Len(v) + i]
    BY <1>2, <2>1, <2>2, LastOfFacts
  <2>4. N \in Nat /\ L \in Nat /\ L <= N /\ Len(x) = N + 1
    BY <1>1, <1>2, <1>4
  <2>5. Len(v) = L + 1
    BY ONLY <2>3, <2>4
  <2>6. Len(x) - Len(v) = N - L
    BY ONLY <2>4, <2>5
  <2>7. \A i \in 1..(L + 1) : v[i] = x[N - L + i]
    BY ONLY <2>3, <2>5, <2>6
  <2> QED
    BY <2>2, <2>3, <2>5, <2>7
<1>6. /\ d \in Seq(Times) /\ Len(d) = L + 1 /\ d[L + 1] = b.time
      /\ \A i \in 1..L : d[i] = m[i]
  BY <1>1
<1>7. ASSUME NEW i \in 1..(L + 1)
      PROVE  d[i] = e[i]
  <2>1. e[i] = x[N - L + i] /\ N - L + i \in 1..(N + 1)
    BY <1>1, <1>4, <1>5
  <2>2. CASE i = L + 1
    <3>1. N - L + i = N + 1
      BY <1>1, <2>2
    <3> QED
      BY <1>1, <1>2, <1>6, <2>1, <2>2, <3>1
  <2>3. CASE i # L + 1
    <3>1. i \in 1..L /\ N - L + i \in 1..N
      BY <1>1, <1>4, <2>3
    <3>2. x[N - L + i] = s[N - L + i].time
      BY <1>1, <1>2, <2>1, <3>1
    <3> QED
      BY <1>3, <1>4, <1>6, <2>1, <3>1, <3>2
  <2> QED
    BY <2>2, <2>3
<1>8. d = e
  BY <1>5, <1>6, <1>7, SeqEqual
<1>9. Len(d) >= Len(LastOf(Append(s, b), n))
  <2>1. Len(LastOf(Append(s, b), n)) = (IF N + 1 > n THEN n ELSE N + 1)
    BY <1>1, LastOfFacts
  <2>2. Len(LastOf(s, n)) = (IF N > n THEN n ELSE N)
    BY LastOfFacts
  <2> QED
    BY <1>1, <1>6, <2>1, <2>2
<1> QED
  BY <1>6, <1>8, <1>9 DEF x

LEMMA PushAuto ==
  ASSUME OnUTC, AutoInv, Push
  PROVE  AutoInv'
<1>1. /\ AutoTypeOK /\ RowsInv /\ WorkInv /\ WindowInv /\ LengthInv /\ PendingInv
      /\ KnownInv /\ CompleteInv /\ ValuesAreRight /\ MemoryIsTail
      /\ pc = "ready" /\ pc' = "ready" /\ todo = << >> /\ clock < MaxTime
      /\ clock' = clock + 1 /\ memory' = Append(memory, clock + 1)
      /\ UNCHANGED <<values, pc, runs, bars, fed, engine, known, pending, lost>>
      /\ booted' = TRUE
  BY DEF AutoInv, Push, Provide
<1>2. PICK m \in Times : m = clock + 1
  <2>1. clock \in 0..MaxTime
    BY <1>1 DEF AutoTypeOK
  <2> QED
    BY <1>1, <2>1, TimesAreNumbers
<1>3. /\ m \in Int /\ clock \in Int /\ clock = m - 1 /\ clock' = m /\ m <= MaxTime
      /\ clock \in Nat /\ Times \in SUBSET Int /\ MaxTime \in Nat
  BY <1>1, <1>2, TimesAreNumbers DEF AutoTypeOK
<1>4. PICK b \in Candles : b = [time |-> m, real |-> TRUE]
  BY DEF Candles
<1>5. /\ IF booted THEN candle' = <<b>> /\ todo' = Inds ELSE UNCHANGED <<candle, todo>>
      /\ \/ rows' = [rows EXCEPT ![m] = "candle"] /\ unsaved' = unsaved
         \/ rows' = rows /\ unsaved' = unsaved \cup {m}
  BY <1>2, <1>4 DEF Push, Provide
<1>6. /\ rows[m] = "none" /\ m \notin unsaved
      /\ \A u \in Times : u <= clock => u # m
      /\ \A t \in SavedIn(rows) : t < m /\ t \in Times /\ t <= clock
  <2>1. rows[m] = "none"
    BY <1>1, <1>3 DEF RowsInv
  <2>2. m \notin unsaved
    BY <1>1, <1>3 DEF RowsInv
  <2>3. \A t \in SavedIn(rows) : t <= clock /\ t \in Times /\ t \in Int
    BY <1>1, <1>3 DEF RowsInv, SavedIn
  <2> QED
    BY <1>3, <2>1, <2>2, <2>3
<1>7. /\ rows' \in [Times -> {"none", "candle", "null"}]
      /\ \A u \in Times : u # m => rows'[u] = rows[u]
      /\ rows'[m] = "candle" \/ (rows'[m] = "none" /\ m \in unsaved')
      /\ m \in unsaved' => rows'[m] = "none"
      /\ unsaved \subseteq unsaved' /\ unsaved' \subseteq unsaved \cup {m}
  BY <1>1, <1>5, <1>6 DEF AutoTypeOK
<1>8. \A t \in Times : t <= clock => Stored(t)' = StoredIn(rows', t) /\ Stored(t) = StoredIn(rows, t)
                                     /\ StoredIn(rows', t) = StoredIn(rows, t)
  <2>1. ASSUME NEW t \in Times, t <= clock
        PROVE  StoredIn(rows', t) = StoredIn(rows, t)
    <3>1. \A u \in Times : u <= t => (rows'[u] = "candle" <=> rows[u] = "candle")
      BY <1>3, <1>7, <2>1
    <3> QED
      BY <3>1, StoredSame
  <2> QED
    BY <2>1, OfRows
<1>9. StoredIn(rows', m - 1) = StoredIn(rows, clock)
  <2>1. \A u \in Times : u <= clock => (rows'[u] = "candle" <=> rows[u] = "candle")
    BY <1>6, <1>7
  <2>2. StoredIn(rows', clock) = StoredIn(rows, clock)
    BY <2>1, StoredSame
  <2> QED
    BY <1>3, <2>2
<1>10. /\ FetchBars \in Seq(Candles) /\ Len(FetchBars) \in Nat
       /\ unsaved' = {} =>
            /\ unsaved = {} /\ rows' = [rows EXCEPT ![m] = "candle"]
            /\ FetchBars' = Append(FetchBars, b) /\ Len(FetchBars') = Len(FetchBars) + 1
  <2>1. FetchBars \in Seq(Candles) /\ Len(FetchBars) \in Nat
    BY FetchFacts
  <2>2. ASSUME unsaved' = {}
        PROVE  /\ unsaved = {} /\ rows' = [rows EXCEPT ![m] = "candle"]
               /\ FetchBars' = Append(FetchBars, b)
    <3>1. unsaved = {} /\ rows' = [rows EXCEPT ![m] = "candle"]
      BY <1>5, <2>2
    <3>2. rows \in [Times -> RowStates]
      BY <1>1 DEF AutoTypeOK, RowStates
    <3>3. BarsIn([rows EXCEPT ![m] = "candle"]) = Append(BarsIn(rows), [time |-> m, real |-> TRUE])
      BY <1>6, <3>2, BarsPlus
    <3> QED
      BY <1>4, <3>1, <3>3, OfRows
  <2> QED
    BY <2>1, <2>2
<1>11. /\ \A i : ~ Waits(i)
       /\ booted => \A i \in Names : Waits(i)'
       /\ ~ booted => /\ todo' = << >> /\ \A i : ~ Waits(i)'
                      /\ Seeded # {} => FetchBars = << >>
  <2>1. booted => \A i \in Names : Waits(i)'
    BY <1>5, IndsFacts DEF Waits
  <2>2. ~ booted => todo' = << >>
    BY <1>1, <1>5
  <2> QED
    BY <1>1, <2>1, <2>2 DEF Waits, WorkInv
<1>12. AutoTypeOK'
  <2>1. candle' \in Seq(Candles) /\ todo' \in Seq(Names)
    <3>1. candle \in Seq(Candles) /\ todo \in Seq(Names)
      BY <1>1 DEF AutoTypeOK
    <3>2. CASE booted
      <4>1. candle' = <<b>> /\ todo' = Inds
        BY <1>5, <3>2
      <4> QED
        BY <4>1, IndsFacts
    <3>3. CASE ~ booted
      BY <1>5, <3>1, <3>3
    <3> QED
      BY <3>2, <3>3
  <2>2. memory' \in Seq(Times)
    BY <1>1, <1>2 DEF AutoTypeOK
  <2>3. clock' \in 0..MaxTime /\ unsaved' \subseteq Times
    BY <1>1, <1>3, <1>7 DEF AutoTypeOK
  <2> QED
    BY <1>1, <1>7, <2>1, <2>2, <2>3 DEF AutoTypeOK
<1>13. RowsInv'
  <2>1. \A t \in Times : rows'[t] # "none" => t <= clock'
    BY <1>1, <1>3, <1>7 DEF RowsInv
  <2>2. \A t \in Times : rows'[t] = "null" => t \in unsaved'
    BY <1>1, <1>7 DEF RowsInv
  <2>3. \A t \in unsaved' : t <= clock' /\ rows'[t] # "candle"
    <3>1. \A t \in unsaved : t <= clock /\ rows[t] # "candle" /\ t \in Times /\ t \in Int /\ t # m
      BY <1>1, <1>3, <1>6 DEF RowsInv, AutoTypeOK
    <3> QED
      BY <1>3, <1>7, <3>1
  <2>4. \A i \in Seeded, t \in Times : values'[i][t] # NoValue => rows'[t] # "none"
    BY <1>1, <1>6, <1>7 DEF RowsInv
  <2> QED
    BY <2>1, <2>2, <2>3, <2>4 DEF RowsInv
<1>14. WorkInv'
  <2>1. \A j, n \in DOMAIN todo' : todo'[j] = todo'[n] => j = n
    BY <1>1, <1>5, IndsFacts DEF WorkInv
  <2>2. todo' # << >> => candle' = <<[time |-> clock', real |-> TRUE]>> /\ booted
    BY <1>3, <1>4, <1>5, <1>11
  <2>3. clock' \in Times /\ (rows'[clock'] = "candle" \/ clock' \in unsaved')
    BY <1>3, <1>7
  <2>4. unsaved' = {} => Len(FetchBars') > (IF todo' = << >> THEN 0 ELSE 1)
    <3>1. booted /\ unsaved = {} => Len(FetchBars) > 0
      BY <1>1 DEF WorkInv
    <3> QED
      BY <1>10, <2>2, <3>1
  <2> QED
    BY <1>1, <2>1, <2>2, <2>3, <2>4 DEF WorkInv
<1>15. WindowInv'
  <2>1. ASSUME NEW i \in Seeded, unsaved' = {}
        PROVE  engine[i].window = WindowOf(FetchBars', Through(i)', Period[i])
    <3>1. i \in Names /\ Period[i] \in Nat
      BY SeededFacts, PeriodAssumption
    <3>2. Through(i) = Len(FetchBars) - 0
      BY <1>1, <1>11 DEF Through
    <3>3. engine[i].window = WindowOf(FetchBars, Len(FetchBars), Period[i])
      BY <1>1, <1>10, <2>1, <3>2 DEF WindowInv
    <3>4. CASE booted
      <4>1. Through(i)' = Len(FetchBars') - 1
        BY <1>1, <1>11, <3>1, <3>4 DEF Through
      <4>2. Through(i)' = Len(FetchBars) /\ Len(FetchBars) \in 0..Len(FetchBars)
        BY <1>10, <2>1, <4>1
      <4>3. WindowOf(Append(FetchBars, b), Len(FetchBars), Period[i])
              = WindowOf(FetchBars, Len(FetchBars), Period[i])
        BY <1>10, <3>1, <4>2, WindowAppended
      <4> QED
        BY <1>10, <2>1, <3>3, <4>2, <4>3
    <3>5. CASE ~ booted
      <4>1. Through(i)' = Len(FetchBars') - 0
        BY <1>1, <1>11, <3>5 DEF Through
      <4>2. FetchBars = << >> /\ Len(FetchBars) = 0
        BY <1>11, <3>5
      <4>3. /\ FetchBars' \in Seq(Candles) /\ Len(FetchBars') = 1
            /\ 1 \in 0..Len(FetchBars') /\ 0 \in 0..Len(FetchBars)
        <5>1. FetchBars' \in Seq(Candles) /\ Len(FetchBars') = Len(FetchBars) + 1
          BY <1>10, <2>1
        <5>2. Len(FetchBars) = 0
          BY <4>2
        <5> QED
          BY <5>1, <5>2
      <4>4. WindowOf(FetchBars', 1, Period[i]) = << >> /\ WindowOf(FetchBars, 0, Period[i]) = << >>
        <5>1. \A s \in Seq(Candles) : \A n \in 0..Len(s) : n <= 1 => WindowOf(s, n, Period[i]) = << >>
          BY <3>1, EmptyWindow
        <5>2. 0 <= 1 /\ 1 <= 1
          OBVIOUS
        <5> QED
          BY <1>10, <4>3, <5>1, <5>2, Zenon
      <4>5. Through(i)' = 1
        BY <4>1, <4>3
      <4> QED
        BY <3>3, <4>2, <4>4, <4>5
    <3> QED
      BY <3>4, <3>5
  <2> QED
    BY <1>1, <2>1 DEF WindowInv
<1>16. LengthInv'
  <2>1. ASSUME NEW i \in Seeded
        PROVE  \/ Len(engine[i].window) >= Period[i]
               \/ Len(engine[i].window) + 1 >=
                    Len(StoredIn(rows', IF Waits(i)' THEN m - 1 ELSE m))
    <3>1. \/ Len(engine[i].window) >= Period[i]
          \/ Len(engine[i].window) + 1 >= Len(StoredIn(rows, clock))
      BY <1>1, <1>11, OfRows DEF LengthInv
    <3>2. CASE booted
      BY <1>9, <1>11, <3>1, <3>2, SeededFacts
    <3>3. CASE ~ booted
      <4>1. BarsIn(rows) = << >> /\ Len(BarsIn(rows)) = 0
        BY <1>11, <3>3, OfRows
      <4>2. /\ Len(StoredIn(rows, clock)) \in Nat /\ Len(StoredIn(rows, clock)) <= 0
            /\ Len(StoredIn(rows', m)) \in Nat
            /\ Len(StoredIn(rows', m)) <= Len(StoredIn(rows', m - 1)) + 1
        BY <1>3, <4>1, StoredCounts
      <4>3. Len(engine[i].window) \in Nat
        BY <1>1, SeededFacts DEF AutoTypeOK
      <4> QED
        BY <1>9, <1>11, <3>3, <4>2, <4>3
    <3> QED
      BY <3>2, <3>3
  <2>2. clock' = m /\ clock' - 1 = m - 1 /\ engine' = engine
    BY <1>1, <1>3
  <2> QED
    BY <2>1, <2>2, OfRows DEF LengthInv
<1>17. /\ \A i, t : Has(i, t)' = Has(i, t)
       /\ \A i \in Seeded, t \in Times : t <= clock => (Owed(i, t)' <=> Owed(i, t))
       /\ \A i \in Seeded, t \in Times : Owed(i, t)' => t <= m
       /\ \A i \in Seeded : Owed(i, m)' => Waits(i)'
  <2>1. \A i, t : Has(i, t)' = Has(i, t)
    BY <1>1 DEF Has
  <2>2. \A i \in Seeded, t \in Times : t <= clock => (Owed(i, t)' <=> Owed(i, t))
    BY <1>6, <1>7, <1>8 DEF Owed
  <2>3. \A i \in Seeded, t \in Times : Owed(i, t)' => t <= m
    BY <1>3, <1>13 DEF RowsInv, Owed
  <2>4. ASSUME NEW i \in Seeded, ~ booted
        PROVE  ~ Owed(i, m)'
    <3>1. BarsIn(rows) = << >> /\ Len(BarsIn(rows)) = 0
      BY <1>11, <2>4, OfRows
    <3>2. /\ Len(StoredIn(rows, clock)) \in Nat /\ Len(StoredIn(rows, clock)) <= 0
          /\ Len(StoredIn(rows', m)) \in Nat
          /\ Len(StoredIn(rows', m)) <= Len(StoredIn(rows', m - 1)) + 1
      BY <1>3, <3>1, StoredCounts
    <3>3. Period[i] \in Nat \ {0}
      BY SeededFacts, PeriodAssumption
    <3> QED
      BY <1>9, <3>2, <3>3, OfRows DEF Owed
  <2>5. \A i \in Seeded : booted => Waits(i)'
    BY <1>11, SeededFacts
  <2> QED
    BY <2>1, <2>2, <2>3, <2>4, <2>5
<1>18. CompleteInv'
  <2>1. ASSUME NEW i \in Seeded, NEW t \in Times, Owed(i, t)', t # m
        PROVE  t <= clock /\ Owed(i, t) /\ Has(i, t)
    <3>1. t <= clock
      BY <1>3, <1>17, <2>1
    <3> QED
      BY <1>1, <1>11, <1>17, <2>1, <3>1 DEF CompleteInv
  <2>2. ASSUME NEW i \in Seeded, NEW t \in Times, NEW u \in Times,
               Owed(i, t)', t <= u, values'[i][u] # NoValue
        PROVE  Has(i, t)'
    <3>1. u <= clock
      <4>1. rows[u] # "none"
        BY <1>1, <2>2 DEF RowsInv
      <4> QED
        BY <1>1, <4>1 DEF RowsInv
    <3>2. t # m
      BY <1>3, <2>2, <3>1
    <3> QED
      BY <1>17, <2>1, <2>2, <3>2
  <2>3. ASSUME NEW i \in Seeded, NEW t \in Times, Owed(i, t)'
        PROVE  Has(i, t)' \/ (Waits(i)' /\ t = clock')
    BY <1>3, <1>17, <2>1, <2>3
  <2> QED
    BY <2>2, <2>3 DEF CompleteInv
<1>19. ValuesAreRight'
  <2> SUFFICES ASSUME NEW i \in Seeded, NEW t \in Times, values[i][t] # NoValue,
                      \A u \in unsaved' : t < u
               PROVE  /\ rows'[t] = "candle" /\ Len(Stored(t)') > Period[i]
                      /\ values[i][t] = LastOf(Stored(t)', Period[i])
    BY <1>1 DEF ValuesAreRight
  <2>1. t <= clock /\ t # m
    BY <1>1, <1>3, <1>6 DEF RowsInv
  <2>2. /\ rows[t] = "candle" /\ Len(Stored(t)) > Period[i]
        /\ values[i][t] = LastOf(Stored(t), Period[i])
    BY <1>1, <1>7 DEF ValuesAreRight
  <2> QED
    BY <1>7, <1>8, <2>1, <2>2
<1>20. MemoryIsTail'
  <2> SUFFICES ASSUME unsaved' = {}
               PROVE  /\ memory' = LastOf(TimesOf(Stored(MaxTime)'), Len(memory'))
                      /\ Len(memory') >= Len(LastOf(Stored(MaxTime)', Snapshot))
    BY DEF MemoryIsTail
  <2>1. Stored(MaxTime) = FetchBars /\ \A u \in SavedIn(rows) : rows[u] = "candle" /\ u <= clock
    BY <1>1, <1>10, AllCandles
  <2>2. Stored(MaxTime)' = Append(FetchBars, b)
    <3>1. \A u \in SavedIn(rows') : u <= MaxTime /\ rows'[u] = "candle"
      <4>1. ASSUME NEW u \in Times, rows'[u] # "none"
            PROVE  u <= MaxTime /\ rows'[u] = "candle"
        <5>1. CASE u = m
          BY <1>3, <1>7, <4>1, <5>1
        <5>2. CASE u # m
          <6>1. u \in SavedIn(rows)
            BY <1>7, <4>1, <5>2 DEF SavedIn
          <6> QED
            BY <1>7, <2>1, <5>2, <6>1, TimesAreNumbers
        <5> QED
          BY <5>1, <5>2
      <4> QED
        BY <4>1 DEF SavedIn
    <3>2. StoredIn(rows', MaxTime) = BarsIn(rows')
      BY <3>1, StoredAll
    <3> QED
      BY <1>10, <3>2, OfRows
  <2>3. /\ memory = LastOf(TimesOf(FetchBars), Len(memory))
        /\ Len(memory) >= Len(LastOf(FetchBars, Snapshot))
    BY <1>1, <1>10, <2>1 DEF MemoryIsTail
  <2>4. memory' = Append(memory, b.time) /\ memory \in Seq(Times) /\ Snapshot \in Nat
    BY <1>1, <1>2, <1>4, SizesAssumption DEF AutoTypeOK
  <2>5. /\ Append(memory, b.time)
             = LastOf(TimesOf(Append(FetchBars, b)), Len(Append(memory, b.time)))
        /\ Len(Append(memory, b.time)) >= Len(LastOf(Append(FetchBars, b), Snapshot))
    BY <1>10, <2>3, <2>4, TailAppended
  <2> QED
    BY <2>2, <2>4, <2>5
<1>21. PendingInv' /\ KnownInv'
  BY <1>1 DEF PendingInv, KnownInv
<1> QED
  BY <1>12, <1>13, <1>14, <1>15, <1>16, <1>18, <1>19, <1>20, <1>21 DEF AutoInv

-----------------------------------------------------------------------------
LEMMA AutoStep ==
  ASSUME OnUTC, AutoInv, [AutoNext]_autoVars
  PROVE  AutoInv'
<1>1. CASE AutoNext
  BY <1>1, StartAuto, CrashAuto, MissedAuto, SeedFetchAuto, SeedFeedAuto, ConsumeAuto,
     SeedSaveAuto, SeedEndAuto, PushAuto DEF AutoNext
<1>2. CASE UNCHANGED autoVars
  <2>1. /\ UNCHANGED <<rows, values, pc, runs, clock, bars, fed, candle, todo>>
        /\ UNCHANGED <<engine, booted, known, pending, memory, lost, unsaved>>
    BY <1>2 DEF autoVars
  <2>2. clock \in Int
    BY DEF AutoInv, AutoTypeOK
  <2>3. /\ RowsInv' /\ ValuesAreRight' /\ FetchBars' = FetchBars
        /\ \A i, t : Owed(i, t)' = Owed(i, t) /\ Has(i, t)' = Has(i, t)
        /\ \A t : Stored(t)' = Stored(t)
    BY <2>1, <2>2, StoredKept
  <2>4. \A i : (Waits(i)' <=> Waits(i)) /\ Through(i)' = Through(i)
    BY <2>1, <2>3 DEF Waits, Through
  <2>5. AutoTypeOK'
    BY <2>1 DEF AutoInv, AutoTypeOK
  <2>6. WorkInv'
    BY <2>1, <2>3 DEF AutoInv, WorkInv
  <2>7. WindowInv' /\ LengthInv'
    BY <2>1, <2>3, <2>4 DEF AutoInv, WindowInv, LengthInv
  <2>8. PendingInv' /\ KnownInv'
    BY <2>1, <2>3, <2>4 DEF AutoInv, PendingInv, KnownInv
  <2>9. CompleteInv' /\ MemoryIsTail'
    BY <2>1, <2>3, <2>4 DEF AutoInv, CompleteInv, MemoryIsTail
  <2> QED
    BY <2>3, <2>5, <2>6, <2>7, <2>8, <2>9 DEF AutoInv
<1> QED
  BY <1>1, <1>2

(* The invariant, on a machine whose local time is UTC.                    *)
THEOREM SpecAutoInv == OnUTC /\ AutoSpec => [](OnUTC /\ AutoInv)
<1>1. OnUTC /\ AutoInit => OnUTC /\ AutoInv
  BY AutoInitInv
<1>2. OnUTC /\ AutoInv /\ [AutoNext]_autoVars => (OnUTC /\ AutoInv)'
  <2>1. OnUTC => OnUTC'
    BY DEF OnUTC
  <2> QED
    BY <2>1, AutoStep
<1> QED
  BY <1>1, <1>2, PTL DEF AutoSpec

(* Every variable has its type; a value is a window of candles.            *)
THEOREM SpecAutoTypeOK == OnUTC /\ AutoSpec => []AutoTypeOK
<1>1. AutoInv => AutoTypeOK
  BY DEF AutoInv
<1> QED
  BY <1>1, SpecAutoInv, PTL

(* However often the program goes down, wherever, and whichever writes     *)
(* fail: before the first bar that could not be saved, a stored value is   *)
(* that of the stored candles which end at its time.                       *)
THEOREM SpecValuesAreRight == OnUTC /\ AutoSpec => []ValuesAreRight
<1>1. AutoInv => ValuesAreRight
  BY DEF AutoInv
<1> QED
  BY <1>1, SpecAutoInv, PTL

(* A program that is ready has the values of all its candles, but for those *)
(* whose writing failed.                                                    *)
THEOREM SpecSeedIsComplete == OnUTC /\ AutoSpec => []SeedIsComplete
<1>1. AutoInv => SeedIsComplete
  <2> SUFFICES ASSUME AutoInv, pc = "ready", todo = << >>,
                      NEW i \in Seeded, NEW t \in Times,
                      rows[t] = "candle", Len(Stored(t)) > Period[i]
               PROVE  values[i][t] # NoValue \/ t \in lost[i]
    BY DEF SeedIsComplete
  <2>1. ~ Waits(i)
    BY DEF Waits
  <2> QED
    BY <2>1 DEF AutoInv, CompleteInv, Owed, Has
<1> QED
  BY <1>1, SpecAutoInv, PTL

(* The memory that a client is shown from is the end of what is stored,    *)
(* and not a bar less than a snapshot has.                                 *)
THEOREM SpecMemoryIsTail == OnUTC /\ AutoSpec => []MemoryIsTail
<1>1. AutoInv => MemoryIsTail
  BY DEF AutoInv
<1> QED
  BY <1>1, SpecAutoInv, PTL
=============================================================================
