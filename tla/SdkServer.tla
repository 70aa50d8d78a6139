----------------------------- MODULE SdkServer -----------------------------
(***************************************************************************)
(* The stand-alone SDK (src/trex-sdk/src/trex): a SyncServer owns a thread *)
(* with the event loop of a TrexServer (server.py), calls the user's       *)
(* callbacks in threads of their own and lets the user's program feed the  *)
(* terminals with blocking calls (sync.py).  A blocking call is a send     *)
(* queued on the loop and a wait for its result.                           *)
(*                                                                         *)
(* The program is examples/simple_sync.py, which the README shows too:     *)
(* on_connect sends the candles it began with as the terminal's snapshot,  *)
(* and defines a series; each new bar is broadcast, and not kept.  It may  *)
(* start and stop the server whenever it is not broadcasting.              *)
(***************************************************************************)
EXTENDS Naturals, FiniteSets, Sequences, SequencesExt

CONSTANTS Terminals, \* terminals, each connects once
          Main,      \* the program's thread
          MaxBars    \* bars the program makes, a bound

ASSUME MaxBarsAssumption == MaxBars \in Nat
ASSUME MainAssumption == Main \notin Terminals

(* Whoever makes blocking calls: the program, and the on_connect callback  *)
(* of each terminal.                                                       *)
Callers == {Main} \cup Terminals

VARIABLES loop,    \* the server's thread: off, made, serving, closing, over, closed
          event,   \* the stop event: "none", "clear", "set"
          link,    \* each terminal's connection: "none", "open", "closed"
          phase,   \* the handler of each connection
          clients, \* SyncServer._clients
          queue,   \* the sends waiting on the loop, [from, to]
          call,    \* each caller's call: "none", "waiting", "done", "raised"
          newest,  \* the bars the program has made; its candles have none of them
          cast,    \* the program: "idle", "made" a bar, "casting" it
          left,    \* the clients the broadcast has left
          chart,   \* the bars each terminal shows, beside the program's candles
          loaded,  \* history: the terminals that got their snapshot
          since,   \* history: the newest bar when they did
          skipped, \* history: the terminals a broadcast did not get to
          heard    \* history: stop() found a server to stop

vars == <<loop, event, link, phase, clients, queue, call, newest, cast, left,
          chart, loaded, since, skipped, heard>>

connVars == <<link, phase, clients>>
mainVars == <<newest, cast, left, skipped>>
loopVars == <<loop, event, heard>>
chartVars == <<chart, loaded, since>>

Listed == {clients[i] : i \in 1..Len(clients)}

Init ==
  /\ loop = "off" /\ event = "none" /\ heard = FALSE
  /\ link = [t \in Terminals |-> "none"]
  /\ phase = [t \in Terminals |-> "none"]
  /\ clients = << >> /\ queue = << >> /\ left = << >>
  /\ call = [p \in Callers |-> "none"]
  /\ newest = 0 /\ cast = "idle"
  /\ chart = [t \in Terminals |-> {}]
  /\ loaded = {} /\ skipped = {}
  /\ since = [t \in Terminals |-> 0]

-----------------------------------------------------------------------------
(* The server's thread.                                                    *)

(* start() returns as soon as the loop exists. *)
Start ==
  /\ loop = "off" /\ cast = "idle"
  /\ loop' = "made"
  /\ UNCHANGED <<event, heard, connVars, queue, call, mainVars, chartVars>>

(* serve_forever() makes its stop event and binds the port, or fails to. *)
Serve ==
  /\ loop = "made"
  /\ event' = "clear"
  /\ loop' \in {"serving", "closed"}
  /\ UNCHANGED <<heard, connVars, queue, call, mainVars, chartVars>>

(* stop(): without an event there is nothing to set. *)
Stop ==
  /\ loop \notin {"off", "closed"} /\ cast = "idle"
  /\ event' = IF event = "none" THEN "none" ELSE "set"
  /\ heard' = (heard \/ event # "none")
  /\ UNCHANGED <<loop, connVars, queue, call, mainVars, chartVars>>

(* The event is set: leaving the context closes every connection... *)
Close ==
  /\ loop = "serving" /\ event = "set"
  /\ loop' = "closing"
  /\ link' = [t \in Terminals |-> IF link[t] = "open" THEN "closed" ELSE link[t]]
  /\ UNCHANGED <<event, heard, phase, clients, queue, call, mainVars, chartVars>>

(* ... and waits for their handlers; then the loop runs no more. *)
Over ==
  /\ loop = "closing"
  /\ \A t \in Terminals : phase[t] \in {"none", "gone", "failed"}
  /\ loop' = "over"
  /\ UNCHANGED <<event, heard, connVars, queue, call, mainVars, chartVars>>

CloseLoop ==
  /\ loop = "over"
  /\ loop' = "closed"
  /\ UNCHANGED <<event, heard, connVars, queue, call, mainVars, chartVars>>

-----------------------------------------------------------------------------
(* Blocking calls.                                                         *)

(* run_coroutine_threadsafe raises at once on a closed loop, and leaves    *)
(* the coroutine on any other.                                             *)
Submit(p, t) ==
  IF loop = "closed"
  THEN /\ call' = [call EXCEPT ![p] = "raised"]
       /\ UNCHANGED queue
  ELSE /\ call' = [call EXCEPT ![p] = "waiting"]
       /\ queue' = Append(queue, [from |-> p, to |-> t])

(* What a send changes: a bar joins the chart, the snapshot takes its      *)
(* place, and the definition of a series leaves it alone.                  *)
Deliver(s) ==
  \/ /\ s.from = Main
     /\ chart' = [chart EXCEPT ![s.to] = @ \cup {newest}]
     /\ UNCHANGED <<loaded, since>>
  \/ /\ s.from # Main /\ phase[s.from] = "connect"
     /\ chart' = [chart EXCEPT ![s.to] = {}]
     /\ loaded' = loaded \cup {s.to}
     /\ since' = [since EXCEPT ![s.to] = newest]
  \/ s.from # Main /\ phase[s.from] = "define" /\ UNCHANGED chartVars

(* The loop runs the first send; a closed connection raises. *)
Send ==
  /\ loop \in {"serving", "closing"} /\ queue # << >>
  /\ queue' = Tail(queue)
  /\ LET s == Head(queue) IN
       IF link[s.to] = "open"
       THEN /\ Deliver(s)
            /\ call' = [call EXCEPT ![s.from] = "done"]
       ELSE /\ call' = [call EXCEPT ![s.from] = "raised"]
            /\ UNCHANGED chartVars
  /\ UNCHANGED <<loopVars, link, phase, clients, mainVars>>

-----------------------------------------------------------------------------
(* A connection's handler.                                                 *)

(* _connect: the client joins the list before its callback starts. *)
Connect(t) ==
  /\ loop = "serving" /\ phase[t] = "none"
  /\ link' = [link EXCEPT ![t] = "open"]
  /\ phase' = [phase EXCEPT ![t] = "connect"]
  /\ clients' = Append(clients, t)
  /\ UNCHANGED <<loopVars, queue, call, mainVars, chartVars>>

(* The callback, in its thread, sends the snapshot ... *)
CallbackSends(t) ==
  /\ phase[t] = "connect" /\ call[t] = "none"
  /\ Submit(t, t)
  /\ UNCHANGED <<loopVars, connVars, mainVars, chartVars>>

(* ... then defines its series ...                                         *)
CallbackDefines(t) ==
  /\ phase[t] = "connect" /\ call[t] = "done"
  /\ phase' = [phase EXCEPT ![t] = "define"]
  /\ Submit(t, t)
  /\ UNCHANGED <<loopVars, link, clients, mainVars, chartVars>>

(* ... and returns. *)
CallbackReturns(t) ==
  /\ phase[t] = "define" /\ call[t] = "done"
  /\ phase' = [phase EXCEPT ![t] = "serving"]
  /\ UNCHANGED <<loopVars, link, clients, queue, call, mainVars, chartVars>>

(* on_connect is awaited outside the handler's try: its exception ends the *)
(* handler, which forgets nothing, and the connection.                     *)
CallbackRaises(t) ==
  /\ phase[t] \in {"connect", "define"} /\ call[t] = "raised"
  /\ phase' = [phase EXCEPT ![t] = "failed"]
  /\ link' = [link EXCEPT ![t] = "closed"]
  /\ UNCHANGED <<loopVars, clients, queue, call, mainVars, chartVars>>

TerminalGoes(t) ==
  /\ link[t] = "open"
  /\ link' = [link EXCEPT ![t] = "closed"]
  /\ UNCHANGED <<loopVars, phase, clients, queue, call, mainVars, chartVars>>

(* A handler without its finally. *)
DisconnectOnly(t) ==
  /\ loop \in {"serving", "closing"}
  /\ phase[t] = "serving" /\ link[t] = "closed"
  /\ phase' = [phase EXCEPT ![t] = "gone"]
  /\ UNCHANGED <<loopVars, link, clients, queue, call, mainVars, chartVars>>

(* _disconnect: out of the list, then the user's callback. *)
Disconnect(t) ==
  /\ loop \in {"serving", "closing"}
  /\ phase[t] = "serving" /\ link[t] = "closed"
  /\ phase' = [phase EXCEPT ![t] = "bye"]
  /\ clients' = RemoveFirst(clients, t)
  /\ UNCHANGED <<loopVars, link, queue, call, mainVars, chartVars>>

GoodbyeReturns(t) ==
  /\ phase[t] = "bye"
  /\ phase' = [phase EXCEPT ![t] = "gone"]
  /\ UNCHANGED <<loopVars, link, clients, queue, call, mainVars, chartVars>>

-----------------------------------------------------------------------------
(* The program.                                                            *)

MakeBar ==
  /\ cast = "idle" /\ newest < MaxBars
  /\ newest' = newest + 1
  /\ cast' = "made"
  /\ UNCHANGED <<loopVars, connVars, queue, call, left, skipped, chartVars>>

(* broadcast_bar to the clients whose on_connect has returned only. *)
BroadcastToReady ==
  /\ cast = "made"
  /\ cast' = "casting"
  /\ left' = SelectSeq(clients, LAMBDA c : phase[c] = "serving")
  /\ UNCHANGED <<loopVars, connVars, queue, call, newest, skipped, chartVars>>

(* broadcast_bar() copies the list under its lock... *)
Broadcast ==
  /\ cast = "made"
  /\ cast' = "casting"
  /\ left' = clients
  /\ UNCHANGED <<loopVars, connVars, queue, call, newest, skipped, chartVars>>

(* ... and calls one client after the other... *)
CastNext ==
  /\ cast = "casting" /\ call[Main] = "none" /\ left # << >>
  /\ Submit(Main, Head(left))
  /\ UNCHANGED <<loopVars, connVars, mainVars, chartVars>>

CastReturns ==
  /\ cast = "casting" /\ call[Main] = "done"
  /\ call' = [call EXCEPT ![Main] = "none"]
  /\ left' = Tail(left)
  /\ UNCHANGED <<loopVars, connVars, queue, newest, cast, skipped, chartVars>>

(* ... until one raises, or all have it.  A program that catches what is   *)
(* raised goes on to the next bar; the examples do not, and end there.     *)
CastRaises ==
  /\ cast = "casting" /\ call[Main] = "raised"
  /\ call' = [call EXCEPT ![Main] = "none"]
  /\ skipped' = skipped \cup {left[i] : i \in 2..Len(left)}
  /\ left' = << >>
  /\ cast' = "idle"
  /\ UNCHANGED <<loopVars, connVars, queue, newest, chartVars>>

CastEnds ==
  /\ cast = "casting" /\ left = << >>
  /\ cast' = "idle"
  /\ UNCHANGED <<loopVars, connVars, queue, call, newest, left, skipped, chartVars>>

-----------------------------------------------------------------------------
LoopStep == Serve \/ Close \/ Over \/ CloseLoop \/ Send
HandlerStep(t) ==
  \/ CallbackSends(t) \/ CallbackDefines(t) \/ CallbackReturns(t) \/ CallbackRaises(t)
  \/ Disconnect(t) \/ GoodbyeReturns(t)
CastStep == Broadcast \/ CastNext \/ CastReturns \/ CastRaises \/ CastEnds

Next ==
  \/ Start \/ Stop \/ MakeBar
  \/ LoopStep \/ CastStep
  \/ \E t \in Terminals : Connect(t) \/ TerminalGoes(t) \/ HandlerStep(t)

(* The loop and the threads run on; nobody need connect, leave, or stop.   *)
Fairness ==
  /\ WF_vars(LoopStep)
  /\ WF_vars(CastStep)
  /\ \A t \in Terminals : WF_vars(HandlerStep(t))

Spec == Init /\ [][Next]_vars /\ Fairness

-----------------------------------------------------------------------------
TypeOK ==
  /\ loop \in {"off", "made", "serving", "closing", "over", "closed"}
  /\ event \in {"none", "clear", "set"}
  /\ link \in [Terminals -> {"none", "open", "closed"}]
  /\ phase \in [Terminals -> {"none", "connect", "define", "serving", "failed", "bye", "gone"}]
  /\ clients \in Seq(Terminals) /\ left \in Seq(Terminals)
  /\ queue \in Seq([from : Callers, to : Terminals])
  /\ call \in [Callers -> {"none", "waiting", "done", "raised"}]
  /\ newest \in 0..MaxBars /\ cast \in {"idle", "made", "casting"}
  /\ chart \in [Terminals -> SUBSET (1..MaxBars)]
  /\ loaded \subseteq Terminals /\ since \in [Terminals -> 0..MaxBars]
  /\ skipped \subseteq Terminals /\ heard \in BOOLEAN

(* A connected terminal has every bar made after its snapshot reached it,  *)
(* the newest when its broadcast is over, however connections, callbacks   *)
(* and broadcasts overlap: the client is listed before its callback runs.  *)
(* What was broadcast before is on no snapshot of this program, and was    *)
(* replaced by it if it came sooner: the chart has a hole there.  The      *)
(* exception is a terminal that some broadcast did not get to, because one *)
(* before it in the list raised.                                           *)
EveryBarArrives ==
  \A t \in loaded \ skipped :
    link[t] = "open" =>
      \A b \in (since[t] + 1)..newest : b \in chart[t] \/ (b = newest /\ cast # "idle")

(* Every terminal that goes is taken off the list in the end, and a stop() *)
(* that finds the server running does end its loop, though callbacks and   *)
(* broadcasts are waiting on it for their sends.  The exceptions: a client *)
(* whose on_connect raised stays listed, and a stop() between start() and  *)
(* serve_forever's first step is not heard.                                *)
EndsAreSeen ==
  /\ \A t \in Terminals :
       link[t] = "closed" ~> (t \notin Listed \/ phase[t] = "failed")
  /\ heard ~> loop = "closed"

=============================================================================
