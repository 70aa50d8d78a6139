------------------------------ MODULE WSClient ------------------------------
(***************************************************************************)
(* The terminal's end of the connection: WSClient (src/src/wsClient.ts)    *)
(* reconnects by a timer whenever its socket closes, queues what the user  *)
(* does meanwhile, and flushes the queue when a socket opens; the App      *)
(* (src/src/App.tsx) starts it once, says hello whenever it is told that   *)
(* it is connected, and disconnects it for good.                           *)
(*                                                                         *)
(* Each browser event is one action.  The keep-alive pings and the length  *)
(* of the back-off are left out.                                           *)
(***************************************************************************)
EXTENDS Naturals, FiniteSets, Sequences, Functions

CONSTANTS Values,    \* the values of a setting
          Unknown,   \* what a new session knows of one
          MaxQueue,  \* MAX_QUEUE
          MaxFlaps,  \* how often the network changes, a bound
          MaxFlight  \* messages the user puts on the way, a bound

ASSUME ValuesAssumption == Values # {} /\ Unknown \notin Values
ASSUME MaxQueueAssumption == MaxQueue \in Nat \ {0}
ASSUME MaxFlapsAssumption == MaxFlaps \in Nat
ASSUME MaxFlightAssumption == MaxFlight \in Nat

(* What the user sets, and the server's session should know.  Only the     *)
(* symbol (and like it the timeframe) is part of the App's hello.          *)
Settings == {"symbol", "chartType"}

Messages == [set : Settings, to : Values]

Sockets == 1..2   \* the socket objects that can be alive, reused when gone
Timers == 1..3    \* the timer ids that can be pending, reused when fired

VARIABLES ws,             \* this.ws: a socket, 0 for null
          socket,         \* "gone", "connecting", "open", "closing"
          attached,       \* whether a socket has its handlers
          link,           \* whether the network joins it to the server
          pending,        \* the timers that have not fired
          reconnectTimer, \* this.reconnectTimer: a timer, 0 for null
          destroyed,      \* this.destroyed
          sendQueue,      \* this.sendQueue
          status,         \* what onStatus last said
          shown,          \* what the terminal shows of each setting
          meant,          \* history: the symbol the user chose last, or the one
                          \* shown when a socket opened, if that was later
          flight,         \* socket -> the messages on their way
          known,          \* socket -> what its session at the server knows
          network,        \* "up", "down", or "bad": the constructor throws
          flaps           \* how often the network has changed

browser == <<ws, socket, attached, pending, reconnectTimer, destroyed, sendQueue, status>>
server == <<flight, known>>
environment == <<link, network, flaps>>
vars == <<browser, server, environment, shown, meant>>

(* The App has called connect(), and the network let it. *)
Init ==
  /\ ws = 1
  /\ socket = [s \in Sockets |-> IF s = 1 THEN "connecting" ELSE "gone"]
  /\ attached = [s \in Sockets |-> s = 1]
  /\ link = [s \in Sockets |-> FALSE]
  /\ pending = {} /\ reconnectTimer = 0
  /\ destroyed = FALSE
  /\ sendQueue = << >>
  /\ status = FALSE
  /\ shown \in [Settings -> Values] /\ meant = shown["symbol"]
  /\ flight = [s \in Sockets |-> << >>]
  /\ known = [s \in Sockets |-> [x \in Settings |-> Unknown]]
  /\ network \in {"up", "down", "bad"}
  /\ flaps = 0

IsOpen == ws # 0 /\ socket[ws] = "open"

(* scheduleReconnect(), with `waiting` pending already: no older timer is  *)
(* cleared.                                                                *)
Schedule(waiting) ==
  LET t == CHOOSE t \in Timers : t \notin waiting
  IN  /\ pending' = waiting \cup {t}
      /\ reconnectTimer' = t

(* Mutant: it waits while a timer is noted, the one that called it. *)
ConnectPolitely(waiting) ==
  /\ Schedule(waiting)
  /\ UNCHANGED <<ws, socket, attached, flight, known, link, status>>

(* connect(), of a client that is not destroyed. *)
Connect(waiting) ==
  LET waitingNow == waiting \ {reconnectTimer}
  IN  \/ /\ network = "bad"
         /\ status' = FALSE
         /\ Schedule(waitingNow)
         /\ UNCHANGED <<ws, socket, attached, flight, known, link>>
      \/ /\ network # "bad"
         /\ pending' = waitingNow /\ reconnectTimer' = 0
         /\ LET s == CHOOSE s \in Sockets : socket[s] = "gone"
            IN  /\ ws' = s
                /\ socket' = [socket EXCEPT ![s] = "connecting"]
                /\ attached' = [attached EXCEPT ![s] = TRUE]
                /\ link' = [link EXCEPT ![s] = FALSE]
                /\ flight' = [flight EXCEPT ![s] = << >>]
                /\ known' = [known EXCEPT ![s] = [x \in Settings |-> Unknown]]
         /\ UNCHANGED status

TimerFires(t) ==
  /\ t \in pending
  /\ \E s \in Sockets : socket[s] = "gone"
  /\ IF destroyed
     THEN /\ pending' = pending \ {t}
          /\ UNCHANGED <<ws, socket, attached, reconnectTimer, status, server, link>>
     ELSE Connect(pending \ {t})
  /\ UNCHANGED <<destroyed, sendQueue, shown, meant, network, flaps>>

(* Mutant: the App leaves the symbol to the queue. *)
OpenedNoHello(s) ==
  /\ socket[s] = "connecting" /\ network = "up" /\ attached[s]
  /\ socket' = [socket EXCEPT ![s] = "open"]
  /\ link' = [link EXCEPT ![s] = TRUE]
  /\ status' = TRUE
  /\ flight' = [flight EXCEPT ![s] = sendQueue]
  /\ sendQueue' = << >> /\ meant' = shown["symbol"]
  /\ UNCHANGED <<ws, attached, pending, reconnectTimer, destroyed, known,
                 shown, network, flaps>>

(* onopen: the App, told first, sends its symbol; then the queue goes. *)
Opened(s) ==
  /\ socket[s] = "connecting" /\ network = "up" /\ attached[s]
  /\ socket' = [socket EXCEPT ![s] = "open"]
  /\ link' = [link EXCEPT ![s] = TRUE]
  /\ status' = TRUE
  /\ flight' = [flight EXCEPT ![s] =
                  <<[set |-> "symbol", to |-> shown["symbol"]]>> \o sendQueue]
  /\ sendQueue' = << >> /\ meant' = shown["symbol"]
  /\ UNCHANGED <<ws, attached, pending, reconnectTimer, destroyed, known,
                 shown, network, flaps>>

(* The browser finds that the socket is closed, or cannot be opened. *)
Dead(s) ==
  \/ socket[s] = "closing"
  \/ socket[s] = "connecting" /\ (network # "up" \/ ~ attached[s])
  \/ socket[s] = "open" /\ ~ link[s]

(* Mutant: onerror schedules too. *)
ClosedWithError(s) ==
  /\ Dead(s)
  /\ socket' = [socket EXCEPT ![s] = "gone"]
  /\ IF attached[s] /\ ~ destroyed
     THEN /\ status' = FALSE
          /\ \E t, u \in Timers \ pending :
               t # u /\ pending' = pending \cup {t, u} /\ reconnectTimer' = u
     ELSE UNCHANGED <<status, pending, reconnectTimer>>
  /\ UNCHANGED <<ws, attached, destroyed, sendQueue, server, environment, shown, meant>>

(* Mutant: the App is told of a close only when it is for good. *)
ClosedQuietly(s) ==
  /\ Dead(s)
  /\ socket' = [socket EXCEPT ![s] = "gone"]
  /\ status' = (status /\ ~ destroyed)
  /\ IF attached[s] /\ ~ destroyed
     THEN Schedule(pending)
     ELSE UNCHANGED <<pending, reconnectTimer>>
  /\ UNCHANGED <<ws, attached, destroyed, sendQueue, server, environment, shown, meant>>

(* onclose, unless disconnect() has taken the handler off. *)
Closed(s) ==
  /\ Dead(s)
  /\ socket' = [socket EXCEPT ![s] = "gone"]
  /\ IF attached[s]
     THEN /\ status' = FALSE
          /\ IF destroyed THEN UNCHANGED <<pending, reconnectTimer>>
                          ELSE Schedule(pending)
     ELSE UNCHANGED <<status, pending, reconnectTimer>>
  /\ UNCHANGED <<ws, attached, destroyed, sendQueue, server, environment, shown, meant>>

(* send(), of a client that is not destroyed. *)
Send(m) ==
  IF IsOpen
  THEN /\ flight' = [flight EXCEPT ![ws] = IF link[ws] THEN Append(@, m) ELSE @]
       /\ UNCHANGED sendQueue
  ELSE /\ sendQueue' = Append(IF Len(sendQueue) >= MaxQueue
                              THEN Tail(sendQueue) ELSE sendQueue, m)
       /\ UNCHANGED flight

(* changeSymbol(), changeChartType(). *)
UserSets(x, v) ==
  /\ ~ destroyed
  /\ IsOpen => Len(flight[ws]) < MaxFlight
  /\ shown' = [shown EXCEPT ![x] = v]
  /\ meant' = IF x = "symbol" THEN v ELSE meant
  /\ Send([set |-> x, to |-> v])
  /\ UNCHANGED <<ws, socket, attached, pending, reconnectTimer, destroyed, status,
                 known, environment>>

(* handleMessage(): a snapshot, or a message of the setting's own, changes *)
(* what the terminal shows, and nothing is sent.                           *)
ServerSets(x, v) ==
  /\ IsOpen /\ attached[ws] /\ v # shown[x]
  /\ shown' = [shown EXCEPT ![x] = v]
  /\ UNCHANGED <<browser, server, environment, meant>>

(* disconnect(), by stopFeeds(). *)
Disconnect ==
  /\ ~ destroyed
  /\ destroyed' = TRUE
  /\ sendQueue' = << >>
  /\ pending' = pending \ {reconnectTimer} /\ reconnectTimer' = 0
  /\ attached' = [s \in Sockets |-> attached[s] /\ s # ws]
  /\ socket' = [s \in Sockets |->
                 IF s = ws /\ socket[s] # "gone" THEN "closing" ELSE socket[s]]
  /\ status' = (status /\ ~ IsOpen)
  /\ ws' = 0
  /\ UNCHANGED <<server, environment, shown, meant>>

-----------------------------------------------------------------------------
(* The server, and the network between.                                    *)

Arrives(s) ==
  /\ flight[s] # << >>
  /\ LET m == Head(flight[s])
     IN  known' = [known EXCEPT ![s][m.set] = m.to]
  /\ flight' = [flight EXCEPT ![s] = Tail(@)]
  /\ UNCHANGED <<browser, environment, shown, meant>>

(* The link breaks, with what is on it; the browser learns of it later, or *)
(* at once by a close frame.                                               *)
Breaks(s) ==
  /\ link[s] /\ flaps < MaxFlaps
  /\ flaps' = flaps + 1
  /\ link' = [link EXCEPT ![s] = FALSE]
  /\ flight' = [flight EXCEPT ![s] = << >>]
  /\ socket' \in {socket, [socket EXCEPT ![s] = IF @ = "open" THEN "closing" ELSE @]}
  /\ UNCHANGED <<ws, attached, pending, reconnectTimer, destroyed, sendQueue, status,
                 known, network, shown, meant>>

NetworkChanges ==
  /\ flaps < MaxFlaps
  /\ flaps' = flaps + 1
  /\ network \in {"up", "down"}
  /\ network' = IF network = "up" THEN "down" ELSE "up"
  /\ UNCHANGED <<browser, server, link, shown, meant>>

BrowserEvent ==
  \/ \E t \in Timers : TimerFires(t)
  \/ \E s \in Sockets : Opened(s) \/ Closed(s)

Next ==
  \/ BrowserEvent
  \/ \E x \in Settings, v \in Values : UserSets(x, v) \/ ServerSets(x, v)
  \/ Disconnect
  \/ \E s \in Sockets : Arrives(s) \/ Breaks(s)
  \/ NetworkChanges

(* Timers fire and sockets report; nothing else has to happen. *)
Spec == Init /\ [][Next]_vars /\ WF_vars(BrowserEvent)

-----------------------------------------------------------------------------
TypeOK ==
  /\ ws \in {0} \cup Sockets
  /\ socket \in [Sockets -> {"gone", "connecting", "open", "closing"}]
  /\ attached \in [Sockets -> BOOLEAN] /\ link \in [Sockets -> BOOLEAN]
  /\ pending \subseteq Timers /\ reconnectTimer \in {0} \cup Timers
  /\ destroyed \in BOOLEAN /\ status \in BOOLEAN
  /\ sendQueue \in Seq(Messages) /\ Len(sendQueue) <= MaxQueue
  /\ shown \in [Settings -> Values] /\ meant \in Values
  /\ flight \in [Sockets -> Seq(Messages)]
  /\ known \in [Sockets -> [Settings -> Values \cup {Unknown}]]
  /\ network \in {"up", "down", "bad"} /\ flaps \in 0..MaxFlaps

(* A client that is wanted has exactly one way on, a socket or a timer:    *)
(* none would leave it offline for good, two would make two sessions of    *)
(* one terminal.                                                           *)
OneWayOn ==
  ~ destroyed =>
    Cardinality({s \in Sockets : socket[s] # "gone"}) + Cardinality(pending) = 1

(* The pill tells the truth while the client is wanted: it says online     *)
(* from the socket's opening to its close event.                           *)
StatusIsTrue ==
  ~ destroyed => (status <=> ws # 0 /\ socket[ws] \in {"open", "closing"})

(* Whatever was lost, queued, dropped from a full queue or sent twice      *)
(* before: once a connected terminal's messages have arrived, the server   *)
(* serves the symbol that the user chose last, or the one on screen when   *)
(* the socket opened if he has chosen none since.  It is the one on screen *)
(* until a message of the server puts another there (App.tsx:2755, 2872):  *)
(* that one is told to nobody before the next opening.                     *)
SymbolArrives ==
  IsOpen /\ link[ws] /\ flight[ws] = << >> => known[ws]["symbol"] = meant

(* When the network settles the terminal comes back, and stays.            *)
Reconnects ==
  <>[](network = "up" /\ ~ destroyed) => <>[](status /\ IsOpen)
==============================================================================
