--------------------------- MODULE ServerSessions ---------------------------
(***************************************************************************)
(* The life of a terminal's connection on the server: TrexServer._handle   *)
(* (src/src/trex/server/server.py) admits it, waits for its hello, puts it *)
(* among the sessions, starts the on_connect hook as a task of its own,    *)
(* dispatches its messages one by one, and cleans up when its socket is    *)
(* gone.  Under SyncServer (sync.py) every hook runs in a pool thread,     *)
(* which the cancellation of the task that waits for it does not stop.     *)
(*                                                                         *)
(* What is between two awaits of the event loop is one action.             *)
(***************************************************************************)
EXTENDS Naturals, FiniteSets, Sequences, SequencesExt

CONSTANTS Conns,      \* connections
          MaxClients, \* max_clients, 0 for unlimited
          Servers,    \* of TRUE: a SyncServer, whose hooks run in a pool;
                      \* and FALSE: a TrexServer, whose hooks are coroutines
          Workers,    \* threads of the pool
          MaxFrames   \* frames a client sends, a bound

ASSUME MaxClientsAssumption == MaxClients \in Nat
ASSUME ServersAssumption == Servers \subseteq BOOLEAN
ASSUME WorkersAssumption == Workers \in Nat \ {0}
ASSUME MaxFramesAssumption == MaxFrames \in Nat

Hooks == {"connect", "request", "disconnect"}

(* A client's frame: its hello, a request that has a hook (a symbol, a     *)
(* timeframe, a history page...), something that is not JSON, or JSON that *)
(* is not an object.                                                       *)
Frames == {"hello", "request", "junk", "array"}

VARIABLES sync,     \* whether the hooks run in a pool
          socket,   \* "absent", "open", "closed"
          sent,     \* frames the client has sent
          inbox,    \* those the server has not read
          at,       \* where the connection's handler is
          alive,    \* session._alive
          sessions, \* the registered sessions
          greeted,  \* history: the hello was dispatched
          task,     \* the on_connect task
          job,      \* each hook's call
          pool      \* the calls the pool has not started

vars == <<sync, socket, sent, inbox, at, alive, sessions, greeted, task, job, pool>>

Init ==
  /\ sync \in Servers
  /\ socket = [c \in Conns |-> "absent"]
  /\ sent = [c \in Conns |-> 0]
  /\ inbox = [c \in Conns |-> << >>]
  /\ at = [c \in Conns |-> "none"]
  /\ alive = [c \in Conns |-> FALSE]
  /\ sessions = {}
  /\ greeted = [c \in Conns |-> FALSE]
  /\ task = [c \in Conns |-> "none"]
  /\ job = [c \in Conns |-> [h \in Hooks |-> "none"]]
  /\ pool = << >>

(* Calls a hook: at once, or through the pool. *)
Call(c, h) ==
  IF sync
  THEN /\ job' = [job EXCEPT ![c][h] = "queued"]
       /\ pool' = Append(pool, <<c, h>>)
  ELSE /\ job' = [job EXCEPT ![c][h] = "running"]
       /\ UNCHANGED pool

-----------------------------------------------------------------------------
(* The clients.                                                            *)

ClientSends(c, f) ==
  /\ socket[c] = "open" /\ sent[c] < MaxFrames
  /\ sent' = [sent EXCEPT ![c] = @ + 1]
  /\ inbox' = [inbox EXCEPT ![c] = Append(@, f)]
  /\ UNCHANGED <<sync, socket, at, alive, sessions, greeted, task, job, pool>>

(* The client closes the connection, or the network loses it. *)
ClientGoes(c) ==
  /\ socket[c] = "open"
  /\ socket' = [socket EXCEPT ![c] = "closed"]
  /\ UNCHANGED <<sync, sent, inbox, at, alive, sessions, greeted, task, job, pool>>

-----------------------------------------------------------------------------
(* The handler.                                                            *)

Full == MaxClients # 0 /\ Cardinality({c \in sessions : alive[c]}) >= MaxClients

Accept(c) ==
  /\ at[c] = "none"
  /\ IF Full
     THEN /\ at' = [at EXCEPT ![c] = "refused"]
          /\ socket' = [socket EXCEPT ![c] = "closed"]
          /\ UNCHANGED alive
     ELSE /\ at' = [at EXCEPT ![c] = "hello"]
          /\ socket' = [socket EXCEPT ![c] = "open"]
          /\ alive' = [alive EXCEPT ![c] = TRUE]
  /\ UNCHANGED <<sync, sent, inbox, sessions, greeted, task, job, pool>>

(* After the handshake, whatever came of it. *)
Register(c) ==
  /\ sessions' = sessions \cup {c}
  /\ task' = [task EXCEPT ![c] = "created"]
  /\ at' = [at EXCEPT ![c] = "receive"]

(* The first frame of a client, of any type. *)
FirstFrame(c) ==
  /\ at[c] = "hello" /\ inbox[c] # << >>
  /\ inbox' = [inbox EXCEPT ![c] = Tail(@)]
  /\ greeted' = [greeted EXCEPT ![c] = Head(inbox[c]) = "hello"]
  /\ IF Head(inbox[c]) = "request"
     THEN /\ Call(c, "request")
          /\ at' = [at EXCEPT ![c] = "first"]
          /\ UNCHANGED <<sessions, task>>
     ELSE Register(c) /\ UNCHANGED <<job, pool>>
  /\ UNCHANGED <<sync, socket, sent, alive>>

FirstFrameDone(c) ==
  /\ at[c] = "first" /\ job[c]["request"] = "done"
  /\ job' = [job EXCEPT ![c]["request"] = "none"]
  /\ Register(c)
  /\ UNCHANGED <<sync, socket, sent, inbox, alive, greeted, pool>>

(* Ten seconds without a frame, or a socket that is gone: the exception is *)
(* passed over.                                                            *)
NoHello(c) ==
  /\ at[c] = "hello" /\ inbox[c] = << >>
  /\ Register(c)
  /\ UNCHANGED <<sync, socket, sent, inbox, alive, greeted, job, pool>>

Dispatched(c) ==
  /\ at[c] = "dispatch" /\ job[c]["request"] = "done"
  /\ job' = [job EXCEPT ![c]["request"] = "none"]
  /\ at' = [at EXCEPT ![c] = "receive"]
  /\ UNCHANGED <<sync, socket, sent, inbox, alive, sessions, greeted, task, pool>>

(* The finally block, up to the await of the cancelled task.  A task that  *)
(* has not begun never will.                                               *)
CleanUp(c) ==
  /\ alive' = [alive EXCEPT ![c] = FALSE]
  /\ sessions' = sessions \ {c}
  /\ at' = [at EXCEPT ![c] = "leave"]
  /\ task' = [task EXCEPT ![c] = IF @ = "running" THEN "cancelling" ELSE "finished"]

(* Mutant: only a session whose sends have not failed is cleaned up. *)
GoneIfAlive(c) ==
  /\ at[c] = "receive" /\ inbox[c] = << >> /\ socket[c] = "closed" /\ alive[c]
  /\ CleanUp(c)
  /\ UNCHANGED <<sync, socket, sent, inbox, greeted, job, pool>>

(* The socket is gone and its frames are read.                             *)
Gone(c) ==
  /\ at[c] = "receive" /\ inbox[c] = << >> /\ socket[c] = "closed"
  /\ CleanUp(c)
  /\ UNCHANGED <<sync, socket, sent, inbox, greeted, job, pool>>

(* Junk is passed over; what is not an object has no get(), and the error  *)
(* ends the loop on a socket that is still open (session.py:216).          *)
Receive(c) ==
  /\ at[c] = "receive" /\ inbox[c] # << >>
  /\ inbox' = [inbox EXCEPT ![c] = Tail(@)]
  /\ greeted' = [greeted EXCEPT ![c] = @ \/ Head(inbox[c]) = "hello"]
  /\ \/ /\ Head(inbox[c]) = "request"
        /\ Call(c, "request") /\ at' = [at EXCEPT ![c] = "dispatch"]
        /\ UNCHANGED <<alive, sessions, task>>
     \/ /\ Head(inbox[c]) = "array" /\ CleanUp(c)
        /\ UNCHANGED <<job, pool>>
     \/ /\ Head(inbox[c]) \in {"hello", "junk"}
        /\ UNCHANGED <<at, alive, sessions, task, job, pool>>
  /\ UNCHANGED <<sync, socket, sent>>

(* Mutant: the task is cancelled and not awaited. *)
LeaveAtOnce(c) ==
  /\ at[c] = "leave"
  /\ at' = [at EXCEPT ![c] = "disconnect"]
  /\ Call(c, "disconnect")
  /\ UNCHANGED <<sync, socket, sent, inbox, alive, sessions, greeted, task>>

(* The task has ended, one way or another: on_disconnect is called ... *)
Leave(c) ==
  /\ at[c] = "leave" /\ task[c] = "finished"
  /\ at' = [at EXCEPT ![c] = "disconnect"]
  /\ Call(c, "disconnect")
  /\ UNCHANGED <<sync, socket, sent, inbox, alive, sessions, greeted, task>>

(* ... and returns, and so the handler does: the library closes the socket.*)
Left(c) ==
  /\ at[c] = "disconnect" /\ job[c]["disconnect"] = "done"
  /\ at' = [at EXCEPT ![c] = "ended"]
  /\ socket' = [socket EXCEPT ![c] = "closed"]
  /\ UNCHANGED <<sync, sent, inbox, alive, sessions, greeted, task, job, pool>>

(* A broadcast, or a hook of another session, writes to a dead socket. *)
SendFails(c) ==
  /\ c \in sessions /\ alive[c] /\ socket[c] = "closed"
  /\ alive' = [alive EXCEPT ![c] = FALSE]
  /\ UNCHANGED <<sync, socket, sent, inbox, at, sessions, greeted, task, job, pool>>

-----------------------------------------------------------------------------
(* The on_connect task.                                                    *)

TaskBegins(c) ==
  /\ task[c] = "created"
  /\ task' = [task EXCEPT ![c] = "running"]
  /\ Call(c, "connect")
  /\ UNCHANGED <<sync, socket, sent, inbox, at, alive, sessions, greeted>>

TaskEnds(c) ==
  /\ task[c] = "running" /\ job[c]["connect"] = "done"
  /\ task' = [task EXCEPT ![c] = "finished"]
  /\ UNCHANGED <<sync, socket, sent, inbox, at, alive, sessions, greeted, job, pool>>

Calls == Conns \X Hooks

(* Mutant: the call that waits in the pool is left there. *)
TaskCancelledKeepsCall(c) ==
  /\ task[c] = "cancelling"
  /\ task' = [task EXCEPT ![c] = "finished"]
  /\ job' = [job EXCEPT ![c]["connect"] =
                IF @ = "running" /\ ~ sync THEN "cut" ELSE @]
  /\ UNCHANGED <<sync, socket, sent, inbox, at, alive, sessions, greeted, pool>>

(* Mutant: the call is dropped, and what waits for it is not told. *)
TaskCancelledForgetsCall(c) ==
  /\ task[c] = "cancelling"
  /\ task' = [task EXCEPT ![c] = "finished"]
  /\ job' = [job EXCEPT ![c]["connect"] =
                IF @ = "running" /\ ~ sync THEN "cut" ELSE @]
  /\ pool' = RemoveFirst(pool, <<c, "connect">>)
  /\ UNCHANGED <<sync, socket, sent, inbox, at, alive, sessions, greeted>>

(* The cancellation reaches the task.  A coroutine is cut at its await; a  *)
(* call the pool has not started is dropped; one that a thread has begun   *)
(* goes on, and nobody waits for it.                                       *)
TaskCancelled(c) ==
  /\ task[c] = "cancelling"
  /\ task' = [task EXCEPT ![c] = "finished"]
  /\ job' = [job EXCEPT ![c]["connect"] =
                IF @ = "queued" \/ (@ = "running" /\ ~ sync) THEN "cut" ELSE @]
  /\ pool' = RemoveFirst(pool, <<c, "connect">>)
  /\ UNCHANGED <<sync, socket, sent, inbox, at, alive, sessions, greeted>>

-----------------------------------------------------------------------------
(* The hooks.                                                              *)

Running == {call \in Calls : job[call[1]][call[2]] = "running"}

(* A pool thread takes the oldest call. *)
WorkerTakes ==
  /\ pool # << >> /\ Cardinality(Running) < Workers
  /\ job' = [job EXCEPT ![Head(pool)[1]][Head(pool)[2]] = "running"]
  /\ pool' = Tail(pool)
  /\ UNCHANGED <<sync, socket, sent, inbox, at, alive, sessions, greeted, task>>

HookReturns(c, h) ==
  /\ job[c][h] = "running"
  /\ job' = [job EXCEPT ![c][h] = "done"]
  /\ UNCHANGED <<sync, socket, sent, inbox, at, alive, sessions, greeted, task, pool>>

-----------------------------------------------------------------------------
(* What the event loop runs when it can. *)
Handler(c) ==
  \/ FirstFrame(c) \/ FirstFrameDone(c) \/ NoHello(c) \/ Receive(c)
  \/ Dispatched(c) \/ Gone(c) \/ Leave(c) \/ Left(c)

ConnectTask(c) == TaskBegins(c) \/ TaskEnds(c) \/ TaskCancelled(c)

Client(c) == ClientGoes(c) \/ \E f \in Frames : ClientSends(c, f)

Next ==
  \/ WorkerTakes
  \/ \E c \in Conns :
       \/ Accept(c) \/ Client(c) \/ Handler(c) \/ ConnectTask(c) \/ SendFails(c)
       \/ \E h \in Hooks : HookReturns(c, h)

(* The loop runs whatever is ready and the hello's timer is one of its     *)
(* timers; a hook ends, its sends being bounded by time-outs.  Clients and *)
(* failing sends are under no obligation.                                  *)
Fairness ==
  /\ WF_vars(WorkerTakes)
  /\ \A c \in Conns :
       /\ WF_vars(Handler(c)) /\ WF_vars(ConnectTask(c))
       /\ \A h \in Hooks : WF_vars(HookReturns(c, h))

Spec == Init /\ [][Next]_vars /\ Fairness

-----------------------------------------------------------------------------
Ran == {"running", "done", "cut"}

TypeOK ==
  /\ sync \in Servers
  /\ socket \in [Conns -> {"absent", "open", "closed"}]
  /\ sent \in [Conns -> 0..MaxFrames]
  /\ inbox \in [Conns -> Seq(Frames)]
  /\ at \in [Conns -> {"none", "refused", "hello", "first", "receive", "dispatch",
                       "leave", "disconnect", "ended"}]
  /\ alive \in [Conns -> BOOLEAN] /\ greeted \in [Conns -> BOOLEAN]
  /\ sessions \subseteq Conns
  /\ task \in [Conns -> {"none", "created", "running", "cancelling", "finished"}]
  /\ job \in [Conns -> [Hooks -> {"none", "queued"} \cup Ran]]
  /\ pool \in Seq(Calls)
  /\ \A i \in DOMAIN pool : job[pool[i][1]][pool[i][2]] = "queued"

(* on_disconnect cleans up after on_connect: without a pool, no connection *)
(* has both at work, whenever the client goes and however on_connect ends. *)
DisconnectComesLast ==
  ~ sync =>
    \A c \in Conns :
      job[c]["disconnect"] \in Ran => job[c]["connect"] \in {"none", "done", "cut"}

(* With a pool, on_connect may still be at work then; but it does not      *)
(* begin once the connection is being cleaned up, however long the pool's  *)
(* queue was.                                                              *)
NoLateConnect ==
  [][\A c \in Conns :
       job[c]["disconnect"] # "none" /\ job'[c]["connect"] = "running" =>
         job[c]["connect"] = "running"]_vars

(* With a pool of few threads, a hook that was called is run to its end or *)
(* dropped with its connection: no call waits for good.                    *)
EveryCallEnds ==
  \A c \in Conns, h \in Hooks : (job[c][h] = "queued") ~> (job[c][h] # "queued")

(* "Called when a client disconnects (cleanly or by error)" (server.py:    *)
(* 117): a client that is gone is taken off and its on_disconnect returns, *)
(* in the middle of whatever it went.                                      *)
GoneIsTold ==
  \A c \in Conns :
    (socket[c] = "closed" /\ at[c] # "refused") ~> (at[c] = "ended" /\ c \notin sessions)

(* Not so: "Maximum concurrent connections" (server.py:77).                *)
AtMostMaxClients ==
  MaxClients # 0 => Cardinality({c \in sessions : alive[c]}) <= MaxClients
=============================================================================
