------------------------------ MODULE Process ------------------------------
(***************************************************************************)
(* Start and stop of one pod, cmd/server/main.go with Server.Start,        *)
(* Server.Shutdown and the part of handleWebSocket that the two race with. *)
(* Three listeners are started by goroutines that nobody waits for; after  *)
(* a signal main stops the parts in order, with timeouts, and the deferred *)
(* calls close Redis and then the pool of database connections.            *)
(*                                                                         *)
(* Hub models what goes on inside a connection and the hub; here the two   *)
(* pumps of a connection are one thing that clientWG counts until both     *)
(* have ended.  The metrics server uses neither store and serves no one    *)
(* else: of it only its place in the order of the shutdown is left.        *)
(***************************************************************************)
EXTENDS Naturals, Sequences

CONSTANTS
    Conns,         \* WebSocket connection attempts
    Calls,         \* REST calls
    RegisterCap    \* capacity of Hub.register

ASSUME ProcessAssumption == "ws" \notin Conns /\ RegisterCap \in Nat \ {0}

VARIABLES
    main,        \* where main is
    server,      \* the two HTTP servers
    hub,         \* Hub.Run
    wg,          \* Server.wg: whether a subscriber goroutine runs
    conn,        \* progress of handleWebSocket; clientWG counts the live ones
    busy,        \* connections whose read pump handles a frame
    registerQ, clients,      \* Hub.register, Hub.clients
    cancelled,   \* connections whose client.ctx is done
    calls,       \* progress of the REST calls
    waiter,      \* the goroutine in clientWG.Wait
    timeouts,    \* history: waits of the shutdown that ran out of time
    late         \* history: what started after the wait that should cover it

handlers == <<conn, busy, registerQ, clients, cancelled>>
vars == <<main, server, hub, wg, handlers, calls, waiter, timeouts, late>>

Servers == {"ws", "api"}
Stages  == <<"serving", "subscribers", "clients", "ws", "api", "metrics", "redis", "db">>

Reached(stage) == \E i, j \in 1..Len(Stages) : i <= j /\ Stages[i] = stage /\ Stages[j] = main
After(stage) == Stages[(CHOOSE i \in 1..Len(Stages) : Stages[i] = stage) + 1]
Ended == main \in {"exited", "fatal", "panic"}

Init ==
    /\ main = "boot"
    /\ server = [s \in Servers |-> "new"]
    /\ hub = "off" /\ wg = FALSE
    /\ conn = [c \in Conns |-> "idle"]
    /\ busy = {} /\ registerQ = <<>> /\ clients = {} /\ cancelled = {}
    /\ calls = [a \in Calls |-> "idle"]
    /\ waiter = "none" /\ timeouts = {} /\ late = {}

(* The process is gone and everything in it.                               *)
Exit(how) ==
    /\ main' = how
    /\ server' = [s \in Servers |-> "new"]
    /\ hub' = "off" /\ wg' = FALSE
    /\ conn' = [c \in Conns |-> "idle"]
    /\ busy' = {} /\ registerQ' = <<>> /\ clients' = {} /\ cancelled' = {}
    /\ calls' = [a \in Calls |-> "idle"]
    /\ waiter' = "none" /\ timeouts' = {} /\ late' = {}

-----------------------------------------------------------------------------
(* Start.                                                                  *)

(* Configuration, database, services and the server of the REST API; a bad *)
(* configuration or an unreachable database is fatal, Redis is not tried.  *)
Boot ==
    /\ main = "boot"
    /\ \/ Exit("fatal")
       \/ /\ main' = "serving"
          /\ server' = [server EXCEPT !["api"] = "assigned"]
          /\ UNCHANGED <<hub, wg, handlers, calls, waiter, timeouts, late>>

StartWithoutHub ==
    /\ ~Ended /\ main # "boot" /\ server["ws"] = "new"
    /\ server' = [server EXCEPT !["ws"] = "assigned"]
    /\ wg' = TRUE
    /\ late' = IF main = "serving" THEN late ELSE late \cup {"ws"}
    /\ UNCHANGED <<main, hub, handlers, calls, waiter, timeouts>>

(* A goroutine of main enters Server.Start: the server can be shut down    *)
(* from here on, and not earlier; the hub and the subscribers start.       *)
StartServer ==
    /\ ~Ended /\ main # "boot" /\ server["ws"] = "new"
    /\ server' = [server EXCEPT !["ws"] = "assigned"]
    /\ hub' = "running" /\ wg' = TRUE
    /\ late' = IF main = "serving" THEN late ELSE late \cup {"ws"}
    /\ UNCHANGED <<main, handlers, calls, waiter, timeouts>>

Listen(s) ==
    /\ ~Ended /\ server[s] = "assigned"
    /\ server' = [server EXCEPT ![s] = "listening"]
    /\ UNCHANGED <<main, hub, wg, handlers, calls, waiter, timeouts, late>>

(* The address is taken, or accepting fails: nobody listens any more, and  *)
(* the WebSocket server takes the process down.                            *)
ServeFails(s) ==
    /\ ~Ended /\ server[s] \in {"assigned", "listening"}
    /\ \/ s = "ws" /\ Exit("fatal")
       \/ /\ s = "api"
          /\ server' = [server EXCEPT ![s] = "closed"]
          /\ UNCHANGED <<main, hub, wg, handlers, calls, waiter, timeouts, late>>

-----------------------------------------------------------------------------
(* clientWG: Add(2) for a connection, Done by each pump, one Wait.         *)

(* The connections that the counter stands for.                            *)
Left == {c \in Conns : conn[c] = "live"}

(* go func() { s.clientWG.Wait() ... }, after CloseAll.                    *)
Wait ==
    /\ main = "clients" /\ waiter = "none"
    /\ waiter' = IF Left = {} THEN "returned" ELSE "waiting"
    /\ UNCHANGED <<main, server, hub, wg, handlers, calls, timeouts, late>>

(* A WaitGroup panics when it finds itself reused before Wait returned: a  *)
(* connection was added between the last Done and here.                    *)
WaitReturns ==
    /\ ~Ended /\ waiter = "woken"
    /\ \/ /\ Left = {}
          /\ waiter' = "returned"
          /\ UNCHANGED <<main, server, hub, wg, handlers, calls, timeouts, late>>
       \/ Left # {} /\ Exit("panic")

-----------------------------------------------------------------------------
(* Connections.                                                            *)

Accept(c) ==
    /\ ~Ended /\ server["ws"] = "listening" /\ conn[c] = "idle"
    /\ conn' = [conn EXCEPT ![c] = "handling"]
    /\ UNCHANGED <<main, server, hub, wg, busy, registerQ, clients, cancelled,
                   calls, waiter, timeouts, late>>

(* Token and limits have been looked up in the stores.                     *)
Handled(c) ==
    /\ ~Ended /\ conn[c] = "handling"
    /\ \E to \in {"gone", "upgraded"} : conn' = [conn EXCEPT ![c] = to]
    /\ UNCHANGED <<main, server, hub, wg, busy, registerQ, clients, cancelled,
                   calls, waiter, timeouts, late>>

RegisterUnbounded(c) ==
    /\ ~Ended /\ conn[c] = "upgraded"
    /\ conn' = [conn EXCEPT ![c] = "registered"]
    /\ registerQ' = Append(registerQ, c)
    /\ UNCHANGED <<main, server, hub, wg, busy, clients, cancelled,
                   calls, waiter, timeouts, late>>

(* s.hub.register <- client *)
Register(c) ==
    /\ ~Ended /\ conn[c] = "upgraded" /\ Len(registerQ) < RegisterCap
    /\ conn' = [conn EXCEPT ![c] = "registered"]
    /\ registerQ' = Append(registerQ, c)
    /\ UNCHANGED <<main, server, hub, wg, busy, clients, cancelled,
                   calls, waiter, timeouts, late>>

StartPumps(c) ==
    /\ ~Ended /\ conn[c] = "registered"
    /\ conn' = [conn EXCEPT ![c] = "live"]
    /\ late' = IF waiter = "returned" THEN late \cup {c} ELSE late
    /\ UNCHANGED <<main, server, hub, wg, busy, registerQ, clients, cancelled,
                   calls, waiter, timeouts>>

(* handleMessage; a closed pool turns the request away at once.            *)
HandleFrame(c) ==
    /\ ~Ended /\ main # "db" /\ conn[c] = "live" /\ c \notin busy
    /\ busy' = busy \cup {c}
    /\ UNCHANGED <<main, server, hub, wg, conn, registerQ, clients, cancelled,
                   calls, waiter, timeouts, late>>

FrameHandled(c) ==
    /\ ~Ended /\ c \in busy
    /\ busy' = busy \ {c}
    /\ UNCHANGED <<main, server, hub, wg, conn, registerQ, clients, cancelled,
                   calls, waiter, timeouts, late>>

(* The peer hangs up, a write fails or client.ctx is done: both pumps end  *)
(* and the hub forgets the connection.  The last Done wakes the goroutine  *)
(* that waits.                                                             *)
PumpsEnd(c) ==
    /\ ~Ended /\ conn[c] = "live" /\ c \notin busy
    /\ conn' = [conn EXCEPT ![c] = "gone"]
    /\ cancelled' = cancelled \ {c} /\ clients' = clients \ {c} /\ late' = late \ {c}
    /\ waiter' = IF waiter = "waiting" /\ Left = {c} THEN "woken" ELSE waiter
    /\ UNCHANGED <<main, server, hub, wg, busy, registerQ, calls, timeouts>>

(* The hub serves its register channel until it sees quit, in any order.   *)
HubRegister ==
    /\ ~Ended /\ hub = "running" /\ registerQ # <<>>
    /\ clients' = clients \cup {Head(registerQ)}
    /\ registerQ' = Tail(registerQ)
    /\ UNCHANGED <<main, server, hub, wg, conn, busy, cancelled,
                   calls, waiter, timeouts, late>>

HubQuit ==
    /\ ~Ended /\ hub = "running" /\ Reached("clients")
    /\ hub' = "stopped"
    /\ UNCHANGED <<main, server, wg, handlers, calls, waiter, timeouts, late>>

StartCall(a) ==
    /\ ~Ended /\ server["api"] = "listening" /\ calls[a] = "idle"
    /\ calls' = [calls EXCEPT ![a] = "running"]
    /\ UNCHANGED <<main, server, hub, wg, handlers, waiter, timeouts, late>>

EndCall(a) ==
    /\ ~Ended /\ calls[a] = "running"
    /\ calls' = [calls EXCEPT ![a] = "idle"]
    /\ UNCHANGED <<main, server, hub, wg, handlers, waiter, timeouts, late>>

-----------------------------------------------------------------------------
(* Stop.                                                                   *)

(* SIGINT or SIGTERM; Server.Shutdown begins with s.cancel().              *)
Signal ==
    /\ main = "serving"
    /\ main' = After(main)
    /\ UNCHANGED <<server, hub, wg, handlers, calls, waiter, timeouts, late>>

(* ctx.Done ends both loops.                                               *)
SubscribersStop ==
    /\ ~Ended /\ wg /\ Reached("subscribers")
    /\ wg' = FALSE
    /\ UNCHANGED <<main, server, hub, handlers, calls, waiter, timeouts, late>>

(* wg.Wait or five seconds, then CloseAll: the clients the hub knows are   *)
(* cancelled.                                                              *)
CloseAll ==
    /\ main = "subscribers"
    /\ main' = After(main)
    /\ timeouts' = IF wg THEN timeouts \cup {"subscribers"} ELSE timeouts
    /\ cancelled' = clients
    /\ UNCHANGED <<server, hub, wg, conn, busy, registerQ, clients, calls, waiter, late>>

ClientsNotAwaited ==
    /\ main = "clients" /\ waiter # "none"
    /\ main' = After(main)
    /\ UNCHANGED <<server, hub, wg, handlers, calls, waiter, timeouts, late>>

ClientsDrained ==
    /\ main = "clients" /\ waiter = "returned"
    /\ main' = After(main)
    /\ UNCHANGED <<server, hub, wg, handlers, calls, waiter, timeouts, late>>

ClientsNeverTimeOut == FALSE /\ UNCHANGED vars

(* Ten seconds.                                                            *)
ClientsTimeOut ==
    /\ main = "clients" /\ waiter \in {"waiting", "woken"}
    /\ main' = After(main)
    /\ timeouts' = timeouts \cup {"clients"}
    /\ UNCHANGED <<server, hub, wg, handlers, calls, waiter, late>>

(* http.Server.Shutdown closes the listener, for good even if Listen has   *)
(* not been called yet; a server that is not assigned is passed over.      *)
CloseServer(s) ==
    /\ main = s /\ server[s] # "closed"
    /\ IF server[s] = "new"
       THEN main' = After(main) /\ UNCHANGED server
       ELSE server' = [server EXCEPT ![s] = "closed"] /\ UNCHANGED main
    /\ UNCHANGED <<hub, wg, handlers, calls, waiter, timeouts, late>>

(* The requests it then waits for; an upgraded connection is not one.      *)
Active(s) ==
    CASE s = "ws"  -> {c \in Conns : conn[c] = "handling"}
      [] s = "api" -> {a \in Calls : calls[a] = "running"}

ServerStopped(s) ==
    /\ main = s /\ server[s] = "closed"
    /\ Active(s) = {} \/ "deadline" \in timeouts
    /\ main' = After(main)
    /\ UNCHANGED <<server, hub, wg, handlers, calls, waiter, timeouts, late>>

(* shutdownCtx: thirty seconds, of which the first two waits take fifteen. *)
Deadline ==
    /\ main \in Servers \cup {"metrics"} /\ "deadline" \notin timeouts
    /\ timeouts' = timeouts \cup {"deadline"}
    /\ UNCHANGED <<main, server, hub, wg, handlers, calls, waiter, late>>

(* metricsServer.Shutdown: what it waits for is short.                     *)
MetricsStopped ==
    /\ main = "metrics"
    /\ main' = After(main)
    /\ UNCHANGED <<server, hub, wg, handlers, calls, waiter, timeouts, late>>

(* The deferred calls run in the reverse order: redisClient.Close() ...    *)
RedisClose ==
    /\ main = "redis"
    /\ main' = After(main)
    /\ UNCHANGED <<server, hub, wg, handlers, calls, waiter, timeouts, late>>

(* ... and db.Close(), which waits, without a timeout, for the connections *)
(* that are out.                                                           *)
DbClose ==
    /\ main = "db" /\ busy = {} /\ Active("ws") = {} /\ Active("api") = {}
    /\ Exit("exited")

Exited == Ended /\ UNCHANGED vars

-----------------------------------------------------------------------------
Start == Boot \/ StartServer \/ \E s \in Servers : Listen(s) \/ ServeFails(s)

handleWebSocket(c) == Accept(c) \/ Handled(c) \/ Register(c) \/ StartPumps(c)

Pumps(c) == HandleFrame(c) \/ FrameHandled(c) \/ PumpsEnd(c)

(* What main and its timers do from the signal on.                         *)
StopInOrder ==
    \/ CloseAll \/ Wait \/ ClientsDrained \/ ClientsTimeOut
    \/ \E s \in Servers : CloseServer(s) \/ ServerStopped(s)
    \/ Deadline \/ MetricsStopped \/ RedisClose \/ DbClose

Shutdown == Signal \/ SubscribersStop \/ WaitReturns \/ StopInOrder

Next ==
    \/ Start \/ Shutdown \/ HubRegister \/ HubQuit \/ Exited
    \/ \E c \in Conns : handleWebSocket(c) \/ Pumps(c)
    \/ \E a \in Calls : StartCall(a) \/ EndCall(a)

Spec == Init /\ [][Next]_vars

(* Goroutines that can go on do so and timers fire.  The database answers, *)
(* or the deadline of the frame ends the wait for it: what uses the stores *)
(* finishes.  No signal has to come, no peer has to connect, send or hang  *)
(* up, and no pump or subscriber has to end in time.                       *)
Fairness ==
    /\ WF_vars(StopInOrder) /\ WF_vars(HubRegister)
    /\ \A c \in Conns : WF_vars(Handled(c) \/ Register(c) \/ StartPumps(c) \/ FrameHandled(c))
    /\ \A a \in Calls : WF_vars(EndCall(a))

FairSpec == Spec /\ Fairness

-----------------------------------------------------------------------------
(* The type invariant; only a live connection handles a frame or can be    *)
(* late, and the register channel keeps to its capacity.                   *)
TypeOK ==
    /\ main \in {"boot", "exited", "fatal", "panic"} \cup {Stages[i] : i \in 1..Len(Stages)}
    /\ server \in [Servers -> {"new", "assigned", "listening", "closed"}]
    /\ hub \in {"off", "running", "stopped"} /\ wg \in BOOLEAN
    /\ conn \in [Conns -> {"idle", "handling", "upgraded", "registered", "live", "gone"}]
    /\ busy \subseteq Left
    /\ registerQ \in Seq(Conns) /\ Len(registerQ) <= RegisterCap
    /\ clients \subseteq Conns /\ cancelled \subseteq Conns
    /\ calls \in [Calls -> {"idle", "running"}]
    /\ waiter \in {"none", "waiting", "woken", "returned"}
    /\ timeouts \subseteq {"subscribers", "clients", "deadline"}
    /\ late \subseteq Left \cup {"ws"}

(* Dependencies are closed last: when Redis and the pool are being closed, *)
(* no subscriber, pump, handshake or REST call is left that could use      *)
(* them, except after a wait that timed out, for a connection that was     *)
(* added after clientWG.Wait had returned, or because the WebSocket server *)
(* started when the shutdown was already under way.                        *)
StoresOutliveUsers ==
    main = "db" =>
        /\ wg => "subscribers" \in timeouts \/ "ws" \in late
        /\ Active("ws") # {} => "deadline" \in timeouts \/ "ws" \in late
        /\ Active("api") # {} => "deadline" \in timeouts
        /\ Left \subseteq late \/ "clients" \in timeouts

(* Once a signal came the process ends, however connections race with the  *)
(* shutdown: nothing that main waits for without a timeout waits for ever. *)
EventuallyExits == Reached("subscribers") ~> Ended

(* A handler that blocks on the register channel gets through or the       *)
(* process ends, also when the hub has quit and nobody reads the channel.  *)
RegistrationCompletes ==
    \A c \in Conns : conn[c] = "upgraded" ~> conn[c] # "upgraded" \/ Ended
=============================================================================
