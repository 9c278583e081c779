---------------------------- MODULE ProcessProofs ----------------------------
(***************************************************************************)
(* Proofs about the start and the stop of a pod: for any number of         *)
(* connections and REST calls and any capacity of the register channel.    *)
(***************************************************************************)
EXTENDS Process, SequenceTheorems, TLAPS

(* The stages, in order.                                                   *)
PastApi         == {"metrics", "redis", "db"}
PastWs          == PastApi \cup {"api"}
PastClients     == PastWs \cup {"ws"}
PastSubscribers == PastClients \cup {"clients"}
AllStages       == PastSubscribers \cup {"serving", "subscribers"}
Endings         == {"exited", "fatal", "panic"}

LEMMA StageNames ==
    /\ {Stages[i] : i \in 1..Len(Stages)} = AllStages
    /\ Len(Stages) = 8
<1>1. Len(Stages) = 8
  BY DEF Stages
<1>2. \A i : i \in 1..8 <=> i \in {1, 2, 3, 4, 5, 6, 7, 8}
  OBVIOUS
<1>3. /\ Stages[1] = "serving" /\ Stages[2] = "subscribers" /\ Stages[3] = "clients" /\ Stages[4] = "ws"
      /\ Stages[5] = "api" /\ Stages[6] = "metrics" /\ Stages[7] = "redis" /\ Stages[8] = "db"
  BY DEF Stages
<1>4. {Stages[i] : i \in {1, 2, 3, 4, 5, 6, 7, 8}} = AllStages
  BY <1>3 DEF AllStages, PastSubscribers, PastClients, PastWs, PastApi
<1>5. 1..8 = {1, 2, 3, 4, 5, 6, 7, 8}
  BY <1>2
<1> QED BY <1>1, <1>4, <1>5

LEMMA StageOrder ==
    /\ After("serving") = "subscribers" /\ After("subscribers") = "clients" /\ After("clients") = "ws"
    /\ After("ws") = "api" /\ After("api") = "metrics" /\ After("metrics") = "redis"
    /\ After("redis") = "db"
<1>1. /\ Stages[1] = "serving" /\ Stages[2] = "subscribers" /\ Stages[3] = "clients" /\ Stages[4] = "ws"
      /\ Stages[5] = "api" /\ Stages[6] = "metrics" /\ Stages[7] = "redis" /\ Stages[8] = "db"
  BY DEF Stages
<1>2. \A i \in 1..Len(Stages) : i \in {1, 2, 3, 4, 5, 6, 7, 8}
  BY StageNames
<1>3. ASSUME NEW k \in 1..7 PROVE After(Stages[k]) = Stages[k + 1]
  <2> DEFINE j == CHOOSE i \in 1..Len(Stages) : Stages[i] = Stages[k]
  <2>1. k \in 1..Len(Stages) /\ k \in {1, 2, 3, 4, 5, 6, 7}
    BY StageNames
  <2>2. j \in 1..Len(Stages) /\ Stages[j] = Stages[k]
    BY <2>1
  <2> HIDE DEF j
  <2>3. j = k
    BY <1>1, <1>2, <2>1, <2>2
  <2> QED BY <2>3 DEF After, j
<1>4. \A k \in 1..7 : After(Stages[k]) = Stages[k + 1]
  BY <1>3
<1> QED BY <1>1, <1>4

-----------------------------------------------------------------------------
(* Type correctness *)

Lives == {"idle", "handling", "upgraded", "registered", "live", "gone"}
MainOK == main \in {"boot"} \cup Endings \cup AllStages
PartsOK ==
    /\ server \in [Servers -> {"new", "assigned", "listening", "closed"}]
    /\ hub \in {"off", "running", "stopped"} /\ wg \in BOOLEAN
    /\ calls \in [Calls -> {"idle", "running"}]
    /\ timeouts \subseteq {"subscribers", "clients", "deadline"}
ConnsOK ==
    /\ conn \in [Conns -> Lives]
    /\ busy \subseteq Left /\ late \subseteq Left \cup {"ws"}
HubOK ==
    /\ registerQ \in Seq(Conns) /\ Len(registerQ) <= RegisterCap
    /\ clients \subseteq Conns /\ cancelled \subseteq Conns
    /\ waiter \in {"none", "waiting", "woken", "returned"}

LEMMA TypeParts ==
    /\ TypeOK <=> MainOK /\ PartsOK /\ ConnsOK /\ HubOK
    /\ TypeOK' <=> MainOK' /\ PartsOK' /\ ConnsOK' /\ HubOK'
<1>1. /\ main \in {"boot", "exited", "fatal", "panic"} \cup {Stages[i] : i \in 1..Len(Stages)} <=> MainOK
      /\ main' \in {"boot", "exited", "fatal", "panic"} \cup {Stages[i] : i \in 1..Len(Stages)} <=> MainOK'
  BY StageNames DEF MainOK, Endings
<1> HIDE DEF MainOK
<1> QED BY <1>1 DEF TypeOK, PartsOK, ConnsOK, HubOK, Lives

LEMMA ExitType ==
    ASSUME NEW how \in Endings, Exit(how)
    PROVE  TypeOK'
<1>1. Left' = {}
  BY DEF Exit, Left
<1>2. MainOK'
  BY DEF Exit, MainOK
<1>3. PartsOK'
  BY DEF Exit, PartsOK
<1>4. ConnsOK'
  BY <1>1 DEF Exit, ConnsOK, Lives
<1>5. HubOK'
  BY ProcessAssumption DEF Exit, HubOK
<1> QED BY <1>2, <1>3, <1>4, <1>5, TypeParts

(* Main, the servers and the calls move and the connections do not.        *)
LEMMA StopType ==
    ASSUME TypeOK, MainOK', PartsOK', waiter' \in {"none", "waiting", "woken", "returned"},
           late' = late \/ late' = late \cup {"ws"}, cancelled' = cancelled \/ cancelled' = clients,
           UNCHANGED <<conn, busy, registerQ, clients>>
    PROVE  TypeOK'
<1>1. ConnsOK /\ HubOK
  BY TypeParts
<1>2. Left' = Left
  BY DEF Left
<1>3. ConnsOK'
  BY <1>1, <1>2 DEF ConnsOK
<1>4. HubOK'
  BY <1>1 DEF HubOK
<1> QED BY <1>3, <1>4, TypeParts

LEMMA TypeInit == Init => TypeOK
<1> SUFFICES ASSUME Init PROVE TypeOK
  OBVIOUS
<1>1. Left = {}
  BY DEF Init, Left
<1>2. MainOK /\ PartsOK
  BY DEF Init, MainOK, PartsOK
<1>3. ConnsOK
  BY <1>1 DEF Init, ConnsOK, Lives
<1>4. HubOK
  BY ProcessAssumption DEF Init, HubOK
<1> QED BY <1>2, <1>3, <1>4, TypeParts

(* One connection moves on.                                                *)
LEMMA ConnType ==
    ASSUME TypeOK, NEW c \in Conns, handleWebSocket(c) \/ Pumps(c)
    PROVE  TypeOK'
<1>0. MainOK /\ PartsOK /\ ConnsOK /\ HubOK
  BY TypeParts
<1>1. UNCHANGED <<main, server, hub, wg, calls, timeouts>>
  BY DEF handleWebSocket, Pumps, Accept, Handled, Register, StartPumps, HandleFrame, FrameHandled, PumpsEnd
<1>2. MainOK' /\ PartsOK'
  BY <1>0, <1>1 DEF MainOK, PartsOK
<1>3. ASSUME NEW to \in Lives \ {"live"}, conn' = [conn EXCEPT ![c] = to], conn[c] # "live",
             UNCHANGED <<busy, late>>
      PROVE  ConnsOK'
  <2>1. Left' = Left
    BY <1>0, <1>3 DEF Left, ConnsOK
  <2> QED BY <1>0, <1>3, <2>1 DEF ConnsOK
<1>4. ASSUME Accept(c) \/ Handled(c) PROVE TypeOK'
  <2>1. ConnsOK'
    BY <1>3, <1>4 DEF Accept, Handled, Lives
  <2>2. HubOK'
    BY <1>0, <1>4 DEF Accept, Handled, HubOK
  <2> QED BY <1>2, <2>1, <2>2, TypeParts
<1>5. ASSUME Register(c) PROVE TypeOK'
  <2>1. ConnsOK'
    BY <1>3, <1>5 DEF Register, Lives
  <2>2. registerQ' = Append(registerQ, c) /\ Len(registerQ) < RegisterCap /\ registerQ \in Seq(Conns)
    BY <1>0, <1>5 DEF Register, HubOK
  <2>3. registerQ' \in Seq(Conns) /\ Len(registerQ') = Len(registerQ) + 1 /\ Len(registerQ) \in Nat
    BY <2>2, AppendProperties
  <2>4. Len(registerQ') <= RegisterCap
    BY <2>2, <2>3, ProcessAssumption
  <2>5. HubOK'
    BY <1>0, <1>5, <2>3, <2>4 DEF Register, HubOK
  <2> QED BY <1>2, <2>1, <2>5, TypeParts
<1>6. ASSUME StartPumps(c) PROVE TypeOK'
  <2>1. Left' = Left \cup {c}
    BY <1>0, <1>6 DEF StartPumps, Left, ConnsOK
  <2>2. conn' \in [Conns -> Lives]
    BY <1>0, <1>6 DEF StartPumps, ConnsOK, Lives
  <2>3. ConnsOK'
    BY <1>0, <1>6, <2>1, <2>2 DEF StartPumps, ConnsOK
  <2>4. HubOK'
    BY <1>0, <1>6 DEF StartPumps, HubOK
  <2> QED BY <1>2, <2>3, <2>4, TypeParts
<1>7. ASSUME HandleFrame(c) \/ FrameHandled(c) PROVE TypeOK'
  <2>1. Left' = Left /\ (conn[c] = "live" => c \in Left)
    BY <1>7 DEF HandleFrame, FrameHandled, Left
  <2>2. ConnsOK'
    BY <1>0, <1>7, <2>1 DEF HandleFrame, FrameHandled, ConnsOK
  <2>3. HubOK'
    BY <1>0, <1>7 DEF HandleFrame, FrameHandled, HubOK
  <2> QED BY <1>2, <2>2, <2>3, TypeParts
<1>8. ASSUME PumpsEnd(c) PROVE TypeOK'
  <2>1. Left' = Left \ {c}
    BY <1>0, <1>8 DEF PumpsEnd, Left, ConnsOK
  <2>2. conn' \in [Conns -> Lives]
    BY <1>0, <1>8 DEF PumpsEnd, ConnsOK, Lives
  <2>3. ConnsOK'
    BY <1>0, <1>8, <2>1, <2>2 DEF PumpsEnd, ConnsOK
  <2>4. HubOK'
    BY <1>0, <1>8 DEF PumpsEnd, HubOK
  <2> QED BY <1>2, <2>3, <2>4, TypeParts
<1> QED BY <1>4, <1>5, <1>6, <1>7, <1>8 DEF handleWebSocket, Pumps

(* Main, its goroutines and the servers move on.                           *)
LEMMA MainType ==
    ASSUME TypeOK, Start \/ Shutdown \/ HubRegister \/ HubQuit \/ Exited
                   \/ \E a \in Calls : StartCall(a) \/ EndCall(a)
    PROVE  TypeOK'
<1>0. MainOK /\ PartsOK /\ ConnsOK /\ HubOK
  BY TypeParts
<1>1. ASSUME UNCHANGED <<handlers, waiter, late>>, UNCHANGED main, PartsOK' PROVE TypeOK'
  BY <1>0, <1>1, StopType DEF handlers, MainOK, HubOK
<1>2. ASSUME main' = After(main), main \in AllStages \ {"db"}, PartsOK', UNCHANGED <<waiter, late>>,
             UNCHANGED <<conn, busy, registerQ, clients>>, cancelled' = cancelled \/ cancelled' = clients
      PROVE  TypeOK'
  <2>1. MainOK'
    BY <1>2, StageOrder DEF MainOK, AllStages, PastSubscribers, PastClients, PastWs, PastApi
  <2> QED BY <1>0, <1>2, <2>1, StopType DEF HubOK
<1>3. ASSUME Start PROVE TypeOK'
  <2>1. CASE Exit("fatal")
    BY <2>1, ExitType DEF Endings
  <2>2. CASE Boot /\ ~Exit("fatal")
    <3>1. MainOK' /\ PartsOK' /\ UNCHANGED <<handlers, waiter, late>>
      BY <1>0, <2>2 DEF Boot, MainOK, PartsOK, Servers, AllStages
    <3> QED BY <1>0, <3>1, StopType DEF handlers, HubOK
  <2>3. CASE StartServer
    <3>1. MainOK' /\ PartsOK'
      BY <1>0, <2>3 DEF StartServer, MainOK, PartsOK, Servers
    <3>2. UNCHANGED <<handlers, waiter>> /\ (late' = late \/ late' = late \cup {"ws"})
      BY <2>3 DEF StartServer
    <3> QED BY <1>0, <3>1, <3>2, StopType DEF handlers, HubOK
  <2>4. ASSUME NEW s \in Servers, Listen(s) \/ ServeFails(s), ~Exit("fatal") PROVE TypeOK'
    <3>1. PartsOK' /\ UNCHANGED <<main, handlers, waiter, late>>
      BY <1>0, <2>4 DEF Listen, ServeFails, PartsOK
    <3> QED BY <1>1, <3>1
  <2> QED BY <1>3, <2>1, <2>2, <2>3, <2>4 DEF Start
<1>4. ASSUME HubRegister PROVE TypeOK'
  <2>1. registerQ # <<>> /\ registerQ \in Seq(Conns) /\ registerQ' = Tail(registerQ)
        /\ clients' = clients \cup {Head(registerQ)}
    BY <1>0, <1>4 DEF HubRegister, HubOK
  <2>2. Head(registerQ) \in Conns /\ Tail(registerQ) \in Seq(Conns)
        /\ Len(Tail(registerQ)) = Len(registerQ) - 1 /\ Len(registerQ) \in Nat
    BY <2>1, HeadTailProperties
  <2>3. HubOK'
    BY <1>0, <1>4, <2>1, <2>2, ProcessAssumption DEF HubRegister, HubOK
  <2>4. Left' = Left /\ MainOK' /\ PartsOK'
    BY <1>0, <1>4 DEF HubRegister, MainOK, PartsOK, Left
  <2>5. ConnsOK'
    BY <1>0, <1>4, <2>4 DEF HubRegister, ConnsOK
  <2> QED BY <2>3, <2>4, <2>5, TypeParts
<1>5. ASSUME HubQuit \/ SubscribersStop \/ Deadline PROVE TypeOK'
  <2>1. PartsOK' /\ UNCHANGED <<main, handlers, waiter, late>>
    BY <1>0, <1>5 DEF HubQuit, SubscribersStop, Deadline, PartsOK
  <2> QED BY <1>1, <2>1
<1>6. ASSUME NEW a \in Calls, StartCall(a) \/ EndCall(a) PROVE TypeOK'
  <2>1. PartsOK' /\ UNCHANGED <<main, handlers, waiter, late>>
    BY <1>0, <1>6 DEF StartCall, EndCall, PartsOK
  <2> QED BY <1>1, <2>1
<1>7. ASSUME Exited PROVE TypeOK'
  <2>1. UNCHANGED <<main, handlers, waiter, late>> /\ PartsOK'
    BY <1>0, <1>7 DEF Exited, vars, PartsOK
  <2> QED BY <1>1, <2>1
<1>8. ASSUME Wait \/ (WaitReturns /\ ~Exit("panic")) PROVE TypeOK'
  <2>1. /\ MainOK' /\ PartsOK' /\ UNCHANGED <<handlers, late>>
        /\ waiter' \in {"none", "waiting", "woken", "returned"}
    BY <1>0, <1>8 DEF Wait, WaitReturns, MainOK, PartsOK
  <2> QED BY <2>1, StopType DEF handlers
<1>9. ASSUME CloseAll PROVE TypeOK'
  <2>1. /\ main' = After(main) /\ main \in AllStages \ {"db"} /\ PartsOK' /\ UNCHANGED <<waiter, late>>
        /\ UNCHANGED <<conn, busy, registerQ, clients>> /\ cancelled' = clients
    BY <1>0, <1>9 DEF CloseAll, PartsOK, AllStages
  <2> QED BY <1>2, <2>1
<1>10. ASSUME NEW s \in Servers, CloseServer(s), server[s] # "new" PROVE TypeOK'
  <2>1. PartsOK' /\ UNCHANGED <<main, handlers, waiter, late>>
    BY <1>0, <1>10 DEF CloseServer, PartsOK
  <2> QED BY <1>1, <2>1
<1>11. ASSUME \/ Signal \/ ClientsDrained \/ ClientsTimeOut \/ MetricsStopped \/ RedisClose
              \/ \E s \in Servers : ServerStopped(s) \/ (CloseServer(s) /\ server[s] = "new")
       PROVE  TypeOK'
  <2>1. main' = After(main) /\ UNCHANGED <<handlers, waiter, late>>
    BY <1>11 DEF Signal, ClientsDrained, ClientsTimeOut, MetricsStopped, RedisClose, ServerStopped, CloseServer
  <2>2. main \in AllStages \ {"db"}
    BY <1>11 DEF Signal, ClientsDrained, ClientsTimeOut, MetricsStopped, RedisClose, ServerStopped, CloseServer,
                 Servers, AllStages, PastSubscribers, PastClients, PastWs, PastApi
  <2>3. PartsOK'
    BY <1>0, <1>11 DEF Signal, ClientsDrained, ClientsTimeOut, MetricsStopped, RedisClose, ServerStopped,
                       CloseServer, PartsOK
  <2> QED BY <1>2, <2>1, <2>2, <2>3 DEF handlers
<1>12. ASSUME DbClose \/ Exit("panic") PROVE TypeOK'
  BY <1>12, ExitType DEF DbClose, Endings
<1>13. CASE Shutdown
  BY <1>5, <1>8, <1>9, <1>10, <1>11, <1>12, <1>13 DEF Shutdown, StopInOrder
<1> QED BY <1>3, <1>4, <1>5, <1>6, <1>7, <1>13

LEMMA TypeStep == TypeOK /\ [Next]_vars => TypeOK'
<1> SUFFICES ASSUME TypeOK, [Next]_vars PROVE TypeOK'
  OBVIOUS
<1>1. CASE UNCHANGED vars
  <2>1. MainOK' /\ PartsOK' /\ UNCHANGED <<handlers, waiter, late>>
    BY <1>1, TypeParts DEF vars, MainOK, PartsOK
  <2>2. waiter \in {"none", "waiting", "woken", "returned"}
    BY TypeParts DEF HubOK
  <2> QED BY <2>1, <2>2, StopType DEF handlers
<1> QED BY <1>1, ConnType, MainType DEF Next

(* Frames are handled on live connections only and the register channel    *)
(* keeps to its capacity, whatever the shutdown does meanwhile.            *)
THEOREM TypeCorrect == Spec => []TypeOK
<1> QED BY TypeInit, TypeStep, PTL DEF Spec

-----------------------------------------------------------------------------
(* The order of the stop.  What a stage waits for is gone when main is     *)
(* past it, and cannot come back: its source is closed by then, or what    *)
(* came through is in late.                                                *)
Opened ==
    /\ main \in AllStages => server["api"] # "new"
    /\ server["ws"] = "new" => Active("ws") = {}
Waited ==
    /\ waiter = "returned" => Left \subseteq late
    /\ main \in PastClients => waiter = "returned" \/ "clients" \in timeouts
Stopped ==
    main \in PastSubscribers => (wg => "subscribers" \in timeouts \/ "ws" \in late)
WsClosed ==
    main \in PastWs =>
        /\ server["ws"] \in {"new", "closed"} \/ "ws" \in late
        /\ Active("ws") # {} => "deadline" \in timeouts \/ "ws" \in late
ApiClosed ==
    main \in PastApi =>
        /\ server["api"] = "closed"
        /\ Active("api") # {} => "deadline" \in timeouts
StopInv == Opened /\ Waited /\ Stopped /\ WsClosed /\ ApiClosed

LEMMA StopParts ==
    /\ StopInv <=> Opened /\ Waited /\ Stopped /\ WsClosed /\ ApiClosed
    /\ StopInv' <=> Opened' /\ Waited' /\ Stopped' /\ WsClosed' /\ ApiClosed'
  BY DEF StopInv

LEMMA ActiveSets ==
    /\ Active("ws") = {c \in Conns : conn[c] = "handling"}
    /\ Active("ws")' = {c \in Conns : conn'[c] = "handling"}
    /\ Active("api") = {a \in Calls : calls[a] = "running"}
    /\ Active("api")' = {a \in Calls : calls'[a] = "running"}
  BY DEF Active

(* Nothing is left to wait for when the process is gone.                   *)
LEMMA ExitStops ==
    ASSUME NEW how \in Endings, Exit(how)
    PROVE  StopInv'
<1>1. /\ main' \notin AllStages /\ waiter' = "none" /\ Active("ws")' = {}
  BY ActiveSets DEF Exit, Endings, AllStages, PastSubscribers, PastClients, PastWs, PastApi
<1> QED BY <1>1 DEF StopInv, Opened, Waited, Stopped, WsClosed, ApiClosed,
                    AllStages, PastSubscribers, PastClients, PastWs, PastApi

(* A step that opens nothing and leaves main where it is.                  *)
LEMMA StaysStopped ==
    ASSUME StopInv, UNCHANGED main,
           server'["api"] = server["api"] \/ server'["api"] \in {"listening", "closed"},
           main \in PastApi => server'["api"] = "closed" \/ UNCHANGED server,
           server'["ws"] = "new" => server["ws"] = "new",
           server["ws"] \in {"new", "closed"} => \/ server'["ws"] \in {"new", "closed"}
                                                 \/ "ws" \in late' \/ main \notin PastWs,
           "ws" \in late => "ws" \in late',
           timeouts \subseteq timeouts',
           wg' => wg \/ "ws" \in late' \/ main \notin PastSubscribers,
           Active("ws")' \subseteq Active("ws") \/ (server["ws"] = "listening" /\ UNCHANGED server),
           Active("api")' \subseteq Active("api") \/ server["api"] # "closed",
           waiter' = "returned" => Left' \subseteq late',
           waiter = "returned" => waiter' = "returned"
    PROVE  StopInv'
<1>0. Opened /\ Waited /\ Stopped /\ WsClosed /\ ApiClosed
  BY DEF StopInv
<1>1. Opened'
  BY <1>0 DEF Opened
<1>2. Waited'
  BY <1>0 DEF Waited
<1>3. Stopped'
  BY <1>0 DEF Stopped
<1>4. WsClosed'
  BY <1>0 DEF WsClosed
<1>5. ApiClosed'
  BY <1>0 DEF ApiClosed
<1> QED BY <1>1, <1>2, <1>3, <1>4, <1>5, StopParts

LEMMA ConnStops ==
    ASSUME TypeOK, StopInv, NEW c \in Conns, handleWebSocket(c) \/ Pumps(c)
    PROVE  StopInv'
<1>0. Opened /\ Waited /\ conn \in [Conns -> Lives] /\ c # "ws"
      /\ late \subseteq Left \cup {"ws"}
  BY TypeParts, ProcessAssumption DEF StopInv, ConnsOK
<1>1. UNCHANGED <<main, server, hub, wg, calls, timeouts>>
  BY DEF handleWebSocket, Pumps, Accept, Handled, Register, StartPumps, HandleFrame, FrameHandled, PumpsEnd
<1>2. Active("api")' = Active("api")
  BY <1>1, ActiveSets
<1>3. ASSUME "ws" \in late => "ws" \in late', waiter' = "returned" => Left' \subseteq late',
             waiter = "returned" => waiter' = "returned",
             Active("ws")' \subseteq Active("ws") \/ server["ws"] = "listening"
      PROVE  StopInv'
  BY <1>1, <1>2, <1>3, StaysStopped
<1>4. CASE Accept(c)
  <2>1. Left' = Left
    BY <1>0, <1>4 DEF Accept, Left
  <2> QED BY <1>0, <1>3, <1>4, <2>1 DEF Accept, Waited
<1>5. CASE Handled(c) \/ Register(c)
  <2>1. Left' = Left
    BY <1>0, <1>5 DEF Handled, Register, Left
  <2>2. Active("ws")' \subseteq Active("ws")
    BY <1>0, <1>5, ActiveSets DEF Handled, Register
  <2> QED BY <1>0, <1>3, <1>5, <2>1, <2>2 DEF Handled, Register, Waited
<1>6. CASE StartPumps(c)
  <2>1. Left' = Left \cup {c}
    BY <1>0, <1>6 DEF StartPumps, Left
  <2>2. Active("ws")' \subseteq Active("ws")
    BY <1>0, <1>6, ActiveSets DEF StartPumps
  <2> QED BY <1>0, <1>3, <1>6, <2>1, <2>2 DEF StartPumps, Waited
<1>7. CASE HandleFrame(c) \/ FrameHandled(c)
  <2>1. Left' = Left /\ Active("ws")' \subseteq Active("ws")
    BY <1>7, ActiveSets DEF HandleFrame, FrameHandled, Left
  <2> QED BY <1>0, <1>3, <1>7, <2>1 DEF HandleFrame, FrameHandled, Waited
<1>8. CASE PumpsEnd(c)
  <2>1. Left' = Left \ {c}
    BY <1>0, <1>8 DEF PumpsEnd, Left
  <2>2. Active("ws")' \subseteq Active("ws")
    BY <1>0, <1>8, ActiveSets DEF PumpsEnd
  <2>3. /\ late' = late \ {c}
        /\ waiter' = waiter \/ (waiter' = "woken" /\ waiter = "waiting")
    BY <1>8 DEF PumpsEnd
  <2> QED BY <1>0, <1>3, <2>1, <2>2, <2>3 DEF Waited
<1> QED BY <1>4, <1>5, <1>6, <1>7, <1>8 DEF handleWebSocket, Pumps

(* Main goes on to the next stage: what it waited for is gone.             *)
LEMMA MainStops ==
    ASSUME TypeOK, StopInv,
           \/ Signal \/ CloseAll \/ ClientsDrained \/ ClientsTimeOut \/ MetricsStopped \/ RedisClose
           \/ \E s \in Servers : ServerStopped(s) \/ (CloseServer(s) /\ server[s] = "new")
    PROVE  StopInv'
<1>0. Opened /\ Waited /\ Stopped /\ WsClosed /\ ApiClosed
  BY DEF StopInv
<1>1. UNCHANGED <<server, wg, conn, calls, waiter, late>> /\ timeouts \subseteq timeouts' /\ main' = After(main)
  BY DEF Signal, CloseAll, ClientsDrained, ClientsTimeOut, MetricsStopped, RedisClose, ServerStopped,
         CloseServer, handlers
<1>2. Left' = Left /\ Active("ws")' = Active("ws") /\ Active("api")' = Active("api")
  BY <1>1, ActiveSets DEF Left
<1>3. main \in AllStages \ {"db"}
  BY DEF Signal, CloseAll, ClientsDrained, ClientsTimeOut, MetricsStopped, RedisClose, ServerStopped, CloseServer,
         Servers, AllStages, PastSubscribers, PastClients, PastWs, PastApi
<1>4. Opened' /\ (waiter' = "returned" => Left' \subseteq late')
  BY <1>0, <1>1, <1>2, <1>3 DEF Opened, Waited
<1>5. ASSUME main \in PastApi \ {"db"} PROVE StopInv'
  <2>1. main' \in PastApi
    BY <1>1, <1>5, StageOrder DEF PastApi
  <2> QED BY <1>0, <1>1, <1>2, <1>4, <1>5, <2>1 DEF StopInv, Waited, Stopped, WsClosed, ApiClosed,
             PastApi, PastWs, PastClients, PastSubscribers
<1>6. CASE main = "api"
  <2>1. main' = "metrics"
    BY <1>1, <1>6, StageOrder
  <2>2. server["api"] # "new"
    BY <1>0, <1>6 DEF Opened, AllStages, PastSubscribers, PastClients, PastWs
  <2>3. server["api"] = "closed" /\ (Active("api") = {} \/ "deadline" \in timeouts)
    BY <1>6, <2>2 DEF Signal, CloseAll, ClientsDrained, ClientsTimeOut, MetricsStopped, RedisClose,
                      ServerStopped, CloseServer
  <2>4. ApiClosed'
    BY <1>1, <1>2, <2>3 DEF ApiClosed
  <2> QED BY <1>0, <1>1, <1>2, <1>4, <1>6, <2>1, <2>4 DEF StopInv, Waited, Stopped, WsClosed,
             PastApi, PastWs, PastClients, PastSubscribers
<1>7. CASE main = "ws"
  <2>1. main' = "api"
    BY <1>1, <1>7, StageOrder
  <2>2. /\ server["ws"] \in {"new", "closed"}
        /\ Active("ws") = {} \/ "deadline" \in timeouts
    BY <1>0, <1>7 DEF Signal, CloseAll, ClientsDrained, ClientsTimeOut, MetricsStopped, RedisClose,
                      ServerStopped, CloseServer, Opened
  <2>3. WsClosed'
    BY <1>1, <1>2, <2>2 DEF WsClosed
  <2> QED BY <1>0, <1>1, <1>2, <1>4, <1>7, <2>1, <2>3 DEF StopInv, Waited, Stopped, ApiClosed,
             PastApi, PastWs, PastClients, PastSubscribers
<1>8. CASE main = "clients"
  <2>1. main' = "ws"
    BY <1>1, <1>8, StageOrder
  <2>2. waiter = "returned" \/ "clients" \in timeouts'
    BY <1>8 DEF Signal, CloseAll, ClientsDrained, ClientsTimeOut, MetricsStopped, RedisClose,
                ServerStopped, CloseServer, Servers
  <2> QED BY <1>0, <1>1, <1>2, <1>4, <1>8, <2>1, <2>2 DEF StopInv, Waited, Stopped, WsClosed, ApiClosed,
             PastApi, PastWs, PastClients, PastSubscribers
<1>9. CASE main = "subscribers"
  <2>1. main' = "clients"
    BY <1>1, <1>9, StageOrder
  <2>2. wg => "subscribers" \in timeouts'
    BY <1>9 DEF Signal, CloseAll, ClientsDrained, ClientsTimeOut, MetricsStopped, RedisClose,
                ServerStopped, CloseServer, Servers
  <2> QED BY <1>1, <1>4, <2>1, <2>2 DEF StopInv, Waited, Stopped, WsClosed, ApiClosed,
             PastApi, PastWs, PastClients, PastSubscribers
<1>10. CASE main = "serving"
  <2>1. main' = "subscribers"
    BY <1>1, <1>10, StageOrder
  <2> QED BY <1>4, <2>1 DEF StopInv, Waited, Stopped, WsClosed, ApiClosed,
             PastApi, PastWs, PastClients, PastSubscribers
<1> QED BY <1>3, <1>5, <1>6, <1>7, <1>8, <1>9, <1>10 DEF AllStages, PastApi, PastWs, PastClients, PastSubscribers

LEMMA StopStep == TypeOK /\ StopInv /\ [Next]_vars => StopInv'
<1> SUFFICES ASSUME TypeOK, StopInv, [Next]_vars PROVE StopInv'
  OBVIOUS
<1>0. /\ Opened /\ Waited /\ Stopped /\ WsClosed /\ ApiClosed
      /\ server \in [Servers -> {"new", "assigned", "listening", "closed"}]
      /\ "ws" \in Servers /\ "api" \in Servers
      /\ calls \in [Calls -> {"idle", "running"}]
  BY TypeParts DEF StopInv, PartsOK, Servers
<1>1. ASSUME UNCHANGED <<main, server, conn, calls, late>>, timeouts \subseteq timeouts', wg' => wg,
             waiter' = "returned" => Left \subseteq late, waiter = "returned" => waiter' = "returned"
      PROVE  StopInv'
  <2>1. Left' = Left /\ Active("ws")' = Active("ws") /\ Active("api")' = Active("api")
    BY <1>1, ActiveSets DEF Left
  <2> QED BY <1>1, <2>1, StaysStopped
<1>2. CASE HubRegister \/ HubQuit \/ SubscribersStop \/ Deadline \/ UNCHANGED vars \/ Exited
  BY <1>0, <1>1, <1>2 DEF HubRegister, HubQuit, SubscribersStop, Deadline, vars, Exited, handlers, Waited
<1>3. CASE Wait \/ (WaitReturns /\ ~Exit("panic"))
  BY <1>1, <1>3 DEF Wait, WaitReturns, handlers
<1>4. CASE \/ Exit("fatal") \/ Exit("panic") \/ DbClose
  BY <1>4, ExitStops DEF DbClose, Endings
<1>5. CASE Boot /\ ~Exit("fatal")
  <2>1. /\ main = "boot" /\ main' = "serving" /\ server' = [server EXCEPT !["api"] = "assigned"]
        /\ UNCHANGED <<handlers, late, waiter>>
    BY <1>5 DEF Boot
  <2>2. Left' = Left /\ Active("ws")' = Active("ws")
    BY <2>1, ActiveSets DEF Left, handlers
  <2>3. server'["api"] = "assigned" /\ server'["ws"] = server["ws"]
    BY <1>0, <2>1
  <2> QED BY <1>0, <2>1, <2>2, <2>3 DEF StopInv, Opened, Waited, Stopped, WsClosed, ApiClosed,
             PastApi, PastWs, PastClients, PastSubscribers
<1>6. CASE StartServer
  <2>1. /\ server' = [server EXCEPT !["ws"] = "assigned"] /\ server["ws"] = "new"
        /\ UNCHANGED <<main, handlers, calls, waiter, timeouts>>
        /\ late \subseteq late' /\ (main # "serving" => "ws" \in late')
    BY <1>6 DEF StartServer
  <2>2. Left' = Left /\ Active("ws")' = Active("ws") /\ Active("api")' = Active("api")
    BY <2>1, ActiveSets DEF Left, handlers
  <2>3. server'["ws"] = "assigned" /\ server'["api"] = server["api"]
    BY <1>0, <2>1
  <2>4. main \in PastSubscribers => "ws" \in late'
    BY <2>1 DEF PastSubscribers, PastClients, PastWs, PastApi
  <2>5. main \in PastWs => "ws" \in late'
    BY <2>4 DEF PastSubscribers, PastClients
  <2>6. Opened' /\ Waited' /\ Stopped'
    BY <1>0, <2>1, <2>2, <2>3, <2>4 DEF Opened, Waited, Stopped
  <2>7. WsClosed' /\ ApiClosed'
    BY <1>0, <2>1, <2>2, <2>3, <2>5 DEF WsClosed, ApiClosed
  <2> QED BY <2>6, <2>7, StopParts
<1>7. ASSUME NEW s \in Servers, \/ Listen(s) \/ (ServeFails(s) /\ ~Exit("fatal"))
                                \/ (CloseServer(s) /\ server[s] # "new")
      PROVE  StopInv'
  <2>1. /\ \/ server' = [server EXCEPT ![s] = "closed"]
           \/ server' = [server EXCEPT ![s] = "listening"] /\ server[s] = "assigned"
        /\ server[s] # "new"
        /\ UNCHANGED <<main, wg, handlers, calls, waiter, timeouts, late>>
    BY <1>7 DEF Listen, ServeFails, CloseServer
  <2>2. Left' = Left /\ Active("ws")' = Active("ws") /\ Active("api")' = Active("api")
    BY <2>1, ActiveSets DEF Left, handlers
  <2>3. \A z \in Servers : server'[z] = IF z = s THEN server'[s] ELSE server[z]
    BY <1>0, <2>1
  <2>4. /\ server'[s] \in {"closed", "listening"} /\ (server[s] = "closed" => server'[s] = "closed")
    BY <1>0, <2>1
  <2>5. Opened' /\ Waited' /\ Stopped'
    BY <1>0, <2>1, <2>2, <2>3, <2>4 DEF Opened, Waited, Stopped
  <2>6. WsClosed' /\ ApiClosed'
    BY <1>0, <2>1, <2>2, <2>3, <2>4 DEF WsClosed, ApiClosed
  <2> QED BY <2>5, <2>6, StopParts
<1>8. ASSUME NEW a \in Calls, StartCall(a) \/ EndCall(a) PROVE StopInv'
  <2>1. UNCHANGED <<main, server, wg, handlers, waiter, timeouts, late>>
    BY <1>8 DEF StartCall, EndCall
  <2>2. Left' = Left /\ Active("ws")' = Active("ws")
    BY <2>1, ActiveSets DEF Left, handlers
  <2>3. Active("api")' \subseteq Active("api") \/ server["api"] = "listening"
    BY <1>0, <1>8, ActiveSets DEF StartCall, EndCall
  <2>4. Opened' /\ Waited' /\ Stopped' /\ WsClosed'
    BY <1>0, <2>1, <2>2 DEF Opened, Waited, Stopped, WsClosed
  <2>5. ApiClosed'
    BY <1>0, <2>1, <2>3 DEF ApiClosed
  <2> QED BY <2>4, <2>5, StopParts
<1>9. CASE Start
  BY <1>4, <1>5, <1>6, <1>7, <1>9 DEF Start
<1>10. CASE Shutdown
  BY <1>2, <1>3, <1>4, <1>7, <1>10, MainStops DEF Shutdown, StopInOrder
<1> QED BY <1>2, <1>8, <1>9, <1>10, ConnStops DEF Next

(* Redis and the pool are closed under nobody who could still use them,    *)
(* for any number of connections and calls, but after a wait that timed    *)
(* out or for what started too late to be waited for.                      *)
THEOREM StoresClosedLast == Spec => []StoresOutliveUsers
<1>1. Init => StopInv
  <2> SUFFICES ASSUME Init PROVE StopInv
    OBVIOUS
  <2>1. Active("ws") = {} /\ main = "boot" /\ waiter = "none"
    BY ActiveSets DEF Init
  <2> QED BY <2>1 DEF StopInv, Opened, Waited, Stopped, WsClosed, ApiClosed,
             AllStages, PastSubscribers, PastClients, PastWs, PastApi
<1>2. StopInv => StoresOutliveUsers
  BY DEF StopInv, Waited, Stopped, WsClosed, ApiClosed, StoresOutliveUsers,
         PastSubscribers, PastClients, PastWs, PastApi
<1> QED BY <1>1, <1>2, TypeInit, TypeStep, StopStep, PTL DEF Spec
==============================================================================
