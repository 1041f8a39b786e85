------------------------- MODULE ServerLifecycleProofs -------------------------
(***************************************************************************)
(* The safety properties of ServerLifecycle, for any number of connections *)
(* and calls.  The invariant says how far each part is when main has       *)
(* reached a given line: Exited includes the return of main after a        *)
(* shutdown, but not os.Exit during startup, when no server ever ran, nor  *)
(* the end by a signal.                                                    *)
(***************************************************************************)
EXTENDS ServerLifecycle, TLAPS

Startup == {"connect", "cache", "bootstrap", "start"}
Exited == main = "exited" /\ restGo # "none"
Past(places) == main \in places \/ Exited

Running(go) == IF go \in {"listen", "serve"} THEN 1 ELSE 0

\* The WaitGroup counts the goroutines that have not ended.
Counted ==
  /\ wg = Running(restGo) + Running(grpcGo)
  /\ restGo = "none" <=> grpcGo = "none"
  /\ main \in Startup => restGo = "none"
  /\ main \notin Startup \cup {"exited", "killed"} => restGo # "none"

\* Nothing stops before the shutdown was asked for.
Asked ==
  /\ rest = "stopped" \/ grpc = "stopped" => ctx # "live"
  /\ Past({"shutdown", "drain_rest", "stop", "drain_grpc", "join",
           "close_cache", "close_db"}) => ctx # "live"

\* How far the shutdown has come.
Stopped ==
  /\ Past({"drain_rest", "stop", "drain_grpc", "join", "close_cache", "close_db"})
       => rest = "stopped"
  /\ Past({"stop", "drain_grpc", "join", "close_cache", "close_db"})
       => idle = {} /\ (busy \cap RestConn # {} => timedOut)
  /\ Past({"drain_grpc", "join", "close_cache", "close_db"}) => grpc = "stopped"
  /\ Past({"join", "close_cache", "close_db"}) => ~clients /\ busy \cap Rpc = {}
  /\ Past({"close_cache", "close_db"}) => wg = 0

\* Both stores are open until main's deferred closes.
Opened ==
  /\ main = "connect" => stores = {}
  /\ main = "cache" => stores = {"mysql"}
  /\ main \in {"bootstrap", "start", "wait", "shutdown", "drain_rest", "stop",
               "drain_grpc", "join", "close_cache"} => stores = {"mysql", "redis"}

\* While no server has failed, GracefulStop alone stops gRPC; a goroutine that
\* then finds its server stopped calls cancel(), when no handler is waited for.
Waited ==
  /\ grpcGo = "none" => grpc = "new"
  /\ grpcGo \in {"none", "listen"} => grpc # "serving" /\ ~clients /\ busy \cap Rpc = {}
  /\ grpc = "stopped" /\ ~failed /\ main # "killed" =>
       Past({"drain_grpc", "join", "close_cache", "close_db"})
  /\ ctx = "cancelled" /\ ~failed =>
       /\ grpc = "stopped" /\ ~clients /\ busy \cap Rpc = {}
       /\ busy \cap RestConn # {} => timedOut
  /\ main = "killed" => ctx = "cancelled"

IInv ==
  /\ TypeOK /\ Counted /\ Asked /\ NoServerDiesAlone /\ Stopped /\ Opened
  /\ Waited /\ StoresOutliveHandlers

-----------------------------------------------------------------------------
LEMMA InitInv == Init => IInv
<1> SUFFICES ASSUME Init PROVE IInv
  OBVIOUS
<1> USE DEF Init
<1>1. TypeOK
  <2>1. wg \in 0..2
    OBVIOUS
  <2>2. QED
    BY <2>1, Zenon DEF TypeOK, Main, Server, Goroutine
<1>2. Counted
  BY DEF Counted, Running, Startup
<1>3. Asked /\ NoServerDiesAlone /\ Stopped /\ Opened /\ Waited /\ StoresOutliveHandlers
  BY DEF Asked, NoServerDiesAlone, Stopped, Opened, Waited,
            StoresOutliveHandlers, Past, Exited
<1>4. QED
  BY <1>1, <1>2, <1>3 DEF IInv

\* main's own steps.
LEMMA MainInv == ASSUME IInv, MainStep PROVE IInv'
<1> USE DEF IInv, TypeOK, Main, Server, Goroutine, Counted, Running, Startup,
            Exited, Past, Asked, NoServerDiesAlone, Stopped, Opened, Waited,
            StoresOutliveHandlers, Goes,
            servers, requests
<1>1. CASE Connect("connect", "cache", "mysql")
  BY <1>1 DEF Connect
<1>2. CASE Connect("cache", "bootstrap", "redis")
  BY <1>2 DEF Connect
<1>3. CASE BootstrapAdmin
  BY <1>3 DEF BootstrapAdmin
<1>4. CASE StartServers
  BY <1>4 DEF StartServers
<1>5. CASE Awake
  BY <1>5 DEF Awake
<1>6. CASE Shutdown
  BY <1>6 DEF Shutdown
<1>7. CASE RestDrained
  BY <1>7 DEF RestDrained
<1>8. CASE GracefulStop
  BY <1>8 DEF GracefulStop
<1>9. CASE GoAway
  BY <1>9 DEF GoAway
<1>10. CASE GrpcDrained
  BY <1>10 DEF GrpcDrained
<1>11. CASE Join
  BY <1>11 DEF Join
<1>12. CASE Close("close_cache", "close_db", "redis")
  BY <1>12 DEF Close
<1>13. CASE Close("close_db", "exited", "mysql")
  BY <1>13 DEF Close
<1>14. QED
  BY <1>1, <1>2, <1>3, <1>4, <1>5, <1>6, <1>7, <1>8, <1>9, <1>10, <1>11, <1>12,
     <1>13, MainStep DEF MainStep

\* The signal, the timer and the server goroutines.
LEMMA ServerInv ==
  ASSUME IInv,
         Signal \/ Timeout \/ RestStep \/ RestFails \/ GrpcStep \/ GrpcFails
  PROVE  IInv'
<1> USE DEF IInv, TypeOK, Main, Server, Goroutine, Counted, Running, Startup,
            Exited, Past, Asked, NoServerDiesAlone, Stopped, Opened, Waited,
            StoresOutliveHandlers, Alive,
            servers, requests
<1>1. CASE Signal
  BY <1>1 DEF Signal
<1>2. CASE Timeout
  BY <1>2 DEF Timeout
<1>3. CASE RestListen
  BY <1>3 DEF RestListen
<1>4. CASE RestClosed
  BY <1>4 DEF RestClosed
<1>5. CASE RestFails
  BY <1>5 DEF RestFails
<1>6. CASE GrpcListen
  BY <1>6 DEF GrpcListen
<1>7. CASE GrpcClosed
  BY <1>7 DEF GrpcClosed
<1>8. CASE GrpcFails
  BY <1>8 DEF GrpcFails
<1>9. QED
  BY <1>1, <1>2, <1>3, <1>4, <1>5, <1>6, <1>7, <1>8 DEF RestStep, GrpcStep

\* A request or call may come only while its server's connections are open.
LEMMA RequestInv ==
  ASSUME IInv,
         \/ \E h \in RestConn : RestRequest(h) \/ RestEnd(h)
         \/ GrpcConnect
         \/ \E p \in Rpc : Call(p) \/ CallEnd(p)
  PROVE  IInv'
<1> USE ConnAssumption DEF IInv, TypeOK, Main, Server, Goroutine, Counted, Running,
        Startup, Exited, Past, Asked, NoServerDiesAlone, Stopped, Opened, Waited,
            StoresOutliveHandlers, Alive,
        servers
<1>1. CASE \E h \in RestConn : RestRequest(h)
  BY <1>1 DEF RestRequest
<1>2. CASE \E h \in RestConn : RestEnd(h)
  BY <1>2 DEF RestEnd
<1>3. CASE GrpcConnect
  BY <1>3 DEF GrpcConnect
<1>4. CASE \E p \in Rpc : Call(p)
  BY <1>4 DEF Call
<1>5. CASE \E p \in Rpc : CallEnd(p)
  BY <1>5 DEF CallEnd
<1>6. QED
  BY <1>1, <1>2, <1>3, <1>4, <1>5

LEMMA StepInv == IInv /\ [Next]_vars => IInv'
<1> SUFFICES ASSUME IInv, [Next]_vars PROVE IInv'
  OBVIOUS
<1>1. CASE Next
  BY <1>1, MainInv, ServerInv, RequestInv DEF Next
<1>2. CASE UNCHANGED vars
  BY <1>2 DEF vars, servers, requests, IInv, TypeOK, Counted, Startup, Exited,
              Past, Asked, NoServerDiesAlone, Stopped, Opened, Waited,
            StoresOutliveHandlers
<1>3. QED
  BY <1>1, <1>2

-----------------------------------------------------------------------------
\* The inductive invariant holds of every behaviour of main.
THEOREM Invariance == Spec => []IInv
  BY InitInv, StepInv, PTL DEF Spec

\* Every variable keeps its type; in particular wg.Done is never called on a
\* WaitGroup at zero, where it panics.
THEOREM TypeCorrect == Spec => []TypeOK
<1>1. IInv => TypeOK
  BY DEF IInv
<1>2. QED
  BY <1>1, Invariance, PTL

\* A server goroutine ends only once the shutdown of both was asked for.
THEOREM ServersDieTogether == Spec => []NoServerDiesAlone
<1>1. IInv => NoServerDiesAlone
  BY DEF IInv
<1>2. QED
  BY <1>1, Invariance, PTL

\* No gRPC call and no server goroutine runs when a store is closed, and REST
\* handlers do only after the ten seconds.
THEOREM HandlersBeforeStores == Spec => []StoresOutliveHandlers
<1>1. IInv => StoresOutliveHandlers
  BY DEF IInv
<1>2. QED
  BY <1>1, Invariance, PTL

\* No signal, however often it is sent, cuts off a handler before the ten seconds
\* while no server has failed.
THEOREM SignalsKillNoHandler == Spec => []SignalsWait
<1>1. IInv => SignalsWait
  BY DEF IInv, Waited, SignalsWait
<1>2. QED
  BY <1>1, Invariance, PTL

-----------------------------------------------------------------------------
(* What makes every shutdown end (ShutdownEnds needs fairness besides).    *)

\* The lines of main, and how many of them are left.
Left ==
  [m \in Main |->
     CASE m = "connect" -> 12 [] m = "cache" -> 11 [] m = "bootstrap" -> 10
       [] m = "start" -> 9 [] m = "wait" -> 8 [] m = "shutdown" -> 7
       [] m = "drain_rest" -> 6 [] m = "stop" -> 5 [] m = "drain_grpc" -> 4
       [] m = "join" -> 3 [] m = "close_cache" -> 2 [] m = "close_db" -> 1
       [] m \in {"exited", "killed"} -> 0]

\* main never waits in vain: no gRPC client can connect once it waits for them to
\* leave, and when it joins the goroutines, one that has not ended finds its
\* listener stopped, which is what makes ListenAndServe and Serve return.
NoWaitInVain ==
  /\ main = "drain_grpc" => grpc = "stopped"
  /\ main = "join" =>
       \/ wg = 0
       \/ restGo \in {"listen", "serve"} /\ rest = "stopped"
       \/ grpcGo \in {"listen", "serve"} /\ grpc = "stopped"

\* Whatever main waits for at the end of a shutdown can come about.
THEOREM WaitsAreMet == Spec => []NoWaitInVain
<1>1. IInv => NoWaitInVain
  BY DEF IInv, TypeOK, Goroutine, Counted, Running, Stopped, Past, NoWaitInVain
<1> QED
  BY <1>1, Invariance, PTL

\* Nothing that a shutdown has achieved is undone: it is not called off, main goes
\* through its lines once, until its last or a signal's end, what stopped or ended
\* stays so, and while main waits for gRPC calls, clients that were sent away stay
\* away and calls only end.
Advances ==
  /\ ctx # "live" => ctx' # "live"
  /\ main' = main \/ Left[main'] < Left[main]
  /\ rest = "stopped" => rest' = "stopped"
  /\ grpc = "stopped" => grpc' = "stopped"
  /\ restGo = "done" => restGo' = "done"
  /\ grpcGo = "done" => grpcGo' = "done"
  /\ timedOut => timedOut'
  /\ grpc = "stopped" /\ ~clients => ~clients' /\ busy' \cap Rpc \subseteq busy

LEMMA LinesLeft ==
  /\ Left["connect"] = 12 /\ Left["cache"] = 11 /\ Left["bootstrap"] = 10
  /\ Left["start"] = 9 /\ Left["wait"] = 8 /\ Left["shutdown"] = 7
  /\ Left["drain_rest"] = 6 /\ Left["stop"] = 5 /\ Left["drain_grpc"] = 4
  /\ Left["join"] = 3 /\ Left["close_cache"] = 2 /\ Left["close_db"] = 1
  /\ Left["exited"] = 0 /\ Left["killed"] = 0
  BY DEF Left, Main

LEMMA MainAdvances ==
  ASSUME IInv, MainStep
  PROVE  Advances
<1>1. main \in Main
  BY DEF IInv, TypeOK
<1>2. CASE GoAway
  BY LinesLeft, <1>1, <1>2 DEF GoAway, Advances, servers, Main
<1>3. CASE /\ Left[main'] < Left[main]
           /\ UNCHANGED <<ctx, wg, timedOut, busy, clients>>
           /\ rest' \in {rest, "stopped"} /\ grpc' \in {grpc, "stopped"}
           /\ restGo = "done" => restGo' = "done"
           /\ grpcGo = "done" => grpcGo' = "done"
  BY <1>3 DEF Advances
<1>4. CASE StartServers
  BY LinesLeft, <1>4 DEF StartServers, Goes, Advances, requests, IInv, Counted, Startup
<1>5. CASE \/ Connect("connect", "cache", "mysql") \/ Connect("cache", "bootstrap", "redis")
           \/ BootstrapAdmin \/ Awake \/ GrpcDrained \/ Join
           \/ Close("close_cache", "close_db", "redis") \/ Close("close_db", "exited", "mysql")
           \/ RestDrained
  BY LinesLeft, <1>3, <1>5 DEF Connect, BootstrapAdmin, Awake, GrpcDrained, Join, Close,
                          RestDrained, Goes, servers, requests
<1>6. CASE Shutdown \/ GracefulStop
  BY LinesLeft, <1>3, <1>6 DEF Shutdown, GracefulStop, Goes, requests
<1> QED
  BY <1>2, <1>4, <1>5, <1>6 DEF MainStep

\* Every step of the process keeps what a shutdown has achieved, for any number
\* of connections and calls.
THEOREM ShutdownAdvances == Spec => [][Advances]_vars
<1>1. ASSUME IInv, Next PROVE Advances
  <2> USE DEF IInv, TypeOK, Advances, servers, requests
  <2>1. CASE MainStep
    BY <1>1, <2>1, MainAdvances
  <2>2. CASE Signal \/ Timeout
    BY <1>1, <2>2, LinesLeft DEF Signal, Timeout, Alive, Main
  <2>3. CASE RestStep \/ RestFails \/ GrpcStep \/ GrpcFails
    BY <1>1, <2>3 DEF RestStep, RestListen, RestClosed, RestFails, GrpcStep, GrpcListen,
                GrpcClosed, GrpcFails
  <2>4. CASE \E h \in RestConn : RestRequest(h) \/ RestEnd(h)
    BY <1>1, <2>4, ConnAssumption DEF RestRequest, RestEnd
  <2>5. CASE GrpcConnect \/ \E p \in Rpc : Call(p) \/ CallEnd(p)
    BY <1>1, <2>5 DEF GrpcConnect, Call, CallEnd
  <2> QED
    BY <1>1, <2>1, <2>2, <2>3, <2>4, <2>5 DEF Next
<1> QED
  BY <1>1, Invariance, PTL DEF Spec
=============================================================================
