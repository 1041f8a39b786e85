---------------------------- MODULE ServerLifecycle ----------------------------
(***************************************************************************)
(* cmd/server/main.go: one process, in which main and the two goroutines   *)
(* that serve REST and gRPC start up and shut down, with the handlers of   *)
(* the requests they accepted.  A signal may come at any moment, a         *)
(* listener may fail at once or later, and a handler may never end.        *)
(*                                                                         *)
(* An operator named Mut... is no part of the model: it is the operator    *)
(* that follows it with a plausible bug, for testing the properties.       *)
(***************************************************************************)
EXTENDS Integers

CONSTANTS
  RestConn,  \* connections REST may accept
  Rpc        \* calls gRPC may accept

ASSUME ConnAssumption == RestConn \cap Rpc = {}

VARIABLES
  main,      \* what main is about to do
  ctx,       \* the context of signal.NotifyContext: "live", "signalled" once a signal
             \* ended it, "cancelled" once cancel() was called, which also gives the
             \* signals their default action back
  stores,    \* what is open of {"mysql", "redis"}
  rest, grpc,      \* the listener of each server
  restGo, grpcGo,  \* the goroutine of each server
  wg,        \* the counter of the WaitGroup
  timedOut,  \* shutdownCtx has expired
  busy,      \* the connections and calls with a handler that has not ended
  idle,      \* REST connections kept alive between requests
  clients,   \* some gRPC client is connected and was not told to go away
  failed     \* for the properties only: a server has failed

servers == <<rest, grpc, restGo, grpcGo, wg>>
requests == <<busy, idle, clients>>
vars == <<main, ctx, stores, servers, timedOut, requests, failed>>

Main == {"connect", "cache", "bootstrap", "start", "wait", "shutdown", "drain_rest",
         "stop", "drain_grpc", "join", "close_cache", "close_db", "exited", "killed"}
Server == {"new", "serving", "stopped"}
Goroutine == {"none", "listen", "serve", "done"}

TypeOK ==
  /\ main \in Main
  /\ ctx \in {"live", "signalled", "cancelled"}
  /\ stores \subseteq {"mysql", "redis"}
  /\ rest \in Server /\ grpc \in Server
  /\ restGo \in Goroutine /\ grpcGo \in Goroutine
  /\ wg \in 0..2
  /\ timedOut \in BOOLEAN
  /\ busy \subseteq RestConn \cup Rpc
  /\ idle \subseteq RestConn \ busy
  /\ clients \in BOOLEAN
  /\ failed \in BOOLEAN

\* Once signal.NotifyContext has been called.
Init ==
  /\ main = "connect"
  /\ ctx = "live"
  /\ stores = {}
  /\ rest = "new" /\ grpc = "new"
  /\ restGo = "none" /\ grpcGo = "none"
  /\ wg = 0
  /\ timedOut = FALSE
  /\ busy = {} /\ idle = {} /\ clients = FALSE
  /\ failed = FALSE

Goes(from, to) == main = from /\ main' = to
Alive == main \notin {"exited", "killed"}

-----------------------------------------------------------------------------
(* main.                                                                   *)

\* SIGINT or SIGTERM.  Those after the first are caught and do nothing, until
\* cancel() has been called: then one kills the process, with no deferred close.
Signal ==
  /\ Alive
  /\ \/ ctx # "cancelled" /\ ctx' = "signalled" /\ UNCHANGED main
     \/ ctx = "cancelled" /\ main' = "killed" /\ UNCHANGED ctx
  /\ UNCHANGED <<stores, servers, timedOut, requests, failed>>

\* Connect pings under ctx; when that fails, os.Exit(1).
Connect(from, to, store) ==
  /\ \/ /\ ctx = "live"
        /\ Goes(from, to)
        /\ stores' = stores \cup {store}
     \/ Goes(from, "exited") /\ UNCHANGED stores
  /\ UNCHANGED <<ctx, servers, timedOut, requests, failed>>

\* An error of bootstrapAdmin is only a warning.
BootstrapAdmin ==
  /\ Goes("bootstrap", "start")
  /\ UNCHANGED <<ctx, stores, servers, timedOut, requests, failed>>

StartServers ==
  /\ Goes("start", "wait")
  /\ restGo' = "listen" /\ grpcGo' = "listen"
  /\ wg' = 2
  /\ UNCHANGED <<ctx, stores, rest, grpc, timedOut, requests, failed>>

MutAwake == \* then cancel(), so that a second signal need not wait
  /\ ctx # "live"
  /\ Goes("wait", "shutdown")
  /\ ctx' = "cancelled"
  /\ UNCHANGED <<stores, servers, timedOut, requests, failed>>
\* <-ctx.Done().
Awake ==
  /\ ctx # "live"
  /\ Goes("wait", "shutdown")
  /\ UNCHANGED <<ctx, stores, servers, timedOut, requests, failed>>

\* httpSrv.Shutdown closes the listener, then idle connections, and waits for
\* the others, but no longer than shutdownCtx.
Shutdown ==
  /\ Goes("shutdown", "drain_rest")
  /\ rest' = "stopped"
  /\ UNCHANGED <<ctx, stores, grpc, restGo, grpcGo, wg, timedOut, requests, failed>>

\* shutdownCtx := context.Background()
MutTimeout == FALSE /\ UNCHANGED vars
\* Ten seconds have passed since the shutdown began.
Timeout ==
  /\ main = "drain_rest"
  /\ ~timedOut
  /\ timedOut' = TRUE
  /\ UNCHANGED <<main, ctx, stores, servers, requests, failed>>

RestDrained ==
  /\ busy \cap RestConn = {} \/ timedOut
  /\ Goes("drain_rest", "stop")
  /\ idle' = {}
  /\ UNCHANGED <<ctx, stores, servers, timedOut, busy, clients, failed>>

\* gs.GracefulStop closes the listener, tells every client to go away, accepts
\* the calls that crossed this, and waits for the pending ones.
GracefulStop ==
  /\ Goes("stop", "drain_grpc")
  /\ grpc' = "stopped"
  /\ UNCHANGED <<ctx, stores, rest, restGo, grpcGo, wg, timedOut, requests, failed>>

GoAway ==
  /\ main = "drain_grpc"
  /\ clients
  /\ clients' = FALSE
  /\ UNCHANGED <<main, ctx, stores, servers, timedOut, busy, idle, failed>>

MutGrpcDrained == \* gs.Stop()
  /\ Goes("drain_grpc", "join")
  /\ UNCHANGED <<ctx, stores, servers, timedOut, requests, failed>>
GrpcDrained ==
  /\ ~clients
  /\ busy \cap Rpc = {}
  /\ Goes("drain_grpc", "join")
  /\ UNCHANGED <<ctx, stores, servers, timedOut, requests, failed>>

\* wg.Wait().
Join ==
  /\ wg = 0
  /\ Goes("join", "close_cache")
  /\ UNCHANGED <<ctx, stores, servers, timedOut, requests, failed>>

\* The deferred closes, last opened first; then main returns.
Close(from, to, store) ==
  /\ Goes(from, to)
  /\ stores' = stores \ {store}
  /\ UNCHANGED <<ctx, servers, timedOut, requests, failed>>

-----------------------------------------------------------------------------
(* The server goroutines; each ends with the deferred wg.Done().          *)

RestListen ==
  /\ Alive
  /\ restGo = "listen" /\ rest = "new"
  /\ rest' = "serving" /\ restGo' = "serve"
  /\ UNCHANGED <<main, ctx, stores, grpc, grpcGo, wg, timedOut, requests, failed>>

MutRestFails == \* the error is only logged
  /\ Alive
  /\ restGo \in {"listen", "serve"} /\ rest # "stopped"
  /\ restGo' = "done" /\ rest' = "stopped" /\ wg' = wg - 1
  /\ UNCHANGED <<main, ctx, stores, grpc, grpcGo, timedOut, requests, failed>>
\* The port is taken, or Accept fails: cancel().
RestFails ==
  /\ Alive
  /\ restGo \in {"listen", "serve"} /\ rest # "stopped"
  /\ restGo' = "done" /\ rest' = "stopped" /\ wg' = wg - 1
  /\ ctx' = "cancelled" /\ failed' = TRUE
  /\ UNCHANGED <<main, stores, grpc, grpcGo, timedOut, requests>>

\* ListenAndServe returns http.ErrServerClosed, at once if Shutdown came first.
RestClosed ==
  /\ Alive
  /\ restGo \in {"listen", "serve"} /\ rest = "stopped"
  /\ restGo' = "done" /\ wg' = wg - 1
  /\ UNCHANGED <<main, ctx, stores, rest, grpc, grpcGo, timedOut, requests, failed>>

GrpcListen ==
  /\ Alive
  /\ grpcGo = "listen" /\ grpc = "new"
  /\ grpc' = "serving" /\ grpcGo' = "serve"
  /\ UNCHANGED <<main, ctx, stores, rest, restGo, wg, timedOut, requests, failed>>

MutGrpcFails == \* wg.Done() before the return, besides the deferred one
  /\ Alive
  /\ grpcGo \in {"listen", "serve"} /\ grpc # "stopped"
  /\ grpcGo' = "done" /\ grpc' = "stopped" /\ wg' = wg - 2
  /\ ctx' = "cancelled" /\ failed' = TRUE
  /\ UNCHANGED <<main, stores, rest, restGo, timedOut, requests>>
\* net.Listen or Serve fails: cancel().
GrpcFails ==
  /\ Alive
  /\ grpcGo \in {"listen", "serve"} /\ grpc # "stopped"
  /\ grpcGo' = "done" /\ grpc' = "stopped" /\ wg' = wg - 1
  /\ ctx' = "cancelled" /\ failed' = TRUE
  /\ UNCHANGED <<main, stores, rest, restGo, timedOut, requests>>

\* Serve returns nil when GracefulStop ends it, and ErrServerStopped when
\* GracefulStop came first: cancel() once more.
GrpcClosed ==
  /\ Alive
  /\ grpcGo \in {"listen", "serve"} /\ grpc = "stopped"
  /\ grpcGo' = "done" /\ wg' = wg - 1
  /\ ctx' = IF grpcGo = "listen" THEN "cancelled" ELSE ctx
  /\ UNCHANGED <<main, stores, rest, grpc, restGo, timedOut, requests, failed>>

-----------------------------------------------------------------------------
(* The handlers.                                                           *)

\* A new connection with its request, or another one on an idle connection.
RestRequest(h) ==
  /\ Alive
  /\ \/ rest = "serving" /\ h \notin busy
     \/ h \in idle
  /\ busy' = busy \cup {h}
  /\ idle' = idle \ {h}
  /\ UNCHANGED <<main, ctx, stores, servers, timedOut, clients, failed>>

\* The connection is kept, unless the client or a shutdown closes it.
RestEnd(h) ==
  /\ Alive
  /\ h \in busy
  /\ busy' = busy \ {h}
  /\ \/ idle' = idle
     \/ main \in {"wait", "shutdown"} /\ idle' = idle \cup {h}
  /\ UNCHANGED <<main, ctx, stores, servers, timedOut, clients, failed>>

GrpcConnect ==
  /\ Alive
  /\ grpc = "serving"
  /\ clients' = TRUE
  /\ UNCHANGED <<main, ctx, stores, servers, timedOut, busy, idle, failed>>

Call(p) ==
  /\ Alive
  /\ clients
  /\ busy' = busy \cup {p}
  /\ UNCHANGED <<main, ctx, stores, servers, timedOut, idle, clients, failed>>

CallEnd(p) ==
  /\ Alive
  /\ p \in busy
  /\ busy' = busy \ {p}
  /\ UNCHANGED <<main, ctx, stores, servers, timedOut, idle, clients, failed>>

MainStep ==
  \/ Connect("connect", "cache", "mysql") \/ Connect("cache", "bootstrap", "redis")
  \/ BootstrapAdmin \/ StartServers \/ Awake \/ Shutdown \/ RestDrained
  \/ GracefulStop \/ GoAway \/ GrpcDrained \/ Join
  \/ Close("close_cache", "close_db", "redis") \/ Close("close_db", "exited", "mysql")
RestStep == RestListen \/ RestClosed
GrpcStep == GrpcListen \/ GrpcClosed

Next ==
  \/ Signal \/ Timeout \/ MainStep
  \/ RestStep \/ RestFails \/ GrpcStep \/ GrpcFails
  \/ \E h \in RestConn : RestRequest(h) \/ RestEnd(h)
  \/ GrpcConnect
  \/ \E p \in Rpc : Call(p) \/ CallEnd(p)

Spec == Init /\ [][Next]_vars

\* Goroutines are scheduled and timers fire.  Nothing is assumed of the handlers:
\* no deadline ends one whose client, database or cache never answers.
Fairness ==
  WF_vars(MainStep) /\ WF_vars(RestStep) /\ WF_vars(GrpcStep) /\ WF_vars(Timeout)
FairSpec == Spec /\ Fairness

-----------------------------------------------------------------------------
\* No server dies alone (main.go 92-95, 100-110): a server goroutine ends only
\* once the shutdown of both has been asked for, whoever stopped or failed first.
NoServerDiesAlone == restGo = "done" \/ grpcGo = "done" => ctx # "live"

\* The stores outlive the handlers (main.go 47, 54, 113-121): when the deferred
\* closes run, no gRPC call is pending, no goroutine serves, and REST handlers
\* are left only if the ten seconds ran out.
StoresOutliveHandlers ==
  restGo # "none" /\ stores # {"mysql", "redis"} =>
    /\ busy \cap Rpc = {}
    /\ busy \cap RestConn # {} => timedOut
    /\ restGo = "done" /\ grpcGo = "done"

\* Signals wait for the handlers (main.go 39, 89-110): while no server has failed,
\* a signal never kills the process with a gRPC call pending, nor with a REST
\* handler unless the ten seconds ran out, however often it is sent: what calls
\* cancel() without a failure (108) comes when GracefulStop has nothing to wait for.
SignalsWait ==
  main = "killed" /\ ~failed =>
    busy \cap Rpc = {} /\ (busy \cap RestConn # {} => timedOut)

\* Every shutdown ends, whether a signal or a failed server asked for it, also
\* during startup and with REST clients that never finish (main.go 113-122),
\* unless there is a gRPC call that never does: GracefulStop has no limit.
ShutdownEnds ==
  ctx # "live" ~> ~Alive \/ \E p \in Rpc : [](p \in busy)
=============================================================================
