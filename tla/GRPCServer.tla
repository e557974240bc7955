---------------------------- MODULE GRPCServer -----------------------------
(***************************************************************************)
(* Serve with a GRPCServer (pkg/server/server.go): the listener is opened  *)
(* by NewGRPCServer, RunOrDie calls grpc.Server.Serve(lis), GracefulStop  *)
(* calls grpc.Server.GracefulStop() and drops its ctx.  grpc-go: Serve on *)
(* a server already stopped returns ErrServerStopped; Serve returns nil    *)
(* once GracefulStop has closed the listeners; GracefulStop returns only  *)
(* when every connection has finished its RPCs.                           *)
(***************************************************************************)
EXTENDS Serve

Init == ServeInit

(* RunOrDie: Serve(lis) serves, or, when GracefulStop came first, returns *)
(* ErrServerStopped, which is log.Fatalw.  After GracefulStop it returns  *)
(* nil out of the accept loop.                                             *)
RunOrDie ==
    /\ Running
    /\ \/ /\ run = "start" /\ lis = "idle"
          /\ lis' = "serving" /\ run' = "serve"
          /\ UNCHANGED exit
       \/ /\ run = "start" /\ lis = "closed"
          /\ Fatal
          /\ UNCHANGED <<lis, run>>
       \/ /\ run = "serve" /\ lis = "closed"
          /\ run' = "returned"
          /\ UNCHANGED <<lis, exit>>
    /\ UNCHANGED <<cancelled, serve, active, accepted, expired, bindFailed>>

(* GracefulStop: close the listeners, then wait for every in-flight RPC;  *)
(* the ctx with the 10 s deadline is not used.                            *)
GracefulStop ==
    /\ Running
    /\ \/ /\ serve = "stop"
          /\ lis' = "closed" /\ serve' = "drain"
       \/ /\ serve = "drain" /\ active = 0
          /\ serve' = "done"
          /\ UNCHANGED lis
    /\ UNCHANGED <<cancelled, run, active, accepted, expired, bindFailed, exit>>

Next == ServeNext \/ RunOrDie \/ GracefulStop

(* The same scheduling as for the gateway: see GRPCGatewayServer.         *)
Fairness ==
    /\ WF_vars(Go) /\ WF_vars(Wake) /\ WF_vars(MainReturns)
    /\ WF_vars(RunOrDie) /\ WF_vars(GracefulStop) /\ WF_vars(ShutdownTimeout)

Spec == Init /\ [][Next]_vars /\ Fairness

-----------------------------------------------------------------------------
(* Properties *)

(* Once ctx is done, Serve returns and the process ends normally: the     *)
(* Server interface says GracefulStop must honour the timeout of its ctx, *)
(* and Serve promises a graceful shutdown when the context is done.       *)
ShutdownCompletes == cancelled ~> exit = "ok"
=============================================================================
