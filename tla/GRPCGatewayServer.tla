------------------------- MODULE GRPCGatewayServer -------------------------
(***************************************************************************)
(* Serve with a GRPCGatewayServer (pkg/server/server.go): an http.Server   *)
(* that binds its address in RunOrDie (ListenAndServe) and is stopped with *)
(* Shutdown(ctx).  net/http: ListenAndServe, Serve and the accept loop     *)
(* return ErrServerClosed once Shutdown has begun; Shutdown closes the     *)
(* listeners, then waits until no request is active or ctx is done.       *)
(***************************************************************************)
EXTENDS Serve

Init == ServeInit

(* RunOrDie: ListenAndServe binds the address and serves, or fails to     *)
(* bind, which is log.Fatalw.  After Shutdown has begun it returns        *)
(* ErrServerClosed, before binding or out of the accept loop, and that    *)
(* error is not fatal.                                                    *)
RunOrDie ==
    /\ Running
    /\ \/ /\ run = "start" /\ lis = "idle"
          /\ lis' = "serving" /\ run' = "serve"
          /\ UNCHANGED <<bindFailed, exit>>
       \/ /\ run = "start" /\ lis = "idle"
          /\ bindFailed' = TRUE /\ Fatal
          /\ UNCHANGED <<lis, run>>
       \/ /\ run \in {"start", "serve"} /\ lis = "closed"
          /\ run' = "returned"
          /\ UNCHANGED <<lis, bindFailed, exit>>
    /\ UNCHANGED <<cancelled, serve, active, accepted, expired>>

\* Mutant: Shutdown that does not stop at the deadline of its ctx.
ShutdownDoneIgnoreCtx == active = 0

\* Shutdown(ctx) returns: nil once no request is active, ctx.Err() at the
\* deadline (logged with Errorw).
ShutdownDone == active = 0 \/ expired

(* GracefulStop: Shutdown(ctx) closes the listeners, then returns when    *)
(* ShutdownDone; Serve then returns nil.                                  *)
GracefulStop ==
    /\ Running
    /\ \/ /\ serve = "stop"
          /\ lis' = "closed" /\ serve' = "drain"
       \/ /\ serve = "drain" /\ ShutdownDone
          /\ serve' = "done"
          /\ UNCHANGED lis
    /\ UNCHANGED <<cancelled, run, active, accepted, expired, bindFailed, exit>>

Next == ServeNext \/ RunOrDie \/ GracefulStop

(* The goroutines of Serve and RunOrDie run when they can, and the 10 s   *)
(* timer fires; cancellation, requests and their completion are up to the *)
(* clients.                                                               *)
Fairness ==
    /\ WF_vars(Go) /\ WF_vars(Wake) /\ WF_vars(MainReturns)
    /\ WF_vars(RunOrDie) /\ WF_vars(GracefulStop) /\ WF_vars(ShutdownTimeout)

Spec == Init /\ [][Next]_vars /\ Fairness

-----------------------------------------------------------------------------
(* Properties *)

(* Once ctx is done, Serve returns and the process ends normally, within  *)
(* the 10 s that Serve gives GracefulStop, however long requests run      *)
(* (unless the server could not start).                                   *)
ShutdownCompletes == cancelled ~> (exit = "ok" \/ bindFailed)
=============================================================================
