------------------------------- MODULE Serve --------------------------------
(***************************************************************************)
(* server.Serve(ctx, srv) (pkg/server/server.go): the goroutine that runs  *)
(* srv.RunOrDie, the Serve call that waits for ctx and then calls          *)
(* srv.GracefulStop with a fresh 10 s context, the requests the library    *)
(* server has accepted, and the process around them.  The modules         *)
(* GRPCServer and GRPCGatewayServer extend this one with the RunOrDie and  *)
(* GracefulStop of each implementation.                                    *)
(*                                                                         *)
(* Serve: "go" (before go srv.RunOrDie()), "wait" (<-ctx.Done()), "stop"  *)
(* (GracefulStop called), "drain" (listeners closed, waiting for requests),*)
(* "done" (Serve returned nil).  RunOrDie: "none", "start" (goroutine      *)
(* started, Serve or ListenAndServe not yet called), "serve" (accept       *)
(* loop), "returned".                                                      *)
(***************************************************************************)
EXTENDS Naturals

CONSTANT MaxRequests   \* bound: requests accepted over the whole run

VARIABLES
    cancelled,   \* the ctx passed to Serve is done
    serve,       \* where Serve is
    run,         \* where the RunOrDie goroutine is
    lis,         \* the library server: "idle", "serving", "closed"
    active,      \* requests in flight
    accepted,    \* requests accepted so far
    expired,     \* the 10 s context handed to GracefulStop is done
    bindFailed,  \* the listener could not be opened in RunOrDie
    exit         \* the process: "running", "ok" (main returned), "fatal"

vars == <<cancelled, serve, run, lis, active, accepted, expired, bindFailed, exit>>

TypeOK ==
    /\ cancelled \in BOOLEAN
    /\ serve \in {"go", "wait", "stop", "drain", "done"}
    /\ run \in {"none", "start", "serve", "returned"}
    /\ lis \in {"idle", "serving", "closed"}
    /\ active \in 0..MaxRequests /\ accepted \in 0..MaxRequests
    /\ expired \in BOOLEAN /\ bindFailed \in BOOLEAN
    /\ exit \in {"running", "ok", "fatal"}

ServeInit ==
    /\ cancelled = FALSE
    /\ serve = "go" /\ run = "none" /\ lis = "idle"
    /\ active = 0 /\ accepted = 0
    /\ expired = FALSE /\ bindFailed = FALSE
    /\ exit = "running"

Running == exit = "running"

\* log.Fatalw: zap writes the entry and calls os.Exit(1).
Fatal == exit' = "fatal"

(* go srv.RunOrDie() *)
Go ==
    /\ Running /\ serve = "go"
    /\ serve' = "wait" /\ run' = "start"
    /\ UNCHANGED <<cancelled, lis, active, accepted, expired, bindFailed, exit>>

(* The caller cancels ctx (a signal, the end of the program's work). *)
Cancel ==
    /\ Running /\ ~cancelled
    /\ cancelled' = TRUE
    /\ UNCHANGED <<serve, run, lis, active, accepted, expired, bindFailed, exit>>

(* <-ctx.Done() returns; Serve builds the 10 s context and calls          *)
(* GracefulStop.                                                          *)
Wake ==
    /\ Running /\ serve = "wait" /\ cancelled
    /\ serve' = "stop"
    /\ UNCHANGED <<cancelled, run, lis, active, accepted, expired, bindFailed, exit>>

(* The deadline of context.WithTimeout(context.Background(), 10s) passes  *)
(* while GracefulStop runs.                                               *)
ShutdownTimeout ==
    /\ Running /\ serve \in {"stop", "drain"} /\ ~expired
    /\ expired' = TRUE
    /\ UNCHANGED <<cancelled, serve, run, lis, active, accepted, bindFailed, exit>>

(* The library server accepts a request while its accept loop runs.  *)
Accept ==
    /\ Running /\ lis = "serving" /\ run = "serve"
    /\ accepted < MaxRequests
    /\ active' = active + 1 /\ accepted' = accepted + 1
    /\ UNCHANGED <<cancelled, serve, run, lis, expired, bindFailed, exit>>

(* A request completes; a streaming RPC or a slow client may take as long *)
(* as it likes, so nothing forces this step.                              *)
Finish ==
    /\ Running /\ active > 0
    /\ active' = active - 1
    /\ UNCHANGED <<cancelled, serve, run, lis, accepted, expired, bindFailed, exit>>

(* Serve returned nil: its caller returns from main and the process ends. *)
MainReturns ==
    /\ Running /\ serve = "done"
    /\ exit' = "ok"
    /\ UNCHANGED <<cancelled, serve, run, lis, active, accepted, expired, bindFailed>>

(* An ended process takes no more steps. *)
Terminated == ~Running /\ UNCHANGED vars

ServeNext ==
    \/ Go \/ Cancel \/ Wake \/ ShutdownTimeout \/ Accept \/ Finish
    \/ MainReturns \/ Terminated
=============================================================================
