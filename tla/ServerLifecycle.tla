-------------------------- MODULE ServerLifecycle --------------------------
(***************************************************************************)
(* The life of a server.Server: the two serving goroutines launched by     *)
(* Serve, Start or the application (ServeGateway, ServeGRPC), the callers  *)
(* of Stop, ShutdownGateway and ShutdownGRPC, and the requests in flight   *)
(* while that happens.  net/http and google.golang.org/grpc are external:  *)
(* they appear as the guards under which ListenAndServe, Serve, Shutdown   *)
(* and GracefulStop return.                                                *)
(***************************************************************************)
EXTENDS Integers, Sequences

CONSTANTS
  HttpReqs,          \* requests sent to the HTTP gateway
  RpcReqs,           \* requests sent to the gRPC server directly
  NumServices,       \* len(s.config.ServiceServers)
  Closers,           \* positions of the services that implement Closer
  Callers,           \* goroutines that may shut the server down
  Entries,           \* how the application serves: "Serve", "Start", "Split"
  Shutdowns,         \* which shutdown calls the callers make
  DeadlineMayExpire  \* whether the context of a shutdown call can time out

ASSUME ConstantsAssumption ==
  /\ HttpReqs \cap RpcReqs = {}
  /\ NumServices \in Nat
  /\ Closers \subseteq 1..NumServices
  /\ Entries \subseteq {"Serve", "Start", "Split"}
  /\ Shutdowns \subseteq {"Stop", "ShutdownGateway", "ShutdownGRPC"}
  /\ DeadlineMayExpire \in BOOLEAN

VARIABLES
  entry,    \* the call that launched the serving goroutines
  main,     \* "waiting" inside that call, or "returned"
  errch,    \* Serve's channel: the servers whose errors wait in it
  go,       \* where each serving goroutine is
  errored,  \* the servers whose Serve returned an error
  down,     \* the servers whose shutdown has begun
  drained,  \* GracefulStop has completed
  call,     \* what each caller called, or "none"
  spc,      \* where each caller is in that call
  next,     \* the service Stop looks at next
  expired,  \* whether the caller's context has timed out
  closed,   \* services whose Close has run
  backoff,  \* the gateway's connection failed and is not retried yet
  phase,    \* where each request is
  svc,      \* the service that handles it
  outcome   \* how it was answered

serverVars == <<entry, main, errch, go, errored>>
downVars == <<down, drained>>
callerVars == <<call, spc, next, expired, closed>>
reqVars == <<backoff, phase, svc, outcome>>
vars == <<serverVars, downVars, callerVars, reqVars>>

Reqs == HttpReqs \cup RpcReqs
Services == 1..NumServices
Servers == {"gateway", "grpc"}

\* Mutant: an unbuffered channel.
ErrchUnbuffered == 0

\* make(chan error, 2)
ErrchCap == 2

HttpInflight == {r \in HttpReqs : phase[r] \notin {"new", "done"}}
Handling == {r \in Reqs : phase[r] = "handling"}
Inflight == {r \in Reqs : phase[r] \notin {"new", "done"}}

\* Mutant: the listener stays open during a shutdown.
AcceptingWhileDown(s) == go[s] = "serving"

Accepting(s) == go[s] = "serving" /\ s \notin down
-----------------------------------------------------------------------------
Init ==
  /\ entry \in Entries
  /\ main = "waiting"
  /\ errch = <<>>
  /\ go = [s \in Servers |-> "init"]
  /\ errored = {}
  /\ down = {} /\ drained = FALSE
  /\ call = [c \in Callers |-> "none"]
  /\ spc = [c \in Callers |-> "idle"]
  /\ next = [c \in Callers |-> 1]
  /\ expired = [c \in Callers |-> FALSE]
  /\ closed = {}
  /\ backoff = FALSE
  /\ phase = [r \in Reqs |-> "new"]
  /\ svc \in [Reqs -> Services]
  /\ outcome = [r \in Reqs |-> "none"]
-----------------------------------------------------------------------------
(* The serving goroutines *)

\* A Serve method returns err # nil: the goroutine still has to report it.
ServeFails(s) ==
  /\ go' = [go EXCEPT ![s] = "failed"]
  /\ errored' = errored \cup {s}

GoStep(s, to) ==
  /\ go' = [go EXCEPT ![s] = to]
  /\ UNCHANGED errored

\* ListenAndServe: ErrServerClosed, which Serve turns into nil, when the
\* shutdown came first; otherwise the address is bound or cannot be.
GatewayListen ==
  /\ go["gateway"] = "init"
  /\ \/ "gateway" \in down /\ GoStep("gateway", "exited")
     \/ "gateway" \notin down /\ GoStep("gateway", "serving")
     \/ "gateway" \notin down /\ ServeFails("gateway")
  /\ UNCHANGED <<entry, main, errch, downVars, callerVars, reqVars>>

\* ListenAndServe returns ErrServerClosed as soon as Shutdown has begun,
\* without waiting for the requests.
GatewayClosed ==
  /\ go["gateway"] = "serving"
  /\ "gateway" \in down
  /\ GoStep("gateway", "exited")
  /\ UNCHANGED <<entry, main, errch, downVars, callerVars, reqVars>>

GrpcCreateListener ==
  /\ go["grpc"] = "init"
  /\ GoStep("grpc", "bound") \/ ServeFails("grpc")
  /\ UNCHANGED <<entry, main, errch, downVars, callerVars, reqVars>>

\* grpc.Server.Serve on a stopped server returns ErrServerStopped.
GrpcServe ==
  /\ go["grpc"] = "bound"
  /\ \/ "grpc" \in down /\ ServeFails("grpc")
     \/ "grpc" \notin down /\ GoStep("grpc", "serving")
  /\ UNCHANGED <<entry, main, errch, downVars, callerVars, reqVars>>

\* Mutant: Serve returns as soon as the shutdown begins.
GrpcServedEarly ==
  /\ go["grpc"] = "serving"
  /\ "grpc" \in down
  /\ GoStep("grpc", "exited")
  /\ UNCHANGED <<entry, main, errch, downVars, callerVars, reqVars>>

\* grpc.Server.Serve returns nil only after GracefulStop has finished.
GrpcServed ==
  /\ go["grpc"] = "serving"
  /\ drained
  /\ GoStep("grpc", "exited")
  /\ UNCHANGED <<entry, main, errch, downVars, callerVars, reqVars>>

\* Serve's goroutines send the error on errch; Start's only log it.
ReportError(s) ==
  /\ go[s] = "failed"
  /\ \/ /\ entry = "Serve"
        /\ Len(errch) < ErrchCap
        /\ errch' = Append(errch, s)
     \/ entry # "Serve" /\ UNCHANGED errch
  /\ GoStep(s, "exited")
  /\ UNCHANGED <<entry, main, downVars, callerVars, reqVars>>
-----------------------------------------------------------------------------
(* The call that launched them *)

ServeReturn ==
  /\ entry = "Serve" /\ main = "waiting"
  /\ errch # <<>>
  /\ errch' = Tail(errch)
  /\ main' = "returned"
  /\ UNCHANGED <<entry, go, errored, downVars, callerVars, reqVars>>

StartReturn ==
  /\ entry = "Start" /\ main = "waiting"
  /\ \A s \in Servers : go[s] = "exited"
  /\ main' = "returned"
  /\ UNCHANGED <<entry, errch, go, errored, downVars, callerVars, reqVars>>
-----------------------------------------------------------------------------
(* The callers of Stop, ShutdownGateway and ShutdownGRPC *)

FirstStep(k) == CASE k = "Stop" -> "closing"
                  [] k = "ShutdownGateway" -> "gwBegin"
                  [] k = "ShutdownGRPC" -> "grBegin"

CallShutdown(c) ==
  /\ spc[c] = "idle"
  /\ \E k \in Shutdowns :
       /\ call' = [call EXCEPT ![c] = k]
       /\ spc' = [spc EXCEPT ![c] = FirstStep(k)]
  /\ UNCHANGED <<next, expired, closed, serverVars, downVars, reqVars>>

\* The context's 30 s run from the call of Stop, Close calls included.
DeadlineExpires(c) ==
  /\ DeadlineMayExpire
  /\ spc[c] \notin {"idle", "returned"}
  /\ ~expired[c]
  /\ expired' = [expired EXCEPT ![c] = TRUE]
  /\ UNCHANGED <<call, spc, next, closed, serverVars, downVars, reqVars>>

\* Mutant: the loop runs once too often.
CloseServiceOffByOne(c) ==
  /\ spc[c] = "closing"
  /\ next[c] <= NumServices + 1
  /\ closed' = closed \cup ({next[c]} \cap Closers)
  /\ next' = [next EXCEPT ![c] = @ + 1]
  /\ UNCHANGED <<call, spc, expired, serverVars, downVars, reqVars>>

\* One iteration of Stop's loop over the services.
CloseService(c) ==
  /\ spc[c] = "closing"
  /\ next[c] <= NumServices
  /\ closed' = closed \cup ({next[c]} \cap Closers)
  /\ next' = [next EXCEPT ![c] = @ + 1]
  /\ UNCHANGED <<call, spc, expired, serverVars, downVars, reqVars>>

ServicesClosed(c) ==
  /\ spc[c] = "closing"
  /\ next[c] > NumServices
  /\ spc' = [spc EXCEPT ![c] = "gwBegin"]
  /\ UNCHANGED <<call, next, expired, closed, serverVars, downVars, reqVars>>

\* http.Server.Shutdown closes the listener ...
GatewayShutdownBegin(c) ==
  /\ spc[c] = "gwBegin"
  /\ spc' = [spc EXCEPT ![c] = "gwWait"]
  /\ down' = down \cup {"gateway"}
  /\ UNCHANGED <<drained, call, next, expired, closed, serverVars, reqVars>>

\* Mutant: http.Server.Close instead of Shutdown.
GatewayCloseEnd(c) ==
  /\ spc[c] = "gwWait"
  /\ spc' = [spc EXCEPT ![c] = IF call[c] = "Stop" THEN "grBegin" ELSE "returned"]
  /\ UNCHANGED <<call, next, expired, closed, serverVars, downVars, reqVars>>

\* ... and returns when every connection is idle or the context is done.
\* Stop goes on to the gRPC server either way: the error is only logged.
GatewayShutdownEnd(c) ==
  /\ spc[c] = "gwWait"
  /\ HttpInflight = {} \/ expired[c]
  /\ spc' = [spc EXCEPT ![c] = IF call[c] = "Stop" THEN "grBegin" ELSE "returned"]
  /\ UNCHANGED <<call, next, expired, closed, serverVars, downVars, reqVars>>

GrpcShutdownBegin(c) ==
  /\ spc[c] = "grBegin"
  /\ spc' = [spc EXCEPT ![c] = "grWait"]
  /\ down' = down \cup {"grpc"}
  /\ UNCHANGED <<drained, call, next, expired, closed, serverVars, reqVars>>

\* Mutant: grpc.Server.Stop instead of GracefulStop.
GrpcStopEnd(c) ==
  /\ spc[c] = "grWait"
  /\ spc' = [spc EXCEPT ![c] = "returned"]
  /\ drained' = TRUE
  /\ UNCHANGED <<down, call, next, expired, closed, serverVars, reqVars>>

\* Mutant: Shutdown also waits for the serving goroutine.
GrpcShutdownJoins(c) ==
  /\ spc[c] = "grWait"
  /\ Handling = {} /\ go["grpc"] = "exited"
  /\ spc' = [spc EXCEPT ![c] = "returned"]
  /\ drained' = TRUE
  /\ UNCHANGED <<down, call, next, expired, closed, serverVars, reqVars>>

\* GracefulStop takes no context: it waits for the handlers, however long.
GrpcShutdownEnd(c) ==
  /\ spc[c] = "grWait"
  /\ Handling = {}
  /\ spc' = [spc EXCEPT ![c] = "returned"]
  /\ drained' = TRUE
  /\ UNCHANGED <<down, call, next, expired, closed, serverVars, reqVars>>
-----------------------------------------------------------------------------
(* Requests *)

Answer(r, to, o) ==
  /\ phase' = [phase EXCEPT ![r] = to]
  /\ outcome' = [outcome EXCEPT ![r] = o]
  /\ UNCHANGED <<svc, serverVars, downVars, callerVars>>

HttpArrives(r) ==
  /\ r \in HttpReqs /\ phase[r] = "new"
  /\ Accepting("gateway")
  /\ Answer(r, "gateway", "none")
  /\ UNCHANGED backoff

RpcArrives(r) ==
  /\ r \in RpcReqs /\ phase[r] = "new"
  /\ Accepting("grpc")
  /\ Answer(r, "handling", "none")
  /\ UNCHANGED backoff

\* Mutant: the connection is dialled with WaitForReady.
ForwardWaitForReady(r) ==
  /\ phase[r] = "gateway"
  /\ Accepting("grpc")
  /\ Answer(r, "handling", "none")
  /\ UNCHANGED backoff

\* The gateway calls the gRPC server over the loopback connection of New.  The
\* call waits while the listener is bound but not served yet.  It fails with
\* Unavailable when nothing listens or the server is going away, and keeps
\* failing until the connection, which backs off, is dialled again.
Forward(r) ==
  /\ phase[r] = "gateway"
  /\ \/ /\ Accepting("grpc") /\ ~backoff
        /\ Answer(r, "handling", "none")
        /\ UNCHANGED backoff
     \/ /\ backoff \/ go["grpc"] \in {"init", "failed", "exited"} \/ "grpc" \in down
        /\ Answer(r, "replying", "unavailable")
        /\ backoff' = TRUE

Redial ==
  /\ backoff /\ go["grpc"] \in {"bound", "serving"}
  /\ backoff' = FALSE
  /\ UNCHANGED <<phase, svc, outcome, serverVars, downVars, callerVars>>

HandlerReturns(r) ==
  /\ phase[r] = "handling"
  /\ Answer(r, IF r \in HttpReqs THEN "replying" ELSE "done", "ok")
  /\ UNCHANGED backoff

GatewayReplies(r) ==
  /\ phase[r] = "replying"
  /\ Answer(r, "done", outcome[r])
  /\ UNCHANGED backoff
-----------------------------------------------------------------------------
ServerStep ==
  \/ GatewayListen \/ GatewayClosed
  \/ GrpcCreateListener \/ GrpcServe \/ GrpcServed
  \/ \E s \in Servers : ReportError(s)
  \/ ServeReturn \/ StartReturn

CallerStep(c) ==
  \/ CloseService(c) \/ ServicesClosed(c)
  \/ GatewayShutdownBegin(c) \/ GatewayShutdownEnd(c)
  \/ GrpcShutdownBegin(c) \/ GrpcShutdownEnd(c)

ReqStep(r) == Forward(r) \/ HandlerReturns(r) \/ GatewayReplies(r)

Next ==
  \/ ServerStep
  \/ \E c \in Callers : CallShutdown(c) \/ DeadlineExpires(c) \/ CallerStep(c)
  \/ \E r \in Reqs : HttpArrives(r) \/ RpcArrives(r) \/ ReqStep(r)
  \/ Redial

Spec == Init /\ [][Next]_vars

\* The Go scheduler runs every runnable goroutine, and handlers and Close
\* methods return; clients, callers of Stop and the clock owe nothing.
Fairness ==
  /\ WF_vars(GatewayListen) /\ WF_vars(GatewayClosed)
  /\ WF_vars(GrpcCreateListener) /\ WF_vars(GrpcServe) /\ WF_vars(GrpcServed)
  /\ \A s \in Servers : WF_vars(ReportError(s))
  /\ WF_vars(ServeReturn) /\ WF_vars(StartReturn)
  /\ \A c \in Callers : WF_vars(CallerStep(c))
  /\ \A r \in Reqs : WF_vars(ReqStep(r))

FairSpec == Spec /\ Fairness
-----------------------------------------------------------------------------
(* Properties *)

TypeOK ==
  /\ entry \in Entries
  /\ main \in {"waiting", "returned"}
  /\ errch \in Seq(Servers) /\ Len(errch) <= ErrchCap
  /\ go \in [Servers -> {"init", "bound", "serving", "failed", "exited"}]
  /\ errored \subseteq Servers
  /\ down \subseteq Servers
  /\ drained \in BOOLEAN
  /\ call \in [Callers -> Shutdowns \cup {"none"}]
  /\ spc \in [Callers -> {"idle", "closing", "gwBegin", "gwWait", "grBegin", "grWait", "returned"}]
  /\ next \in [Callers -> 1..NumServices + 1]
  /\ expired \in [Callers -> BOOLEAN]
  /\ closed \subseteq Closers
  /\ backoff \in BOOLEAN
  /\ phase \in [Reqs -> {"new", "gateway", "handling", "replying", "done"}]
  /\ svc \in [Reqs -> Services]
  /\ outcome \in [Reqs -> {"none", "ok", "unavailable"}]

SomeDeadlineExpired == \E c \in Callers : expired[c]
GrpcShutDownDirectly == \E c \in Callers : call[c] = "ShutdownGRPC"

\* Stop shuts the gateway down before the gRPC server: while nobody's deadline
\* expires and nobody calls ShutdownGRPC, the gRPC server does not start to go
\* away under a request the gateway has accepted and not answered yet.
DrainBeforeGrpc ==
  "grpc" \in down /\ ~SomeDeadlineExpired /\ ~GrpcShutDownDirectly => HttpInflight = {}

\* No request the gateway has accepted is answered Unavailable because of the
\* shutdown, unless a deadline expired or ShutdownGRPC was called.
NoRequestCutOff ==
  [][\A r \in HttpReqs :
       outcome[r] # "unavailable" /\ outcome'[r] = "unavailable"
         => "grpc" \notin down \/ SomeDeadlineExpired \/ GrpcShutDownDirectly]_vars

\* Start, which waits for both goroutines, returns only once every request has
\* been answered, although the gateway's goroutine itself exits as soon as
\* Shutdown begins; a gRPC server that failed, a deadline and a direct
\* ShutdownGRPC are the exceptions.
StartReturnsDrained ==
  entry = "Start" /\ main = "returned" /\ "grpc" \notin errored
    /\ ~SomeDeadlineExpired /\ ~GrpcShutDownDirectly
    => Inflight = {}

StoppedCleanly ==
  \E c \in Callers : call[c] = "Stop" /\ spc[c] = "returned" /\ ~expired[c]

\* A Stop that returns within its deadline is a graceful shutdown: see
\* GracefulShutdown for what that promises.
Graceful == INSTANCE GracefulShutdown
  WITH inflight <- Inflight,
       answered <- {r \in Reqs : phase[r] = "done"},
       stopped <- StoppedCleanly

ImplementsGracefulShutdown == Graceful!Spec

\* Every shutdown call returns, whatever the servers were doing when it came.
ShutdownReturns ==
  \A c \in Callers : spc[c] # "idle" ~> spc[c] = "returned"

\* After a Stop both serving goroutines end, even when they end with errors
\* nobody receives any more.
ServersExit ==
  (\E c \in Callers : call[c] = "Stop") ~> (\A s \in Servers : go[s] = "exited")

\* Every request that was accepted is answered, shutdown or not.
RequestsAnswered ==
  \A r \in Reqs : phase[r] \notin {"new", "done"} ~> phase[r] = "done"

\* The pair "can be started and stopped as a unit" (server/doc.go): once Stop
\* has returned, so does Serve.
ServeReturns ==
  (entry = "Serve" /\ \E c \in Callers : call[c] = "Stop" /\ spc[c] = "returned")
    ~> main = "returned"

\* Stop "gracefully shuts down all servers and calls Close" (server.go): no
\* handler runs on a service whose Close has already been called.
ClosedServiceUnused ==
  \A r \in Handling : svc[r] \notin closed
=============================================================================
