----------------------- MODULE ServerLifecycleProofs -----------------------
(***************************************************************************)
(* Proofs about ServerLifecycle, for any numbers of requests, services and *)
(* shutdown callers.                                                       *)
(***************************************************************************)
EXTENDS ServerLifecycle, TLAPS

ShutsGrpc == {"Stop", "ShutdownGRPC"}

\* Which call each point of a shutdown belongs to.
CallMatches ==
  \A c \in Callers :
    /\ spc[c] = "closing" => call[c] = "Stop"
    /\ spc[c] \in {"gwBegin", "gwWait"} => call[c] \in {"Stop", "ShutdownGateway"}
    /\ spc[c] \in {"grBegin", "grWait"} => call[c] \in ShutsGrpc

\* Past http.Server.Shutdown's first step the gateway is down; past its wait,
\* without a timeout, it has no request left.
GatewayFirst ==
  \A c \in Callers :
    /\ call[c] = "Stop" /\ spc[c] \in {"gwWait", "grBegin", "grWait", "returned"}
         => "gateway" \in down
    /\ call[c] = "Stop" /\ spc[c] \in {"grBegin", "grWait", "returned"} /\ ~expired[c]
         => HttpInflight = {}

\* The gRPC server is down exactly when somebody is past the first step of
\* GracefulStop, and a call that has returned has drained it.
GrpcDown ==
  /\ "grpc" \in down =>
       \E c \in Callers : call[c] \in ShutsGrpc /\ spc[c] \in {"grWait", "returned"}
  /\ \A c \in Callers : spc[c] = "grWait" => "grpc" \in down
  /\ \A c \in Callers : call[c] \in ShutsGrpc /\ spc[c] = "returned" => drained
  /\ drained => "grpc" \in down /\ Handling = {}

\* A direct call is never inside the gateway.
RpcPhases == \A r \in RpcReqs : phase[r] \in {"new", "handling", "done"}

\* How the goroutines end, and that Start waits for both.
Goroutines ==
  /\ \A s \in Servers : go[s] = "failed" => s \in errored
  /\ go["grpc"] = "exited" => "grpc" \in errored \/ drained
  /\ entry = "Start" /\ main = "returned" => \A s \in Servers : go[s] = "exited"

IInv == TypeOK /\ CallMatches /\ GatewayFirst /\ GrpcDown /\ RpcPhases /\ Goroutines
-----------------------------------------------------------------------------
\* Nothing is under way in a new server.
LEMMA InitIInv == Init => IInv
<1> SUFFICES ASSUME Init PROVE IInv
  OBVIOUS
<1> USE ConstantsAssumption DEF Init
<1>1. TypeOK
  <2>1. drained \in BOOLEAN /\ backoff \in BOOLEAN
    OBVIOUS
  <2>2. errch \in Seq(Servers) /\ Len(errch) <= ErrchCap
    BY DEF ErrchCap
  <2>3. next \in [Callers -> 1..NumServices + 1] /\ call \in [Callers -> Shutdowns \cup {"none"}]
    OBVIOUS
  <2> QED
    BY <2>1, <2>2, <2>3 DEF TypeOK
<1>2. CallMatches /\ GatewayFirst /\ GrpcDown /\ RpcPhases /\ Goroutines
  BY DEF CallMatches, GatewayFirst, GrpcDown, RpcPhases, Goroutines, ShutsGrpc, Reqs, Servers
<1> QED
  BY <1>1, <1>2 DEF IInv
-----------------------------------------------------------------------------
\* A step of a serving goroutine, or of the call that launched them.
LEMMA ServerIInv == IInv /\ ServerStep => IInv'
<1> SUFFICES ASSUME IInv, ServerStep PROVE IInv'
  OBVIOUS
<1> USE DEF IInv
<1>0. UNCHANGED <<entry, down, drained, call, spc, next, expired, closed, backoff, phase, svc, outcome>>
  BY DEF ServerStep, GatewayListen, GatewayClosed, GrpcCreateListener, GrpcServe, GrpcServed,
         ReportError, ServeReturn, StartReturn, downVars, callerVars, reqVars
<1>1. CASE GatewayListen \/ GatewayClosed \/ GrpcCreateListener \/ GrpcServe \/ GrpcServed
  <2> USE <1>1 DEF GatewayListen, GatewayClosed, GrpcCreateListener, GrpcServe, GrpcServed,
                   GoStep, ServeFails
  <2>1. errored' \subseteq Servers
    <3>1. errored' \subseteq errored \cup {"gateway", "grpc"}
      BY Zenon
    <3> QED
      BY <3>1 DEF TypeOK, Servers
  <2>5. go' \in [Servers -> {"init", "bound", "serving", "failed", "exited"}]
    BY DEF TypeOK, Servers
  <2>2. UNCHANGED <<main, errch>>
    OBVIOUS
  <2>3. Goroutines'
    BY <1>0 DEF Goroutines, TypeOK, Servers
  <2>4. TypeOK'
    BY <1>0, <2>1, <2>2, <2>5 DEF TypeOK
  <2> QED
    BY <1>0, <2>3, <2>4 DEF CallMatches, GatewayFirst, GrpcDown, RpcPhases, HttpInflight, Handling
<1>2. CASE \E s \in Servers : ReportError(s)
  <2>1. PICK s \in Servers : ReportError(s)
    BY <1>2
  <2>2. go[s] = "failed" /\ go' = [go EXCEPT ![s] = "exited"] /\ UNCHANGED <<errored, main>>
    BY <2>1 DEF ReportError, GoStep
  <2>3. errch' \in Seq(Servers) /\ Len(errch') <= ErrchCap
    <3>1. errch \in Seq(Servers) /\ Len(errch) <= 2
      BY DEF TypeOK, ErrchCap
    <3>2. CASE errch' = errch
      BY <3>1, <3>2 DEF ErrchCap
    <3>3. CASE Len(errch) < 2 /\ errch' = Append(errch, s)
      BY <3>1, <3>3 DEF ErrchCap
    <3> QED
      BY <2>1, <3>2, <3>3 DEF ReportError, ErrchCap
  <2>4. TypeOK'
    BY <1>0, <2>2, <2>3 DEF TypeOK
  <2>5. Goroutines'
    BY <1>0, <2>2 DEF Goroutines, TypeOK, Servers
  <2> QED
    BY <1>0, <2>4, <2>5 DEF CallMatches, GatewayFirst, GrpcDown, RpcPhases, HttpInflight, Handling
<1>3. CASE ServeReturn \/ StartReturn
  <2>1. UNCHANGED <<go, errored>> /\ main' \in {"waiting", "returned"}
    BY <1>3 DEF ServeReturn, StartReturn
  <2>2. errch' \in Seq(Servers) /\ Len(errch') <= ErrchCap
    <3>1. errch \in Seq(Servers) /\ Len(errch) <= 2
      BY DEF TypeOK, ErrchCap
    <3>2. CASE errch' = errch
      BY <3>1, <3>2 DEF ErrchCap
    <3>3. CASE errch # <<>> /\ errch' = Tail(errch)
      BY <3>1, <3>3 DEF ErrchCap
    <3> QED
      BY <1>3, <3>2, <3>3 DEF ServeReturn, StartReturn
  <2>3. TypeOK'
    BY <1>0, <2>1, <2>2 DEF TypeOK
  <2>4. Goroutines'
    BY <1>0, <1>3, <2>1 DEF ServeReturn, StartReturn, Goroutines, TypeOK
  <2> QED
    BY <1>0, <2>3, <2>4 DEF CallMatches, GatewayFirst, GrpcDown, RpcPhases, HttpInflight, Handling
<1> QED
  BY <1>1, <1>2, <1>3 DEF ServerStep
-----------------------------------------------------------------------------
\* Calling Stop, ShutdownGateway or ShutdownGRPC, and a deadline that passes:
\* neither touches a server.
LEMMA CallIInv ==
  ASSUME NEW c \in Callers, IInv, CallShutdown(c) \/ DeadlineExpires(c)
  PROVE  IInv'
<1> USE ConstantsAssumption DEF IInv, serverVars, downVars, reqVars
<1>1. CASE CallShutdown(c)
  <2>1. PICK k \in Shutdowns : /\ call' = [call EXCEPT ![c] = k]
                               /\ spc' = [spc EXCEPT ![c] = FirstStep(k)]
    BY <1>1 DEF CallShutdown
  <2>2. \/ k = "Stop" /\ FirstStep(k) = "closing"
        \/ k = "ShutdownGateway" /\ FirstStep(k) = "gwBegin"
        \/ k = "ShutdownGRPC" /\ FirstStep(k) = "grBegin"
    BY DEF FirstStep
  <2>3. spc[c] = "idle" /\ UNCHANGED <<next, expired, closed, entry, main, errch, go, errored, down,
                                       drained, backoff, phase, svc, outcome>>
    BY <1>1 DEF CallShutdown
  <2>4. TypeOK'
    BY <2>1, <2>2, <2>3 DEF TypeOK
  <2>5. CallMatches' /\ GatewayFirst'
    BY <2>1, <2>2, <2>3 DEF TypeOK, CallMatches, GatewayFirst, HttpInflight, ShutsGrpc
  <2>6. GrpcDown'
    BY <2>1, <2>2, <2>3 DEF TypeOK, GrpcDown, Handling, ShutsGrpc
  <2> QED
    BY <2>3, <2>4, <2>5, <2>6 DEF RpcPhases, Goroutines
<1>2. CASE DeadlineExpires(c)
  <2> USE <1>2 DEF DeadlineExpires
  <2>1. TypeOK'
    BY DEF TypeOK
  <2>2. CallMatches' /\ GatewayFirst' /\ GrpcDown' /\ RpcPhases' /\ Goroutines'
    BY DEF TypeOK, CallMatches, GatewayFirst, GrpcDown, RpcPhases, Goroutines, HttpInflight, Handling
  <2> QED
    BY <2>1, <2>2
<1> QED
  BY <1>1, <1>2

\* Stop's loop over the services.
LEMMA CloseIInv ==
  ASSUME NEW c \in Callers, IInv, CloseService(c) \/ ServicesClosed(c)
  PROVE  IInv'
<1> USE ConstantsAssumption DEF IInv, CloseService, ServicesClosed, serverVars, downVars, reqVars
<1>1. TypeOK'
  <2>1. next' \in [Callers -> 1..NumServices + 1]
    <3>1. CASE CloseService(c)
      <4>1. next[c] \in 1..NumServices + 1 /\ next[c] <= NumServices
        BY <3>1 DEF TypeOK
      <4>2. next[c] + 1 \in 1..NumServices + 1
        BY <4>1
      <4> QED
        BY <3>1, <4>2 DEF TypeOK
    <3>2. CASE ServicesClosed(c)
      BY <3>2 DEF TypeOK
    <3> QED
      BY <3>1, <3>2
  <2>2. closed' \subseteq Closers
    BY DEF TypeOK
  <2>3. spc' \in [Callers -> {"idle", "closing", "gwBegin", "gwWait", "grBegin", "grWait", "returned"}]
    BY ZenonT(60) DEF TypeOK
  <2> QED
    BY <2>1, <2>2, <2>3 DEF TypeOK
<1>2. CallMatches' /\ GatewayFirst'
  BY DEF TypeOK, CallMatches, GatewayFirst, HttpInflight, ShutsGrpc
<1>3. GrpcDown' /\ RpcPhases' /\ Goroutines'
  BY DEF TypeOK, GrpcDown, RpcPhases, Goroutines, Handling, ShutsGrpc
<1> QED
  BY <1>1, <1>2, <1>3

\* http.Server.Shutdown closes the listener first and waits afterwards.
LEMMA GatewayShutdownIInv ==
  ASSUME NEW c \in Callers, IInv, GatewayShutdownBegin(c) \/ GatewayShutdownEnd(c)
  PROVE  IInv'
<1> USE DEF IInv, GatewayShutdownBegin, GatewayShutdownEnd, serverVars, downVars, reqVars
<1>1. TypeOK'
  BY DEF TypeOK, Servers
<1>2. CallMatches' /\ GatewayFirst'
  BY DEF TypeOK, CallMatches, GatewayFirst, HttpInflight, ShutsGrpc
<1>3. GrpcDown'
  BY DEF TypeOK, GrpcDown, Handling, ShutsGrpc, CallMatches
<1>4. RpcPhases' /\ Goroutines'
  BY DEF RpcPhases, Goroutines
<1> QED
  BY <1>1, <1>2, <1>3, <1>4

\* GracefulStop refuses new calls first and waits for the running ones.
LEMMA GrpcShutdownIInv ==
  ASSUME NEW c \in Callers, IInv, GrpcShutdownBegin(c) \/ GrpcShutdownEnd(c)
  PROVE  IInv'
<1> USE DEF IInv, GrpcShutdownBegin, GrpcShutdownEnd, serverVars, downVars, reqVars
<1>1. TypeOK'
  BY DEF TypeOK, Servers
<1>2. CallMatches' /\ GatewayFirst'
  BY DEF TypeOK, CallMatches, GatewayFirst, HttpInflight, ShutsGrpc
<1>3. GrpcDown'
  BY DEF TypeOK, GrpcDown, Handling, ShutsGrpc, CallMatches
<1>4. RpcPhases' /\ Goroutines'
  BY DEF RpcPhases, Goroutines
<1> QED
  BY <1>1, <1>2, <1>3, <1>4
-----------------------------------------------------------------------------
\* A request that arrives finds its server up, and so not drained.
LEMMA ArriveIInv ==
  ASSUME NEW r \in Reqs, IInv, HttpArrives(r) \/ RpcArrives(r)
  PROVE  IInv'
<1> USE ConstantsAssumption
    DEF IInv, HttpArrives, RpcArrives, Answer, Accepting, serverVars, downVars, callerVars
<1>1. TypeOK'
  BY ZenonT(60) DEF TypeOK, Reqs
<1>2. CallMatches' /\ Goroutines'
  BY DEF CallMatches, Goroutines
<1>3. GatewayFirst'
  <2>1. CASE HttpArrives(r)
    BY <2>1 DEF GatewayFirst
  <2>2. CASE RpcArrives(r)
    <3>1. HttpInflight' = HttpInflight
      BY <2>2 DEF TypeOK, HttpInflight
    <3> QED
      BY <3>1 DEF GatewayFirst
  <2> QED
    BY <2>1, <2>2
<1>4. GrpcDown'
  BY DEF TypeOK, GrpcDown, Handling, Reqs
<1>5. RpcPhases'
  BY DEF TypeOK, RpcPhases, Reqs
<1> QED
  BY <1>1, <1>2, <1>3, <1>4, <1>5

\* A request that has arrived moves on and is never back in an earlier phase.
LEMMA ReqStepIInv ==
  ASSUME NEW r \in Reqs, IInv, ReqStep(r)
  PROVE  IInv'
<1> USE ConstantsAssumption
    DEF IInv, ReqStep, Forward, HandlerReturns, GatewayReplies, Answer, Accepting,
        serverVars, downVars, callerVars
<1>1. TypeOK'
  BY ZenonT(60) DEF TypeOK, Reqs
<1>2. CallMatches' /\ Goroutines'
  BY DEF CallMatches, Goroutines
<1>3. GatewayFirst'
  BY ZenonT(60) DEF TypeOK, GatewayFirst, HttpInflight, Reqs
<1>4. GrpcDown'
  BY DEF TypeOK, GrpcDown, Handling, Reqs
<1>5. RpcPhases'
  BY ZenonT(60) DEF TypeOK, RpcPhases, Reqs
<1> QED
  BY <1>1, <1>2, <1>3, <1>4, <1>5

\* Redialling the loopback connection changes nothing else.
LEMMA RedialIInv == IInv /\ Redial => IInv'
<1> SUFFICES ASSUME IInv, Redial PROVE IInv'
  OBVIOUS
<1> USE DEF IInv, Redial, serverVars, downVars, callerVars
<1>1. TypeOK'
  BY DEF TypeOK
<1>2. CallMatches' /\ GatewayFirst' /\ GrpcDown' /\ RpcPhases' /\ Goroutines'
  BY DEF CallMatches, GatewayFirst, GrpcDown, RpcPhases, Goroutines, HttpInflight, Handling
<1> QED
  BY <1>1, <1>2

\* Every step keeps the invariant.
LEMMA NextIInv == IInv /\ [Next]_vars => IInv'
<1> SUFFICES ASSUME IInv, [Next]_vars PROVE IInv'
  OBVIOUS
<1>1. CASE \E c \in Callers : CallShutdown(c) \/ DeadlineExpires(c) \/ CallerStep(c)
  BY <1>1, CallIInv, CloseIInv, GatewayShutdownIInv, GrpcShutdownIInv DEF CallerStep
<1>2. CASE \E r \in Reqs : HttpArrives(r) \/ RpcArrives(r) \/ ReqStep(r)
  BY <1>2, ArriveIInv, ReqStepIInv
<1>3. CASE UNCHANGED vars
  BY <1>3 DEF IInv, TypeOK, CallMatches, GatewayFirst, GrpcDown, RpcPhases, Goroutines, HttpInflight,
              Handling, vars, serverVars, downVars, callerVars, reqVars
<1> QED
  BY <1>1, <1>2, <1>3, ServerIInv, RedialIInv DEF Next
-----------------------------------------------------------------------------
\* The invariant holds in every state a server reaches.
THEOREM LifecycleInvariant == Spec => []IInv
BY InitIInv, NextIInv, PTL DEF Spec

\* The state has its types: errch never holds more than its two errors.
THEOREM TypeCorrect == Spec => []TypeOK
<1>1. IInv => TypeOK
  BY DEF IInv
<1> QED
  BY <1>1, LifecycleInvariant, PTL

\* Whoever took the gRPC server down was Stop, past the gateway's drain.
LEMMA IInvDrains == IInv => DrainBeforeGrpc
<1> SUFFICES ASSUME IInv, "grpc" \in down, ~SomeDeadlineExpired, ~GrpcShutDownDirectly
             PROVE  HttpInflight = {}
  BY DEF DrainBeforeGrpc
<1>1. PICK c \in Callers : call[c] \in ShutsGrpc /\ spc[c] \in {"grWait", "returned"}
  BY DEF IInv, GrpcDown
<1>2. call[c] = "Stop" /\ ~expired[c]
  BY <1>1 DEF ShutsGrpc, SomeDeadlineExpired, GrpcShutDownDirectly
<1> QED
  BY <1>1, <1>2 DEF IInv, GatewayFirst

\* Stop drains the gateway before the gRPC server it forwards to goes away.
THEOREM GatewayDrainsFirst == Spec => []DrainBeforeGrpc
BY IInvDrains, LifecycleInvariant, PTL

\* A clean shutdown answers no accepted HTTP request Unavailable.
THEOREM ShutdownCutsNothingOff == Spec => NoRequestCutOff
<1>1. IInv /\ [Next]_vars =>
        [\A r \in HttpReqs :
           outcome[r] # "unavailable" /\ outcome'[r] = "unavailable"
             => "grpc" \notin down \/ SomeDeadlineExpired \/ GrpcShutDownDirectly]_vars
  <2> SUFFICES ASSUME IInv, Next, NEW r \in HttpReqs,
                      outcome[r] # "unavailable", outcome'[r] = "unavailable",
                      "grpc" \in down, ~SomeDeadlineExpired, ~GrpcShutDownDirectly
               PROVE  FALSE
    OBVIOUS
  <2>1. phase[r] \in {"new", "done"}
    BY IInvDrains DEF DrainBeforeGrpc, HttpInflight
  <2>2. \A q \in Reqs : (HttpArrives(q) \/ RpcArrives(q) \/ ReqStep(q)) => outcome'[r] = outcome[r] \/ outcome'[r] # "unavailable"
    BY <2>1 DEF IInv, TypeOK, Reqs, HttpArrives, RpcArrives, ReqStep, Forward, HandlerReturns,
                GatewayReplies, Answer
  <2>3. ServerStep => UNCHANGED outcome
    BY DEF ServerStep, GatewayListen, GatewayClosed, GrpcCreateListener, GrpcServe, GrpcServed,
           ReportError, ServeReturn, StartReturn, reqVars
  <2>4. \A c \in Callers : CallShutdown(c) \/ DeadlineExpires(c) \/ CallerStep(c) => UNCHANGED outcome
    BY DEF CallShutdown, DeadlineExpires, CallerStep, CloseService, ServicesClosed,
           GatewayShutdownBegin, GatewayShutdownEnd, GrpcShutdownBegin, GrpcShutdownEnd, reqVars
  <2>5. Redial => UNCHANGED outcome
    BY DEF Redial
  <2> QED
    BY <2>2, <2>3, <2>4, <2>5 DEF Next
<1> QED
  BY <1>1, LifecycleInvariant, PTL DEF Spec, NoRequestCutOff

\* Start returns with no request unanswered.
THEOREM StartWaitsForRequests == Spec => []StartReturnsDrained
<1>1. IInv => StartReturnsDrained
  <2> SUFFICES ASSUME IInv, entry = "Start", main = "returned", "grpc" \notin errored,
                      ~SomeDeadlineExpired, ~GrpcShutDownDirectly
               PROVE  Inflight = {}
    BY DEF StartReturnsDrained
  <2>1. drained
    BY DEF IInv, Goroutines, Servers
  <2>2. Handling = {} /\ HttpInflight = {}
    BY <2>1, IInvDrains DEF IInv, GrpcDown, DrainBeforeGrpc
  <2> QED
    BY <2>2 DEF IInv, TypeOK, RpcPhases, Handling, HttpInflight, Inflight, Reqs
<1> QED
  BY <1>1, LifecycleInvariant, PTL
-----------------------------------------------------------------------------
(* The refinement *)

Answered == {r \in Reqs : phase[r] = "done"}

\* A clean Stop has returned only when both servers are down and nothing is in
\* flight.
LEMMA StoppedMeansDrained ==
  IInv /\ StoppedCleanly => Servers \subseteq down /\ Inflight = {}
<1> SUFFICES ASSUME IInv, StoppedCleanly PROVE Servers \subseteq down /\ Inflight = {}
  OBVIOUS
<1>1. PICK c \in Callers : call[c] = "Stop" /\ spc[c] = "returned" /\ ~expired[c]
  BY DEF StoppedCleanly
<1>2. "gateway" \in down /\ HttpInflight = {}
  BY <1>1 DEF IInv, GatewayFirst
<1>3. "grpc" \in down /\ Handling = {}
  BY <1>1 DEF IInv, GrpcDown, ShutsGrpc
<1> QED
  BY <1>2, <1>3 DEF IInv, TypeOK, RpcPhases, Servers, Handling, HttpInflight, Inflight, Reqs

\* The same after a step.
LEMMA StoppedMeansDrainedNext == (IInv /\ StoppedCleanly)' => (Inflight = {})'
<1>1. IInv /\ StoppedCleanly => Inflight = {}
  BY StoppedMeansDrained
<1> QED
  BY <1>1, PTL

\* The steps of the serving goroutines are invisible to the abstract server.
LEMMA ServerStutters == ServerStep \/ Redial => UNCHANGED <<Inflight, Answered, StoppedCleanly>>
<1> SUFFICES ASSUME ServerStep \/ Redial PROVE UNCHANGED <<phase, call, spc, expired>>
  BY DEF Inflight, Answered, StoppedCleanly
<1> QED
  BY DEF ServerStep, GatewayListen, GatewayClosed, GrpcCreateListener, GrpcServe, GrpcServed,
         ReportError, ServeReturn, StartReturn, Redial, callerVars, reqVars

\* A caller's step is invisible, or it is the one that completes a clean Stop,
\* and then nothing is in flight.
LEMMA CallerRefines ==
  ASSUME NEW c \in Callers, IInv, IInv',
         CallShutdown(c) \/ DeadlineExpires(c) \/ CallerStep(c)
  PROVE  Graceful!Stop \/ UNCHANGED <<Inflight, Answered, StoppedCleanly>>
<1>1. UNCHANGED phase
  BY DEF CallShutdown, DeadlineExpires, CallerStep, CloseService, ServicesClosed,
         GatewayShutdownBegin, GatewayShutdownEnd, GrpcShutdownBegin, GrpcShutdownEnd, reqVars
<1>2. Inflight' = Inflight /\ Answered' = Answered
  BY <1>1 DEF Inflight, Answered
<1>3. StoppedCleanly => StoppedCleanly'
  BY DEF IInv, TypeOK, StoppedCleanly, CallShutdown, DeadlineExpires, CallerStep, CloseService,
         ServicesClosed, GatewayShutdownBegin, GatewayShutdownEnd, GrpcShutdownBegin, GrpcShutdownEnd
<1>4. CASE StoppedCleanly'
  <2>1. Inflight' = {}
    BY <1>4, StoppedMeansDrainedNext
  <2> QED
    BY <1>2, <1>4, <2>1 DEF Graceful!Stop, Answered
<1>5. CASE ~StoppedCleanly'
  BY <1>2, <1>3, <1>5 DEF StoppedCleanly
<1> QED
  BY <1>4, <1>5

\* An arriving request is admitted before any clean Stop has returned.
LEMMA ArriveRefines ==
  ASSUME NEW r \in Reqs, IInv, HttpArrives(r) \/ RpcArrives(r)
  PROVE  Graceful!Admit(r)
<1>1. ~StoppedCleanly
  BY StoppedMeansDrained DEF HttpArrives, RpcArrives, Accepting, Servers
<1>2. /\ phase[r] = "new"
      /\ phase' = [phase EXCEPT ![r] = IF r \in HttpReqs THEN "gateway" ELSE "handling"]
      /\ UNCHANGED <<call, spc, expired>>
  BY ConstantsAssumption DEF HttpArrives, RpcArrives, Answer, callerVars
<1>3. r \notin Inflight \cup Answered
  BY <1>2 DEF Inflight, Answered
<1>4. Inflight' = Inflight \cup {r} /\ Answered' = Answered
  BY <1>2 DEF IInv, TypeOK, Inflight, Answered
<1>5. StoppedCleanly' = StoppedCleanly
  BY <1>2 DEF StoppedCleanly
<1> QED
  BY <1>1, <1>3, <1>4, <1>5 DEF Graceful!Admit, Answered

\* A request's last step is its answer; the others are invisible.
LEMMA ReqStepRefines ==
  ASSUME NEW r \in Reqs, IInv, ReqStep(r)
  PROVE  Graceful!Finish(r) \/ UNCHANGED <<Inflight, Answered, StoppedCleanly>>
<1>1. PICK to \in {"handling", "replying", "done"} : phase' = [phase EXCEPT ![r] = to]
  BY DEF ReqStep, Forward, HandlerReturns, GatewayReplies, Answer
<1>2. phase[r] \in {"gateway", "handling", "replying"} /\ UNCHANGED <<call, spc, expired>>
  BY DEF ReqStep, Forward, HandlerReturns, GatewayReplies, Answer, callerVars
<1>3. StoppedCleanly' = StoppedCleanly
  BY <1>2 DEF StoppedCleanly
<1>4. CASE to = "done"
  <2>1. r \in Inflight /\ Inflight' = Inflight \ {r} /\ Answered' = Answered \cup {r}
    BY <1>1, <1>2, <1>4 DEF IInv, TypeOK, Inflight, Answered
  <2> QED
    BY <1>3, <2>1 DEF Graceful!Finish, Answered
<1>5. CASE to # "done"
  <2>1. Inflight' = Inflight /\ Answered' = Answered
    BY <1>1, <1>2, <1>5 DEF IInv, TypeOK, Inflight, Answered
  <2> QED
    BY <1>3, <2>1
<1> QED
  BY <1>4, <1>5

\* A Stop that returns within its deadline is graceful: at that moment every
\* request has been answered, and none is admitted afterwards.
THEOREM StopIsGraceful == Spec => ImplementsGracefulShutdown
<1>1. Init => Graceful!Init
  BY DEF Init, Graceful!Init, Inflight, StoppedCleanly
<1>2. IInv /\ IInv' /\ [Next]_vars => [Graceful!Next]_(Graceful!vars)
  <2> SUFFICES ASSUME IInv, IInv', [Next]_vars
               PROVE  Graceful!Next \/ UNCHANGED <<Inflight, Answered, StoppedCleanly>>
    BY DEF Graceful!vars, Answered
  <2>1. CASE UNCHANGED vars
    BY <2>1 DEF vars, callerVars, reqVars, Inflight, Answered, StoppedCleanly
  <2>2. CASE ServerStep \/ Redial
    BY <2>2, ServerStutters
  <2>3. CASE \E c \in Callers : CallShutdown(c) \/ DeadlineExpires(c) \/ CallerStep(c)
    BY <2>3, CallerRefines DEF Graceful!Next
  <2>4. CASE \E r \in Reqs : HttpArrives(r) \/ RpcArrives(r) \/ ReqStep(r)
    BY <2>4, ArriveRefines, ReqStepRefines DEF Graceful!Next
  <2> QED
    BY <2>1, <2>2, <2>3, <2>4 DEF Next
<1> QED
  BY <1>1, <1>2, LifecycleInvariant, PTL DEF Spec, ImplementsGracefulShutdown, Graceful!Spec
=============================================================================
