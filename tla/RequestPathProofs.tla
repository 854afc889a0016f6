------------------------- MODULE RequestPathProofs -------------------------
(***************************************************************************)
(* Theorems about RequestPath, for every set of requests and inputs and    *)
(* every chain of interceptors an application may list.                    *)
(***************************************************************************)
EXTENDS RequestPath, FiniteSetTheorems, TLAPS

\* The default interceptors come first; the application's follow, shifted.
LEMMA ChainFacts ==
  ASSUME config \in Configs
  PROVE  /\ chain \in Seq(Interceptors)
         /\ Len(ServerOptions) = Len(chain) + 2
         /\ ServerOptions[1] = "Timeout" /\ ServerOptions[2] = "Observe"
         /\ \A i \in 1..Len(chain) : ServerOptions[i + 2] = chain[i]
         /\ \A i \in 3..Len(ServerOptions) : ServerOptions[i] = chain[i - 2]
         /\ keyFn \in KeyFns /\ passed \in BOOLEAN
<1>1. chain \in Seq(Interceptors) /\ keyFn \in KeyFns /\ passed \in BOOLEAN
  BY RequestPathAssumption DEF config
<1>2. QED
  BY <1>1 DEF ServerOptions, Interceptors

\* What clients send, as metadata.
LEMMA PairsType ==
  ASSUME NEW S, NEW v \in S \cup {Nil}, Nil \notin S
  PROVE  /\ Pairs(v) \in Seq(S)
         /\ Pairs(v) # <<>> => v # Nil /\ Pairs(v)[1] = v
  BY DEF Pairs

LEMMA InputType ==
  ASSUME input \in [Reqs -> Inputs], NEW r \in Reqs
  PROVE  /\ input[r] \in Input
         /\ input[r].via \in {"gateway", "grpc"} /\ input[r].mode \in Modes /\ input[r].guard \in Guards
         /\ input[r].auth \in Tokens \cup {Nil} /\ input[r].cookie \in Tokens \cup {Nil}
         /\ input[r].apikey \in ApiKeys \cup {Nil} /\ input[r].id \in TraceIds \cup {Nil}
         /\ input[r].addr \in Addrs \cup {Nil}
<1>1. input[r] \in Input
  BY RequestPathAssumption
<1>2. QED
  BY <1>1 DEF Input

\* Request ids: the empty one, those made here and those a client sends.
LEMMA EmptyIds == <<>> \in Ids
  BY DEF Ids

LEMMA IdTypes ==
  ASSUME NEW r \in Reqs, NEW v \in TraceIds \cup {Nil}
  PROVE  NewID(r) \in Ids /\ Pairs(v) \in Ids
<1> DEFINE S == Reqs \cup TraceIds
<1>1. r \in S /\ v \in S \cup {Nil}
  OBVIOUS
<1> HIDE DEF S
<1>2. <<r>> \in Seq(S) /\ Pairs(v) \in Seq(S)
  BY <1>1 DEF Pairs
<1>3. QED
  BY <1>2 DEF Ids, NewID, S
-----------------------------------------------------------------------------
(* Types *)

LEMMA InitTypeOK == Init => TypeOK
<1> SUFFICES ASSUME Init PROVE TypeOK
  OBVIOUS
<1>1. config \in Configs
  <2>1. PICK c \in Configs : chain = c[1] /\ keyFn = c[2] /\ passed = c[3]
    BY DEF Init, createConfig
  <2>2. c \in Seq(Interceptors) \X KeyFns \X BOOLEAN
    BY RequestPathAssumption
  <2>3. c = <<c[1], c[2], c[3]>>
    BY <2>2
  <2>4. QED
    BY <2>1, <2>3 DEF config
<1>2. Places
  BY <1>1, ChainFacts DEF Init, createConfig, Places
<1>3. admitted \in [Reqs -> Keys]
  BY DEF Init, createConfig, NoKey, Key, Keys, Peers
<1>4. result \in [Reqs -> Results] /\ reply \in [Reqs -> Replies]
  <2>1. Ok \in Results /\ NoReply \in Replies
    BY EmptyIds DEF Ok, Results, NoReply, Replies, Texts, Codes
  <2>2. QED
    BY <2>1 DEF Init, createConfig
<1>5. md \in [Reqs -> Metadata] /\ header \in [Reqs -> Ids]
  <2>1. NoMD \in Metadata /\ <<>> \in Ids
    BY EmptyIds DEF NoMD, Metadata
  <2>2. QED
    BY <2>1 DEF Init, createConfig
<1>6. ctx \in [Reqs -> Contexts] /\ peer \in [Reqs -> Peers]
  BY DEF Init, createConfig, NoCtx, Contexts, Peers
<1>7. input \in [Reqs -> Inputs] /\ pc \in [Reqs -> {"new", "in", "handler", "out", "done"}]
      /\ at \in [Reqs -> Nat] /\ ran \subseteq Reqs /\ crashed \in BOOLEAN
  BY DEF Init, createConfig
<1>8. QED
  BY <1>1, <1>2, <1>3, <1>4, <1>5, <1>6, <1>7 DEF TypeOK

LEMMA ArrivalTypeOK ==
  ASSUME TypeOK, NEW r \in Reqs, GatewayCalls(r) \/ ClientCalls(r)
  PROVE  TypeOK'
<1>0. Nil \notin Tokens /\ Nil \notin ApiKeys /\ Nil \notin TraceIds
  BY RequestPathAssumption
<1>1. input[r].auth \in Tokens \cup {Nil} /\ input[r].cookie \in Tokens \cup {Nil}
      /\ input[r].apikey \in ApiKeys \cup {Nil} /\ input[r].id \in TraceIds \cup {Nil}
      /\ input[r].addr \in Addrs \cup {Nil}
  BY InputType DEF TypeOK
<1>2. Pairs(input[r].auth) \in Seq(Tokens) /\ SetMetadataAuthorization(input[r]) \in Seq(Tokens)
      /\ Pairs(input[r].apikey) \in Seq(ApiKeys)
  BY <1>0, <1>1 DEF Pairs, SetMetadataAuthorization
<1>3. Pairs(input[r].id) \in Ids /\ <<>> \in Ids
  BY <1>1, IdTypes, EmptyIds
<1>4. Annotate(input[r]) \in Metadata
  <2>1. Pairs(input[r].auth) \o SetMetadataAuthorization(input[r]) \in Seq(Tokens)
    BY <1>2
  <2>2. QED
    BY <2>1, <1>2, <1>3 DEF Annotate, WithPassedHeader, Metadata
<1>5. [auth |-> Pairs(input[r].auth), apikey |-> Pairs(input[r].apikey),
       id |-> Pairs(input[r].id)] \in Metadata
  BY <1>2, <1>3 DEF Metadata
<1>6. md' \in [Reqs -> Metadata]
  BY <1>4, <1>5 DEF GatewayCalls, ClientCalls, TypeOK
<1>7. peer' \in [Reqs -> Peers]
  BY <1>1 DEF GatewayCalls, ClientCalls, TypeOK, Peers
<1>8. pc[r] = "new" /\ pc' = [pc EXCEPT ![r] = "in"] /\ at' = at /\ config' = config
  BY DEF GatewayCalls, ClientCalls, config
<1>9. Places'
  <2>1. Len(ServerOptions) \in Nat /\ 1 <= Len(ServerOptions)
    BY ChainFacts DEF TypeOK
  <2>2. ServerOptions' = ServerOptions
    BY <1>8 DEF ServerOptions, config
  <2>3. QED
    BY <1>8, <2>1, <2>2 DEF Places, TypeOK
<1>10. QED
  BY <1>6, <1>7, <1>8, <1>9 DEF GatewayCalls, ClientCalls, TypeOK

\* Calling on and returning keep a request in its place, and the rest as it is.
LEMMA CallNextTypeOK ==
  ASSUME TypeOK, NEW r \in Reqs, pc[r] = "in", CallNext(r),
         md' \in [Reqs -> Metadata], ctx' \in [Reqs -> Contexts], result' \in [Reqs -> Results],
         header' \in [Reqs -> Ids], admitted' \in [Reqs -> Keys], ran' \subseteq Reqs
  PROVE  TypeOK'
<1>1. config' = config /\ chain' = chain /\ input' = input /\ peer' = peer /\ reply' = reply /\ crashed' = crashed
  BY DEF CallNext, config
<1>2. ServerOptions' = ServerOptions
  BY <1>1 DEF ServerOptions
<1>3. Len(ServerOptions) \in Nat
  BY ChainFacts DEF TypeOK
<1>4. at' = [at EXCEPT ![r] = @ + 1] /\ at \in [Reqs -> Nat] /\ at[r] \in 1..Len(ServerOptions)
  BY DEF CallNext, TypeOK, Places
<1>5. pc' \in [Reqs -> {"new", "in", "handler", "out", "done"}] /\ at' \in [Reqs -> Nat]
  BY <1>4 DEF CallNext, TypeOK
<1>6. Places'
  <2> SUFFICES ASSUME NEW q \in Reqs
               PROVE  /\ pc'[q] = "new" => at'[q] = 1
                      /\ pc'[q] = "in" => at'[q] \in 1..Len(ServerOptions)
                      /\ pc'[q] = "handler" => at'[q] = Len(ServerOptions) + 1
                      /\ pc'[q] = "out" => at'[q] \in 0..Len(ServerOptions)
    BY <1>2 DEF Places
  <2>1. CASE q = r
    BY <2>1, <1>3, <1>4 DEF CallNext, TypeOK
  <2>2. CASE q # r
    BY <2>2, <1>4 DEF CallNext, TypeOK, Places
  <2>3. QED
    BY <2>1, <2>2
<1>7. QED
  BY <1>1, <1>5, <1>6 DEF TypeOK

LEMMA ReturnErrorTypeOK ==
  ASSUME TypeOK, NEW r \in Reqs, pc[r] \in {"in", "handler"},
         at' = [at EXCEPT ![r] = @ - 1], pc' = [pc EXCEPT ![r] = "out"],
         UNCHANGED <<config, input, md, peer, ctx, header, reply, crashed>>,
         result' \in [Reqs -> Results], admitted' = admitted, ran' \subseteq Reqs
  PROVE  TypeOK'
<1>1. ServerOptions' = ServerOptions
  BY DEF ServerOptions, config
<1>2. Len(ServerOptions) \in Nat
  BY ChainFacts DEF TypeOK
<1>3. at \in [Reqs -> Nat] /\ at[r] \in 1..(Len(ServerOptions) + 1)
  BY <1>2 DEF TypeOK, Places
<1>4. at' \in [Reqs -> Nat]
  BY <1>2, <1>3
<1>5. Places'
  BY <1>1, <1>2, <1>3 DEF TypeOK, Places
<1>6. QED
  BY <1>4, <1>5 DEF TypeOK
LEMMA ResultTypes ==
  /\ {Ok, Plain, XError("NotFound"), Status("Internal", "plain"), Panic, ContextError} \subseteq Results
  /\ {XError("Unauthenticated"), Status("ResourceExhausted", "app")} \subseteq Results
  /\ {Status("Unauthenticated", "app"), Status("PermissionDenied", "app")} \subseteq Results
  BY DEF Ok, Plain, XError, Status, Panic, ContextError, Results, Codes, Texts

LEMMA UnwrapType ==
  ASSUME NEW e \in Results, NEW name
  PROVE  Unwrap(name, e) \in Results
  BY DEF Unwrap, Convert, Hidden, Status, Results, Codes, Texts

LEMMA GoingInTypeOK ==
  ASSUME TypeOK, NEW r \in Reqs, Timeout(r) \/ PassThrough(r) \/ RequestID(r)
  PROVE  TypeOK'
<1>1. CASE Timeout(r)
  <2>1. ctx' \in [Reqs -> Contexts]
    BY <1>1, SMTT(30) DEF Timeout, TypeOK, Contexts
  <2>2. QED
    BY <1>1, <2>1, CallNextTypeOK DEF Timeout, In, TypeOK
<1>2. CASE PassThrough(r)
  BY <1>2, CallNextTypeOK DEF PassThrough, In, TypeOK
<1>3. CASE RequestID(r)
  <2> DEFINE id == IF md[r].id = <<>> THEN NewID(r) ELSE md[r].id
  <2>1. NewID(r) \in Ids
    BY IdTypes
  <2>2. id \in Ids
    BY <2>1 DEF TypeOK, Metadata
  <2>3. md' = [md EXCEPT ![r].id = id] /\ header' = [header EXCEPT ![r] = id]
    BY <1>3 DEF RequestID, GetRequestIDFromContext, AttachRequestIDToIncomingContext
  <2> HIDE DEF id
  <2>4. md' \in [Reqs -> Metadata] /\ header' \in [Reqs -> Ids]
    BY <2>2, <2>3 DEF TypeOK, Metadata
  <2>5. QED
    BY <1>3, <2>4, CallNextTypeOK DEF RequestID, In, TypeOK
<1>4. QED
  BY <1>1, <1>2, <1>3

LEMMA AuthTypeOK ==
  ASSUME TypeOK, NEW r \in Reqs, Auth(r)
  PROVE  TypeOK'
<1>1. pc[r] = "in" /\ UNCHANGED <<md, header, admitted, ran>>
  BY DEF Auth, In
<1>2. CASE UNCHANGED <<ctx, result>> /\ CallNext(r)
  BY <1>1, <1>2, CallNextTypeOK DEF TypeOK
<1>3. CASE HasToken(r) /\ ctx' = [ctx EXCEPT ![r].claims = md[r].auth[1]]
           /\ UNCHANGED result /\ CallNext(r)
  <2>1. ctx' \in [Reqs -> Contexts]
    BY <1>3 DEF TypeOK, Contexts, HasToken
  <2>2. QED
    BY <1>1, <1>3, <2>1, CallNextTypeOK DEF TypeOK
<1>4. CASE HasKey(r) /\ ctx' = [ctx EXCEPT ![r].vendor = md[r].apikey[1]]
           /\ UNCHANGED result /\ CallNext(r)
  <2>1. ctx' \in [Reqs -> Contexts]
    BY <1>4 DEF TypeOK, Contexts, HasKey
  <2>2. QED
    BY <1>1, <1>4, <2>1, CallNextTypeOK DEF TypeOK
<1>5. CASE UNCHANGED ctx /\ ReturnError(r, XError("Unauthenticated"))
  <2>1. result' \in [Reqs -> Results]
    BY <1>5, ResultTypes DEF ReturnError, TypeOK
  <2>2. QED
    BY <1>1, <1>5, <2>1, ReturnErrorTypeOK DEF ReturnError, TypeOK
<1>6. QED
  BY <1>2, <1>3, <1>4, <1>5 DEF Auth

LEMMA KeyOfType ==
  ASSUME TypeOK, NEW r \in Reqs
  PROVE  KeyOf(r) \in Keys
<1>1. KeyByIP(r) \in Keys
  BY DEF KeyByIP, NoKey, Key, Keys, Peers, TypeOK
<1>2. KeyByUserID(r) \in Keys
  <2>1. ctx[r].claims \in DOMAIN Identity \cup {Nil}
    BY DEF TypeOK, Contexts
  <2>2. ctx[r].claims # Nil => Identity[ctx[r].claims] \in Users \cup {NoIdentity}
    BY <2>1, RequestPathAssumption
  <2>3. QED
    BY <1>1, <2>2 DEF KeyByUserID, Key, Keys
<1>3. Key("method", input[r].mode) \in Keys
  BY InputType DEF TypeOK, Key, Keys
<1>4. keyFn \in KeyFns
  BY ChainFacts DEF TypeOK
<1>5. QED
  BY <1>1, <1>2, <1>3, <1>4 DEF KeyOf, KeyFns

LEMMA RateLimitTypeOK ==
  ASSUME TypeOK, NEW r \in Reqs, RateLimit(r)
  PROVE  TypeOK'
<1>1. pc[r] = "in" /\ UNCHANGED <<md, ctx, header, ran>>
  BY DEF RateLimit, In
<1>2. CASE UNCHANGED <<admitted, result>> /\ CallNext(r)
  BY <1>1, <1>2, CallNextTypeOK DEF TypeOK
<1>3. CASE admitted' = [admitted EXCEPT ![r] = KeyOf(r)] /\ UNCHANGED result /\ CallNext(r)
  <2>1. admitted' \in [Reqs -> Keys]
    BY <1>3, KeyOfType DEF TypeOK
  <2>2. QED
    BY <1>1, <1>3, <2>1, CallNextTypeOK DEF TypeOK
<1>4. CASE UNCHANGED admitted /\ ReturnError(r, Status("ResourceExhausted", "app"))
  <2>1. result' \in [Reqs -> Results]
    BY <1>4, ResultTypes DEF ReturnError, TypeOK
  <2>2. QED
    BY <1>1, <1>4, <2>1, ReturnErrorTypeOK DEF ReturnError, TypeOK
<1>5. QED
  BY <1>2, <1>3, <1>4 DEF RateLimit
LEMMA GuardType ==
  ASSUME NEW r \in Reqs
  PROVE  Guard(r) \in {Ok, Status("Unauthenticated", "app"), Status("PermissionDenied", "app")}
  BY DEF Guard

LEMMA HandlerTypeOK ==
  ASSUME TypeOK, NEW r \in Reqs, GuardRejects(r) \/ HandlerReturns(r) \/ DeadlineExpires(r)
  PROVE  TypeOK'
<1>1. PICK e \in Results : HandlerEnds(r, e)
  BY GuardType, ResultTypes DEF GuardRejects, HandlerReturns, DeadlineExpires
<1>2. result' \in [Reqs -> Results]
  BY <1>1 DEF HandlerEnds, TypeOK
<1>3. ran' \subseteq Reqs
  BY DEF GuardRejects, HandlerReturns, DeadlineExpires, TypeOK
<1>4. QED
  BY <1>1, <1>2, <1>3, ReturnErrorTypeOK DEF HandlerEnds

LEMMA GoingOutTypeOK ==
  ASSUME TypeOK, NEW r \in Reqs, Return(r) \/ Reply(r)
  PROVE  TypeOK'
<1>1. ServerOptions' = ServerOptions /\ config' = config /\ Len(ServerOptions) \in Nat
  BY ChainFacts DEF ServerOptions, config, TypeOK, Return, Reply
<1>2. CASE Return(r)
  <2>1. result' \in [Reqs -> Results]
    BY <1>2, UnwrapType DEF Return, TypeOK
  <2>2. at \in [Reqs -> Nat] /\ at' = [at EXCEPT ![r] = @ - 1] /\ at[r] \in 1..Len(ServerOptions)
    BY <1>1, <1>2 DEF Return, TypeOK, Places
  <2>3. at' \in [Reqs -> Nat]
    BY <2>2, <1>1
  <2>4. Places'
    BY <1>1, <1>2, <2>2 DEF Return, TypeOK, Places
  <2>5. QED
    BY <1>1, <1>2, <2>1, <2>3, <2>4 DEF Return, TypeOK
<1>3. CASE Reply(r)
  <2>1. reply' \in [Reqs -> Replies]
    <3>1. result[r] \in Results /\ header[r] \in Ids
      BY DEF TypeOK
    <3>2. OutgoingHeader(r) \in Ids
      BY <3>1, EmptyIds DEF OutgoingHeader
    <3>3. [code |-> result[r].code, text |-> result[r].text, id |-> OutgoingHeader(r)] \in Replies
      BY <3>1, <3>2 DEF Results, Replies
    <3>4. QED
      BY <1>3, <3>3 DEF Reply, TypeOK
  <2>2. Places'
    BY <1>1, <1>3 DEF Reply, TypeOK, Places
  <2>3. pc' \in [Reqs -> {"new", "in", "handler", "out", "done"}] /\ crashed' \in BOOLEAN
    BY <1>3 DEF Reply, TypeOK
  <2>4. QED
    BY <1>1, <1>3, <2>1, <2>2, <2>3 DEF Reply, TypeOK
<1>4. QED
  BY <1>2, <1>3

\* Every variable keeps its type, and a request stays inside the chain, for
\* every list of interceptors: CallNext never calls past the handler and
\* Return never returns past grpc-go.
THEOREM TypeCorrect == Spec => []TypeOK
<1>1. Init => TypeOK
  BY InitTypeOK
<1>2. TypeOK /\ [Next]_vars => TypeOK'
  <2> SUFFICES ASSUME TypeOK, [Next]_vars PROVE TypeOK'
    OBVIOUS
  <2>1. CASE Next
    <3>1. PICK r \in Reqs : \/ GatewayCalls(r) \/ ClientCalls(r)
                            \/ Step(r) \/ HandlerReturns(r) \/ DeadlineExpires(r)
      BY <2>1 DEF Next
    <3>2. QED
      BY <3>1, ArrivalTypeOK, GoingInTypeOK, AuthTypeOK, RateLimitTypeOK, HandlerTypeOK,
         GoingOutTypeOK DEF Step
  <2>2. CASE UNCHANGED vars
    BY <2>2 DEF vars, config, TypeOK, Places, ServerOptions
  <2>3. QED
    BY <2>1, <2>2
<1>3. QED
  BY <1>1, <1>2, PTL DEF Spec
-----------------------------------------------------------------------------
(* One request at a time *)

Does(r) ==
  \/ GatewayCalls(r) \/ ClientCalls(r)
  \/ Step(r) \/ HandlerReturns(r) \/ DeadlineExpires(r)

\* The configuration and what the clients sent never change, and a step of one
\* request leaves the state of the others alone.
LEMMA Frame ==
  ASSUME TypeOK, NEW r \in Reqs, Does(r)
  PROVE  /\ chain' = chain /\ keyFn' = keyFn /\ passed' = passed /\ config' = config
         /\ ServerOptions' = ServerOptions /\ input' = input
         /\ \A q \in Reqs \ {r} :
              /\ pc'[q] = pc[q] /\ at'[q] = at[q] /\ md'[q] = md[q] /\ peer'[q] = peer[q]
              /\ ctx'[q] = ctx[q] /\ result'[q] = result[q] /\ header'[q] = header[q]
              /\ admitted'[q] = admitted[q] /\ reply'[q] = reply[q] /\ (q \in ran' <=> q \in ran)
<1> USE DEF TypeOK, config
<1>1. CASE GatewayCalls(r) \/ ClientCalls(r)
  BY <1>1 DEF GatewayCalls, ClientCalls, ServerOptions
<1>2. CASE Timeout(r) \/ PassThrough(r) \/ RequestID(r)
  BY <1>2 DEF Timeout, PassThrough, RequestID, AttachRequestIDToIncomingContext,
             CallNext, ServerOptions
<1>3. CASE Auth(r)
  BY <1>3 DEF Auth, CallNext, ReturnError, ServerOptions
<1>4. CASE RateLimit(r)
  BY <1>4 DEF RateLimit, CallNext, ReturnError, ServerOptions
<1>5. CASE GuardRejects(r) \/ HandlerReturns(r) \/ DeadlineExpires(r)
  BY <1>5 DEF GuardRejects, HandlerReturns, DeadlineExpires, HandlerEnds, ServerOptions
<1>6. CASE Return(r) \/ Reply(r)
  BY <1>6 DEF Return, Reply, ServerOptions
<1>7. QED
  BY <1>1, <1>2, <1>3, <1>4, <1>5, <1>6 DEF Does, Step
-----------------------------------------------------------------------------
(* Failures *)

\* A position of the chain whose interceptor hides what a client must not see:
\* an error wrapper outside every recovery.
Hides(i) ==
  /\ i \in DOMAIN chain /\ chain[i] = "ErrorWrapper"
  /\ \A j \in DOMAIN chain : chain[j] = "Recovery" => i < j

\* What a request carries on its way out: a panic has not passed a recovery,
\* a text not meant for clients belongs to a panic, a plain or an internal
\* error, and no such text but a panic's is outside a position that hides it.
CarriedWell(r) ==
  pc[r] = "out" =>
    /\ result[r].kind = "panic" =>
         \A i \in DOMAIN chain : chain[i] = "Recovery" => i + 2 <= at[r]
    /\ result[r].text \in {"plain", "panic"} =>
         result[r].kind \in {"plain", "panic"} \/ (result[r].kind # "ok" /\ result[r].code = "Internal")
    /\ \A i \in DOMAIN chain :
         Hides(i) /\ at[r] < i + 2 =>
           result[r].kind = "panic" \/ result[r].text \notin {"plain", "panic"}

FailureInv ==
  /\ \A r \in Reqs : CarriedWell(r)
  /\ FailuresContained

\* Unwrapping, by kind of the error.
LEMMA UnwrapFacts ==
  ASSUME NEW e \in Results, NEW name
  PROVE  /\ Unwrap(name, e).kind = "panic" => e.kind = "panic" /\ name # "Recovery" /\ Unwrap(name, e) = e
         /\ name = "ErrorWrapper" /\ e.kind \notin {"ok", "panic"}
              => /\ Unwrap(name, e).text \in {"generic", e.text}
                 /\ e.kind = "plain" \/ e.code = "Internal" => Unwrap(name, e).text = "generic"
         /\ name = "Recovery" /\ e.kind = "panic" => Unwrap(name, e) = Status("Internal", "panic")
         /\ ~(name = "ErrorWrapper" /\ e.kind \notin {"ok", "panic"})
            /\ ~(name = "Recovery" /\ e.kind = "panic") => Unwrap(name, e) = e
  BY DEF Unwrap, Convert, Hidden, Status, Results

LEMMA ReturnCarriesWell ==
  ASSUME TypeOK, NEW r \in Reqs, CarriedWell(r), Return(r)
  PROVE  CarriedWell(r)'
<1> DEFINE name == ServerOptions[at[r]]
           e == result[r]
           u == Unwrap(name, e)
<1>1. /\ pc[r] = "out" /\ pc' = pc /\ chain' = chain
      /\ result'[r] = u /\ at'[r] = at[r] - 1 /\ e \in Results
  BY DEF Return, TypeOK, config
<1>2. at[r] \in 1..Len(ServerOptions) /\ Len(chain) \in Nat /\ Len(ServerOptions) = Len(chain) + 2
      /\ DOMAIN chain = 1..Len(chain)
  BY ChainFacts DEF Return, TypeOK, Places
<1>3. \A i \in DOMAIN chain : at[r] = i + 2 => chain[i] = name
  BY <1>2, ChainFacts DEF TypeOK
<1>4. name \in {"ErrorWrapper", "Recovery"} =>
        \E i \in DOMAIN chain : at[r] = i + 2 /\ chain[i] = name
  <2>1. at[r] \in 3..Len(ServerOptions) \/ name \in {"Timeout", "Observe"}
    BY <1>2, ChainFacts DEF TypeOK
  <2>2. at[r] \in 3..Len(ServerOptions) => at[r] - 2 \in DOMAIN chain /\ name = chain[at[r] - 2]
    BY <1>2, ChainFacts DEF TypeOK
  <2>3. QED
    BY <1>2, <2>1, <2>2
<1>5. /\ u.kind = "panic" => e.kind = "panic" /\ name # "Recovery" /\ u = e
      /\ name = "ErrorWrapper" /\ e.kind \notin {"ok", "panic"}
           => /\ u.text \in {"generic", e.text}
              /\ e.kind = "plain" \/ e.code = "Internal" => u.text = "generic"
      /\ name = "Recovery" /\ e.kind = "panic" => u = Status("Internal", "panic")
      /\ ~(name = "ErrorWrapper" /\ e.kind \notin {"ok", "panic"})
         /\ ~(name = "Recovery" /\ e.kind = "panic") => u = e
  BY <1>1, UnwrapFacts
<1>6. Status("Internal", "panic").kind = "status" /\ Status("Internal", "panic").code = "Internal"
      /\ Status("Internal", "panic").text = "panic"
  BY DEF Status
<1> HIDE DEF name, u
<1>7. u.kind = "panic" => \A i \in DOMAIN chain : chain[i] = "Recovery" => i + 2 <= at[r] - 1
  BY <1>1, <1>2, <1>3, <1>5 DEF CarriedWell
<1>8. u.text \in {"plain", "panic"} =>
        u.kind \in {"plain", "panic"} \/ (u.kind # "ok" /\ u.code = "Internal")
  BY <1>1, <1>5, <1>6 DEF CarriedWell
<1>9. ASSUME NEW i \in DOMAIN chain, Hides(i), at[r] - 1 < i + 2
      PROVE  u.kind = "panic" \/ u.text \notin {"plain", "panic"}
  <2>1. CASE at[r] < i + 2
    <3>1. ~(name = "Recovery")
      BY <2>1, <1>2, <1>4, <1>9 DEF Hides
    <3>2. e.kind = "panic" \/ e.text \notin {"plain", "panic"}
      BY <2>1, <1>1, <1>9 DEF CarriedWell
    <3>3. QED
      BY <3>1, <3>2, <1>5
  <2>2. CASE at[r] = i + 2
    BY <2>2, <1>1, <1>3, <1>5, <1>9 DEF CarriedWell, Hides
  <2>3. QED
    BY <2>1, <2>2, <1>2, <1>9
<1>10. \A i \in DOMAIN chain : Hides(i)' <=> Hides(i)
  BY <1>1 DEF Hides
<1>11. QED
  BY <1>1, <1>7, <1>8, <1>9, <1>10 DEF CarriedWell
LEMMA FailureStep ==
  ASSUME TypeOK, FailureInv, NEW r \in Reqs, Does(r)
  PROVE  FailureInv'
<1>1. /\ chain' = chain
      /\ \A q \in Reqs \ {r} :
           pc'[q] = pc[q] /\ at'[q] = at[q] /\ result'[q] = result[q] /\ reply'[q] = reply[q]
  BY Frame
<1>2. \A i \in DOMAIN chain : Hides(i)' <=> Hides(i)
  BY <1>1 DEF Hides
<1>3. ASSUME NEW q \in Reqs, q # r PROVE CarriedWell(q)'
  BY <1>1, <1>2, <1>3 DEF CarriedWell, FailureInv
<1>4. at \in [Reqs -> Nat] /\ Len(chain) \in Nat /\ Len(ServerOptions) = Len(chain) + 2
      /\ DOMAIN chain = 1..Len(chain)
  BY ChainFacts DEF TypeOK
<1>5. CASE \/ GatewayCalls(r) \/ ClientCalls(r) \/ Timeout(r) \/ PassThrough(r) \/ RequestID(r)
           \/ (\E e : ReturnError(r, e) /\ e \in {XError("Unauthenticated"), Status("ResourceExhausted", "app")})
           \/ (pc[r] = "in" /\ CallNext(r))
  <2>1. pc'[r] # "out" \/ (result'[r].kind # "panic" /\ result'[r].text = "app")
    <3>1. CASE \E e : ReturnError(r, e) /\ e \in {XError("Unauthenticated"), Status("ResourceExhausted", "app")}
      <4>1. PICK e : ReturnError(r, e) /\ e \in {XError("Unauthenticated"), Status("ResourceExhausted", "app")}
        BY <3>1
      <4>2. result'[r] = e
        BY <4>1 DEF ReturnError, TypeOK
      <4>3. QED
        BY <4>1, <4>2 DEF XError, Status
    <3>2. CASE pc[r] = "in" /\ CallNext(r)
      BY <3>2 DEF CallNext, TypeOK
    <3>3. CASE GatewayCalls(r) \/ ClientCalls(r)
      BY <3>3 DEF GatewayCalls, ClientCalls, TypeOK
    <3>4. QED
      BY <1>5, <3>1, <3>2, <3>3 DEF Timeout, PassThrough, RequestID, In
  <2>2. CarriedWell(r)'
    BY <2>1 DEF CarriedWell
  <2>3. reply' = reply /\ crashed' = crashed
    BY <1>5 DEF GatewayCalls, ClientCalls, Timeout, PassThrough, RequestID, CallNext, ReturnError
  <2>4. FailuresContained'
    BY <1>1, <2>3 DEF FailureInv, FailuresContained, Has, Outside
  <2>5. QED
    BY <1>3, <2>2, <2>4 DEF FailureInv
<1>6. CASE GuardRejects(r) \/ HandlerReturns(r) \/ DeadlineExpires(r)
  <2>1. PICK e : /\ HandlerEnds(r, e)
                 /\ e \in {Ok, Plain, XError("NotFound"), Status("Internal", "plain"), Panic, ContextError,
                           Status("Unauthenticated", "app"), Status("PermissionDenied", "app")}
    BY <1>6, GuardType DEF GuardRejects, HandlerReturns, DeadlineExpires
  <2>2. e.text \in {"plain", "panic"} =>
          e.kind \in {"plain", "panic"} \/ (e.kind # "ok" /\ e.code = "Internal")
    <3>1. CASE e \in {Ok, XError("NotFound"), Status("Unauthenticated", "app"), Status("PermissionDenied", "app")}
      BY <3>1 DEF Ok, XError, Status
    <3>2. CASE e \in {Plain, Panic, ContextError}
      BY <3>2 DEF Plain, Panic, ContextError
    <3>3. CASE e = Status("Internal", "plain")
      BY <3>3 DEF Status
    <3>4. QED
      BY <2>1, <3>1, <3>2, <3>3
  <2>3. at'[r] = Len(chain) + 2 /\ result'[r] = e /\ reply' = reply /\ crashed' = crashed
    BY <2>1, <1>4 DEF HandlerEnds, TypeOK, Places
  <2>4. CarriedWell(r)'
    BY <1>1, <1>4, <2>2, <2>3 DEF CarriedWell
  <2>5. FailuresContained'
    BY <1>1, <2>3 DEF FailureInv, FailuresContained, Has, Outside
  <2>6. QED
    BY <1>3, <2>4, <2>5 DEF FailureInv
<1>7. CASE Return(r)
  <2>1. CarriedWell(r)'
    BY <1>7, ReturnCarriesWell DEF FailureInv
  <2>2. FailuresContained'
    BY <1>7, <1>1 DEF FailureInv, FailuresContained, Has, Outside, Return
  <2>3. QED
    BY <1>3, <2>1, <2>2 DEF FailureInv
<1>8. CASE Reply(r)
  <2>1. pc[r] = "out" /\ at[r] = 0 /\ pc'[r] = "done"
    BY <1>8 DEF Reply, TypeOK
  <2>2. CarriedWell(r) /\ FailuresContained
    BY DEF FailureInv
  <2>3. Has("Recovery") => ~crashed'
    <3>1. Has("Recovery") => result[r].kind # "panic"
      BY <2>1, <2>2, <1>4 DEF CarriedWell, Has
    <3>2. QED
      BY <3>1, <2>2, <1>8 DEF Reply, FailuresContained
  <2>4. ASSUME Outside("ErrorWrapper", "Recovery"), NEW q \in Reqs
        PROVE  reply'[q].text \notin {"plain", "panic"}
    <3>1. CASE reply'[q] = reply[q]
      BY <3>1, <2>2, <2>4 DEF FailuresContained
    <3>2. CASE reply'[q] # reply[q]
      <4>1. q = r /\ result[r].kind # "panic" /\ reply'[r].text = result[r].text
        BY <3>2, <1>8, <1>1 DEF Reply, TypeOK
      <4>2. PICK i \in DOMAIN chain : Hides(i)
        BY <2>4 DEF Outside, Hides
      <4>3. QED
        BY <4>1, <4>2, <2>1, <2>2, <1>4 DEF CarriedWell
    <3>3. QED
      BY <3>1, <3>2
  <2>5. FailuresContained'
    BY <1>1, <2>3, <2>4 DEF FailuresContained, Has, Outside
  <2>6. CarriedWell(r)'
    BY <2>1 DEF CarriedWell
  <2>7. QED
    BY <1>3, <2>5, <2>6 DEF FailureInv
<1>9. QED
  BY <1>5, <1>6, <1>7, <1>8 DEF Does, Step, Auth, RateLimit, In

\* However an application lists its interceptors: with recovery among them no
\* panic of a handler ends the process, and with an error wrapper outside it
\* no client sees the text of a panic, an internal or an unclassified error.
THEOREM FailuresStayInside == Spec => []FailuresContained
<1>1. Init => FailureInv
  BY DEF Init, createConfig, FailureInv, CarriedWell, FailuresContained, NoReply
<1>2. TypeOK /\ FailureInv /\ [Next]_vars => FailureInv'
  <2> SUFFICES ASSUME TypeOK, FailureInv, [Next]_vars PROVE FailureInv'
    OBVIOUS
  <2>1. CASE Next
    BY <2>1, FailureStep DEF Next, Does
  <2>2. CASE UNCHANGED vars
    BY <2>2 DEF vars, config, FailureInv, CarriedWell, Hides, FailuresContained, Has, Outside
  <2>3. QED
    BY <2>1, <2>2
<1>3. FailureInv => FailuresContained
  BY DEF FailureInv
<1>4. QED
  BY <1>1, <1>2, <1>3, TypeCorrect, PTL DEF Spec
-----------------------------------------------------------------------------
(* Authentication *)

\* A request has passed the interceptor at position i of the application's.
Beyond(r, i) == (pc[r] = "in" /\ at[r] > i + 2) \/ pc[r] = "handler" \/ r \in ran

\* What a request's credentials, metadata and context have to do with each
\* other while it is on its way.
CredentialsOwn(r) ==
  /\ md[r].auth # <<>> => md[r].auth[1] = Credential(r)
  /\ md[r].apikey # <<>> => md[r].apikey[1] = input[r].apikey
  /\ ctx[r].claims # Nil => input[r].mode = "jwt" /\ ctx[r].claims = Credential(r)
  /\ ctx[r].vendor # Nil => input[r].mode = "apikey" /\ ctx[r].vendor = input[r].apikey

\* Past the auth interceptor the context holds what the route asks for.
AuthDone(r) ==
  \A i \in DOMAIN chain :
    chain[i] = "Auth" /\ Beyond(r, i) =>
      /\ input[r].mode = "jwt" => ctx[r].claims # Nil
      /\ input[r].mode = "apikey" => ctx[r].vendor # Nil

\* The claims in the context have the role the handler's own check wants.
GuardPassed(r) ==
  /\ input[r].guard # "none" => ctx[r].claims # Nil
  /\ input[r].guard = "RequireAdmin" => Roles[ctx[r].claims] \cap {"operator", "admin"} # {}
  /\ input[r].guard = "RequireSuperAdmin" => Roles[ctx[r].claims] \cap {"admin"} # {}

\* A handler that ran is on its way out, and had passed its own check.
GuardDone(r) ==
  r \in ran =>
    /\ pc[r] \in {"out", "done"}
    /\ GuardPassed(r)

AuthInv == \A r \in Reqs : CredentialsOwn(r) /\ AuthDone(r) /\ GuardDone(r)

\* Going on by one position passes only the interceptor there.
LEMMA CallNextBeyond ==
  ASSUME TypeOK, NEW r \in Reqs, pc[r] = "in", CallNext(r), ran' = ran, r \notin ran,
         NEW i \in DOMAIN chain, Beyond(r, i)'
  PROVE  Beyond(r, i) \/ ServerOptions[at[r]] = chain[i]
<1>1. /\ at[r] \in 1..Len(ServerOptions) /\ Len(chain) \in Nat /\ Len(ServerOptions) = Len(chain) + 2
      /\ DOMAIN chain = 1..Len(chain) /\ ServerOptions[i + 2] = chain[i]
  BY ChainFacts DEF TypeOK, Places
<1>2. at'[r] = at[r] + 1 /\ (at[r] # Len(ServerOptions) => pc'[r] = "in")
  BY DEF CallNext, TypeOK
<1>3. CASE at[r] = Len(ServerOptions)
  BY <1>1, <1>3 DEF Beyond
<1>4. CASE at[r] # Len(ServerOptions)
  <2>1. at[r] + 1 > i + 2
    BY <1>2, <1>4 DEF Beyond
  <2>2. QED
    BY <2>1, <1>1 DEF Beyond
<1>5. QED
  BY <1>3, <1>4

LEMMA AuthFrame ==
  ASSUME TypeOK, NEW r \in Reqs, Does(r), NEW q \in Reqs \ {r},
         CredentialsOwn(q), AuthDone(q), GuardDone(q)
  PROVE  CredentialsOwn(q)' /\ AuthDone(q)' /\ GuardDone(q)'
<1>1. /\ chain' = chain /\ input' = input
      /\ pc'[q] = pc[q] /\ at'[q] = at[q] /\ md'[q] = md[q] /\ ctx'[q] = ctx[q]
      /\ (q \in ran' <=> q \in ran)
  BY Frame
<1>2. CredentialsOwn(q)'
  BY <1>1 DEF CredentialsOwn, Credential
<1>3. AuthDone(q)'
  BY <1>1 DEF AuthDone, Beyond
<1>4. GuardDone(q)'
  BY <1>1 DEF GuardDone, GuardPassed
<1>5. QED
  BY <1>2, <1>3, <1>4

\* The first credential the gateway passes on is the request's own.
LEMMA ArrivalAuth ==
  ASSUME TypeOK, NEW r \in Reqs, CredentialsOwn(r), AuthDone(r), GuardDone(r),
         GatewayCalls(r) \/ ClientCalls(r)
  PROVE  CredentialsOwn(r)' /\ AuthDone(r)' /\ GuardDone(r)'
<1>1. /\ pc[r] = "new" /\ pc'[r] = "in" /\ at' = at /\ ctx' = ctx /\ input' = input /\ chain' = chain
      /\ ran' = ran /\ at[r] = 1
  BY DEF GatewayCalls, ClientCalls, TypeOK, config, Places
<1>2. r \notin ran
  BY <1>1 DEF GuardDone
<1>3. /\ input[r].auth \in Tokens \cup {Nil} /\ input[r].cookie \in Tokens \cup {Nil}
      /\ Nil \notin Tokens
  BY InputType, RequestPathAssumption DEF TypeOK
<1>4. md'[r].auth # <<>> => md'[r].auth[1] = Credential(r)
  <2>1. CASE ClientCalls(r)
    BY <2>1 DEF ClientCalls, TypeOK, Pairs, Credential
  <2>2. CASE GatewayCalls(r)
    <3>1. md'[r].auth = Pairs(input[r].auth) \o SetMetadataAuthorization(input[r])
      BY <2>2 DEF GatewayCalls, TypeOK, Annotate, WithPassedHeader
    <3>2. CASE input[r].auth = Nil
      <4>1. input[r].via = "gateway"
        BY <2>2 DEF GatewayCalls
      <4>2. QED
        BY <1>3, <3>1, <3>2, <4>1 DEF Pairs, SetMetadataAuthorization, Credential
    <3>3. CASE input[r].auth # Nil
      <4>1. Pairs(input[r].auth) = <<input[r].auth>>
        BY <3>3 DEF Pairs
      <4>2. SetMetadataAuthorization(input[r]) \in Seq(Tokens) /\ <<input[r].auth>> \in Seq(Tokens)
        BY <1>3, <3>3 DEF Pairs, SetMetadataAuthorization
      <4>3. md'[r].auth[1] = input[r].auth
        BY <3>1, <4>1, <4>2
      <4>4. QED
        BY <3>3, <4>3 DEF Credential
    <3>4. QED
      BY <3>2, <3>3
  <2>3. QED
    BY <2>1, <2>2
<1>5. md'[r].apikey # <<>> => md'[r].apikey[1] = input[r].apikey
  BY DEF GatewayCalls, ClientCalls, Annotate, WithPassedHeader, Pairs, TypeOK
<1>6. CredentialsOwn(r)'
  BY <1>1, <1>4, <1>5 DEF CredentialsOwn, Credential
<1>7. GuardDone(r)'
  BY <1>1, <1>2 DEF GuardDone
<1>8. AuthDone(r)'
  <2>1. \A i \in DOMAIN chain : i \in Nat
    BY ChainFacts DEF TypeOK
  <2>2. QED
    BY <1>1, <1>2, <2>1 DEF AuthDone, Beyond
<1>9. QED
  BY <1>6, <1>7, <1>8
\* An interceptor that calls on without touching credentials or context.
LEMMA PassAuth ==
  ASSUME TypeOK, NEW r \in Reqs, CredentialsOwn(r), AuthDone(r), GuardDone(r),
         pc[r] = "in", CallNext(r), ran' = ran, ServerOptions[at[r]] # "Auth",
         md'[r].auth = md[r].auth, md'[r].apikey = md[r].apikey,
         ctx'[r].claims = ctx[r].claims, ctx'[r].vendor = ctx[r].vendor
  PROVE  CredentialsOwn(r)' /\ AuthDone(r)' /\ GuardDone(r)'
<1>1. input' = input /\ chain' = chain /\ r \notin ran
  BY DEF CallNext, config, GuardDone
<1>2. AuthDone(r)'
  <2> SUFFICES ASSUME NEW i \in DOMAIN chain, chain[i] = "Auth", Beyond(r, i)'
               PROVE  /\ input[r].mode = "jwt" => ctx[r].claims # Nil
                      /\ input[r].mode = "apikey" => ctx[r].vendor # Nil
    BY <1>1 DEF AuthDone
  <2>1. Beyond(r, i)
    BY <1>1, CallNextBeyond
  <2>2. QED
    BY <2>1 DEF AuthDone
<1>3. QED
  BY <1>1, <1>2 DEF CredentialsOwn, Credential, GuardDone, GuardPassed

LEMMA AuthAuth ==
  ASSUME TypeOK, NEW r \in Reqs, CredentialsOwn(r), AuthDone(r), GuardDone(r), Auth(r)
  PROVE  CredentialsOwn(r)' /\ AuthDone(r)' /\ GuardDone(r)'
<1>1. /\ pc[r] = "in" /\ r \notin ran /\ md' = md /\ ran' = ran /\ input[r].mode \in Modes
      /\ ctx \in [Reqs -> Contexts]
  BY InputType DEF Auth, In, GuardDone, TypeOK
<1>2. input' = input /\ chain' = chain
  BY DEF Auth, CallNext, ReturnError, config
<1>3. Nil \notin DOMAIN Identity /\ Nil \notin Vendors
  BY RequestPathAssumption
<1>4. GuardDone(r)'
  BY <1>1 DEF GuardDone
<1>5. CASE input[r].mode = "public" /\ UNCHANGED <<ctx, result>> /\ CallNext(r)
  BY <1>1, <1>2, <1>4, <1>5 DEF CredentialsOwn, Credential, AuthDone
<1>6. CASE /\ input[r].mode = "jwt" /\ HasToken(r)
           /\ ctx' = [ctx EXCEPT ![r].claims = md[r].auth[1]]
  <2>1. ctx'[r].claims = md[r].auth[1] /\ ctx'[r].vendor = ctx[r].vendor
    BY <1>1, <1>6 DEF Contexts
  <2>2. md[r].auth[1] = Credential(r) /\ md[r].auth[1] # Nil
    BY <1>3, <1>6 DEF HasToken, CredentialsOwn
  <2>3. QED
    BY <1>1, <1>2, <1>4, <1>6, <2>1, <2>2 DEF CredentialsOwn, Credential, AuthDone
<1>7. CASE /\ input[r].mode = "apikey" /\ HasKey(r)
           /\ ctx' = [ctx EXCEPT ![r].vendor = md[r].apikey[1]]
  <2>1. ctx'[r].vendor = md[r].apikey[1] /\ ctx'[r].claims = ctx[r].claims
    BY <1>1, <1>7 DEF Contexts
  <2>2. md[r].apikey[1] = input[r].apikey /\ md[r].apikey[1] # Nil
    BY <1>3, <1>7 DEF HasKey, CredentialsOwn
  <2>3. QED
    BY <1>1, <1>2, <1>4, <1>7, <2>1, <2>2 DEF CredentialsOwn, Credential, AuthDone
<1>8. CASE UNCHANGED ctx /\ ReturnError(r, XError("Unauthenticated"))
  <2>1. pc'[r] = "out"
    BY <1>8 DEF ReturnError, TypeOK
  <2>2. QED
    BY <1>1, <1>2, <1>4, <1>8, <2>1 DEF CredentialsOwn, Credential, AuthDone, Beyond
<1>9. QED
  BY <1>5, <1>6, <1>7, <1>8 DEF Auth

\* A check that passes has seen claims with a role.
LEMMA GuardPasses ==
  ASSUME NEW r \in Reqs, Guard(r) = Ok
  PROVE  GuardPassed(r)
<1>1. Ok # Status("Unauthenticated", "app") /\ Ok # Status("PermissionDenied", "app")
  BY DEF Ok, Status
<1>2. QED
  BY <1>1 DEF Guard, GuardPassed

LEMMA HandlerAuth ==
  ASSUME TypeOK, NEW r \in Reqs, CredentialsOwn(r), AuthDone(r), GuardDone(r),
         GuardRejects(r) \/ HandlerReturns(r) \/ DeadlineExpires(r)
  PROVE  CredentialsOwn(r)' /\ AuthDone(r)' /\ GuardDone(r)'
<1>1. /\ pc[r] = "handler" /\ pc'[r] = "out" /\ md' = md /\ ctx' = ctx /\ input' = input /\ chain' = chain
  BY DEF GuardRejects, HandlerReturns, DeadlineExpires, HandlerEnds, config, TypeOK
<1>2. r \notin ran
  BY <1>1 DEF GuardDone
<1>3. CredentialsOwn(r)'
  BY <1>1 DEF CredentialsOwn, Credential
<1>4. AuthDone(r)'
  BY <1>1 DEF AuthDone, Beyond
<1>5. r \in ran' => GuardPassed(r)
  BY <1>2, GuardPasses DEF GuardRejects, HandlerReturns, DeadlineExpires
<1>6. GuardDone(r)'
  BY <1>1, <1>5 DEF GuardDone, GuardPassed
<1>7. QED
  BY <1>3, <1>4, <1>6

LEMMA AuthStep ==
  ASSUME TypeOK, AuthInv, NEW r \in Reqs, Does(r)
  PROVE  AuthInv'
<1>1. \A q \in Reqs \ {r} : CredentialsOwn(q)' /\ AuthDone(q)' /\ GuardDone(q)'
  BY AuthFrame DEF AuthInv
<1>2. CredentialsOwn(r) /\ AuthDone(r) /\ GuardDone(r)
  BY DEF AuthInv
<1>3. CASE Timeout(r) \/ PassThrough(r) \/ RequestID(r)
  <2>1. pc[r] = "in" /\ CallNext(r) /\ ran' = ran /\ ServerOptions[at[r]] # "Auth"
    BY <1>3 DEF Timeout, PassThrough, RequestID, In
  <2>2. md'[r].auth = md[r].auth /\ md'[r].apikey = md[r].apikey
    BY <1>3 DEF Timeout, PassThrough, RequestID, AttachRequestIDToIncomingContext,
             GetRequestIDFromContext, TypeOK, Metadata
  <2>3. ctx'[r].claims = ctx[r].claims /\ ctx'[r].vendor = ctx[r].vendor
    BY <1>3 DEF Timeout, PassThrough, RequestID, TypeOK, Contexts
  <2>4. CredentialsOwn(r)' /\ AuthDone(r)' /\ GuardDone(r)'
    BY <1>2, <2>1, <2>2, <2>3, PassAuth
  <2>5. QED
    BY <1>1, <2>4 DEF AuthInv
<1>4. CASE RateLimit(r)
  <2>1. pc[r] = "in" /\ md' = md /\ ctx' = ctx /\ ran' = ran /\ ServerOptions[at[r]] # "Auth"
    BY <1>4 DEF RateLimit, In
  <2>2. CASE CallNext(r)
    BY <1>1, <1>2, <2>1, <2>2, PassAuth DEF AuthInv
  <2>3. CASE ReturnError(r, Status("ResourceExhausted", "app"))
    <3>1. pc'[r] = "out" /\ input' = input /\ chain' = chain /\ r \notin ran
      BY <2>1, <2>3, <1>2 DEF ReturnError, TypeOK, config, GuardDone
    <3>2. CredentialsOwn(r)' /\ AuthDone(r)' /\ GuardDone(r)'
      BY <3>1, <2>1, <1>2 DEF CredentialsOwn, Credential, AuthDone, Beyond, GuardDone, GuardPassed
    <3>3. QED
      BY <1>1, <3>2 DEF AuthInv
  <2>4. QED
    BY <1>4, <2>2, <2>3 DEF RateLimit
<1>5. CASE Return(r) \/ Reply(r)
  <2>1. pc[r] = "out" /\ pc'[r] \in {"out", "done"} /\ md' = md /\ ctx' = ctx /\ input' = input
        /\ chain' = chain /\ ran' = ran
    BY <1>5 DEF Return, Reply, TypeOK, config
  <2>2. CredentialsOwn(r)' /\ AuthDone(r)' /\ GuardDone(r)'
    BY <2>1, <1>2 DEF CredentialsOwn, Credential, AuthDone, Beyond, GuardDone, GuardPassed
  <2>3. QED
    BY <1>1, <2>2 DEF AuthInv
<1>6. CASE GatewayCalls(r) \/ ClientCalls(r)
  BY <1>1, <1>2, <1>6, ArrivalAuth DEF AuthInv
<1>7. CASE Auth(r)
  BY <1>1, <1>2, <1>7, AuthAuth DEF AuthInv
<1>8. CASE GuardRejects(r) \/ HandlerReturns(r) \/ DeadlineExpires(r)
  BY <1>1, <1>2, <1>8, HandlerAuth DEF AuthInv
<1>9. QED
  BY <1>3, <1>4, <1>5, <1>6, <1>7, <1>8 DEF Does, Step

LEMMA AuthImplies ==
  ASSUME TypeOK, AuthInv
  PROVE  HandlerAuthenticated
<1> SUFFICES ASSUME NEW i \in DOMAIN chain, chain[i] = "Auth", NEW r \in ran
             PROVE  /\ input[r].mode = "jwt" =>
                         ctx[r].claims = Credential(r) /\ Credential(r) \in DOMAIN Identity
                    /\ input[r].mode # "jwt" => ctx[r].claims = Nil
                    /\ input[r].mode = "apikey" => ctx[r].vendor \in {input[r].apikey} \cap Vendors
                    /\ input[r].mode # "apikey" => ctx[r].vendor = Nil
                    /\ input[r].guard = "RequireAdmin" =>
                         input[r].mode = "jwt" /\ Roles[Credential(r)] \cap {"operator", "admin"} # {}
                    /\ input[r].guard = "RequireSuperAdmin" =>
                         input[r].mode = "jwt" /\ "admin" \in Roles[Credential(r)]
  BY DEF HandlerAuthenticated, Has
<1>1. r \in Reqs /\ ctx[r].vendor \in Vendors \cup {Nil} /\ ctx[r].claims \in DOMAIN Identity \cup {Nil}
  BY DEF TypeOK, Contexts
<1>2. CredentialsOwn(r) /\ AuthDone(r) /\ GuardDone(r)
  BY <1>1 DEF AuthInv
<1>3. Beyond(r, i)
  BY DEF Beyond
<1>4. /\ input[r].mode = "jwt" => ctx[r].claims # Nil
      /\ input[r].mode = "apikey" => ctx[r].vendor # Nil
  BY <1>2, <1>3 DEF AuthDone
<1>5. /\ ctx[r].claims # Nil => input[r].mode = "jwt" /\ ctx[r].claims = Credential(r)
      /\ ctx[r].vendor # Nil => input[r].mode = "apikey" /\ ctx[r].vendor = input[r].apikey
  BY <1>2 DEF CredentialsOwn
<1>6. GuardPassed(r)
  BY <1>2 DEF GuardDone
<1>7. QED
  BY <1>1, <1>4, <1>5, <1>6 DEF GuardPassed

LEMMA InitAuth == Init => AuthInv
<1> SUFFICES ASSUME Init, NEW r \in Reqs PROVE CredentialsOwn(r) /\ AuthDone(r) /\ GuardDone(r)
  BY DEF AuthInv
<1>1. TypeOK
  BY InitTypeOK
<1>2. \A i \in DOMAIN chain : i \in Nat
  BY <1>1, ChainFacts DEF TypeOK
<1>3. pc[r] = "new" /\ ran = {} /\ md[r] = NoMD /\ ctx[r] = NoCtx
  BY DEF Init, createConfig
<1>4. QED
  BY <1>2, <1>3 DEF CredentialsOwn, AuthDone, GuardDone, Beyond, NoMD, NoCtx

LEMMA NextAuth == TypeOK /\ AuthInv /\ [Next]_vars => AuthInv'
<1> SUFFICES ASSUME TypeOK, AuthInv, [Next]_vars PROVE AuthInv'
  OBVIOUS
<1>1. CASE Next
  BY <1>1, AuthStep DEF Next, Does
<1>2. CASE UNCHANGED vars
  BY <1>2 DEF vars, config, AuthInv, CredentialsOwn, Credential, AuthDone, Beyond, GuardDone, GuardPassed
<1>3. QED
  BY <1>1, <1>2

\* With the auth interceptor anywhere in the application's list, whatever else
\* is in it and in whatever order, a handler runs only with the identity its
\* route asks for, that of the one credential that counts, and behind its own
\* check only if that identity has the role: operator or admin for
\* RequireAdmin, admin for RequireSuperAdmin.
THEOREM HandlersAuthenticated == Spec => []HandlerAuthenticated
<1>1. Init => AuthInv
  BY InitAuth
<1>2. TypeOK /\ AuthInv /\ [Next]_vars => AuthInv'
  BY NextAuth
<1>3. TypeOK /\ AuthInv => HandlerAuthenticated
  BY AuthImplies
<1>4. QED
  BY <1>1, <1>2, <1>3, TypeCorrect, PTL DEF Spec

\* The invariants so far, together.
LEMMA Authenticated == Spec => [](TypeOK /\ AuthInv)
<1>1. Init => TypeOK /\ AuthInv
  BY InitTypeOK, InitAuth
<1>2. TypeOK /\ AuthInv /\ [Next]_vars => AuthInv'
  BY NextAuth
<1>3. QED
  BY <1>1, <1>2, TypeCorrect, PTL DEF Spec
-----------------------------------------------------------------------------
(* The limiter *)

\* Past the limiter a request that has a key has been counted.
Counted(r) ==
  \A i \in DOMAIN chain :
    chain[i] = "RateLimit" /\ Beyond(r, i) =>
      (keyFn = "KeyByMethod" \/ peer[r] # Nil => admitted[r] # NoKey)

BurstKept == \A k \in Keys \ {NoKey} : Cardinality(AdmittedAs(k)) <= Burst

LimitInv == BurstKept /\ \A r \in Reqs : Counted(r)

\* Counting one request more under a key that Allow allows.
LEMMA CountOneMore ==
  ASSUME TypeOK, BurstKept, NEW r \in Reqs, NEW k \in Keys, Allow(k),
         admitted' = [admitted EXCEPT ![r] = k]
  PROVE  BurstKept'
<1> SUFFICES ASSUME NEW c \in Keys \ {NoKey} PROVE Cardinality(AdmittedAs(c)') <= Burst
  BY DEF BurstKept
<1>1. IsFiniteSet(Reqs) /\ Burst \in Nat
  BY RequestPathAssumption
<1>2. IsFiniteSet(AdmittedAs(c)) /\ Cardinality(AdmittedAs(c)) \in Nat
  <2>1. AdmittedAs(c) \subseteq Reqs
    BY DEF AdmittedAs
  <2>2. QED
    BY <2>1, <1>1, FS_Subset, FS_CardinalityType
<1>3. CASE c = k
  <2>1. AdmittedAs(c)' = AdmittedAs(c) \cup {r}
    BY <1>3 DEF AdmittedAs, TypeOK
  <2>2. Cardinality(AdmittedAs(c) \cup {r}) <= Cardinality(AdmittedAs(c)) + 1
    BY <1>2, FS_AddElement
  <2>3. Cardinality(AdmittedAs(c)) < Burst
    BY <1>3 DEF Allow
  <2>4. Cardinality(AdmittedAs(c) \cup {r}) \in Nat
    BY <1>2, FS_AddElement, FS_CardinalityType
  <2>5. QED
    BY <2>1, <2>2, <2>3, <2>4, <1>1, <1>2
<1>4. CASE c # k
  <2>1. AdmittedAs(c)' \subseteq AdmittedAs(c)
    BY <1>4 DEF AdmittedAs, TypeOK
  <2>2. Cardinality(AdmittedAs(c)') \in Nat /\ Cardinality(AdmittedAs(c)') <= Cardinality(AdmittedAs(c))
    BY <2>1, <1>2, FS_Subset, FS_CardinalityType
  <2>3. Cardinality(AdmittedAs(c)) <= Burst
    BY DEF BurstKept
  <2>4. QED
    BY <2>2, <2>3, <1>1, <1>2
<1>5. QED
  BY <1>3, <1>4

\* Only the limiter counts.
LEMMA OnlyRateLimitCounts ==
  ASSUME NEW r \in Reqs, Does(r), ~RateLimit(r)
  PROVE  admitted' = admitted
  BY DEF Does, Step, GatewayCalls, ClientCalls, Timeout, PassThrough, RequestID, Auth, GuardRejects,
         HandlerReturns, DeadlineExpires, HandlerEnds, Return, Reply

\* A request without a key has no address, and its method is not the key.
LEMMA KeylessRequest ==
  ASSUME TypeOK, NEW r \in Reqs, KeyOf(r) = NoKey
  PROVE  keyFn # "KeyByMethod" /\ peer[r] = Nil
<1>1. keyFn \in KeyFns
  BY ChainFacts DEF TypeOK
<1>2. \A v : Key("user", v) # NoKey /\ Key("peer", v) # NoKey /\ Key("method", v) # NoKey
  BY DEF Key, NoKey
<1>3. keyFn # "KeyByMethod"
  BY <1>2 DEF KeyOf
<1>4. KeyByIP(r) = NoKey
  BY <1>1, <1>2, <1>3 DEF KeyOf, KeyFns, KeyByUserID
<1>5. QED
  BY <1>2, <1>3, <1>4 DEF KeyByIP

LEMMA LimitStep ==
  ASSUME TypeOK, AuthInv, LimitInv, NEW r \in Reqs, Does(r)
  PROVE  LimitInv'
<1>1. /\ chain' = chain /\ keyFn' = keyFn
      /\ \A q \in Reqs \ {r} : /\ pc'[q] = pc[q] /\ at'[q] = at[q] /\ peer'[q] = peer[q]
                               /\ admitted'[q] = admitted[q] /\ (q \in ran' <=> q \in ran)
  BY Frame
<1>2. \A q \in Reqs \ {r} : Counted(q)'
  BY <1>1 DEF LimitInv, Counted, Beyond
<1>3. Counted(r) /\ GuardDone(r) /\ (r \in ran => pc[r] \in {"out", "done"})
  BY DEF LimitInv, AuthInv, GuardDone
<1>4. BurstKept'
  <2>1. CASE RateLimit(r)
    BY <2>1, CountOneMore, KeyOfType DEF RateLimit, LimitInv, BurstKept, AdmittedAs
  <2>2. CASE ~RateLimit(r)
    BY <2>2, OnlyRateLimitCounts DEF LimitInv, BurstKept, AdmittedAs
  <2>3. QED
    BY <2>1, <2>2
<1>5. Counted(r)'
  <2>1. CASE GatewayCalls(r) \/ ClientCalls(r)
    <3>1. pc[r] = "new" /\ pc'[r] = "in" /\ at'[r] = 1 /\ ran' = ran
      BY <2>1 DEF GatewayCalls, ClientCalls, TypeOK, Places
    <3>2. \A i \in DOMAIN chain : i \in Nat
      BY ChainFacts DEF TypeOK
    <3>3. QED
      BY <1>1, <1>3, <3>1, <3>2 DEF Counted, Beyond
  <2>2. CASE /\ pc[r] = "in" /\ CallNext(r) /\ ran' = ran /\ admitted' = admitted
             /\ ServerOptions[at[r]] # "RateLimit"
    <3>1. peer' = peer /\ r \notin ran
      BY <2>2, <1>3 DEF CallNext
    <3>2. \A i \in DOMAIN chain : chain[i] = "RateLimit" /\ Beyond(r, i)' => Beyond(r, i)
      BY <2>2, <3>1, CallNextBeyond
    <3>3. QED
      BY <1>1, <1>3, <2>2, <3>1, <3>2 DEF Counted
  <2>3. CASE RateLimit(r) /\ CallNext(r)
    <3>1. peer' = peer
      BY <2>3 DEF CallNext
    <3>2. CASE KeyOf(r) # NoKey
      <4>1. admitted'[r] # NoKey
        <5>1. admitted' = [admitted EXCEPT ![r] = KeyOf(r)] \/ at'[r] = at[r] - 1
          BY <2>3, <3>2 DEF RateLimit, ReturnError, TypeOK
        <5>2. at'[r] = at[r] + 1 /\ at[r] \in Nat
          BY <2>3 DEF CallNext, TypeOK
        <5>3. QED
          BY <5>1, <5>2, <3>2 DEF TypeOK
      <4>2. QED
        BY <4>1 DEF Counted
    <3>3. CASE KeyOf(r) = NoKey
      BY <1>1, <3>1, <3>3, KeylessRequest DEF Counted
    <3>4. QED
      BY <3>2, <3>3
  <2>4. CASE \E e : pc[r] = "in" /\ ReturnError(r, e) /\ ran' = ran
    <3>1. pc'[r] = "out" /\ r \notin ran'
      BY <2>4, <1>3 DEF ReturnError, TypeOK
    <3>2. QED
      BY <3>1 DEF Counted, Beyond
  <2>5. CASE GuardRejects(r) \/ HandlerReturns(r) \/ DeadlineExpires(r)
    <3>1. pc[r] = "handler" /\ peer' = peer /\ admitted' = admitted
      BY <2>5 DEF GuardRejects, HandlerReturns, DeadlineExpires, HandlerEnds
    <3>2. QED
      BY <1>1, <1>3, <3>1 DEF Counted, Beyond
  <2>6. CASE Return(r) \/ Reply(r)
    <3>1. pc'[r] \in {"out", "done"} /\ peer' = peer /\ admitted' = admitted /\ ran' = ran
      BY <2>6 DEF Return, Reply, TypeOK
    <3>2. QED
      BY <1>1, <1>3, <3>1 DEF Counted, Beyond
  <2>7. CASE Auth(r) \/ Timeout(r) \/ PassThrough(r) \/ RequestID(r)
    <3>1. /\ pc[r] = "in" /\ ran' = ran /\ admitted' = admitted /\ ServerOptions[at[r]] # "RateLimit"
          /\ CallNext(r) \/ \E e : ReturnError(r, e)
      BY <2>7 DEF Auth, Timeout, PassThrough, RequestID, In
    <3>2. QED
      BY <3>1, <2>2, <2>4
  <2>8. CASE RateLimit(r)
    <3>1. pc[r] = "in" /\ ran' = ran
      BY <2>8 DEF RateLimit, In
    <3>2. QED
      BY <2>8, <3>1, <2>3, <2>4 DEF RateLimit
  <2>9. QED
    BY <2>1, <2>5, <2>6, <2>7, <2>8 DEF Does, Step
<1>6. QED
  BY <1>2, <1>4, <1>5 DEF LimitInv

LEMMA LimitImplies ==
  ASSUME TypeOK, LimitInv
  PROVE  LimitHolds
<1> SUFFICES ASSUME NEW i \in DOMAIN chain, chain[i] = "RateLimit", NEW r \in ran
             PROVE  /\ keyFn = "KeyByMethod" \/ peer[r] # Nil => admitted[r] # NoKey
                    /\ admitted[r] # NoKey => Cardinality(AdmittedAs(admitted[r]) \cap ran) <= Burst
  BY DEF LimitHolds, Has
<1>1. r \in Reqs /\ admitted[r] \in Keys
  BY DEF TypeOK
<1>2. keyFn = "KeyByMethod" \/ peer[r] # Nil => admitted[r] # NoKey
  BY <1>1 DEF LimitInv, Counted, Beyond
<1>3. ASSUME admitted[r] # NoKey
      PROVE  Cardinality(AdmittedAs(admitted[r]) \cap ran) <= Burst
  <2> DEFINE A == AdmittedAs(admitted[r])
  <2>1. A \subseteq Reqs
    BY DEF AdmittedAs
  <2>2. IsFiniteSet(A) /\ Cardinality(A) \in Nat /\ Burst \in Nat
    BY <2>1, RequestPathAssumption, FS_Subset, FS_CardinalityType
  <2>3. Cardinality(A) <= Burst
    BY <1>1, <1>3 DEF LimitInv, BurstKept
  <2> HIDE DEF A
  <2>4. Cardinality(A \cap ran) <= Cardinality(A) /\ Cardinality(A \cap ran) \in Nat
    <3>1. A \cap ran \subseteq A
      OBVIOUS
    <3>2. QED
      BY <3>1, <2>2, FS_Subset, FS_CardinalityType
  <2>5. Cardinality(A \cap ran) <= Burst
    BY <2>2, <2>3, <2>4
  <2>6. QED
    BY <2>5 DEF A
<1>4. QED
  BY <1>2, <1>3

\* However the requests interleave and wherever in its list the application
\* puts the limiter: no more handlers run per key than its burst, and every
\* request with a key has been counted before its handler runs.
THEOREM LimitAlwaysHolds == Spec => []LimitHolds
<1>1. Init => LimitInv
  <2> SUFFICES ASSUME Init PROVE LimitInv
    OBVIOUS
  <2>1. \A k \in Keys \ {NoKey} : AdmittedAs(k) = {}
    BY DEF Init, createConfig, AdmittedAs
  <2>2. BurstKept
    <3>1. Cardinality({}) = 0 /\ Burst \in Nat
      BY FS_EmptySet, RequestPathAssumption
    <3>2. \A k \in Keys \ {NoKey} : Cardinality(AdmittedAs(k)) <= Burst
      BY <2>1, <3>1
    <3>3. QED
      BY <3>2 DEF BurstKept
  <2>3. \A r \in Reqs : Counted(r)
    BY DEF Init, createConfig, Counted, Beyond
  <2>4. QED
    BY <2>2, <2>3 DEF LimitInv
<1>2. TypeOK /\ AuthInv /\ LimitInv /\ [Next]_vars => LimitInv'
  <2> SUFFICES ASSUME TypeOK, AuthInv, LimitInv, [Next]_vars PROVE LimitInv'
    OBVIOUS
  <2>1. CASE Next
    BY <2>1, LimitStep DEF Next, Does
  <2>2. CASE UNCHANGED vars
    BY <2>2 DEF vars, config, LimitInv, BurstKept, AdmittedAs, Counted, Beyond
  <2>3. QED
    BY <2>1, <2>2
<1>3. TypeOK /\ LimitInv => LimitHolds
  BY LimitImplies
<1>4. QED
  BY <1>1, <1>2, <1>3, Authenticated, PTL DEF Spec
\* An authenticated request pays with its user's quota: what one request does
\* to the limiter is decided by its own credentials.
LEMMA QuotaStep ==
  ASSUME TypeOK, AuthInv, QuotaIsTheUsers, NEW r \in Reqs, Does(r)
  PROVE  QuotaIsTheUsers'
<1>1. chain' = chain /\ keyFn' = keyFn /\ input' = input
      /\ \A q \in Reqs \ {r} : admitted'[q] = admitted[q]
  BY Frame
<1>2. CASE admitted' = admitted
  BY <1>1, <1>2 DEF QuotaIsTheUsers, Outside, Credential
<1>3. CASE RateLimit(r) /\ admitted' = [admitted EXCEPT ![r] = KeyOf(r)]
  <2> SUFFICES ASSUME Outside("Auth", "RateLimit"), NEW q \in Reqs,
                      admitted'[q] # NoKey, input[q].mode = "jwt"
               PROVE  /\ Credential(q) \in DOMAIN Identity
                      /\ keyFn = "KeyByUserID" /\ Identity[Credential(q)] # NoIdentity
                           => admitted'[q] = Key("user", Identity[Credential(q)])
    BY <1>1 DEF QuotaIsTheUsers, Outside, Credential
  <2>1. CASE q # r
    BY <1>1, <2>1 DEF QuotaIsTheUsers
  <2>2. CASE q = r
    <3>1. PICK i \in DOMAIN chain : chain[i] = "Auth" /\ \A j \in DOMAIN chain : chain[j] = "RateLimit" => i < j
      BY DEF Outside
    <3>2. /\ pc[r] = "in" /\ at[r] \in 1..Len(ServerOptions) /\ ServerOptions[at[r]] = "RateLimit"
      BY <1>3 DEF RateLimit, In, TypeOK, Places
    <3>3. /\ Len(chain) \in Nat /\ Len(ServerOptions) = Len(chain) + 2 /\ DOMAIN chain = 1..Len(chain)
          /\ ServerOptions[1] = "Timeout" /\ ServerOptions[2] = "Observe"
          /\ \A k \in 3..Len(ServerOptions) : ServerOptions[k] = chain[k - 2]
      BY ChainFacts DEF TypeOK
    <3>4. at[r] - 2 \in DOMAIN chain /\ chain[at[r] - 2] = "RateLimit"
      BY <3>2, <3>3
    <3>5. Beyond(r, i)
      BY <3>1, <3>2, <3>3, <3>4 DEF Beyond
    <3>6. ctx[r].claims # Nil /\ ctx[r].claims = Credential(r) /\ ctx[r].claims \in DOMAIN Identity
      <4>1. ctx[r].claims \in DOMAIN Identity \cup {Nil}
        BY DEF TypeOK, Contexts
      <4>2. QED
        BY <2>2, <3>1, <3>5, <4>1 DEF AuthInv, AuthDone, CredentialsOwn
    <3>7. admitted'[r] = KeyOf(r)
      BY <1>3 DEF TypeOK
    <3>8. keyFn = "KeyByUserID" /\ Identity[ctx[r].claims] # NoIdentity
            => KeyOf(r) = Key("user", Identity[ctx[r].claims])
      BY <3>6 DEF KeyOf, KeyByUserID
    <3>9. QED
      BY <2>2, <3>6, <3>7, <3>8
  <2>3. QED
    BY <2>1, <2>2
<1>4. QED
  BY <1>2, <1>3, OnlyRateLimitCounts DEF RateLimit

\* With authentication listed before the limiter, no rejected caller uses up
\* quota, and under KeyByUserID every caller uses its own user's.
THEOREM QuotaAlwaysTheUsers == Spec => []QuotaIsTheUsers
<1>1. Init => QuotaIsTheUsers
  BY DEF Init, createConfig, QuotaIsTheUsers
<1>2. TypeOK /\ AuthInv /\ QuotaIsTheUsers /\ [Next]_vars => QuotaIsTheUsers'
  <2> SUFFICES ASSUME TypeOK, AuthInv, QuotaIsTheUsers, [Next]_vars PROVE QuotaIsTheUsers'
    OBVIOUS
  <2>1. CASE Next
    BY <2>1, QuotaStep DEF Next, Does
  <2>2. CASE UNCHANGED vars
    BY <2>2 DEF vars, config, QuotaIsTheUsers, Outside, Credential
  <2>3. QED
    BY <2>1, <2>2
<1>3. QED
  BY <1>1, <1>2, Authenticated, PTL DEF Spec
-----------------------------------------------------------------------------
(* Request ids *)

\* Where an id comes from.
IdOrigin(r) ==
  /\ md[r].id \in {<<>>, <<r>>} \/ (input[r].id # Nil /\ md[r].id = <<input[r].id>>)
  /\ pc[r] # "new" /\ input[r].via = "grpc" /\ input[r].id # Nil => md[r].id = <<input[r].id>>

\* Past the request id interceptor there is one, and it is in the header.
IdDone(r) ==
  \A i \in DOMAIN chain :
    chain[i] = "RequestID" /\ Beyond(r, i) => md[r].id # <<>> /\ header[r] = md[r].id

IdInv == \A r \in Reqs : IdOrigin(r) /\ IdDone(r)

LEMMA IdStep ==
  ASSUME TypeOK, AuthInv, IdInv, NEW r \in Reqs, Does(r)
  PROVE  IdInv'
<1>1. /\ chain' = chain /\ input' = input
      /\ \A q \in Reqs \ {r} : /\ pc'[q] = pc[q] /\ at'[q] = at[q] /\ md'[q] = md[q]
                               /\ header'[q] = header[q] /\ (q \in ran' <=> q \in ran)
  BY Frame
<1>2. \A q \in Reqs \ {r} : IdOrigin(q)' /\ IdDone(q)'
  BY <1>1 DEF IdInv, IdOrigin, IdDone, Beyond
<1>3. IdOrigin(r) /\ IdDone(r) /\ (r \in ran => pc[r] \in {"out", "done"})
  BY DEF IdInv, AuthInv, GuardDone
<1>4. CASE GatewayCalls(r) \/ ClientCalls(r)
  <2>1. pc[r] = "new" /\ pc'[r] = "in" /\ at'[r] = 1 /\ ran' = ran
    BY <1>4 DEF GatewayCalls, ClientCalls, TypeOK, Places
  <2>2. \A i \in DOMAIN chain : i \in Nat
    BY ChainFacts DEF TypeOK
  <2>3. IdDone(r)'
    BY <1>1, <1>3, <2>1, <2>2 DEF IdDone, Beyond
  <2>4. CASE ClientCalls(r)
    <3>1. md'[r].id = Pairs(input[r].id)
      BY <2>4 DEF ClientCalls, TypeOK
    <3>2. IdOrigin(r)'
      BY <1>1, <3>1 DEF IdOrigin, Pairs
    <3>3. QED
      BY <1>2, <2>3, <3>2 DEF IdInv
  <2>5. CASE GatewayCalls(r)
    <3>1. md'[r].id \in {<<>>, Pairs(input[r].id)} /\ input[r].via = "gateway"
      BY <2>5 DEF GatewayCalls, TypeOK, Annotate, WithPassedHeader
    <3>2. IdOrigin(r)'
      BY <1>1, <3>1 DEF IdOrigin, Pairs
    <3>3. QED
      BY <1>2, <2>3, <3>2 DEF IdInv
  <2>6. QED
    BY <1>4, <2>4, <2>5
<1>5. CASE RequestID(r)
  <2>1. pc[r] = "in" /\ CallNext(r) /\ pc'[r] # "new"
    BY <1>5 DEF RequestID, GetRequestIDFromContext, AttachRequestIDToIncomingContext, In, CallNext, TypeOK
  <2>2. md'[r].id = (IF md[r].id = <<>> THEN <<r>> ELSE md[r].id) /\ header'[r] = md'[r].id
    BY <1>5 DEF RequestID, GetRequestIDFromContext, AttachRequestIDToIncomingContext, NewID, TypeOK, Metadata
  <2>3. IdOrigin(r)'
    BY <1>1, <1>3, <2>1, <2>2 DEF IdOrigin
  <2>4. md'[r].id # <<>>
    BY <2>2
  <2>5. QED
    BY <1>2, <2>2, <2>3, <2>4 DEF IdInv, IdDone
<1>6. CASE /\ pc[r] = "in" /\ CallNext(r) /\ ran' = ran /\ md' = md /\ header' = header
           /\ ServerOptions[at[r]] # "RequestID"
  <2>1. \A i \in DOMAIN chain : chain[i] = "RequestID" /\ Beyond(r, i)' => Beyond(r, i)
    BY <1>3, <1>6, CallNextBeyond
  <2>2. IdOrigin(r)' /\ IdDone(r)'
    BY <1>1, <1>3, <1>6, <2>1 DEF IdOrigin, IdDone
  <2>3. QED
    BY <1>2, <2>2 DEF IdInv
<1>7. CASE /\ pc[r] \in {"in", "handler", "out"} /\ pc'[r] \in {"out", "done"}
           /\ md' = md /\ header' = header /\ (r \in ran' => pc[r] = "handler" \/ r \in ran)
  <2>1. \A i \in DOMAIN chain : Beyond(r, i)' => Beyond(r, i)
    BY <1>7 DEF Beyond
  <2>2. IdOrigin(r)' /\ IdDone(r)'
    BY <1>1, <1>3, <1>7, <2>1 DEF IdOrigin, IdDone
  <2>3. QED
    BY <1>2, <2>2 DEF IdInv
<1>8. CASE Timeout(r) \/ PassThrough(r) \/ Auth(r) \/ RateLimit(r)
  <2>1. /\ pc[r] = "in" /\ ran' = ran /\ md' = md /\ header' = header
        /\ ServerOptions[at[r]] # "RequestID"
        /\ CallNext(r) \/ \E e : ReturnError(r, e)
    BY <1>8 DEF Timeout, PassThrough, Auth, RateLimit, In
  <2>2. (\E e : ReturnError(r, e)) => pc'[r] = "out"
    BY DEF ReturnError, TypeOK
  <2>3. QED
    BY <2>1, <2>2, <1>6, <1>7
<1>9. CASE GuardRejects(r) \/ HandlerReturns(r) \/ DeadlineExpires(r)
  <2>1. pc[r] = "handler" /\ pc'[r] = "out" /\ md' = md /\ header' = header
    BY <1>9 DEF GuardRejects, HandlerReturns, DeadlineExpires, HandlerEnds, TypeOK
  <2>2. QED
    BY <2>1, <1>7
<1>10. CASE Return(r) \/ Reply(r)
  <2>1. pc[r] = "out" /\ pc'[r] \in {"out", "done"} /\ md' = md /\ header' = header /\ ran' = ran
    BY <1>10 DEF Return, Reply, TypeOK
  <2>2. QED
    BY <2>1, <1>7
<1>11. QED
  BY <1>4, <1>5, <1>8, <1>9, <1>10 DEF Does, Step

LEMMA IdImplies ==
  ASSUME TypeOK, AuthInv, IdInv
  PROVE  RequestIDAgrees
<1> SUFFICES ASSUME NEW i \in DOMAIN chain, chain[i] = "RequestID", NEW r \in ran
             PROVE  /\ md[r].id # <<>> /\ header[r] = md[r].id
                    /\ input[r].via = "grpc" /\ input[r].id # Nil => md[r].id = Pairs(input[r].id)
                    /\ \A q \in ran \ {r} : input[r].id = Nil => md[q].id # md[r].id
  BY DEF RequestIDAgrees, Has
<1>1. \A q \in ran : /\ q \in Reqs /\ IdOrigin(q) /\ IdDone(q) /\ Beyond(q, i) /\ pc[q] # "new"
                     /\ input[q].id \in TraceIds \cup {Nil}
  BY InputType DEF TypeOK, IdInv, AuthInv, GuardDone, Beyond
<1>2. md[r].id # <<>> /\ header[r] = md[r].id
  BY <1>1 DEF IdDone
<1>3. input[r].via = "grpc" /\ input[r].id # Nil => md[r].id = Pairs(input[r].id)
  BY <1>1 DEF IdOrigin, Pairs
<1>4. ASSUME NEW q \in ran \ {r}, input[r].id = Nil
      PROVE  md[q].id # md[r].id
  <2>1. md[r].id = <<r>>
    BY <1>1, <1>2, <1>4 DEF IdOrigin
  <2>2. md[q].id \in {<<>>, <<q>>, <<input[q].id>>} /\ input[q].id # r
    BY <1>1, RequestPathAssumption DEF IdOrigin
  <2>3. \A a, b : <<a>> # <<>> /\ (<<a>> = <<b>> => a = b)
    <3>1. \A a : <<a>>[1] = a /\ Len(<<a>>) = 1 /\ Len(<<>>) = 0
      OBVIOUS
    <3>2. QED
      BY <3>1
  <2>4. q # r
    OBVIOUS
  <2>5. QED
    BY <2>1, <2>2, <2>3, <2>4, Zenon
<1>5. QED
  BY <1>2, <1>3, <1>4

\* With the request id interceptor anywhere in the list: a handler always has
\* an id, the response header carries the same one, a gRPC client's own id is
\* kept, and an id made for one request is no other's.
THEOREM RequestIDsAgree == Spec => []RequestIDAgrees
<1>1. Init => IdInv
  <2> SUFFICES ASSUME Init, NEW r \in Reqs PROVE IdOrigin(r) /\ IdDone(r)
    BY DEF IdInv
  <2>1. pc[r] = "new" /\ ran = {} /\ md[r] = NoMD
    BY DEF Init, createConfig
  <2>2. QED
    BY <2>1 DEF IdOrigin, IdDone, Beyond, NoMD
<1>2. TypeOK /\ AuthInv /\ IdInv /\ [Next]_vars => IdInv'
  <2> SUFFICES ASSUME TypeOK, AuthInv, IdInv, [Next]_vars PROVE IdInv'
    OBVIOUS
  <2>1. CASE Next
    BY <2>1, IdStep DEF Next, Does
  <2>2. CASE UNCHANGED vars
    BY <2>2 DEF vars, config, IdInv, IdOrigin, IdDone, Beyond
  <2>3. QED
    BY <2>1, <2>2
<1>3. TypeOK /\ AuthInv /\ IdInv => RequestIDAgrees
  BY IdImplies
<1>4. QED
  BY <1>1, <1>2, <1>3, Authenticated, PTL DEF Spec
=============================================================================
