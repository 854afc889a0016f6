---------------------------- MODULE RequestPath ----------------------------
(***************************************************************************)
(* The way of a unary request: through the gateway, or straight over gRPC, *)
(* down the chain of interceptors to the handler, and back up.  The        *)
(* framework's own interceptors come first, then the application's, in the *)
(* order the application lists them.  Requests run concurrently and meet   *)
(* in the rate limiter, whose bucket TokenBucket models, and in the fact   *)
(* that a panic nobody recovers ends the process.                          *)
(***************************************************************************)
EXTENDS Integers, Sequences, FiniteSets

CONSTANTS
  Reqs,          \* requests
  Tokens,        \* JWTs a client may send, valid or not
  ApiKeys,       \* API keys a client may send
  TraceIds,      \* request ids a client may send
  Addrs,         \* addresses of gRPC clients
  Inputs,        \* what clients send: see Input
  Configs,       \* applications: the interceptors they list, in order, the
                 \* limiter's key function, and whether WithPassedHeader
                 \* passes X-Request-Id on
  Burst,         \* requests the limiter admits per key
  Users,         \* claims.IdentityID values
  Identity,      \* claims.IdentityID of every valid token
  Roles,         \* claims.Roles of every valid token
  Vendors,       \* the keys of the APIKeyValidator
  NoIdentity,    \* an empty IdentityID
  Loopback,      \* the address of the gateway's own connection
  Nil

Interceptors == {"ErrorWrapper", "RequestID", "Recovery", "Auth", "RateLimit"}
KeyFns == {"KeyByUserID", "KeyByIP", "KeyByMethod"}
Modes == {"public", "jwt", "apikey"}
Guards == {"none", "RequireAdmin", "RequireSuperAdmin"}

\* A call: its way in, the AuthMode the policy gives its method, the role check
\* of its handler, and the headers the client sent or, over gRPC, the metadata.
Input == [via : {"gateway", "grpc"}, mode : Modes, guard : Guards,
          auth : Tokens \cup {Nil}, cookie : Tokens \cup {Nil}, apikey : ApiKeys \cup {Nil},
          id : TraceIds \cup {Nil}, deadline : BOOLEAN, addr : Addrs \cup {Nil}]

ASSUME RequestPathAssumption ==
  /\ IsFiniteSet(Reqs) /\ Reqs \cap TraceIds = {}
  /\ Inputs \subseteq Input
  /\ Configs \subseteq Seq(Interceptors) \X KeyFns \X BOOLEAN
  /\ \A c \in Configs : \A i, j \in DOMAIN c[1] : i # j => c[1][i] # c[1][j]
  /\ Burst \in Nat
  /\ DOMAIN Identity \subseteq Tokens /\ DOMAIN Roles = DOMAIN Identity
  /\ \A t \in DOMAIN Identity : Identity[t] \in Users \cup {NoIdentity}
  /\ Vendors \subseteq ApiKeys
  /\ Nil \notin Reqs \cup Tokens \cup ApiKeys \cup TraceIds \cup Addrs \cup {Loopback}

VARIABLES
  chain, keyFn, passed, \* the configuration, fixed at New
  input,     \* what each request's client sent
  pc,        \* "new", "in", "handler", "out", "done"
  at,        \* the interceptor the request is in, going in or out
  md,        \* incoming metadata: authorization, x-api-key, x-request-id
  peer,      \* peer.FromContext
  ctx,       \* values of the context: deadline, claims, vendor
  result,    \* what the handler or an interceptor returned
  header,    \* the id given to grpc.SetHeader
  admitted,  \* the key the limiter counts it under, or NoKey
  ran,       \* history: requests whose handler ran
  reply,     \* what the client got
  crashed    \* a panic reached grpc-go, which does not recover

config == <<chain, keyFn, passed>>
vars == <<config, input, pc, at, md, peer, ctx, result, header, admitted, ran, reply, crashed>>

\* A request id is the sequence of the values that were joined into it, <<>>
\* the empty string; uuid.NewString gives an id of the request's own.
NewID(r) == <<r>>

\* A key of the limiter; "" is NoKey.
Key(kind, v) == [kind |-> kind, of |-> v]
NoKey == Key("none", Nil)

NoMD == [auth |-> <<>>, apikey |-> <<>>, id |-> <<>>]
NoCtx == [deadline |-> "none", claims |-> Nil, vendor |-> Nil]
NoReply == [code |-> "none", text |-> "none", id |-> <<>>]

Ok == [kind |-> "ok", code |-> "OK", text |-> "none"]
XError(c) == [kind |-> "x", code |-> c, text |-> "app"]
Status(c, t) == [kind |-> "status", code |-> c, text |-> t]
Plain == [kind |-> "plain", code |-> "Unknown", text |-> "plain"]
ContextError == [kind |-> "plain", code |-> "DeadlineExceeded", text |-> "plain"]
Panic == [kind |-> "panic", code |-> "none", text |-> "panic"]

\* The timeout, then metrics and logging, then the application's interceptors.
ServerOptions == <<"Timeout", "Observe">> \o chain

In(r, name) == pc[r] = "in" /\ at[r] <= Len(ServerOptions) /\ ServerOptions[at[r]] = name
Out(r, name) == pc[r] = "out" /\ at[r] >= 1 /\ ServerOptions[at[r]] = name
-----------------------------------------------------------------------------
\* New applies the options: the application's interceptors, the key function of
\* its limiter, and whether WithPassedHeader lets X-Request-Id through.
createConfig(c) == chain = c[1] /\ keyFn = c[2] /\ passed = c[3]

Init ==
  /\ \E c \in Configs : createConfig(c)
  /\ input \in [Reqs -> Inputs]
  /\ pc = [r \in Reqs |-> "new"]
  /\ at = [r \in Reqs |-> 1]
  /\ md = [r \in Reqs |-> NoMD]
  /\ peer = [r \in Reqs |-> Nil]
  /\ ctx = [r \in Reqs |-> NoCtx]
  /\ result = [r \in Reqs |-> Ok]
  /\ header = [r \in Reqs |-> <<>>]
  /\ admitted = [r \in Reqs |-> NoKey]
  /\ ran = {}
  /\ reply = [r \in Reqs |-> NoReply]
  /\ crashed = FALSE
-----------------------------------------------------------------------------
(* Arrival *)

Pairs(v) == IF v = Nil THEN <<>> ELSE <<v>>

WithPassedHeader(v) == IF passed THEN Pairs(v) ELSE <<>>

\* The session cookie before the Authorization header.
SetMetadataAuthorization(i) == Pairs(IF i.cookie # Nil THEN i.cookie ELSE i.auth)

\* grpc-gateway passes Authorization on by itself and joins what the setters
\* return after it; any other header only with the Grpc-Metadata- prefix,
\* which the middleware of WithPassedHeader adds.
Annotate(i) == [auth |-> Pairs(i.auth) \o SetMetadataAuthorization(i),
                apikey |-> Pairs(i.apikey),
                id |-> WithPassedHeader(i.id)]

GatewayCalls(r) ==
  /\ pc[r] = "new" /\ input[r].via = "gateway"
  /\ pc' = [pc EXCEPT ![r] = "in"]
  /\ md' = [md EXCEPT ![r] = Annotate(input[r])]
  /\ peer' = [peer EXCEPT ![r] = Loopback]
  /\ UNCHANGED <<config, input, at, ctx, result, header, admitted, ran, reply, crashed>>

ClientCalls(r) ==
  /\ pc[r] = "new" /\ input[r].via = "grpc"
  /\ pc' = [pc EXCEPT ![r] = "in"]
  /\ md' = [md EXCEPT ![r] = [auth |-> Pairs(input[r].auth), apikey |-> Pairs(input[r].apikey),
                              id |-> Pairs(input[r].id)]]
  /\ peer' = [peer EXCEPT ![r] = input[r].addr]
  /\ UNCHANGED <<config, input, at, ctx, result, header, admitted, ran, reply, crashed>>
-----------------------------------------------------------------------------
(* Going in *)

\* return handler(ctx, req)
CallNext(r) ==
  /\ at' = [at EXCEPT ![r] = @ + 1]
  /\ pc' = IF at[r] = Len(ServerOptions) THEN [pc EXCEPT ![r] = "handler"] ELSE pc
  /\ UNCHANGED <<config, input, peer, reply, crashed>>

\* return nil, err: the interceptors outside this one see err.
ReturnError(r, e) ==
  /\ at' = [at EXCEPT ![r] = @ - 1]
  /\ pc' = [pc EXCEPT ![r] = "out"]
  /\ result' = [result EXCEPT ![r] = e]
  /\ UNCHANGED <<config, input, peer, reply, crashed>>

\* Mutant: no default for a client that sent no deadline.
TimeoutClientOnly(r) ==
  /\ In(r, "Timeout")
  /\ ctx' = [ctx EXCEPT ![r].deadline = IF input[r].deadline THEN "client" ELSE "none"]
  /\ CallNext(r)
  /\ UNCHANGED <<md, result, header, admitted, ran>>

Timeout(r) ==
  /\ In(r, "Timeout")
  /\ ctx' = [ctx EXCEPT ![r].deadline = IF input[r].deadline THEN "client" ELSE "default"]
  /\ CallNext(r)
  /\ UNCHANGED <<md, result, header, admitted, ran>>

\* Metrics, logging, the error wrapper and recovery act on the way out.
PassThrough(r) ==
  /\ \E name \in {"Observe", "ErrorWrapper", "Recovery"} : In(r, name)
  /\ CallNext(r)
  /\ UNCHANGED <<md, ctx, result, header, admitted, ran>>

\* All values under the key, joined.
GetRequestIDFromContext(r) == md[r].id

\* md.Set replaces whatever the client sent.
AttachRequestIDToIncomingContext(r, id) == [md EXCEPT ![r].id = id]

\* Mutant: the id of the client goes into the response, a new one into ctx.
RequestIDRegenerates(r) ==
  /\ In(r, "RequestID")
  /\ md' = [md EXCEPT ![r].id = NewID(r)]
  /\ header' = [header EXCEPT ![r] = IF md[r].id = <<>> THEN NewID(r) ELSE md[r].id]
  /\ CallNext(r)
  /\ UNCHANGED <<ctx, result, admitted, ran>>

RequestID(r) ==
  /\ In(r, "RequestID")
  /\ LET id == IF GetRequestIDFromContext(r) = <<>> THEN NewID(r) ELSE GetRequestIDFromContext(r) IN
       /\ md' = AttachRequestIDToIncomingContext(r, id)
       /\ header' = [header EXCEPT ![r] = id]
  /\ CallNext(r)
  /\ UNCHANGED <<ctx, result, admitted, ran>>

\* Mutant: any token will do.
TokenPresent(r) == md[r].auth # <<>>

\* Only the first value of the metadata counts.
HasToken(r) == md[r].auth # <<>> /\ md[r].auth[1] \in DOMAIN Identity
HasKey(r) == md[r].apikey # <<>> /\ md[r].apikey[1] \in Vendors

\* Mutant: authentication fails open.
AuthOptional(r) ==
  /\ In(r, "Auth")
  /\ ctx' = IF input[r].mode = "jwt" /\ HasToken(r) THEN [ctx EXCEPT ![r].claims = md[r].auth[1]]
            ELSE IF input[r].mode = "apikey" /\ HasKey(r) THEN [ctx EXCEPT ![r].vendor = md[r].apikey[1]]
            ELSE ctx
  /\ CallNext(r)
  /\ UNCHANGED <<md, result, header, admitted, ran>>

\* NewAuthInterceptor, by the AuthMode the policy gives the method.
Auth(r) ==
  /\ In(r, "Auth")
  /\ \/ /\ input[r].mode = "public"
        /\ UNCHANGED <<ctx, result>> /\ CallNext(r)
     \/ /\ input[r].mode = "jwt" /\ HasToken(r)
        /\ ctx' = [ctx EXCEPT ![r].claims = md[r].auth[1]]
        /\ UNCHANGED result /\ CallNext(r)
     \/ /\ input[r].mode = "apikey" /\ HasKey(r)
        /\ ctx' = [ctx EXCEPT ![r].vendor = md[r].apikey[1]]
        /\ UNCHANGED result /\ CallNext(r)
     \/ /\ \/ input[r].mode = "jwt" /\ ~HasToken(r)
           \/ input[r].mode = "apikey" /\ ~HasKey(r)
        /\ UNCHANGED ctx /\ ReturnError(r, XError("Unauthenticated"))
  /\ UNCHANGED <<md, header, admitted, ran>>
-----------------------------------------------------------------------------
(* The rate limiter *)

\* peerAddr; a call made without a transport has no peer.
KeyByIP(r) == IF peer[r] = Nil THEN NoKey ELSE Key("peer", peer[r])

\* Mutant: the peer counts, claims or not.
KeyByPeer(r) == KeyByIP(r)

KeyByUserID(r) ==
  IF ctx[r].claims # Nil /\ Identity[ctx[r].claims] # NoIdentity
  THEN Key("user", Identity[ctx[r].claims])
  ELSE KeyByIP(r)

\* The mode stands for the method: each has one route.
KeyOf(r) == CASE keyFn = "KeyByUserID" -> KeyByUserID(r)
              [] keyFn = "KeyByIP" -> KeyByIP(r)
              [] keyFn = "KeyByMethod" -> Key("method", input[r].mode)

AdmittedAs(k) == {q \in Reqs : admitted[q] = k}

\* Mutant: one request too many.
AllowOneMore(k) == Cardinality(AdmittedAs(k)) <= Burst

\* limiter.Allow, within one refill period
Allow(k) == Cardinality(AdmittedAs(k)) < Burst

\* Without a key there is no limit.
RateLimit(r) ==
  /\ In(r, "RateLimit")
  /\ \/ /\ KeyOf(r) = NoKey
        /\ UNCHANGED <<admitted, result>> /\ CallNext(r)
     \/ /\ KeyOf(r) # NoKey /\ Allow(KeyOf(r))
        /\ admitted' = [admitted EXCEPT ![r] = KeyOf(r)]
        /\ UNCHANGED result /\ CallNext(r)
     \/ /\ KeyOf(r) # NoKey /\ ~Allow(KeyOf(r))
        /\ UNCHANGED admitted /\ ReturnError(r, Status("ResourceExhausted", "app"))
  /\ UNCHANGED <<md, ctx, header, ran>>
-----------------------------------------------------------------------------
(* The handler *)

\* RequireAdmin and RequireSuperAdmin
Guard(r) ==
  LET sufficient == IF input[r].guard = "RequireAdmin" THEN {"operator", "admin"} ELSE {"admin"}
  IN CASE input[r].guard = "none" -> Ok
       [] input[r].guard # "none" /\ ctx[r].claims = Nil -> Status("Unauthenticated", "app")
       [] OTHER -> IF Roles[ctx[r].claims] \cap sufficient # {} THEN Ok
                   ELSE Status("PermissionDenied", "app")

HandlerEnds(r, e) ==
  /\ pc[r] = "handler"
  /\ pc' = [pc EXCEPT ![r] = "out"]
  /\ at' = [at EXCEPT ![r] = @ - 1]
  /\ result' = [result EXCEPT ![r] = e]
  /\ UNCHANGED <<config, input, md, peer, ctx, header, admitted, reply, crashed>>

\* A handler checks the caller's role first ...
GuardRejects(r) ==
  /\ Guard(r) # Ok
  /\ HandlerEnds(r, Guard(r))
  /\ UNCHANGED ran

\* ... and then does what it likes.
HandlerReturns(r) ==
  /\ Guard(r) = Ok
  /\ ran' = ran \cup {r}
  /\ \E e \in {Ok, Plain, XError("NotFound"), Status("Internal", "plain"), Panic} :
       HandlerEnds(r, e)

\* One that waits for its context ends when the deadline, its client's or the
\* default, has passed.
DeadlineExpires(r) ==
  /\ ctx[r].deadline # "none"
  /\ Guard(r) = Ok
  /\ ran' = ran \cup {r}
  /\ HandlerEnds(r, ContextError)
-----------------------------------------------------------------------------
(* Going out *)

Hidden == Status("Unknown", "generic")

\* Mutant: Internal passes.
ConvertPlain(e) == IF e.kind = "plain" THEN Hidden ELSE Status(e.code, e.text)

\* ConvertGRPCErrorToHTTPError, which ErrorPath models in full.
Convert(e) == IF e.kind = "plain" \/ e.code = "Internal" THEN Hidden ELSE Status(e.code, e.text)

\* A panic unwinds past every interceptor but recovery.
Unwrap(name, e) ==
  CASE name = "ErrorWrapper" /\ e.kind \notin {"ok", "panic"} -> Convert(e)
    [] name = "Recovery" /\ e.kind = "panic" -> Status("Internal", "panic")
    [] OTHER -> e

Return(r) ==
  /\ pc[r] = "out" /\ at[r] >= 1
  /\ result' = [result EXCEPT ![r] = Unwrap(ServerOptions[at[r]], @)]
  /\ at' = [at EXCEPT ![r] = @ - 1]
  /\ UNCHANGED <<config, input, pc, md, peer, ctx, header, admitted, ran, reply, crashed>>

\* WithOutgoingHeaderMatcher lets only set-cookie pass.
OutgoingHeader(r) == IF input[r].via = "gateway" THEN <<>> ELSE header[r]

\* grpc-go sends the status of the error; a panic ends the process.
Reply(r) ==
  /\ pc[r] = "out" /\ at[r] = 0
  /\ pc' = [pc EXCEPT ![r] = "done"]
  /\ \/ result[r].kind = "panic" /\ crashed' = TRUE /\ UNCHANGED reply
     \/ /\ result[r].kind # "panic"
        /\ reply' = [reply EXCEPT ![r] = [code |-> result[r].code, text |-> result[r].text,
                                          id |-> OutgoingHeader(r)]]
        /\ UNCHANGED crashed
  /\ UNCHANGED <<config, input, at, md, peer, ctx, result, header, admitted, ran>>
-----------------------------------------------------------------------------
Step(r) ==
  \/ Timeout(r) \/ PassThrough(r) \/ RequestID(r) \/ Auth(r) \/ RateLimit(r)
  \/ GuardRejects(r) \/ Return(r) \/ Reply(r)

Next ==
  /\ ~crashed
  /\ \E r \in Reqs : \/ GatewayCalls(r) \/ ClientCalls(r)
                     \/ Step(r) \/ HandlerReturns(r) \/ DeadlineExpires(r)

Spec == Init /\ [][Next]_vars

\* Interceptors run and deadlines pass; a handler may wait for its context for
\* as long as it likes, and clients owe nothing.
FairSpec ==
  /\ Spec
  /\ \A r \in Reqs : WF_vars(~crashed /\ Step(r)) /\ WF_vars(~crashed /\ DeadlineExpires(r))
-----------------------------------------------------------------------------
(* Properties *)

Peers == Addrs \cup {Loopback, Nil}
Keys == [kind : {"none", "user", "peer", "method"}, of : Users \cup {NoIdentity} \cup Peers \cup Modes]
Ids == Seq(Reqs \cup TraceIds)
Texts == {"none", "app", "plain", "panic", "generic"}
Codes == {"none", "OK", "Unknown", "DeadlineExceeded", "NotFound", "PermissionDenied",
          "ResourceExhausted", "Internal", "Unauthenticated"}
Results == [kind : {"ok", "x", "status", "plain", "panic"}, code : Codes, text : Texts]
Metadata == [auth : Seq(Tokens), apikey : Seq(ApiKeys), id : Ids]
Contexts == [deadline : {"none", "client", "default"},
             claims : DOMAIN Identity \cup {Nil}, vendor : Vendors \cup {Nil}]
Replies == [code : Codes, text : Texts, id : Ids]

\* Where a request is in the chain fits where it is in the call.
Places ==
  \A r \in Reqs :
    /\ pc[r] = "new" => at[r] = 1
    /\ pc[r] = "in" => at[r] \in 1..Len(ServerOptions)
    /\ pc[r] = "handler" => at[r] = Len(ServerOptions) + 1
    /\ pc[r] = "out" => at[r] \in 0..Len(ServerOptions)

TypeOK ==
  /\ config \in Configs /\ input \in [Reqs -> Inputs]
  /\ pc \in [Reqs -> {"new", "in", "handler", "out", "done"}]
  /\ at \in [Reqs -> Nat] /\ Places
  /\ md \in [Reqs -> Metadata] /\ peer \in [Reqs -> Peers] /\ ctx \in [Reqs -> Contexts]
  /\ result \in [Reqs -> Results] /\ reply \in [Reqs -> Replies]
  /\ header \in [Reqs -> Ids] /\ admitted \in [Reqs -> Keys]
  /\ ran \subseteq Reqs /\ crashed \in BOOLEAN

Has(name) == \E i \in DOMAIN chain : chain[i] = name

\* The outermost a is outside every b.
Outside(a, b) ==
  \E i \in DOMAIN chain : chain[i] = a /\ \A j \in DOMAIN chain : chain[j] = b => i < j

\* The credential that counts.  grpc-gateway passes the Authorization header on
\* by itself, ahead of what SetMetadataAuthorization returns, and the auth
\* interceptor reads the first value: the header wins over the session cookie,
\* which only the gateway reads, although the setter's comment has it the other
\* way round.
Credential(r) ==
  IF input[r].auth # Nil THEN input[r].auth
  ELSE IF input[r].via = "gateway" THEN input[r].cookie ELSE Nil

\* With the auth interceptor anywhere in the chain, no handler runs without
\* the identity its route asks for.  The identity it sees is that of the one
\* credential that counts, which is valid: a second, invalid or better one is
\* neither an obstacle nor of use.  Behind RequireAdmin that very identity is
\* an operator or an admin, behind RequireSuperAdmin an admin.  A public route
\* or one with an API key sees no claims, so a handler that requires a role
\* never runs there.
HandlerAuthenticated ==
  Has("Auth") =>
    \A r \in ran :
      /\ input[r].mode = "jwt" =>
           ctx[r].claims = Credential(r) /\ Credential(r) \in DOMAIN Identity
      /\ input[r].mode # "jwt" => ctx[r].claims = Nil
      /\ input[r].mode = "apikey" => ctx[r].vendor \in {input[r].apikey} \cap Vendors
      /\ input[r].mode # "apikey" => ctx[r].vendor = Nil
      /\ input[r].guard = "RequireAdmin" =>
           input[r].mode = "jwt" /\ Roles[Credential(r)] \cap {"operator", "admin"} # {}
      /\ input[r].guard = "RequireSuperAdmin" =>
           input[r].mode = "jwt" /\ "admin" \in Roles[Credential(r)]

\* However requests interleave, no more handlers run per key than the limiter
\* admits, and none that has a key, the method's or an address, runs without
\* having been counted.
LimitHolds ==
  Has("RateLimit") =>
    \A r \in ran :
      /\ keyFn = "KeyByMethod" \/ peer[r] # Nil => admitted[r] # NoKey
      /\ admitted[r] # NoKey => Cardinality(AdmittedAs(admitted[r]) \cap ran) <= Burst

\* Authentication outside the limiter: what a rejected caller sends costs
\* nobody quota, and under KeyByUserID a user pays with a bucket of its own,
\* whichever connection the request came by and whatever else it carried.
QuotaIsTheUsers ==
  Outside("Auth", "RateLimit") =>
    \A r \in Reqs :
      admitted[r] # NoKey /\ input[r].mode = "jwt" =>
        /\ Credential(r) \in DOMAIN Identity
        /\ keyFn = "KeyByUserID" /\ Identity[Credential(r)] # NoIdentity =>
             admitted[r] = Key("user", Identity[Credential(r)])

\* With recovery in the chain a handler's panic never ends the process, and
\* with the error wrapper outside recovery neither the panic nor an internal
\* or unclassified error shows its text to the client.  That includes a gRPC
\* status Internal, which the package's doc.go:9 says is forwarded as it is.
FailuresContained ==
  /\ Has("Recovery") => ~crashed
  /\ Outside("ErrorWrapper", "Recovery") =>
       \A r \in Reqs : reply[r].text \notin {"plain", "panic"}

\* The id a handler sees is the one given to grpc.SetHeader for the response,
\* and the client's if the client's reached the server; ids made here are never
\* shared.  SetHeader is taken to succeed, as it does in a served call whose
\* headers have not gone out; if it fails the interceptor logs and goes on.
RequestIDAgrees ==
  Has("RequestID") =>
    \A r \in ran :
      /\ md[r].id # <<>> /\ header[r] = md[r].id
      /\ input[r].via = "grpc" /\ input[r].id # Nil => md[r].id = Pairs(input[r].id)
      /\ \A q \in ran \ {r} : input[r].id = Nil => md[q].id # md[r].id

\* Every call is answered, even if its handler does nothing but wait for its
\* context, because every context has a deadline; a crash excepted.
EveryCallAnswered ==
  \A r \in Reqs : pc[r] = "in" ~> pc[r] = "done" \/ crashed

\* "attaches it to the handler context, and forwards it as an HTTP response
\* header" (README.md): the client of an answered call gets the id the handler saw.
RequestIDForwarded ==
  Has("RequestID") =>
    \A r \in ran : reply[r].code = "OK" => reply[r].id = md[r].id
=============================================================================
