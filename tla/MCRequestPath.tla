--------------------------- MODULE MCRequestPath ---------------------------
\* Small instances of RequestPath for TLC.
EXTENDS RequestPath, TLC

CONSTANTS r1, r2, good, other, nobody, bad, key, trace

SomeIdentity == good :> "alice" @@ other :> "bob" @@ nobody :> NoIdentity
SomeRoles == good :> {"admin"} @@ other :> {"operator"} @@ nobody :> {"user"}

\* A plain call of a JWT route, and what the calls of SomeInputs change in it.
Call == [via |-> "grpc", mode |-> "jwt", guard |-> "none", auth |-> good, cookie |-> Nil,
         apikey |-> Nil, id |-> Nil, deadline |-> FALSE, addr |-> "client"]

SomeInputs ==
  {Call, [Call EXCEPT !.auth = bad], [Call EXCEPT !.auth = nobody, !.addr = Nil],
   [Call EXCEPT !.auth = other, !.guard = "RequireSuperAdmin"],
   [Call EXCEPT !.mode = "public", !.guard = "RequireAdmin"],
   [Call EXCEPT !.mode = "public", !.id = trace, !.deadline = TRUE]}
  \cup {[Call EXCEPT !.via = "gateway", !.auth = c[1], !.cookie = c[2], !.guard = c[3], !.id = trace] :
          c \in {<<Nil, Nil, "none">>, <<Nil, other, "RequireAdmin">>,
                  <<good, other, "RequireSuperAdmin">>, <<other, good, "RequireSuperAdmin">>}}
  \cup {[Call EXCEPT !.mode = "apikey", !.auth = Nil, !.apikey = k] : k \in {Nil, key}}

\* The order of the README with each key function, one with the limiter
\* before authentication, one with recovery outermost and one without it.
Documented == <<"ErrorWrapper", "RequestID", "Recovery", "Auth", "RateLimit">>

SomeConfigs ==
  {<<Documented, "KeyByUserID", TRUE>>, <<Documented, "KeyByIP", FALSE>>,
   <<<<"RateLimit", "Auth", "Recovery">>, "KeyByMethod", FALSE>>,
   <<<<"Recovery", "ErrorWrapper", "Auth">>, "KeyByIP", FALSE>>,
   <<<<"ErrorWrapper", "Auth">>, "KeyByIP", FALSE>>}

FromGateway == {[Call EXCEPT !.via = "gateway", !.id = i] : i \in {Nil, trace}}
=============================================================================
