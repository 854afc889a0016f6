---------------------------- MODULE MCHttpReply ----------------------------
(* An instance of HttpReply for TLC. *)
EXTENDS HttpReply

SomeConfigs ==
  [options : {<<>>, <<"HTTPResponseModifier">>, <<"Redirect">>, <<"HTTPResponseModifier", "Redirect">>,
              <<"Redirect", "HTTPResponseModifier">>, <<"HTTPResponseModifier", "HTTPResponseModifier">>},
   metrics : BOOLEAN]

\* Every call grpc-gateway forwards, and the handlers of the application.
SomeExchanges ==
  {x \in Exchange : /\ x.route # "rpc" => /\ x.error = 0 /\ x.code = Absent /\ x.redirect = FALSE
                                          /\ x.redirectCode = Absent /\ x.marshals
                    /\ x.route = "direct" => ~x.quiet}
=============================================================================
