----------------------------- MODULE MCPackages -----------------------------
(***************************************************************************)
(* The library packages for TLC.  They share no state, so a behaviour       *)
(* exercises one of them while the others rest.                             *)
(***************************************************************************)
EXTENDS Query, Collection, PrettyHandler, Construction

\* Lists of up to as many rows as a word can count, some with a NULL.
SomeTables ==
  {<<>>, <<5>>, <<Null>>, <<3, 1, 2>>, <<2, Null, 7, 1>>, <<4, 3, 6, 1, 5, Null>>,
   <<7, 6, 5, 4, 3, 2, 1>>, <<7, 0, 6, 5, 4, Null, 2, 1>>}

SomeContents == UNION {[1..n -> Elems] : n \in 0..3}

SomeAttrs ==
  {[kind |-> "key", key |-> "request_id"], [kind |-> "empty"],
   [kind |-> "group", key |-> "", members |-> <<"method", "status">>]}

SomeEnvironments ==
  {[LOG_LEVEL |-> "", LOG_ENCODER |-> "console", CI |-> ""],
   [LOG_LEVEL |-> "debug", LOG_ENCODER |-> "json", CI |-> ""]}

\* Two services or none; the default paths, one more, "/metrics" twice, and a
\* base path that is taken already.
SomeOptionLists ==
  {<<>>,
   <<WithServiceServer(<<"users", "orders">>), WithGatewayServiceName("api")>>,
   <<WithoutGatewayMetricsRecorder>>,
   <<WithGatewayServerHandler(<<"/pprof">>), WithGatewayBasePathOverride("/api/")>>,
   <<WithGatewayServerHandler(<<"/metrics">>)>>,
   <<WithGatewayBasePathOverride("/metrics")>>}

\* Nothing is registered, or an equal collector, or another one, for either metric.
SomeRegistries == [{MetricNames[1], MetricNames[2]} -> {"free", "app", "clash"}]

QueryRests ==
  table = <<>> /\ asked = [size |-> 1, dir |-> ""] /\ page = 1 /\ got = <<>> /\ fetches = MaxFetches /\ ended = TRUE

CollectionRests ==
  arrays = <<>> /\ held = <<>> /\ sets = <<>> /\ dict = <<>> /\ last = [op |-> "none"] /\ calls = MaxCalls

LoggerRests ==
  /\ attrArrays = <<>> /\ handlers = <<>> /\ ctxLogger = <<>> /\ pending = <<>> /\ hmu = <<>>
  /\ fdmu = NoGoroutine /\ output = <<>> /\ derived = <<>> /\ want = <<>>
  /\ logged = [g \in Goroutines |-> 0]

ConstructionRests ==
  /\ registry = [n \in {MetricNames[1], MetricNames[2]} |-> "free"]
  /\ once = "done" /\ metrics = <<>> /\ new = <<>> /\ counts = <<>> /\ served = <<>> /\ dropped = {}

Init ==
  \/ QueryInit /\ CollectionRests /\ LoggerRests /\ ConstructionRests
  \/ QueryRests /\ CollectionInit /\ LoggerRests /\ ConstructionRests
  \/ QueryRests /\ CollectionRests /\ LoggerInit /\ ConstructionRests
  \/ QueryRests /\ CollectionRests /\ LoggerRests /\ ConstructionInit

Next ==
  \/ QueryNext /\ UNCHANGED <<collectionVars, loggerVars, constructionVars>>
  \/ held # <<>> /\ CollectionNext /\ UNCHANGED <<queryVars, loggerVars, constructionVars>>
  \/ handlers # <<>> /\ LoggerNext /\ UNCHANGED <<queryVars, collectionVars, constructionVars>>
  \/ new # <<>> /\ ConstructionNext /\ UNCHANGED <<queryVars, collectionVars, loggerVars>>

Spec == Init /\ [][Next]_<<queryVars, collectionVars, loggerVars, constructionVars>>
=============================================================================
