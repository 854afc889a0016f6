---------------------------- MODULE Construction ----------------------------
(***************************************************************************)
(* server.New, called by several goroutines of one process: the options,    *)
(* the registration of the services, and the HTTP metrics all servers of a  *)
(* process share through a sync.Once and the Prometheus registry.  A        *)
(* collector is known by who made it: the framework, "own", or the          *)
(* application, "app", before the first New.                                *)
(***************************************************************************)
EXTENDS Integers, SequencesExt

CONSTANTS
  Callers,       \* goroutines, each of which calls New once
  OptionLists,   \* the options they may pass
  Registries,    \* the registry before the first New
  MaxRequests    \* bound: requests to a server

VARIABLES
  registry,     \* what is registered under the names of the two metrics
  once,         \* globalHTTPMetricsOnce: "new", "done", or who runs its function
  metrics,      \* globalHTTPMetrics
  new,          \* the progress of New and the server it makes
  counts,       \* the counters of the request collectors, by label
  served,       \* how many requests the recording servers have answered, by label
  dropped       \* the labels under which net/http has dropped a connection

constructionVars == <<registry, once, metrics, new, counts, served, dropped>>

MetricNames == <<"http_requests_total", "http_request_duration_seconds">>
NoMetrics == <<>>     \* a nil pointer

ASSUME ConstructionAssumption ==
  /\ Callers \cap {"new", "done"} = {}
  /\ Registries \subseteq [{MetricNames[1], MetricNames[2]} -> {"free", "app", "clash"}]
-----------------------------------------------------------------------------
(* options.go *)

createDefaultConfig ==
  [ServiceName |-> "", NoMetricsRecorder |-> FALSE, BasePathOverride |-> "",
   ServerHandlers |-> <<"/metrics">>, ServiceServers |-> <<>>]

\* The options a server's routes and metrics depend on.
WithGatewayServerHandler(handlers) == [field |-> "ServerHandlers", value |-> handlers]
WithGatewayServiceName(name) == [field |-> "ServiceName", value |-> name]
WithGatewayBasePathOverride(basePath) == [field |-> "BasePathOverride", value |-> basePath]
WithoutGatewayMetricsRecorder == [field |-> "NoMetricsRecorder", value |-> TRUE]
WithServiceServer(services) == [field |-> "ServiceServers", value |-> services]

\* An option appends to a list or replaces a value.
Apply(c, o) ==
  IF o.field \in {"ServerHandlers", "ServiceServers"} THEN [c EXCEPT ![o.field] = @ \o o.value]
  ELSE [c EXCEPT ![o.field] = o.value]

\* createConfig
ConfigOf(opts) == FoldLeft(Apply, createDefaultConfig, opts)

Root(c) == IF c.BasePathOverride = "" THEN "/" ELSE c.BasePathOverride

\* Every path of a server, in the order newGatewayServer registers them.
Patterns(c) == Append(c.ServerHandlers, Root(c))
-----------------------------------------------------------------------------
(* New *)

To(g, pc) == new' = [new EXCEPT ![g].pc = pc]

\* createConfig and newGrpcServer; the services and the health service are
\* registered before the connection of the gateway is dialled, which may fail.
NewBegin(g) ==
  /\ new[g].pc = "begin"
  /\ \E opts \in OptionLists :
       \/ new' = [new EXCEPT ![g].pc = "services", ![g].c = ConfigOf(opts)]
       \/ To(g, "failed")
  /\ UNCHANGED <<registry, once, metrics, counts, served, dropped>>

\* RegisterWithHandler and RegisterCustomRoutes of the next service; when one
\* fails, New returns an error and leaves the connection open.
RegisterService(g) ==
  /\ new[g].pc = "services" /\ new[g].next <= Len(new[g].c.ServiceServers)
  /\ \/ new' = [new EXCEPT ![g].next = @ + 1]
     \/ To(g, "failed")
  /\ UNCHANGED <<registry, once, metrics, counts, served, dropped>>

ServicesDone(g) ==
  /\ new[g].pc = "services" /\ new[g].next > Len(new[g].c.ServiceServers)
  /\ To(g, IF new[g].c.NoMetricsRecorder THEN "routes" ELSE "once")
  /\ UNCHANGED <<registry, once, metrics, counts, served, dropped>>

\* Mutant: the collector just made is used, registered or not.
mustRegisterOwn(name) ==
  CASE registry[name] = "clash" -> "panic" [] OTHER -> "own"

\* mustRegister: the collector to use, an equal one registered earlier included;
\* one of the same name and other labels makes it panic.
mustRegister(name) ==
  CASE registry[name] = "clash" -> "panic"
    [] registry[name] = "free" -> "own"
    [] OTHER -> registry[name]

\* getHTTPMetrics: the function of the once registers the two collectors ...
OnceBegin(g) ==
  /\ new[g].pc = "once" /\ once = "new"
  /\ once' = g /\ To(g, "register")
  /\ UNCHANGED <<registry, metrics, counts, served, dropped>>

\* ... one after the other; a panic leaves the metrics nil and the once done.
OnceRegister(g) ==
  /\ new[g].pc = "register" /\ Len(new[g].metrics) < Len(MetricNames)
  /\ LET name == MetricNames[Len(new[g].metrics) + 1] IN
     IF mustRegister(name) = "panic"
     THEN once' = "done" /\ To(g, "panicked") /\ UNCHANGED registry
     ELSE /\ new' = [new EXCEPT ![g].metrics = Append(@, mustRegister(name))]
          /\ registry' = [registry EXCEPT ![name] = IF @ = "free" THEN "own" ELSE @]
          /\ UNCHANGED once
  /\ UNCHANGED <<metrics, counts, served, dropped>>

OnceEnd(g) ==
  /\ new[g].pc = "register" /\ Len(new[g].metrics) = Len(MetricNames)
  /\ metrics' = new[g].metrics /\ once' = "done" /\ To(g, "routes")
  /\ UNCHANGED <<registry, counts, served, dropped>>

\* Everyone else waits for the once and takes what it has left.
OnceDone(g) ==
  /\ new[g].pc = "once" /\ once = "done"
  /\ new' = [new EXCEPT ![g].pc = "routes", ![g].metrics = metrics]
  /\ UNCHANGED <<registry, once, metrics, counts, served, dropped>>

\* The handlers and the gateway; http.ServeMux panics on a pattern it has.
Routes(g) ==
  /\ new[g].pc = "routes"
  /\ LET ps == Patterns(new[g].c) IN
     To(g, IF Cardinality(ToSet(ps)) < Len(ps) THEN "panicked" ELSE "built")
  /\ UNCHANGED <<registry, once, metrics, counts, served, dropped>>

Label(g, pattern) == <<new[g].c.ServiceName, pattern>>

Recording(g, pattern) ==
  /\ new[g].pc = "built" /\ pattern \in ToSet(Patterns(new[g].c))
  /\ ~new[g].c.NoMetricsRecorder

\* A request, through MetricsRecordingMux.
Request(g, pattern) ==
  /\ Recording(g, pattern) /\ new[g].metrics # NoMetrics
  /\ served[Label(g, pattern)] < MaxRequests
  /\ served' = [served EXCEPT ![Label(g, pattern)] = @ + 1]
  /\ counts' = [counts EXCEPT ![new[g].metrics[1]][Label(g, pattern)] = @ + 1]
  /\ UNCHANGED <<registry, once, metrics, new, dropped>>

\* Without metrics, wrap dereferences nil once the handler has returned, and
\* net/http drops the connection.
RequestPanics(g, pattern) ==
  /\ Recording(g, pattern) /\ new[g].metrics = NoMetrics
  /\ dropped' = dropped \cup {Label(g, pattern)}
  /\ UNCHANGED <<registry, once, metrics, new, counts, served>>
-----------------------------------------------------------------------------
Labels == {<<ConfigOf(o).ServiceName, p>> : o \in OptionLists, p \in UNION {ToSet(Patterns(ConfigOf(o))) : o \in OptionLists}}

ConstructionInit ==
  /\ registry \in Registries /\ once = "new" /\ metrics = NoMetrics
  /\ new = [g \in Callers |-> [pc |-> "begin", c |-> createDefaultConfig, next |-> 1, metrics |-> NoMetrics]]
  /\ counts = [c \in {"own", "app"} |-> [l \in Labels |-> 0]]
  /\ served = [l \in Labels |-> 0] /\ dropped = {}

ConstructionNext ==
  \E g \in Callers :
    \/ NewBegin(g) \/ RegisterService(g) \/ ServicesDone(g)
    \/ OnceBegin(g) \/ OnceRegister(g) \/ OnceEnd(g) \/ OnceDone(g) \/ Routes(g)
    \/ \E l \in Labels : Request(g, l[2]) \/ RequestPanics(g, l[2])

ConstructionSpec == ConstructionInit /\ [][ConstructionNext]_constructionVars
-----------------------------------------------------------------------------
(* Properties *)

\* Whatever order the calls of New interleave in, and whoever has registered an
\* equal collector before: a recording server answers every request and counts
\* it once, under its service name and pattern, in the collector that /metrics
\* shows.  Where one of the two names is taken by a different collector the
\* first New panics, and should the process survive that, a recording server
\* built later answers nothing at all: every request ends in a nil dereference.
RequestsCounted ==
  LET exposed == registry[MetricNames[1]]
      clashed == \E n \in ToSet(MetricNames) : registry[n] = "clash"
  IN IF clashed
     THEN \A l \in DOMAIN served : served[l] = 0
     ELSE /\ dropped = {}
          /\ \A l \in DOMAIN served :
               served[l] = (IF exposed = "free" THEN 0 ELSE counts[exposed][l])
=============================================================================
