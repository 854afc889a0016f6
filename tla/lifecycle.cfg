SPECIFICATION FairSpec
CONSTANTS
  h1 = h1  h2 = h2  g1 = g1  a = a  b = b
  HttpReqs = {h1}
  RpcReqs = {g1}
  NumServices = 1
  Closers = {1}
  Callers = {a, b}
  Entries = {"Serve", "Start", "Split"}
  Shutdowns = {"Stop", "ShutdownGateway", "ShutdownGRPC"}
  DeadlineMayExpire = TRUE
CHECK_DEADLOCK FALSE
INVARIANTS TypeOK DrainBeforeGrpc StartReturnsDrained
PROPERTIES NoRequestCutOff ImplementsGracefulShutdown ShutdownReturns ServersExit RequestsAnswered
