SPECIFICATION Spec
CONSTANTS
  h1 = h1  h2 = h2  g1 = g1  a = a  b = b
  HttpReqs = {h1}
  RpcReqs = {g1}
  NumServices = 1
  Closers = {1}
  Callers = {a}
  Entries = {"Start"}
  Shutdowns = {"Stop"}
  DeadlineMayExpire = FALSE
CHECK_DEADLOCK FALSE
INVARIANTS ClosedServiceUnused
