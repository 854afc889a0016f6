SPECIFICATION FairSpec
CONSTANTS
  h1 = h1  h2 = h2  g1 = g1  a = a  b = b
  HttpReqs = {h1}
  RpcReqs = {}
  NumServices = 1
  Closers = {1}
  Callers = {a}
  Entries = {"Serve"}
  Shutdowns = {"Stop"}
  DeadlineMayExpire = FALSE
CHECK_DEADLOCK FALSE
PROPERTIES ServeReturns
