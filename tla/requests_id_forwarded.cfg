SPECIFICATION Spec
CONSTANTS
  r1 = r1  r2 = r2  good = good  other = other  nobody = nobody  bad = bad  key = key  trace = trace
  Reqs = {r1}
  Tokens = {good, other, nobody, bad}
  ApiKeys = {key}
  TraceIds = {trace}
  Addrs = {"client"}
  Users = {"alice", "bob"}
  Inputs <- FromGateway
  Configs <- SomeConfigs
  Burst = 1
  Identity <- SomeIdentity
  Roles <- SomeRoles
  Vendors = {key}
  NoIdentity = ""
  Loopback = "loopback"
  Nil = Nil
CHECK_DEADLOCK FALSE
INVARIANTS RequestIDForwarded
