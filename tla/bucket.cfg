SPECIFICATION FairSpec
CONSTANTS
  k1 = k1  k2 = k2  t1 = t1  t2 = t2  e1 = e1  e2 = e2  e3 = e3  e4 = e4
  Keys = {k1, k2}
  Threads = {t1, t2}
  Entries = {e1, e2, e3}
  Nil = Nil
  Rate = 1
  Burst = 1
  Ttl = 1
  Interval = 1
  AllowMayStall = TRUE
  MaxTime = 2
CHECK_DEADLOCK FALSE
INVARIANTS TypeOK OverdrawnOnlyByLossyEviction BucketShared SweepComplete
PROPERTIES CleanupExits
