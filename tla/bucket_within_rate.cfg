SPECIFICATION Spec
CONSTANTS
  k1 = k1  k2 = k2  t1 = t1  t2 = t2  e1 = e1  e2 = e2  e3 = e3  e4 = e4
  Keys = {k1}
  Threads = {t1}
  Entries = {e1, e2}
  Nil = Nil
  Rate = 1
  Burst = 2
  Ttl = 2
  Interval = 1
  AllowMayStall = FALSE
  MaxTime = 4
SYMMETRY Symmetry
CHECK_DEADLOCK FALSE
INVARIANTS WithinRate
