SPECIFICATION Spec
CONSTANTS
  r1 = r1  r2 = r2  s1 = s1
  Reqs = {r1, r2}
  Sentinels = {s1}
  Headers <- SomeHeaders
  Dirs <- SomeDirs
  FallbackLang = "en"
  DebuggerModes = {TRUE, FALSE}
  Nil = Nil
SYMMETRY Symmetry
CHECK_DEADLOCK FALSE
INVARIANTS TypeOK UnsharedErrorIsOwn InternalsHidden
