SPECIFICATION Spec
CONSTANTS
  Word = 8
  DefaultPageSize = 2
  MaxPageSize = 3
  Tables <- SomeTables
  Null = Null
  MaxFetches = 9
  Elems = {0, 1, 2}
  Contents <- SomeContents
  MaxCalls = 2
  Goroutines = {1, 2}
  Attrs <- SomeAttrs
  GroupNames = {"http"}
  Environments <- SomeEnvironments
  NoGoroutine = NoGoroutine
  NoLogger = NoLogger
  MaxDerived = 2
  MaxLines = 1
  Callers = {"main", "test"}
  OptionLists <- SomeOptionLists
  Registries <- SomeRegistries
  MaxRequests = 2
CHECK_DEADLOCK FALSE
INVARIANTS EveryRowOnce PageAsAsked ResultAsDocumented LinesWhole LineAsDerived RequestsCounted
PROPERTIES CallersUntouched
