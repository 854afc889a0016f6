SPECIFICATION Spec
CONSTANTS
  Statuses = {99, 101, 103, 200, 201, 301, 308, 404, 500}
  ErrorStatuses = {404, 500}
  Configs <- SomeConfigs
  Exchanges <- SomeExchanges
  MaxOps = 3
CHECK_DEADLOCK FALSE
INVARIANTS TypeOK ErrorStatus RedirectAsAsked CountedAsSent LoggedAsSent PanicAnswered
