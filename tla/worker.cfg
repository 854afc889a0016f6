SPECIFICATION FairSpec
CONSTANTS
  Jobs <- SomeJobs
  Registered = {"email:send"}
  ConfigQueues <- LowOnly
  Options <- DefaultOnly
  ConfigConcurrency = 2
  NumCPU = 1
  MaxRetry = 1
  MaxTasks = 2
  MaxCopies = 1
  MaxCrashes = 1
  MaxOvertime = 1
CHECK_DEADLOCK FALSE
INVARIANTS DoneMeansHandled LogAgrees StopWaits
PROPERTIES EveryTaskSettled
