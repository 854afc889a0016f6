------------------------------ MODULE MCWorker ------------------------------
\* A small instance of Worker for TLC.
EXTENDS Worker

Job(type, payload, q) == [type |-> type, payload |-> payload, queue |-> q]

SomeJobs ==
  {Job("email:send", "good", "default"), Job("email:send", "other", "default"),
   Job("db:cleanup", "good", "low"), Job("email:send", "unserializable", "default")}

\* The configuration lists other queues than the options, which win; the
\* concurrency of 0 the options ask for is the number of CPUs.
LowOnly == "low" :> 1
DefaultOnly == <<WithConcurrency(0), WithQueues("default" :> 3 @@ "low" :> 0)>>
=============================================================================
