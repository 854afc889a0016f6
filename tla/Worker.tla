------------------------------- MODULE Worker -------------------------------
(***************************************************************************)
(* The worker package over asynq: clients and a scheduler put tasks into    *)
(* Redis, a server process takes them out, runs their handlers behind the   *)
(* logging middleware, and is stopped, killed and started again.  asynq     *)
(* v0.25 and Redis are external: a task is delivered at least once, a       *)
(* failed one is retried MaxRetry times and then archived, an attempt has a *)
(* deadline of its own, and a task whose server died fails when its lease   *)
(* expires.  A server that lives keeps the leases of its tasks.             *)
(***************************************************************************)
EXTENDS Integers, Sequences, SequencesExt, FiniteSets, FiniteSetsExt, TLC

CONSTANTS
  Jobs,            \* what clients want done: [type, payload, queue]
  Registered,      \* the task types with a handler
  ConfigConcurrency, ConfigQueues,  \* the fields of the ServerConfig
  Options,         \* the ServerOptions, in the order given
  NumCPU,
  MaxRetry,
  MaxTasks,        \* bound: tasks in Redis, and of them with the same job
  MaxCopies,
  MaxCrashes,      \* bound: times the process ends and is started again
  MaxOvertime      \* bound: handlers that run although asynq has given them up

VARIABLES
  queue,     \* the tasks in Redis, with how many attempts have failed and what the
             \* last one did and logged, once asynq is through with it or it died
  runs,      \* the handler goroutines, also those asynq no longer waits for
  server,    \* the state of the server: "new", "active", "stopped", "closed" or "down"
  timedOut,  \* the shutdown timeout has passed
  crashes,   \* how often the process has ended
  cron       \* the scheduler: "new", "active" or "closed"

vars == <<queue, runs, server, timedOut, crashes, cron>>

Payloads == {"good", "other", "unserializable"}

ASSUME WorkerAssumption ==
  /\ \A j \in Jobs : j.payload \in Payloads
  /\ MaxRetry \in Nat /\ MaxTasks \in Nat /\ MaxCopies \in Nat /\ MaxCrashes \in Nat /\ MaxOvertime \in Nat
  /\ ConfigConcurrency \in Int /\ NumCPU \in Nat \ {0}
-----------------------------------------------------------------------------
(* NewServer and NewServerFromConfig: the defaults, overridden by the fields *)
(* of cfg that are set, overridden by the options, which set their field to  *)
(* whatever they are given.                                                  *)

defaultServerConfig ==
  [concurrency |-> 10, queues |-> "critical" :> 6 @@ "default" :> 3 @@ "low" :> 1]

WithConcurrency(n) == [concurrency |-> n]
WithQueues(queues) == [queues |-> queues]

\* The options NewServerFromConfig derives from cfg.
Derived == (IF ConfigConcurrency > 0 THEN <<WithConcurrency(ConfigConcurrency)>> ELSE <<>>)
           \o (IF DOMAIN ConfigQueues # {} THEN <<WithQueues(ConfigQueues)>> ELSE <<>>)

Applied(opts) == FoldLeft(LAMBDA c, o : o @@ c, defaultServerConfig, opts)

\* Mutant: the options first, then the fields of cfg.
NewServerFromConfigLast == Applied(Options \o Derived)

NewServerFromConfig == Applied(Derived \o Options)

\* asynq.NewServer: a concurrency below 1 is the number of CPUs, queues of
\* weight 0 are left out, and no queue at all is the default one.
Positive(queues) == LET qs == {q \in DOMAIN queues : queues[q] > 0}
                    IN IF qs = {} THEN {"default"} ELSE qs

Concurrency == LET n == NewServerFromConfig.concurrency IN IF n < 1 THEN NumCPU ELSE n
Served == Positive(NewServerFromConfig.queues)
-----------------------------------------------------------------------------
(* Client and Scheduler *)

\* Task.New: a payload that cannot be serialized makes no task.
Serializes(j) == j.payload # "unserializable"

NoAttempt == [verdict |-> "none", fn |-> "none", log |-> <<>>]

Stored(j) ==
  /\ Len(queue) < MaxTasks /\ Cardinality({k \in DOMAIN queue : queue[k].job = j}) < MaxCopies
  /\ queue' = Append(queue, [job |-> j, state |-> "pending", retried |-> 0,
                               failed |-> 0, last |-> NoAttempt])

\* Enqueue; an error from Redis may come before the task is stored or after, so
\* a client that tries again may store it twice.
Enqueue(j) == Serializes(j) /\ Stored(j) /\ UNCHANGED <<runs, server, timedOut, crashes, cron>>

\* Schedule, Start and Stop of the scheduler, and a tick of its clock.
SchedulerStart ==
  cron = "new" /\ cron' = "active" /\ UNCHANGED <<queue, runs, server, timedOut, crashes>>

SchedulerStop ==
  cron = "active" /\ cron' = "closed" /\ UNCHANGED <<queue, runs, server, timedOut, crashes>>

Tick(j) ==
  /\ cron = "active" /\ Serializes(j) /\ Stored(j)
  /\ UNCHANGED <<runs, server, timedOut, crashes, cron>>
-----------------------------------------------------------------------------
(* The server *)

\* The goroutines whose result asynq waits for.  One with a verdict runs on
\* unheard, after its deadline or the shutdown timeout.
Live == {r \in runs : r.verdict = "none"}
InHand(i) == \E r \in Live : r.task = i
RunOf(i) == CHOOSE r \in Live : r.task = i

\* Start, and Run up to its wait for a signal.
Start ==
  /\ server = "new" /\ server' = "active"
  /\ UNCHANGED <<queue, runs, timedOut, crashes, cron>>

\* loggingMiddleware, before next.ProcessTask.
LogStarted == <<"task started">>

\* A number to tell a run from the others of its task.
Fresh(i) == CHOOSE k \in 0..Cardinality(runs) : \A r \in runs : r.task = i => r.n # k

\* asynq's processor can take task i.
Available(i) ==
  /\ server = "active"
  /\ Cardinality(Live) < Concurrency
  /\ queue[i].state = "pending" /\ queue[i].job.queue \in Served

\* The goroutine it starts goes through the middleware at once.
Dequeue(i) ==
  /\ Available(i)
  /\ queue' = [queue EXCEPT ![i].state = "active", ![i].last = NoAttempt]
  /\ runs' = runs \cup {[task |-> i, n |-> Fresh(i), pc |-> "handle", log |-> LogStarted,
                         fn |-> "none", err |-> FALSE, verdict |-> "none"]}
  /\ UNCHANGED <<server, timedOut, crashes, cron>>

Step(r, s) == /\ runs' = (runs \ {r}) \cup {s}
              /\ UNCHANGED <<queue, server, timedOut, crashes, cron>>

\* The handler function returns, returns an error, perhaps one that wraps
\* asynq.SkipRetry or asynq.RevokeTask, or panics; asynq recovers the panic
\* outside the middleware, which then logs nothing.
CallFn(r) ==
  \E how \in {"ok", "error", "skip", "revoke", "panic"} :
    Step(r, [r EXCEPT !.pc = IF how = "panic" THEN "result" ELSE "log", !.fn = how, !.err = how # "ok"])

\* handle and Register: the mux has a handler for the types registered.
HasHandler(job) == job.type \in Registered

\* Mutant: a payload that does not decode is dropped.
ProcessTaskDropping(r) ==
  /\ r.pc = "handle"
  /\ LET job == queue[r.task].job IN
     IF HasHandler(job) /\ job.payload # "other" THEN CallFn(r)
     ELSE Step(r, [r EXCEPT !.pc = "log", !.err = ~HasHandler(job)])

\* The mux finds no handler, the payload does not decode, or Handler calls fn.
ProcessTask(r) ==
  /\ r.pc = "handle"
  /\ LET job == queue[r.task].job IN
     IF HasHandler(job) /\ job.payload # "other" THEN CallFn(r)
     ELSE Step(r, [r EXCEPT !.pc = "log", !.err = TRUE])

\* Mutant: the error ends in the log.
LogEndedSwallowing(r) ==
  /\ r.pc = "log"
  /\ Step(r, [r EXCEPT !.pc = "result", !.err = FALSE,
                       !.log = Append(@, IF r.err THEN "task failed" ELSE "task completed")])

\* loggingMiddleware, after next.ProcessTask.
LogEnded(r) ==
  /\ r.pc = "log"
  /\ Step(r, [r EXCEPT !.pc = "result", !.log = Append(@, IF r.err THEN "task failed" ELSE "task completed")])

\* The verdicts that count as a failed attempt: the handler returned an error or
\* panicked, it did not return by the deadline, its process died.
Failures == {"failed", "late", "lost"}

\* asynq's verdict on a task: attempt a of it, [fn, log], has ended this way.
Judged(i, a, verdict) ==
  LET t == queue[i] again == verdict \in Failures /\ t.retried < MaxRetry IN
  [job |-> t.job,
   state |-> CASE verdict \in {"done", "revoked"} -> "completed"
               [] verdict = "requeued" -> "pending"
               [] OTHER -> IF again THEN "retry" ELSE "archived",
   retried |-> IF again THEN t.retried + 1 ELSE t.retried,
   failed |-> IF verdict \in Failures THEN t.failed + 1 ELSE t.failed,
   last |-> [verdict |-> verdict, fn |-> a.fn, log |-> a.log]]

Verdict(r) == IF ~r.err THEN "done" ELSE IF r.fn = "skip" THEN "skipped"
              ELSE IF r.fn = "revoke" THEN "revoked" ELSE "failed"

\* The result reaches the processor, unless that has given the attempt up.
Settle(r) ==
  /\ r.pc = "result"
  /\ runs' = runs \ {r}
  /\ queue' = IF r \in Live THEN [queue EXCEPT ![r.task] = Judged(r.task, r, Verdict(r))] ELSE queue
  /\ UNCHANGED <<server, timedOut, crashes, cron>>

\* The deadline of an attempt: the Timeout or Deadline option of the task, or
\* the default of 30 minutes.  The attempt has failed, its goroutine goes on.
Late(r) ==
  /\ r \in Live /\ Cardinality(runs \ Live) < MaxOvertime
  /\ runs' = (runs \ {r}) \cup {[r EXCEPT !.verdict = "late"]}
  /\ queue' = [queue EXCEPT ![r.task] = Judged(r.task, r, "late")]
  /\ UNCHANGED <<server, timedOut, crashes, cron>>

\* The deadline is over before the handler is started.
Expired(i) ==
  /\ Available(i)
  /\ queue' = [queue EXCEPT ![i] = Judged(i, NoAttempt, "late")]
  /\ UNCHANGED <<runs, server, timedOut, crashes, cron>>

\* The forwarder, once the delay of a retry is over.
Retry(i) ==
  /\ server \in {"active", "stopped"} /\ queue[i].state = "retry"
  /\ queue' = [queue EXCEPT ![i].state = "pending"]
  /\ UNCHANGED <<runs, server, timedOut, crashes, cron>>

\* The recoverer: the lease of a task whose process died has expired.
Recover(i) ==
  /\ server \in {"active", "stopped"} /\ queue[i].state = "active" /\ ~InHand(i)
  /\ queue' = [queue EXCEPT ![i] = Judged(i, queue[i].last, "lost")]
  /\ UNCHANGED <<runs, server, timedOut, crashes, cron>>

\* Stop: srv.Stop takes no more tasks ...
StopPulling ==
  /\ server = "active" /\ server' = "stopped"
  /\ UNCHANGED <<queue, runs, timedOut, crashes, cron>>

\* Mutant: ... and that is all.
ShutdownBeginSkipped ==
  /\ server = "stopped" /\ server' = "down"
  /\ UNCHANGED <<queue, runs, timedOut, crashes, cron>>

\* ... and srv.Shutdown waits for those that run,
ShutdownBegin ==
  /\ server = "stopped" /\ server' = "closed"
  /\ UNCHANGED <<queue, runs, timedOut, crashes, cron>>

\* gives up those that take longer than the shutdown timeout: each goes back to
\* its queue while its handler goes on,
ShutdownTimeout ==
  /\ server = "closed" /\ ~timedOut /\ Live # {} /\ Cardinality(runs) <= MaxOvertime
  /\ timedOut' = TRUE
  /\ queue' = [i \in DOMAIN queue |->
                 IF InHand(i) THEN Judged(i, RunOf(i), "requeued") ELSE queue[i]]
  /\ runs' = (runs \ Live) \cup {[r EXCEPT !.verdict = "requeued"] : r \in Live}
  /\ UNCHANGED <<server, crashes, cron>>

\* and returns.
ShutdownEnd ==
  /\ server = "closed" /\ Live = {}
  /\ server' = "down"
  /\ UNCHANGED <<queue, runs, timedOut, crashes, cron>>

\* The process ends, after Stop or in a crash, and another one takes over; the
\* old one may live on for a while after Stop, with the handlers it has left.
Exit ==
  /\ server # "new" /\ crashes < MaxCrashes
  /\ runs' \in IF server = "down" THEN {runs, {}} ELSE {{}}
  /\ queue' = [i \in DOMAIN queue |->
                 IF InHand(i)
                 THEN [queue[i] EXCEPT !.last = [verdict |-> "none", fn |-> RunOf(i).fn, log |-> RunOf(i).log]]
                 ELSE queue[i]]
  /\ server' = "new" /\ timedOut' = FALSE /\ crashes' = crashes + 1
  /\ UNCHANGED cron
-----------------------------------------------------------------------------
Init ==
  /\ queue = <<>> /\ runs = {} /\ server = "new" /\ timedOut = FALSE
  /\ crashes = 0 /\ cron = "new"

Next ==
  \/ \E j \in Jobs : Enqueue(j) \/ Tick(j)
  \/ SchedulerStart \/ SchedulerStop
  \/ Start \/ StopPulling \/ ShutdownBegin \/ ShutdownTimeout \/ ShutdownEnd \/ Exit
  \/ \E i \in 1..Len(queue) : Dequeue(i) \/ Expired(i) \/ Retry(i) \/ Recover(i)
  \/ \E r \in runs : ProcessTask(r) \/ LogEnded(r) \/ Settle(r) \/ Late(r)

Spec == Init /\ [][Next]_vars

\* Goroutines are scheduled, timers fire, leases expire, and the supervisor starts
\* the process again.  A handler function returns or its deadline passes: every
\* task has one.
FairSpec ==
  /\ Spec
  /\ WF_vars(Start) /\ WF_vars(ShutdownBegin) /\ WF_vars(ShutdownEnd)
  /\ \A i \in 1..MaxTasks :
       /\ WF_vars(i \in DOMAIN queue /\ (Dequeue(i) \/ Expired(i) \/ Retry(i) \/ Recover(i)))
       /\ WF_vars(\E r \in Live : r.task = i /\ (ProcessTask(r) \/ LogEnded(r) \/ Settle(r) \/ Late(r)))
-----------------------------------------------------------------------------
(* Properties *)

\* A task counts as done only after its handler function has returned nil for
\* its payload, or has revoked it, and is given up only when the function asks
\* for it or after MaxRetry + 1 failed attempts; being put back at a shutdown
\* costs none.
DoneMeansHandled ==
  \A i \in DOMAIN queue :
    LET t == queue[i] IN
    /\ t.state = "completed" => /\ <<t.last.verdict, t.last.fn>> \in {<<"done", "ok">>, <<"revoked", "revoke">>}
                                /\ HasHandler(t.job) /\ t.job.payload = "good"
    /\ t.state = "archived" <=> t.failed = MaxRetry + 1 \/ t.last.verdict = "skipped"
    /\ t.last.verdict = "failed" => t.last.fn # "ok"

\* asynq gave up waiting for the attempt: its deadline or the shutdown timeout
\* passed, or its process died.
GivenUp == {"late", "requeued", "lost"}

\* The log of every attempt, also of one that was given up and still runs or has
\* died, agrees with what its handler function did and with what the queue was
\* told.  "task completed" is logged only for a function that returned nil, and
\* then the task is done, or is to be, or the attempt was given up: only then may
\* a task with that line in the log fail or run again.  "task failed" is logged
\* only for one that did not, and never for a task that is done.  An attempt
\* whose result was taken has logged how it ended, unless the function panicked,
\* and only the death of a process loses one.
LogAgrees ==
  \A a \in runs \cup {queue[i].last : i \in DOMAIN queue} :
    LET said(line) == a.log = Append(LogStarted, line) IN
    /\ said("task completed") => a.fn = "ok" /\ a.verdict \in {"done", "none"} \cup GivenUp
    /\ said("task failed") => a.fn # "ok" /\ a.verdict # "done"
    /\ a.verdict = "done" => said("task completed")
    /\ a.verdict \in {"failed", "skipped", "revoked"} => said("task failed") \/ a.fn = "panic"
    /\ a.verdict = "lost" => crashes > 0

\* A handler runs on after Stop has returned, or beside another one of its task,
\* only if its attempt was given up at its own deadline or at a shutdown timeout,
\* of this process or of an earlier one that lives on; Stop waits for all others,
\* and leaves no task in progress unless a process has died.
StopWaits ==
  /\ \A r \in runs :
       \/ r.verdict = "late"
       \/ r.verdict = "requeued" /\ (timedOut \/ crashes > 0)
       \/ /\ r.verdict = "none" /\ queue[r.task].state = "active" /\ server # "down"
          /\ \A s \in runs : s.task = r.task /\ s # r => s.verdict # "none"
  /\ server = "down" /\ crashes = 0 => \A i \in DOMAIN queue : queue[i].state # "active"

\* The queues the caller asked the server to serve: those of the last option
\* that names any, of cfg if there is none, the defaults if neither does.
AskedFor ==
  LET given == {k \in DOMAIN Options : "queues" \in DOMAIN Options[k]}
  IN Positive(IF given # {} THEN Options[Max(given)].queues
              ELSE IF ConfigQueues # <<>> THEN ConfigQueues ELSE defaultServerConfig.queues)

\* A task of a queue the server is asked to serve is eventually done or given
\* up, as long as the server is up again and again: through retries, panics,
\* handlers that hang, crashes, and shutdowns that put it back.
EveryTaskSettled ==
  []<>(server = "active") =>
    \A i \in 1..MaxTasks :
      (i \in DOMAIN queue /\ queue[i].job.queue \in AskedFor) ~>
        (i \in DOMAIN queue /\ queue[i].state \in {"completed", "archived"})
=============================================================================
