---------------------------- MODULE WorkerProofs ----------------------------
(***************************************************************************)
(* Proofs about Worker, for any jobs, queues, task types and concurrency,   *)
(* any number of retries and tasks and any number of crashes.               *)
(***************************************************************************)
EXTENDS Worker, FiniteSetTheorems, SequenceTheorems, TLAPS

States == {"pending", "active", "retry", "completed", "archived"}
Verdicts == {"none", "done", "failed", "skipped", "revoked", "late", "requeued", "lost"}
Outcomes == {"none", "ok", "error", "skip", "revoke", "panic"}
Failed == <<"task started", "task failed">>
Completed == <<"task started", "task completed">>
Logs == {<<>>, LogStarted, Failed, Completed}

Attempt == [verdict : Verdicts, fn : Outcomes, log : Logs]
Task == [job : Jobs, state : States, retried : Nat, failed : Nat, last : Attempt]

Run == [task : Nat, n : Nat, pc : {"handle", "log", "result"}, log : Logs,
        fn : Outcomes, err : BOOLEAN, verdict : {"none", "late", "requeued"}]

TypeOK ==
  /\ queue \in Seq(Task)
  /\ runs \subseteq Run /\ IsFiniteSet(runs) /\ \A r \in runs : r.task \in DOMAIN queue
  /\ server \in {"new", "active", "stopped", "closed", "down"}
  /\ timedOut \in BOOLEAN /\ crashes \in Nat

\* The log of an attempt, what its function did and the verdict on it agree.
AttemptOK(a) ==
  /\ a.log = Completed => a.fn = "ok" /\ a.verdict \in {"done", "none"} \cup GivenUp
  /\ a.log = Failed => a.fn # "ok" /\ a.verdict # "done"
  /\ a.verdict = "done" => a.log = Completed
  /\ a.verdict \in {"failed", "skipped", "revoked"} => a.log = Failed \/ a.fn = "panic"
  /\ a.verdict = "failed" => a.fn # "ok"
  /\ a.verdict = "revoked" => a.fn = "revoke"

\* A function is called for a task it can handle only.
Called(job, fn) == fn \in {"ok", "revoke"} => job.type \in Registered /\ job.payload = "good"

\* A task that is not given up has failed as often as it was retried, one that
\* is given up was told to be or has no retry left; a done task was handled.
TaskOK(t) ==
  /\ t.job.payload # "unserializable"
  /\ t.retried <= MaxRetry
  /\ t.state # "archived" => t.failed = t.retried /\ t.last.verdict # "skipped"
  /\ t.state = "archived" => t.failed = MaxRetry + 1 \/ t.last.verdict = "skipped"
  /\ t.state = "completed" => t.last.verdict \in {"done", "revoked"}
  /\ AttemptOK(t.last) /\ Called(t.job, t.last.fn)

TasksOK == \A i \in DOMAIN queue : TaskOK(queue[i])

\* What a handler goroutine knows agrees with its place: the middleware logs what
\* the function returns.
RunOK(r) ==
  /\ Called(queue[r.task].job, r.fn)
  /\ r.pc = "handle" => r.log = LogStarted /\ r.fn = "none"
  /\ r.pc # "handle" => (r.err <=> r.fn # "ok")
  /\ r.pc = "log" => r.log = LogStarted
  /\ r.pc = "result" =>
       \/ r.fn = "panic" /\ r.log = LogStarted
       \/ r.err /\ r.log = Failed
       \/ ~r.err /\ r.log = Completed

RunsOK == \A r \in runs : RunOK(r)

\* A task in progress has one live goroutine, and only a crash leaves it
\* without; there are none before a start, nor after Stop.
Ties ==
  /\ \A r \in Live : queue[r.task].state = "active"
  /\ \A r, s \in Live : r.task = s.task => r = s
  /\ crashes = 0 => \A i \in DOMAIN queue : queue[i].state = "active" => \E r \in Live : r.task = i
  /\ server \in {"new", "down"} => Live = {}
  /\ \A r \in runs : r.verdict = "requeued" => timedOut \/ crashes > 0
  /\ \A i \in DOMAIN queue : queue[i].last.verdict = "lost" => crashes > 0

IInv == TypeOK /\ TasksOK /\ RunsOK /\ Ties
-----------------------------------------------------------------------------
\* The queue and the goroutines before the first task.
LEMMA InitIInv == Init => IInv
<1> SUFFICES ASSUME Init PROVE IInv
  OBVIOUS
<1>1. TypeOK
  <2>1. <<>> \in Seq(Task) /\ IsFiniteSet({})
    BY FS_EmptySet
  <2> QED
    BY <2>1 DEF Init, TypeOK
<1>2. TasksOK /\ RunsOK /\ Ties
  BY DEF Init, TasksOK, RunsOK, Ties, Live
<1> QED
  BY <1>1, <1>2 DEF IInv

\* There is always a number no run of the task has: fewer runs than numbers.
LEMMA FreshIsNew ==
  ASSUME NEW i, IsFiniteSet(runs)
  PROVE  Fresh(i) \in Nat /\ \A r \in runs : r.task = i => r.n # Fresh(i)
<1> DEFINE Taken == {r.n : r \in runs}
<1>1. Cardinality(runs) \in Nat
  BY FS_CardinalityType
<1>2. IsFiniteSet(Taken) /\ Cardinality(Taken) <= Cardinality(runs)
  <2>1. [r \in runs |-> r.n] \in Surjection(runs, Taken)
    BY DEF Surjection
  <2> QED
    BY <2>1, FS_Surjection
<1>3. IsFiniteSet(0..Cardinality(runs)) /\ Cardinality(0..Cardinality(runs)) = Cardinality(runs) + 1
  BY <1>1, FS_Interval
<1>4. \E k \in 0..Cardinality(runs) : k \notin Taken
  <2> SUFFICES ASSUME 0..Cardinality(runs) \subseteq Taken PROVE FALSE
    OBVIOUS
  <2>1. Cardinality(0..Cardinality(runs)) <= Cardinality(Taken)
    BY <1>2, FS_Subset
  <2> QED
    BY <2>1, <1>1, <1>2, <1>3, FS_CardinalityType
<1>5. \E k \in 0..Cardinality(runs) : \A r \in runs : r.task = i => r.n # k
  BY <1>4
<1> QED
  BY <1>1, <1>5 DEF Fresh

\* The logs an attempt can have written are different ones.
LEMMA LogsDiffer ==
  /\ LogStarted # Failed /\ LogStarted # Completed /\ Failed # Completed
  /\ <<>> # Failed /\ <<>> # Completed
<1>1. Len(LogStarted) = 1 /\ Len(Failed) = 2 /\ Len(Completed) = 2
  BY DEF LogStarted, Failed, Completed
<1>2. Failed[2] = "task failed" /\ Completed[2] = "task completed" /\ "task failed" # "task completed"
  BY DEF Failed, Completed
<1>3. Len(<<>>) = 0
  OBVIOUS
<1>4. LogStarted # Failed /\ LogStarted # Completed
  BY <1>1
<1>5. Failed # Completed
  BY <1>2
<1>6. <<>> # Failed /\ <<>> # Completed
  BY <1>1, <1>3
<1> QED
  BY <1>4, <1>5, <1>6

\* No attempt at all, and a goroutine wherever it is before its result is taken.
LEMMA NoAttemptOK ==
  /\ NoAttempt \in Attempt /\ NoAttempt.verdict = "none" /\ NoAttempt.fn = "none" /\ NoAttempt.log = <<>>
  /\ AttemptOK(NoAttempt) /\ AttemptOK([verdict |-> "late", fn |-> "none", log |-> <<>>])
BY LogsDiffer DEF NoAttempt, Attempt, AttemptOK, Verdicts, Outcomes, Logs, GivenUp

LEMMA RunSays ==
  ASSUME NEW r \in Run, RunOK(r), NEW v \in {"none"} \cup GivenUp
  PROVE  AttemptOK([verdict |-> v, fn |-> r.fn, log |-> r.log])
BY LogsDiffer DEF Run, RunOK, AttemptOK, GivenUp

\* A verdict keeps the task's job and type.
LEMMA JudgedType ==
  ASSUME TypeOK, NEW i \in DOMAIN queue, NEW a, a.fn \in Outcomes, a.log \in Logs, NEW v \in Verdicts
  PROVE  /\ Judged(i, a, v) \in Task /\ Judged(i, a, v).job = queue[i].job
         /\ Judged(i, a, v).last = [verdict |-> v, fn |-> a.fn, log |-> a.log]
         /\ Judged(i, a, v).state # "active"
<1> DEFINE u == Judged(i, a, v)
<1>1. queue[i] \in Task
  BY DEF TypeOK
<1>2. u.state \in States /\ u.retried \in Nat /\ u.failed \in Nat
  BY <1>1 DEF Judged, Task, States
<1>3. u.last \in Attempt /\ u.last = [verdict |-> v, fn |-> a.fn, log |-> a.log]
  BY DEF Judged, Attempt
<1>4. u.job = queue[i].job /\ queue[i].job \in Jobs /\ u.state # "active"
  BY <1>1 DEF Judged, Task
<1>5. u = [job |-> u.job, state |-> u.state, retried |-> u.retried, failed |-> u.failed, last |-> u.last]
  BY DEF Judged
<1>6. u \in Task
  <2> HIDE DEF u
  <2> QED
    BY <1>2, <1>3, <1>4, <1>5 DEF Task
<1> QED
  BY <1>3, <1>4, <1>6

\* A failed attempt uses up a retry or, without one left, the task; any other
\* verdict leaves the numbers alone.
LEMMA JudgedCounts ==
  ASSUME TypeOK, TasksOK, NEW i \in DOMAIN queue, queue[i].state \in {"active", "pending"}, NEW a, NEW v \in Verdicts
  PROVE  LET u == Judged(i, a, v) IN
         /\ u.retried <= MaxRetry
         /\ v \in Failures => IF u.state = "archived" THEN u.failed = MaxRetry + 1
                               ELSE u.state = "retry" /\ u.failed = u.retried
         /\ v \notin Failures =>
              /\ u.failed = u.retried
              /\ v \in {"done", "revoked"} => u.state = "completed"
              /\ v = "requeued" => u.state = "pending"
              /\ v = "skipped" => u.state = "archived"
<1> DEFINE t == queue[i]
<1>1. t.retried \in Nat /\ MaxRetry \in Nat /\ t.retried <= MaxRetry /\ t.failed = t.retried
  <2>1. t \in Task /\ TaskOK(t)
    BY DEF TypeOK, TasksOK
  <2> QED
    BY <2>1, WorkerAssumption DEF Task, TaskOK
<1>2. CASE v \in Failures /\ t.retried < MaxRetry
  BY <1>1, <1>2 DEF Judged, Failures
<1>3. CASE v \in Failures /\ t.retried = MaxRetry
  BY <1>1, <1>3 DEF Judged, Failures
<1>4. CASE v \notin Failures
  BY <1>1, <1>4 DEF Judged, Failures
<1> QED
  BY <1>1, <1>2, <1>3, <1>4

\* A verdict that agrees with its attempt leaves a task that is all right.
LEMMA JudgedOK ==
  ASSUME TypeOK, TasksOK, NEW i \in DOMAIN queue, queue[i].state \in {"active", "pending"},
         NEW a, a.fn \in Outcomes, a.log \in Logs, NEW v \in Verdicts \ {"none"},
         AttemptOK([verdict |-> v, fn |-> a.fn, log |-> a.log]), Called(queue[i].job, a.fn)
  PROVE  TaskOK(Judged(i, a, v))
<1> DEFINE u == Judged(i, a, v)
<1>1. /\ u.retried <= MaxRetry
      /\ v \in Failures => IF u.state = "archived" THEN u.failed = MaxRetry + 1
                            ELSE u.state = "retry" /\ u.failed = u.retried
      /\ v \notin Failures =>
           /\ u.failed = u.retried
           /\ v \in {"done", "revoked"} => u.state = "completed"
           /\ v = "requeued" => u.state = "pending"
           /\ v = "skipped" => u.state = "archived"
  BY JudgedCounts
<1>2. u.job = queue[i].job /\ u.last = [verdict |-> v, fn |-> a.fn, log |-> a.log]
  BY JudgedType
<1>3. queue[i].job.payload # "unserializable"
  BY DEF TasksOK, TaskOK
<1> HIDE DEF u
<1>4. u.last.verdict = v /\ u.last.fn = a.fn /\ AttemptOK(u.last) /\ Called(u.job, u.last.fn)
  BY <1>2
<1>5. TaskOK(u)
  BY <1>1, <1>2, <1>3, <1>4 DEF TaskOK, Failures, Verdicts
<1> QED
  BY <1>5 DEF u

\* The result of a live goroutine is what its handler did.
LEMMA SettledOK ==
  ASSUME TypeOK, TasksOK, RunsOK, NEW r \in runs, r.pc = "result", queue[r.task].state = "active"
  PROVE  TaskOK(Judged(r.task, r, Verdict(r)))
<1>1. r.task \in DOMAIN queue /\ r \in Run /\ RunOK(r) /\ r.fn \in Outcomes /\ r.log \in Logs
  BY DEF TypeOK, RunsOK, Run
<1>2. Verdict(r) \in Verdicts \ {"none"}
  BY DEF Verdict, Verdicts
<1>3. AttemptOK([verdict |-> Verdict(r), fn |-> r.fn, log |-> r.log])
  BY <1>1, LogsDiffer DEF Verdict, Run, RunOK, AttemptOK, GivenUp
<1>4. Called(queue[r.task].job, r.fn)
  BY <1>1 DEF RunOK
<1> QED
  BY <1>1, <1>2, <1>3, <1>4, JudgedOK
-----------------------------------------------------------------------------
\* A step that puts u in the place of one task leaves the others alone.
LEMMA OneTask ==
  ASSUME TypeOK, TasksOK, NEW i \in DOMAIN queue, NEW u \in Task, u.job = queue[i].job,
         TaskOK(u), queue' = [queue EXCEPT ![i] = u]
  PROVE  /\ queue' \in Seq(Task) /\ DOMAIN queue' = DOMAIN queue /\ TasksOK'
         /\ \A j \in DOMAIN queue : queue'[j] = IF j = i THEN u ELSE queue[j]
         /\ \A j \in DOMAIN queue : queue'[j].job = queue[j].job
<1>1. queue' \in Seq(Task) /\ DOMAIN queue' = DOMAIN queue
  BY DEF TypeOK
<1>2. \A j \in DOMAIN queue : queue'[j] = IF j = i THEN u ELSE queue[j]
  BY DEF TypeOK
<1>3. \A j \in DOMAIN queue : queue'[j].job = queue[j].job
  BY <1>2
<1>4. TasksOK'
  <2> SUFFICES ASSUME NEW j \in DOMAIN queue PROVE TaskOK(queue'[j])
    BY <1>1 DEF TasksOK, TaskOK
  <2> QED
    BY <1>2 DEF TasksOK
<1> QED
  BY <1>1, <1>2, <1>3, <1>4

\* A task keeps its numbers and its job when it is moved on, or when its last
\* attempt is replaced by one it can have.
LEMMA Moved ==
  ASSUME TypeOK, TasksOK, NEW i \in DOMAIN queue, queue[i].state \in {"pending", "retry", "active"},
         NEW s \in {"pending", "active"}, NEW a \in Attempt, AttemptOK(a), a.verdict # "skipped",
         Called(queue[i].job, a.fn)
  PROVE  LET u == [queue[i] EXCEPT !.state = s, !.last = a]
         IN u \in Task /\ u.job = queue[i].job /\ TaskOK(u) /\ u.state = s /\ u.last = a
<1>1. queue[i] \in Task /\ TaskOK(queue[i])
  BY DEF TypeOK, TasksOK
<1> DEFINE u == [queue[i] EXCEPT !.state = s, !.last = a]
<1>2. /\ u \in Task /\ u.job = queue[i].job /\ u.state = s /\ u.last = a
      /\ u.retried = queue[i].retried /\ u.failed = queue[i].failed
  BY <1>1 DEF Task, States
<1> HIDE DEF u
<1>3. TaskOK(u)
  BY <1>1, <1>2 DEF TaskOK
<1> QED
  BY <1>2, <1>3 DEF u

\* What a goroutine knows does not depend on the state of its task.
LEMMA JobKept ==
  ASSUME NEW r, queue'[r.task].job = queue[r.task].job, RunOK(r)
  PROVE  RunOK(r)'
BY DEF RunOK

\* The server and the scheduler start and stop, Stop begins and returns.
LEMMA ControlIInv ==
  ASSUME IInv,
         \/ SchedulerStart \/ SchedulerStop \/ Start \/ StopPulling \/ ShutdownBegin \/ ShutdownEnd
         \/ UNCHANGED vars
  PROVE  IInv'
<1>1. UNCHANGED <<queue, runs, timedOut, crashes>>
  BY DEF SchedulerStart, SchedulerStop, Start, StopPulling, ShutdownBegin, ShutdownEnd, vars
<1>2. /\ server' \in {"new", "active", "stopped", "closed", "down"}
      /\ server' \in {"new", "down"} => server' = server \/ Live = {}
  BY DEF IInv, TypeOK, SchedulerStart, SchedulerStop, Start, StopPulling, ShutdownBegin, ShutdownEnd, vars
<1>3. TypeOK'
  BY <1>1, <1>2 DEF IInv, TypeOK
<1>4. TasksOK' /\ RunsOK'
  BY <1>1 DEF IInv, TasksOK, TaskOK, RunsOK, RunOK
<1>5. Ties'
  BY <1>1, <1>2 DEF IInv, Ties, Live
<1> QED
  BY <1>3, <1>4, <1>5 DEF IInv

\* A new task, from a client or the scheduler.
LEMMA StoredIInv ==
  ASSUME IInv, NEW j \in Jobs, Serializes(j), Stored(j), UNCHANGED <<runs, server, timedOut, crashes>>
  PROVE  IInv'
<1> DEFINE t == [job |-> j, state |-> "pending", retried |-> 0, failed |-> 0, last |-> NoAttempt]
           n == Len(queue) + 1
<1> USE DEF IInv
<1>0. NoAttempt \in Attempt /\ AttemptOK(NoAttempt) /\ NoAttempt.verdict = "none" /\ NoAttempt.fn = "none"
  BY NoAttemptOK
<1>1. t \in Task /\ TaskOK(t) /\ t.state = "pending" /\ t.last.verdict = "none"
  BY <1>0, WorkerAssumption DEF Task, TaskOK, Serializes, States, Called
<1>2. queue' = Append(queue, t)
  BY DEF Stored
<1> HIDE DEF t
<1>3. /\ queue' \in Seq(Task) /\ DOMAIN queue' = DOMAIN queue \cup {n}
      /\ queue'[n] = t /\ \A i \in DOMAIN queue : queue'[i] = queue[i]
  BY <1>1, <1>2 DEF TypeOK
<1>4. TypeOK'
  BY <1>3 DEF TypeOK
<1>5. TasksOK'
  BY <1>1, <1>3 DEF TasksOK, TaskOK
<1>6. RunsOK'
  BY <1>3, JobKept DEF TypeOK, RunsOK
<1>7. Ties'
  BY <1>1, <1>3 DEF TypeOK, Ties, Live
<1> QED
  BY <1>4, <1>5, <1>6, <1>7

\* The goroutine of a dequeued task is its only live one: a pending task has none.
LEMMA DequeueIInv ==
  ASSUME IInv, NEW i \in 1..Len(queue), Dequeue(i)
  PROVE  IInv'
<1> DEFINE u == [queue[i] EXCEPT !.state = "active", !.last = NoAttempt]
<1> USE DEF IInv
<1>1. i \in DOMAIN queue /\ i \in Nat /\ queue[i].state = "pending" /\ queue[i] \in Task
  BY DEF TypeOK, Dequeue, Available
<1>2. queue' = [queue EXCEPT ![i] = u] /\ server = "active"
      /\ UNCHANGED <<server, timedOut, crashes>>
  BY DEF Dequeue, Available
<1>3. PICK r : /\ r = [task |-> i, n |-> Fresh(i), pc |-> "handle", log |-> LogStarted,
                       fn |-> "none", err |-> FALSE, verdict |-> "none"]
               /\ runs' = runs \cup {r}
  BY DEF Dequeue
<1>4. u \in Task /\ u.job = queue[i].job /\ TaskOK(u) /\ u.state = "active" /\ u.last = NoAttempt
  BY <1>1, NoAttemptOK, Moved DEF Called
<1>5. r \in Run
  BY <1>1, <1>3, FreshIsNew DEF TypeOK, Run, Outcomes, Logs
<1>6. /\ r.task = i /\ r.verdict = "none" /\ r.pc = "handle" /\ r.log = LogStarted /\ r.fn = "none"
      /\ RunOK(r)'
  BY <1>3 DEF RunOK, Called
<1> HIDE DEF u
<1>7. /\ queue' \in Seq(Task) /\ DOMAIN queue' = DOMAIN queue /\ TasksOK'
      /\ \A j \in DOMAIN queue : queue'[j] = IF j = i THEN u ELSE queue[j]
      /\ \A j \in DOMAIN queue : queue'[j].job = queue[j].job
  BY <1>1, <1>2, <1>4, OneTask
<1>8. IsFiniteSet(runs')
  BY <1>3, FS_AddElement DEF TypeOK
<1>9. TypeOK'
  BY <1>1, <1>2, <1>3, <1>5, <1>6, <1>7, <1>8 DEF TypeOK
<1>10. RunsOK'
  <2> SUFFICES ASSUME NEW q \in runs' PROVE RunOK(q)'
    BY DEF RunsOK
  <2>1. CASE q \in runs
    <3>1. queue'[q.task].job = queue[q.task].job /\ RunOK(q)
      BY <2>1, <1>7 DEF TypeOK, RunsOK
    <3> QED
      BY <3>1, JobKept
  <2>2. CASE q = r
    BY <2>2, <1>6 DEF RunOK
  <2> QED
    BY <2>1, <2>2, <1>3
<1>11. Ties'
  <2>1. Live' = Live \cup {r}
    BY <1>3, <1>6 DEF Live
  <2>2. \A q \in Live : q.task \in DOMAIN queue /\ q.task # i /\ queue'[q.task].state = "active"
    BY <1>1, <1>7 DEF Ties, Live, TypeOK
  <2>3. \A q \in Live' : queue'[q.task].state = "active"
    BY <1>1, <1>4, <1>6, <1>7, <2>1, <2>2
  <2>4. \A p, q \in Live' : p.task = q.task => p = q
    BY <1>6, <2>1, <2>2 DEF Ties
  <2>5. crashes = 0 => \A j \in DOMAIN queue : queue'[j].state = "active" => \E q \in Live' : q.task = j
    BY <1>6, <1>7, <2>1 DEF Ties
  <2>6. \A q \in runs' : q.verdict = "requeued" => timedOut \/ crashes > 0
    BY <1>3, <1>6 DEF Ties
  <2>7. \A j \in DOMAIN queue : queue'[j].last.verdict = "lost" => crashes > 0
    BY <1>4, <1>7, NoAttemptOK DEF Ties
  <2> QED
    BY <1>2, <1>7, <2>3, <2>4, <2>5, <2>6, <2>7 DEF Ties
<1> QED
  BY <1>7, <1>9, <1>10, <1>11

\* A step of asynq that gives a task in no goroutine's hand another state.
LEMMA NobodyRuns ==
  ASSUME IInv, NEW i \in DOMAIN queue, NEW u \in Task, u.job = queue[i].job, TaskOK(u),
         u.state # "active", u.last.verdict = "lost" => crashes > 0,
         \A r \in Live : r.task # i,
         queue' = [queue EXCEPT ![i] = u], UNCHANGED <<runs, server, timedOut, crashes>>
  PROVE  IInv'
<1> USE DEF IInv
<1>1. /\ queue' \in Seq(Task) /\ DOMAIN queue' = DOMAIN queue /\ TasksOK'
      /\ \A j \in DOMAIN queue : queue'[j] = IF j = i THEN u ELSE queue[j]
      /\ \A j \in DOMAIN queue : queue'[j].job = queue[j].job
  BY OneTask
<1>2. TypeOK'
  BY <1>1 DEF TypeOK
<1>3. RunsOK'
  BY <1>1, JobKept DEF TypeOK, RunsOK
<1>4. Ties'
  BY <1>1 DEF TypeOK, Ties, Live
<1> QED
  BY <1>1, <1>2, <1>3, <1>4

\* The deadline of a task has passed before it is started, the forwarder and the
\* recoverer: each touches a task nobody runs.
LEMMA ExpiredIInv ==
  ASSUME IInv, NEW i \in 1..Len(queue), Expired(i)
  PROVE  IInv'
<1> DEFINE u == Judged(i, NoAttempt, "late")
<1> USE DEF IInv
<1>1. i \in DOMAIN queue /\ queue[i].state = "pending" /\ \A r \in Live : r.task # i
  BY DEF TypeOK, Expired, Available, Ties
<1>2. queue' = [queue EXCEPT ![i] = u] /\ UNCHANGED <<runs, server, timedOut, crashes>>
  BY DEF Expired
<1>3. /\ NoAttempt.fn = "none" /\ NoAttempt.log = <<>> /\ "none" \in Outcomes /\ <<>> \in Logs
      /\ "late" \in Verdicts \ {"none"} /\ Called(queue[i].job, NoAttempt.fn)
  BY NoAttemptOK DEF Outcomes, Logs, Verdicts, Called
<1>4. AttemptOK([verdict |-> "late", fn |-> NoAttempt.fn, log |-> NoAttempt.log])
  BY <1>3, NoAttemptOK
<1>5. /\ u \in Task /\ u.job = queue[i].job /\ u.state # "active"
      /\ u.last = [verdict |-> "late", fn |-> NoAttempt.fn, log |-> NoAttempt.log]
  BY <1>1, <1>3, JudgedType
<1>6. TaskOK(u)
  BY <1>1, <1>3, <1>4, JudgedOK
<1> HIDE DEF u
<1>7. u.last.verdict # "lost"
  BY <1>5
<1> QED
  BY <1>1, <1>2, <1>5, <1>6, <1>7, NobodyRuns

LEMMA RetryIInv ==
  ASSUME IInv, NEW i \in 1..Len(queue), Retry(i)
  PROVE  IInv'
<1> DEFINE u == [queue[i] EXCEPT !.state = "pending", !.last = queue[i].last]
<1> USE DEF IInv
<1>1. /\ i \in DOMAIN queue /\ queue[i] \in Task /\ TaskOK(queue[i]) /\ queue[i].state = "retry"
      /\ \A r \in Live : r.task # i
  BY DEF TypeOK, TasksOK, Retry, Ties
<1>2. queue' = [queue EXCEPT ![i] = u] /\ UNCHANGED <<runs, server, timedOut, crashes>>
  <2>1. u = [queue[i] EXCEPT !.state = "pending"]
    BY <1>1 DEF Task
  <2> QED
    BY <2>1 DEF Retry
<1>3. u \in Task /\ u.job = queue[i].job /\ TaskOK(u) /\ u.state = "pending" /\ u.last = queue[i].last
  <2>1. queue[i].last \in Attempt
    BY <1>1 DEF Task
  <2>2. AttemptOK(queue[i].last) /\ queue[i].last.verdict # "skipped" /\ Called(queue[i].job, queue[i].last.fn)
    BY <1>1 DEF TaskOK
  <2> QED
    BY <1>1, <2>1, <2>2, Moved
<1> HIDE DEF u
<1>4. u.last.verdict = "lost" => crashes > 0
  BY <1>1, <1>3 DEF Ties
<1> QED
  BY <1>1, <1>2, <1>3, <1>4, NobodyRuns

LEMMA RecoverIInv ==
  ASSUME IInv, NEW i \in 1..Len(queue), Recover(i)
  PROVE  IInv'
<1>0. PICK a : a = queue[i].last
  OBVIOUS
<1> DEFINE u == Judged(i, a, "lost")
<1> USE DEF IInv
<1>1. i \in DOMAIN queue /\ queue[i].state = "active" /\ \A r \in Live : r.task # i
  BY DEF TypeOK, Recover, InHand
<1>2. queue' = [queue EXCEPT ![i] = u] /\ UNCHANGED <<runs, server, timedOut, crashes>>
  BY <1>0 DEF Recover
<1>3. crashes > 0
  BY <1>1 DEF TypeOK, Ties
<1>4. /\ a.fn \in Outcomes /\ a.log \in Logs /\ AttemptOK(a) /\ Called(queue[i].job, a.fn)
      /\ "lost" \in Verdicts /\ "lost" \in Verdicts \ {"none"}
  <2>1. queue[i] \in Task /\ TaskOK(queue[i])
    BY <1>1 DEF TypeOK, TasksOK
  <2> QED
    BY <1>0, <2>1 DEF Task, Attempt, TaskOK, Verdicts
<1>5. AttemptOK([verdict |-> "lost", fn |-> a.fn, log |-> a.log])
  BY <1>4 DEF AttemptOK, GivenUp
<1>6. /\ u \in Task /\ u.job = queue[i].job /\ u.state # "active"
      /\ u.last = [verdict |-> "lost", fn |-> a.fn, log |-> a.log]
  BY <1>1, <1>4, JudgedType
<1>7. TaskOK(u)
  BY <1>1, <1>4, <1>5, JudgedOK
<1> HIDE DEF u
<1> QED
  BY <1>1, <1>2, <1>3, <1>6, <1>7, NobodyRuns

\* A goroutine that has got on in its handler is still the one its task has.
LEMMA StepIInv ==
  ASSUME IInv, NEW r \in runs, NEW s \in Run, s.task = r.task, s.verdict = r.verdict, RunOK(s), Step(r, s)
  PROVE  IInv'
<1> USE DEF IInv
<1>1. runs' = (runs \ {r}) \cup {s} /\ UNCHANGED <<queue, server, timedOut, crashes>>
  BY DEF Step
<1>2. IsFiniteSet(runs')
  BY <1>1, FS_RemoveElement, FS_AddElement DEF TypeOK
<1>3. TypeOK'
  BY <1>1, <1>2 DEF TypeOK
<1>4. TasksOK'
  BY <1>1 DEF TasksOK, TaskOK
<1>5. RunsOK'
  BY <1>1 DEF RunsOK, RunOK
<1>6. Ties'
  <2>1. Live' = IF r.verdict # "none" THEN Live ELSE (Live \ {r}) \cup {s}
    BY <1>1 DEF Live
  <2>2. \A q \in Live : q.task = r.task /\ r.verdict = "none" => q = r
    BY DEF Ties, Live
  <2>3. \A q \in Live' : \E p \in Live : p.task = q.task /\ (q # p => q = s /\ p = r)
    BY <2>1 DEF Live
  <2>4. \A p \in Live : \E q \in Live' : p.task = q.task
    BY <2>1 DEF Live
  <2>5. \A p, q \in Live' : p.task = q.task => p = q
    BY <2>1, <2>2 DEF Ties
  <2>6. \A q \in runs' : q.verdict = "requeued" => timedOut' \/ crashes' > 0
    BY <1>1 DEF Ties
  <2> QED
    BY <1>1, <2>3, <2>4, <2>5, <2>6 DEF Ties
<1> QED
  BY <1>3, <1>4, <1>5, <1>6

\* The handler is called, or the error of a task it cannot have is returned.
LEMMA ProcessTaskIInv ==
  ASSUME IInv, NEW r \in runs, ProcessTask(r)
  PROVE  IInv'
<1> DEFINE job == queue[r.task].job
<1>1. r \in Run /\ RunOK(r) /\ r.task \in DOMAIN queue /\ r.pc = "handle"
  BY DEF IInv, TypeOK, RunsOK, ProcessTask
<1>2. CASE ~(HasHandler(job) /\ job.payload # "other")
  <2> DEFINE s == [r EXCEPT !.pc = "log", !.err = TRUE]
  <2>1. Step(r, s)
    BY <1>2 DEF ProcessTask
  <2>2. s \in Run /\ s.task = r.task /\ s.verdict = r.verdict
    BY <1>1 DEF Run
  <2>3. RunOK(s)
    BY <1>1 DEF Run, RunOK, Called
  <2> QED
    BY <2>1, <2>2, <2>3, StepIInv
<1>3. CASE HasHandler(job) /\ job.payload # "other"
  <2>1. PICK how \in {"ok", "error", "skip", "revoke", "panic"} :
          Step(r, [r EXCEPT !.pc = IF how = "panic" THEN "result" ELSE "log", !.fn = how, !.err = how # "ok"])
    BY <1>3 DEF ProcessTask, CallFn
  <2> DEFINE s == [r EXCEPT !.pc = IF how = "panic" THEN "result" ELSE "log", !.fn = how, !.err = how # "ok"]
  <2>2. s \in Run /\ s.task = r.task /\ s.verdict = r.verdict
    BY <1>1 DEF Run, Outcomes
  <2>3. job.payload = "good"
    <3>1. queue[r.task] \in Task /\ TaskOK(queue[r.task])
      BY <1>1 DEF IInv, TypeOK, TasksOK
    <3> QED
      BY <3>1, <1>3, WorkerAssumption DEF Task, TaskOK, Payloads
  <2>4. RunOK(s)
    BY <1>1, <1>3, <2>3 DEF Run, RunOK, Called, HasHandler
  <2> QED
    BY <2>1, <2>2, <2>4, StepIInv
<1> QED
  BY <1>2, <1>3

\* A second line of a log.
LEMMA AppendTwo ==
  ASSUME NEW a, NEW b
  PROVE  Append(<<a>>, b) = <<a, b>>
<1> DEFINE S == {a, b}
           t == <<a>>
           u == Append(t, b)
           v == <<a, b>>
<1>1. t \in Seq(S) /\ Len(t) = 1 /\ t[1] = a /\ b \in S
  OBVIOUS
<1>2. v \in Seq(S) /\ Len(v) = 2 /\ v[1] = a /\ v[2] = b
  OBVIOUS
<1> HIDE DEF S, t, v
<1>3. /\ u \in Seq(S) /\ Len(u) = Len(t) + 1
      /\ \A i \in 1..Len(t) : u[i] = t[i]
      /\ u[Len(t) + 1] = b
  <2>1. t \in Seq(S) /\ b \in S
    BY <1>1
  <2> QED
    BY <2>1
<1> HIDE DEF u
<1>4. Len(u) = 2 /\ u[1] = a /\ u[2] = b
  BY <1>1, <1>3
<1>5. u = v
  BY <1>2, <1>3, <1>4
<1> QED
  BY <1>5 DEF t, u, v

\* The middleware logs the end.
LEMMA LogEndedIInv ==
  ASSUME IInv, NEW r \in runs, LogEnded(r)
  PROVE  IInv'
<1> DEFINE End == IF r.err THEN Failed ELSE Completed
           s == [r EXCEPT !.pc = "result", !.log = End]
<1>1. r \in Run /\ RunOK(r) /\ r.pc = "log"
  BY DEF IInv, TypeOK, RunsOK, LogEnded
<1>2. Append(LogStarted, "task failed") = Failed /\ Append(LogStarted, "task completed") = Completed
  BY AppendTwo, Zenon DEF LogStarted, Failed, Completed
<1>3. Append(r.log, IF r.err THEN "task failed" ELSE "task completed") = End
  BY <1>1, <1>2 DEF RunOK
<1>4. Step(r, s)
  BY <1>3, Zenon DEF LogEnded
<1>5. s \in Run /\ s.task = r.task /\ s.verdict = r.verdict
  BY <1>1 DEF Run, Logs
<1>6. RunOK(s)
  BY <1>1 DEF Run, RunOK
<1> QED
  BY <1>4, <1>5, <1>6, StepIInv

\* A verdict on a live goroutine, which has ended or runs on.
LEMMA LetGo ==
  ASSUME IInv, NEW r \in Live, NEW u \in Task, u.job = queue[r.task].job, TaskOK(u),
         u.state # "active", u.last.verdict # "lost", queue' = [queue EXCEPT ![r.task] = u],
         \/ runs' = runs \ {r}
         \/ \E q \in Run : /\ q.task = r.task /\ q.verdict = "late" /\ RunOK(q)
                           /\ runs' = (runs \ {r}) \cup {q},
         UNCHANGED <<server, timedOut, crashes>>
  PROVE  IInv'
<1> DEFINE i == r.task
<1> USE DEF IInv
<1>0. r \in runs /\ i \in DOMAIN queue /\ queue[i].state = "active"
  BY DEF TypeOK, Ties, Live
<1>1. /\ queue' \in Seq(Task) /\ DOMAIN queue' = DOMAIN queue /\ TasksOK'
      /\ \A j \in DOMAIN queue : queue'[j] = IF j = i THEN u ELSE queue[j]
      /\ \A j \in DOMAIN queue : queue'[j].job = queue[j].job
  BY <1>0, OneTask
<1>2. \A q \in runs' : /\ q \in Run /\ q.task \in DOMAIN queue /\ RunOK(q)
                       /\ (q \in runs /\ q # r) \/ (q.task = i /\ q.verdict = "late")
  <2>1. \A q \in runs : q \in Run /\ q.task \in DOMAIN queue /\ RunOK(q)
    BY DEF TypeOK, RunsOK
  <2>2. CASE runs' = runs \ {r}
    BY <2>1, <2>2
  <2>3. CASE \E q \in Run : /\ q.task = r.task /\ q.verdict = "late" /\ RunOK(q)
                            /\ runs' = (runs \ {r}) \cup {q}
    BY <1>0, <2>1, <2>3
  <2> QED
    BY <2>2, <2>3
<1>3. IsFiniteSet(runs')
  <2>1. IsFiniteSet(runs \ {r})
    BY FS_RemoveElement DEF TypeOK
  <2>2. \A q : IsFiniteSet((runs \ {r}) \cup {q})
    BY <2>1, FS_AddElement
  <2> QED
    BY <2>1, <2>2
<1>4. TypeOK'
  BY <1>1, <1>2, <1>3 DEF TypeOK
<1>5. RunsOK'
  BY <1>1, <1>2, JobKept DEF RunsOK
<1>6. Live' = Live \ {r}
  BY <1>2 DEF Live
<1>7. Ties'
  <2>1. \A q \in Live' : q \in Live /\ q.task \in DOMAIN queue /\ q.task # i
    BY <1>6 DEF Ties, Live, TypeOK
  <2>2. \A q \in Live' : queue'[q.task].state = "active"
    BY <1>1, <2>1 DEF Ties
  <2>3. crashes = 0 => \A j \in DOMAIN queue : queue'[j].state = "active" => \E q \in Live' : q.task = j
    BY <1>1, <1>6 DEF Ties
  <2>4. \A q \in runs' : q.verdict = "requeued" => timedOut \/ crashes > 0
    BY <1>2 DEF Ties
  <2>5. \A j \in DOMAIN queue : queue'[j].last.verdict = "lost" => crashes > 0
    BY <1>1 DEF Ties
  <2> QED
    BY <1>1, <1>6, <2>1, <2>2, <2>3, <2>4, <2>5 DEF Ties
<1> QED
  BY <1>1, <1>4, <1>5, <1>7

\* The result of a live goroutine settles its task; that of an orphan is lost.
LEMMA SettleIInv ==
  ASSUME IInv, NEW r \in runs, Settle(r)
  PROVE  IInv'
<1> USE DEF IInv
<1>1. r \in Run /\ r.task \in DOMAIN queue /\ r.pc = "result"
      /\ runs' = runs \ {r} /\ UNCHANGED <<server, timedOut, crashes>>
  BY DEF TypeOK, Settle
<1>2. IsFiniteSet(runs')
  BY <1>1, FS_RemoveElement DEF TypeOK
<1>3. CASE r \notin Live
  <2>1. queue' = queue /\ Live' = Live
    BY <1>1, <1>3 DEF Settle, Live
  <2>2. TypeOK' /\ TasksOK' /\ RunsOK'
    BY <1>1, <1>2, <2>1 DEF TypeOK, TasksOK, TaskOK, RunsOK, RunOK
  <2>3. Ties'
    BY <1>1, <2>1 DEF Ties
  <2> QED
    BY <2>2, <2>3
<1>4. CASE r \in Live
  <2> DEFINE i == r.task u == Judged(r.task, r, Verdict(r))
  <2>1. r \in Live /\ queue[i].state = "active"
    BY <1>4 DEF Live, Ties
  <2>2. Verdict(r) \in Verdicts /\ Verdict(r) # "lost" /\ r.fn \in Outcomes /\ r.log \in Logs
    BY <1>1 DEF Run, Verdict, Verdicts
  <2>3. /\ u \in Task /\ u.job = queue[i].job /\ u.state # "active"
        /\ u.last = [verdict |-> Verdict(r), fn |-> r.fn, log |-> r.log]
    BY <1>1, <2>2, JudgedType
  <2>4. TaskOK(u)
    BY <1>1, <2>1, SettledOK
  <2>5. queue' = [queue EXCEPT ![i] = u]
    BY <1>4 DEF Settle
  <2> HIDE DEF u
  <2>6. runs' = runs \ {r} /\ u.last.verdict # "lost"
    BY <1>1, <2>2, <2>3
  <2> QED
    BY <1>1, <2>1, <2>3, <2>4, <2>5, <2>6, LetGo
<1> QED
  BY <1>3, <1>4

\* At its deadline the attempt has failed and its goroutine runs on unheard.
LEMMA LateIInv ==
  ASSUME IInv, NEW r \in runs, Late(r)
  PROVE  IInv'
<1> USE DEF IInv
<1> DEFINE i == r.task u == Judged(r.task, r, "late") s == [r EXCEPT !.verdict = "late"]
<1>1. /\ r \in Live /\ r \in Run /\ RunOK(r) /\ i \in DOMAIN queue /\ queue[i].state = "active"
      /\ runs' = (runs \ {r}) \cup {s} /\ queue' = [queue EXCEPT ![i] = u]
      /\ UNCHANGED <<server, timedOut, crashes>>
  BY DEF TypeOK, RunsOK, Ties, Late, Live
<1>2. /\ r.fn \in Outcomes /\ r.log \in Logs /\ "late" \in Verdicts \ {"none"} /\ Called(queue[i].job, r.fn)
      /\ AttemptOK([verdict |-> "late", fn |-> r.fn, log |-> r.log])
  BY <1>1, RunSays DEF Run, RunOK, Verdicts, GivenUp
<1>3. /\ u \in Task /\ u.job = queue[i].job /\ u.state # "active"
      /\ u.last = [verdict |-> "late", fn |-> r.fn, log |-> r.log]
  BY <1>1, <1>2, JudgedType
<1>4. TaskOK(u)
  BY <1>1, <1>2, JudgedOK
<1>5. /\ s \in Run /\ s.task = r.task /\ s.pc = r.pc /\ s.fn = r.fn /\ s.err = r.err /\ s.log = r.log
      /\ s.verdict = "late"
  BY <1>1 DEF Run
<1> HIDE DEF u, s
<1>6. RunOK(s)
  BY <1>1, <1>5 DEF RunOK
<1>7. u.last.verdict # "lost"
  BY <1>3
<1>8. runs' = runs \ {r} \/ \E q \in Run : q.task = r.task /\ q.verdict = "late" /\ RunOK(q) /\ runs' = (runs \ {r}) \cup {q}
  BY <1>1, <1>5, <1>6
<1> QED
  BY <1>1, <1>3, <1>4, <1>7, <1>8, LetGo

\* A step that changes several tasks.
LEMMA ManyTasks ==
  ASSUME TypeOK, NEW f, queue' = [i \in DOMAIN queue |-> f[i]],
         \A i \in DOMAIN queue : f[i] \in Task /\ TaskOK(f[i])
  PROVE  queue' \in Seq(Task) /\ DOMAIN queue' = DOMAIN queue /\ TasksOK'
<1>1. Len(queue) \in Nat /\ DOMAIN queue = 1..Len(queue)
  BY DEF TypeOK
<1>2. DOMAIN queue' = DOMAIN queue /\ \A i \in DOMAIN queue : queue'[i] = f[i]
  OBVIOUS
<1>3. queue' \in [1..Len(queue) -> Task]
  BY <1>1
<1>4. queue' \in Seq(Task)
  BY <1>1, <1>3, SeqDef
<1>5. TasksOK'
  BY <1>2 DEF TasksOK, TaskOK
<1> QED
  BY <1>2, <1>4, <1>5

\* The goroutine of a task in progress, which is its only live one.
LEMMA RunOfTask ==
  ASSUME IInv, NEW i \in DOMAIN queue, InHand(i)
  PROVE  /\ RunOf(i) \in Live /\ RunOf(i).task = i /\ queue[i].state = "active"
         /\ RunOf(i) \in Run /\ RunOK(RunOf(i))
         /\ RunOf(i).fn \in Outcomes /\ RunOf(i).log \in Logs /\ Called(queue[i].job, RunOf(i).fn)
<1>1. RunOf(i) \in Live /\ RunOf(i).task = i
  BY DEF InHand, RunOf
<1>2. RunOf(i) \in Run /\ RunOK(RunOf(i)) /\ queue[i].state = "active"
  BY <1>1 DEF IInv, TypeOK, RunsOK, Ties, Live
<1> QED
  BY <1>1, <1>2 DEF Run, RunOK

\* The shutdown timeout puts back every task that is in progress; its goroutine
\* runs on unheard.
LEMMA ShutdownTimeoutIInv ==
  ASSUME IInv, ShutdownTimeout
  PROVE  IInv'
<1> DEFINE u(i) == Judged(i, RunOf(i), "requeued")
           f == [i \in DOMAIN queue |-> IF InHand(i) THEN u(i) ELSE queue[i]]
           over(r) == [r EXCEPT !.verdict = "requeued"]
<1> USE DEF IInv
<1>1. /\ queue' = f /\ runs' = (runs \ Live) \cup {over(r) : r \in Live}
      /\ timedOut' = TRUE /\ UNCHANGED <<server, crashes>>
  BY DEF ShutdownTimeout
<1>2. \A i \in DOMAIN queue : InHand(i) =>
        u(i) \in Task /\ u(i).job = queue[i].job /\ TaskOK(u(i)) /\ u(i).state # "active" /\ u(i).last.verdict = "requeued"
  <2> SUFFICES ASSUME NEW i \in DOMAIN queue, InHand(i)
               PROVE  /\ u(i) \in Task /\ u(i).job = queue[i].job /\ TaskOK(u(i)) /\ u(i).state # "active"
                      /\ u(i).last.verdict = "requeued"
    OBVIOUS
  <2> DEFINE r == RunOf(i)
  <2>1. /\ r \in Run /\ RunOK(r) /\ queue[i].state = "active"
        /\ r.fn \in Outcomes /\ r.log \in Logs /\ Called(queue[i].job, r.fn)
    BY RunOfTask
  <2>2. "requeued" \in Verdicts \ {"none"} /\ "requeued" \in GivenUp
    BY DEF Verdicts, GivenUp
  <2> HIDE DEF r
  <2>3. AttemptOK([verdict |-> "requeued", fn |-> r.fn, log |-> r.log])
    BY <2>1, <2>2, RunSays
  <2>4. LET v == Judged(i, r, "requeued") IN
        /\ v \in Task /\ v.job = queue[i].job /\ v.state # "active"
        /\ v.last = [verdict |-> "requeued", fn |-> r.fn, log |-> r.log]
    BY <2>1, <2>2, JudgedType
  <2>5. TaskOK(Judged(i, r, "requeued"))
    BY <2>1, <2>2, <2>3, JudgedOK
  <2> QED
    BY <2>4, <2>5 DEF r
<1> HIDE DEF u
<1>3. \A i \in DOMAIN queue : f[i] \in Task /\ TaskOK(f[i]) /\ f[i].job = queue[i].job
  BY <1>2 DEF TypeOK, TasksOK
<1>4. queue' \in Seq(Task) /\ DOMAIN queue' = DOMAIN queue /\ TasksOK'
  <2>1. queue' = [i \in DOMAIN queue |-> f[i]]
    BY <1>1
  <2> HIDE DEF f
  <2> QED
    BY <1>3, <2>1, ManyTasks
<1>5. \A i \in DOMAIN queue : queue'[i] = (IF InHand(i) THEN u(i) ELSE queue[i]) /\ queue'[i].job = queue[i].job
  BY <1>1, <1>3
<1> HIDE DEF f
<1>6. \A r \in Live :
        /\ over(r) \in Run /\ over(r).verdict = "requeued" /\ over(r).task = r.task /\ over(r).pc = r.pc
        /\ over(r).fn = r.fn /\ over(r).err = r.err /\ over(r).log = r.log
  BY DEF TypeOK, Run, Live
<1>7. IsFiniteSet(runs')
  <2>1. IsFiniteSet(runs \ Live) /\ IsFiniteSet(Live)
    BY FS_Subset DEF TypeOK, Live
  <2>2. [r \in Live |-> over(r)] \in Surjection(Live, {over(r) : r \in Live})
    BY DEF Surjection
  <2>3. IsFiniteSet({over(r) : r \in Live})
    BY <2>1, <2>2, FS_Surjection
  <2> QED
    BY <1>1, <2>1, <2>3, FS_Union
<1>8. \A q \in runs' : /\ q \in Run /\ q.task \in DOMAIN queue /\ q.verdict # "none" /\ RunOK(q)
  <2> SUFFICES ASSUME NEW q \in runs'
               PROVE  q \in Run /\ q.task \in DOMAIN queue /\ q.verdict # "none" /\ RunOK(q)
    OBVIOUS
  <2>1. CASE q \in runs \ Live
    BY <2>1 DEF TypeOK, RunsOK, Live
  <2>2. CASE q \in {over(r) : r \in Live}
    <3>1. PICK r \in Live : q = over(r)
      BY <2>2
    <3>2. r.task \in DOMAIN queue /\ RunOK(r)
      BY DEF TypeOK, RunsOK, Live
    <3>3. /\ q \in Run /\ q.verdict = "requeued" /\ q.task = r.task /\ q.pc = r.pc
          /\ q.fn = r.fn /\ q.err = r.err /\ q.log = r.log
      BY <1>6, <3>1
    <3> HIDE DEF over
    <3> QED
      BY <3>2, <3>3 DEF RunOK
  <2> QED
    BY <1>1, <2>1, <2>2
<1>9. TypeOK'
  BY <1>1, <1>4, <1>7, <1>8 DEF TypeOK
<1>10. RunsOK'
  BY <1>5, <1>8, JobKept DEF RunsOK
<1>11. Ties'
  <2>1. Live' = {}
    BY <1>8 DEF Live
  <2>2. crashes = 0 => \A i \in DOMAIN queue : queue'[i].state # "active"
    BY <1>2, <1>5 DEF Ties, InHand
  <2>3. \A i \in DOMAIN queue : queue'[i].last.verdict = "lost" => crashes > 0
    BY <1>2, <1>5 DEF Ties
  <2> QED
    BY <1>1, <1>4, <2>1, <2>2, <2>3 DEF Ties
<1> QED
  BY <1>4, <1>9, <1>10, <1>11

\* A crashed goroutine leaves its task active, with what it has logged.
LEMMA LeftBehind ==
  ASSUME IInv, NEW i \in DOMAIN queue, queue[i].state = "active", NEW b \in Attempt, AttemptOK(b),
         b.verdict = "none", Called(queue[i].job, b.fn)
  PROVE  LET v == [queue[i] EXCEPT !.state = "active", !.last = b]
         IN v \in Task /\ v.job = queue[i].job /\ TaskOK(v) /\ v.state = "active" /\ v.last = b
<1>1. queue[i] \in Task /\ TaskOK(queue[i])
  BY DEF IInv, TypeOK, TasksOK
<1> DEFINE v == [queue[i] EXCEPT !.state = "active", !.last = b]
<1>2. /\ v \in Task /\ v.job = queue[i].job /\ v.state = "active" /\ v.last = b
      /\ v.retried = queue[i].retried /\ v.failed = queue[i].failed
  BY <1>1 DEF Task, States
<1> HIDE DEF v
<1>3. TaskOK(v)
  BY <1>1, <1>2 DEF TaskOK
<1> QED
  BY <1>2, <1>3 DEF v

\* The end of the process: a crash takes the goroutines with it and leaves what
\* they have logged, and after Stop there is none asynq waits for.
LEMMA ExitIInv ==
  ASSUME IInv, Exit
  PROVE  IInv'
<1> DEFINE a(i) == [verdict |-> "none", fn |-> RunOf(i).fn, log |-> RunOf(i).log]
           u(i) == [queue[i] EXCEPT !.state = "active", !.last = a(i)]
           f == [i \in DOMAIN queue |-> IF InHand(i) THEN u(i) ELSE queue[i]]
<1> USE DEF IInv
<1>1. /\ runs' \subseteq runs /\ Live' = {}
      /\ server' = "new" /\ timedOut' = FALSE /\ crashes' = crashes + 1 /\ crashes' \in Nat /\ crashes' > 0
  BY DEF Exit, Ties, Live, TypeOK
<1>2. \A i \in DOMAIN queue : InHand(i) =>
        /\ u(i) \in Task /\ u(i).job = queue[i].job /\ TaskOK(u(i))
        /\ u(i) = [queue[i] EXCEPT !.last = a(i)]
  <2> SUFFICES ASSUME NEW i \in DOMAIN queue, InHand(i)
               PROVE  /\ u(i) \in Task /\ u(i).job = queue[i].job /\ TaskOK(u(i))
                      /\ u(i) = [queue[i] EXCEPT !.last = a(i)]
    OBVIOUS
  <2> DEFINE r == RunOf(i)
  <2>1. /\ r \in Run /\ RunOK(r) /\ queue[i].state = "active"
        /\ r.fn \in Outcomes /\ r.log \in Logs /\ Called(queue[i].job, r.fn)
    BY RunOfTask
  <2> HIDE DEF r
  <2> DEFINE b == [verdict |-> "none", fn |-> r.fn, log |-> r.log]
  <2>2. b \in Attempt /\ b.verdict = "none" /\ b.fn = r.fn /\ AttemptOK(b)
    BY <2>1, RunSays DEF Attempt, Verdicts
  <2> HIDE DEF b, IInv
  <2>3. LET v == [queue[i] EXCEPT !.state = "active", !.last = b]
        IN v \in Task /\ v.job = queue[i].job /\ TaskOK(v) /\ v.state = "active" /\ v.last = b
    BY <2>1, <2>2, LeftBehind
  <2>4. [queue[i] EXCEPT !.state = "active", !.last = b] = [queue[i] EXCEPT !.last = b]
    BY <2>1 DEF TypeOK, Task
  <2> QED
    BY <2>3, <2>4 DEF b, r
<1>3. queue' = f
  BY <1>2 DEF Exit
<1> HIDE DEF u
<1>4. \A i \in DOMAIN queue : f[i] \in Task /\ TaskOK(f[i]) /\ f[i].job = queue[i].job
  BY <1>2 DEF TypeOK, TasksOK
<1>5. queue' \in Seq(Task) /\ DOMAIN queue' = DOMAIN queue /\ TasksOK'
  <2>1. queue' = [i \in DOMAIN queue |-> f[i]]
    BY <1>3
  <2> HIDE DEF f
  <2> QED
    BY <1>4, <2>1, ManyTasks
<1>6. \A i \in DOMAIN queue : queue'[i].job = queue[i].job
  BY <1>3, <1>4
<1> HIDE DEF f
<1>7. IsFiniteSet(runs')
  BY <1>1, FS_Subset DEF TypeOK
<1>8. TypeOK'
  <2>1. runs' \subseteq Run /\ \A r \in runs' : r.task \in DOMAIN queue'
    BY <1>1, <1>5 DEF TypeOK
  <2> QED
    BY <1>1, <1>5, <1>7, <2>1 DEF TypeOK
<1>9. RunsOK'
  <2>1. \A r \in runs' : RunOK(r) /\ queue'[r.task].job = queue[r.task].job
    BY <1>1, <1>6 DEF RunsOK, TypeOK
  <2> QED
    BY <2>1, JobKept DEF RunsOK
<1>10. Ties'
  BY <1>1 DEF Ties
<1> QED
  BY <1>5, <1>8, <1>9, <1>10
-----------------------------------------------------------------------------
\* Every step keeps the invariant.
LEMMA NextIInv == IInv /\ [Next]_vars => IInv'
<1> SUFFICES ASSUME IInv, [Next]_vars PROVE IInv'
  OBVIOUS
<1>1. CASE \E j \in Jobs : Enqueue(j) \/ Tick(j)
  BY <1>1, StoredIInv DEF Enqueue, Tick
<1>2. CASE \/ SchedulerStart \/ SchedulerStop \/ Start \/ StopPulling \/ ShutdownBegin \/ ShutdownEnd
           \/ UNCHANGED vars
  BY <1>2, ControlIInv
<1>3. CASE ShutdownTimeout \/ Exit
  BY <1>3, ShutdownTimeoutIInv, ExitIInv
<1>4. CASE \E i \in 1..Len(queue) : Dequeue(i) \/ Expired(i) \/ Retry(i) \/ Recover(i)
  BY <1>4, DequeueIInv, ExpiredIInv, RetryIInv, RecoverIInv
<1>5. CASE \E r \in runs : ProcessTask(r) \/ LogEnded(r) \/ Settle(r) \/ Late(r)
  BY <1>5, ProcessTaskIInv, LogEndedIInv, SettleIInv, LateIInv
<1> QED
  BY <1>1, <1>2, <1>3, <1>4, <1>5 DEF Next

LEMMA Invariance == Spec => []IInv
BY InitIInv, NextIInv, PTL DEF Spec

\* A task counts as done only after its handler returned nil for its payload, or
\* revoked it, and is given up only when asked to or after MaxRetry + 1 failures.
THEOREM DoneAlwaysHandled == Spec => []DoneMeansHandled
<1>1. IInv => DoneMeansHandled
  <2> SUFFICES ASSUME IInv, NEW i \in DOMAIN queue
               PROVE  LET t == queue[i] IN
                      /\ t.state = "completed" =>
                           /\ <<t.last.verdict, t.last.fn>> \in {<<"done", "ok">>, <<"revoked", "revoke">>}
                           /\ HasHandler(t.job) /\ t.job.payload = "good"
                      /\ t.state = "archived" <=> t.failed = MaxRetry + 1 \/ t.last.verdict = "skipped"
                      /\ t.last.verdict = "failed" => t.last.fn # "ok"
    BY DEF DoneMeansHandled
  <2>1. queue[i] \in Task /\ TaskOK(queue[i])
    BY DEF IInv, TypeOK, TasksOK
  <2>2. queue[i].state = "completed" =>
          \/ queue[i].last.verdict = "done" /\ queue[i].last.fn = "ok"
          \/ queue[i].last.verdict = "revoked" /\ queue[i].last.fn = "revoke"
    BY <2>1 DEF TaskOK, AttemptOK
  <2>3. queue[i].state = "completed" => HasHandler(queue[i].job) /\ queue[i].job.payload = "good"
    BY <2>1, <2>2 DEF TaskOK, Called, HasHandler
  <2>4. queue[i].state = "archived" <=> queue[i].failed = MaxRetry + 1 \/ queue[i].last.verdict = "skipped"
    BY <2>1, WorkerAssumption DEF Task, TaskOK
  <2>5. queue[i].last.verdict = "failed" => queue[i].last.fn # "ok"
    BY <2>1 DEF TaskOK, AttemptOK
  <2> QED
    BY <2>2, <2>3, <2>4, <2>5
<1> QED
  BY <1>1, Invariance, PTL

\* The log of every attempt, also of a goroutine that runs on after asynq has
\* given it up and of one that died with its process, agrees with what the
\* handler function did and with the verdict asynq recorded; a task whose log
\* says "task completed" is not done only if asynq gave up the attempt.
THEOREM LogAlwaysAgrees == Spec => []LogAgrees
<1>1. Append(LogStarted, "task completed") = Completed /\ Append(LogStarted, "task failed") = Failed
  BY AppendTwo, Zenon DEF LogStarted, Failed, Completed
<1>2. IInv => LogAgrees
  <2> SUFFICES ASSUME IInv PROVE LogAgrees
    OBVIOUS
  <2>1. \A r \in runs : AttemptOK(r) /\ r.verdict # "lost"
    <3> SUFFICES ASSUME NEW r \in runs PROVE AttemptOK(r) /\ r.verdict # "lost"
      OBVIOUS
    <3>1. r \in Run /\ RunOK(r) /\ r.verdict \in {"none", "late", "requeued"}
      BY DEF IInv, TypeOK, RunsOK, Run
    <3>2. AttemptOK([verdict |-> r.verdict, fn |-> r.fn, log |-> r.log])
      BY <3>1, RunSays DEF GivenUp
    <3> QED
      BY <3>1, <3>2 DEF AttemptOK
  <2>2. \A i \in DOMAIN queue : AttemptOK(queue[i].last) /\ (queue[i].last.verdict = "lost" => crashes > 0)
    BY DEF IInv, TasksOK, TaskOK, Ties
  <2>3. \A a \in runs \cup {queue[i].last : i \in DOMAIN queue} : AttemptOK(a) /\ (a.verdict = "lost" => crashes > 0)
    BY <2>1, <2>2
  <2> QED
    BY <1>1, <2>3 DEF LogAgrees, AttemptOK
<1> QED
  BY <1>2, Invariance, PTL

\* A handler runs on after Stop has returned, or beside another one of its task,
\* only if its attempt was given up at its deadline or at a shutdown timeout.
THEOREM StopAlwaysWaits == Spec => []StopWaits
<1>1. IInv => StopWaits
  <2> SUFFICES ASSUME IInv PROVE StopWaits
    OBVIOUS
  <2>1. ASSUME NEW r \in runs
        PROVE  \/ r.verdict = "late"
               \/ r.verdict = "requeued" /\ (timedOut \/ crashes > 0)
               \/ /\ r.verdict = "none" /\ queue[r.task].state = "active" /\ server # "down"
                  /\ \A s \in runs : s.task = r.task /\ s # r => s.verdict # "none"
    <3>1. r.verdict \in {"none", "late", "requeued"}
      BY DEF IInv, TypeOK, Run
    <3> QED
      BY <3>1 DEF IInv, Ties, Live
  <2>2. server = "down" /\ crashes = 0 => \A i \in DOMAIN queue : queue[i].state # "active"
    BY DEF IInv, Ties
  <2> QED
    BY <2>1, <2>2 DEF StopWaits
<1> QED
  BY <1>1, Invariance, PTL

\* A task that is done or given up is never touched again, although a goroutine
\* that handles it may still be running: the result of an orphan, and what the
\* forwarder and the recoverer do, only concern tasks in other states.
SettledStays ==
  [][\A i \in DOMAIN queue :
       queue[i].state \in {"completed", "archived"} => queue'[i] = queue[i]]_vars

\* No step of asynq or of a handler changes a task that Settle has completed or
\* archived.
THEOREM SettledTasksStay == Spec => SettledStays
<1>1. IInv /\ [Next]_vars =>
        [\A i \in DOMAIN queue : queue[i].state \in {"completed", "archived"} => queue'[i] = queue[i]]_vars
  <2> SUFFICES ASSUME IInv, Next, NEW i \in DOMAIN queue, queue[i].state \in {"completed", "archived"}
               PROVE  queue'[i] = queue[i]
    OBVIOUS
  <2> USE DEF IInv
  <2>1. queue \in Seq(Task)
    BY DEF TypeOK
  <2>2. CASE \E j \in Jobs : Stored(j)
    BY <2>1, <2>2 DEF Stored
  <2>3. CASE \E k \in 1..Len(queue) : Dequeue(k) \/ Expired(k) \/ Retry(k) \/ Recover(k)
    BY <2>1, <2>3 DEF Dequeue, Expired, Available, Retry, Recover
  <2>4. CASE \E r \in runs : Settle(r) \/ Late(r)
    <3>1. PICK r \in runs : Settle(r) \/ Late(r)
      BY <2>4
    <3>2. r \in Live => queue[r.task].state = "active"
      BY DEF Ties
    <3> QED
      BY <2>1, <3>1, <3>2 DEF Settle, Late
  <2>5. CASE ShutdownTimeout \/ Exit
    <3>1. ~InHand(i)
      BY DEF Ties, InHand
    <3> QED
      BY <2>5, <3>1 DEF ShutdownTimeout, Exit
  <2>6. CASE queue' = queue
    BY <2>6
  <2> QED
    BY <2>2, <2>3, <2>4, <2>5, <2>6 DEF Next, Enqueue, Tick, SchedulerStart, SchedulerStop, Start, StopPulling,
       ShutdownBegin, ShutdownEnd, ProcessTask, CallFn, LogEnded, Step
<1> QED
  BY <1>1, Invariance, PTL DEF Spec, SettledStays
=============================================================================
