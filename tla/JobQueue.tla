------------------------------ MODULE JobQueue ------------------------------
(***************************************************************************)
(* The background-job machinery: queue.enqueue records a row in the `jobs` *)
(* table and hands it to RQ; runner.run_job executes it and records the    *)
(* outcome.  PostgreSQL owns the lifecycle (status, attempts, error), RQ   *)
(* only transports, and nothing keeps the two in step except the           *)
(* arithmetic of retry_policy: that is what the properties are about.      *)
(*                                                                         *)
(* RQ keeps, for each job, a hash (transport, retriesLeft), occurrences of *)
(* its id in the queue (queued), an entry in the scheduled registry        *)
(* (scheduled) and one entry in the started registry per execution: those  *)
(* of dead workers (orphans) and those of live ones (registered).  A       *)
(* worker works on the copy of the hash it loaded when it popped the id    *)
(* (left), and what it writes when it leaves the job is computed from that *)
(* copy: RQ does not ask whether the execution is still registered.        *)
(*                                                                         *)
(* A worker runs one job at a time.  Each database transaction of run_job  *)
(* is a step of its own, and the first one is split into its read and its  *)
(* commit because the ORM computes attempt_count + 1 in the process.       *)
(*                                                                         *)
(* The environment may fail a bounded number of times: a transaction may   *)
(* raise (MaxDbFaults), a worker may die at any line (MaxCrashes), a live  *)
(* worker may lose its heartbeat so that RQ takes its job for abandoned    *)
(* (MaxPartitions, per job), and the hand-off to Redis may not happen      *)
(* (MaxLostHandOffs).                                                      *)
(***************************************************************************)
EXTENDS Integers, Sequences

CONSTANTS
    Jobs,                   \* ids of rows of the jobs table
    Workers,                \* RQ worker processes
    NoJob,
    MaxAttempts,            \* jobs.max_attempts, per job
    RETRY_BACKOFF_SECONDS,  \* the table of queue.py; the tests set it to zeros
    Scheduler,              \* does a process move due jobs back to the queue?
    MaxDbFaults, MaxCrashes, MaxPartitions, MaxLostHandOffs

ASSUME JobsAssumption ==
    /\ NoJob \notin Jobs
    /\ MaxAttempts \in [Jobs -> Nat \ {0}]
    /\ RETRY_BACKOFF_SECONDS \in Seq(Nat) \ {<<>>}
    /\ Scheduler \in BOOLEAN
    /\ MaxDbFaults \in Nat /\ MaxCrashes \in Nat
    /\ MaxPartitions \in Nat /\ MaxLostHandOffs \in Nat

VARIABLES
    status, attempts, error,          \* the jobs table
    transport, retriesLeft,           \* RQ's hash of the job: status, retries left
    queued, scheduled, orphans,       \* RQ: ids in the queue, parked?, entries of dead workers
    pc, task, attempt,                \* run_job in each worker: line, job, captured attempt
    left, registered,                 \* ... RQ's copy of retriesLeft, is its entry there?
    dbFaults, crashes, partitions, lostHandOffs

rows  == <<status, attempts, error>>
redis == <<transport, retriesLeft, queued, scheduled, orphans>>
procs == <<pc, task, attempt, left, registered>>
env   == <<dbFaults, crashes, partitions, lostHandOffs>>
vars  == <<rows, redis, procs, env>>

Statuses   == {"absent", "queued", "running", "succeeded", "failed", "dead_letter"}
Terminal   == {"succeeded", "dead_letter"}
Transports == {"absent", "lost", "queued", "scheduled", "started", "finished", "failed"}
Lines      == {"idle", "begin", "opened", "reopened", "handler", "record_success",
               "record_failure", "record_permanent", "raised", "returned"}

-----------------------------------------------------------------------------
(* retry_policy: total attempts translated to RQ's retries after the first *)
(* run, and the interval RQ picks for the next one.                        *)

(* Variants of the definition that follows them, each with one plausible    *)
(* slip, are named Definition__slip; no specification uses them.            *)
Retries__total(max) == max
Retries__one_less(max) == IF max - 2 < 1 THEN 0 ELSE max - 2

Retries(max) == IF max - 1 < 1 THEN 0 ELSE max - 1

RetryInterval(max, n) ==
    LET i == Retries(max) - n + 1
    IN  RETRY_BACKOFF_SECONDS[IF i > Len(RETRY_BACKOFF_SECONDS)
                              THEN Len(RETRY_BACKOFF_SECONDS) ELSE i]

-----------------------------------------------------------------------------
Init ==
    /\ status = [j \in Jobs |-> "absent"]
    /\ attempts = [j \in Jobs |-> 0]
    /\ error = [j \in Jobs |-> "none"]
    /\ transport = [j \in Jobs |-> "absent"]
    /\ retriesLeft = [j \in Jobs |-> 0]
    /\ queued = [j \in Jobs |-> 0]
    /\ scheduled = [j \in Jobs |-> FALSE]
    /\ orphans = [j \in Jobs |-> 0]
    /\ pc = [w \in Workers |-> "idle"]
    /\ task = [w \in Workers |-> NoJob]
    /\ attempt = [w \in Workers |-> 0]
    /\ left = [w \in Workers |-> 0]
    /\ registered = [w \in Workers |-> FALSE]
    /\ dbFaults = 0 /\ crashes = 0 /\ lostHandOffs = 0
    /\ partitions = [j \in Jobs |-> 0]

(* enqueue, first half: the row is committed before anything reaches RQ. *)
Record(j) ==
    /\ status[j] = "absent"
    /\ status' = [status EXCEPT ![j] = "queued"]
    /\ UNCHANGED <<attempts, error, redis, procs, env>>

(* RQ pushes the id; the hash says queued. *)
Push(j) ==
    /\ queued' = [queued EXCEPT ![j] = @ + 1]
    /\ transport' = [transport EXCEPT ![j] = "queued"]

(* enqueue, second half: RQ receives the id with the retry policy. *)
HandOff(j) ==
    /\ status[j] = "queued" /\ transport[j] = "absent"
    /\ Push(j)
    /\ retriesLeft' = [retriesLeft EXCEPT ![j] = Retries(MaxAttempts[j])]
    /\ UNCHANGED <<rows, scheduled, orphans, procs, env>>

(* The enqueuing process dies, or Redis refuses, after the commit. *)
HandOffLost(j) ==
    /\ lostHandOffs < MaxLostHandOffs
    /\ status[j] = "queued" /\ transport[j] = "absent"
    /\ transport' = [transport EXCEPT ![j] = "lost"]
    /\ lostHandOffs' = lostHandOffs + 1
    /\ UNCHANGED <<rows, retriesLeft, queued, scheduled, orphans, procs, dbFaults, crashes, partitions>>

-----------------------------------------------------------------------------
(* run_job, in worker w *)

Goto(w, line) == pc' = [pc EXCEPT ![w] = line]

(* The execution is over, normally or not: its locals are gone, and so is   *)
(* its entry in the started registry, if it was still there.                *)
Leave(w) ==
    /\ Goto(w, "idle")
    /\ task' = [task EXCEPT ![w] = NoJob]
    /\ attempt' = [attempt EXCEPT ![w] = 0]
    /\ left' = [left EXCEPT ![w] = 0]
    /\ registered' = [registered EXCEPT ![w] = FALSE]

(* RQ pops the id, loads the hash, registers the execution, calls run_job.  *)
Take(w, j) ==
    /\ pc[w] = "idle" /\ queued[j] > 0
    /\ queued' = [queued EXCEPT ![j] = @ - 1]
    /\ transport' = [transport EXCEPT ![j] = "started"]
    /\ task' = [task EXCEPT ![w] = j]
    /\ left' = [left EXCEPT ![w] = retriesLeft[j]]
    /\ registered' = [registered EXCEPT ![w] = TRUE]
    /\ Goto(w, "begin")
    /\ UNCHANGED <<rows, retriesLeft, scheduled, orphans, attempt, env>>

(* First transaction: session.get reads the row; a missing row is a return. *)
BeginRead(w) ==
    /\ pc[w] = "begin"
    /\ IF status[task[w]] = "absent"
       THEN Goto(w, "returned") /\ UNCHANGED attempt
       ELSE /\ attempt' = [attempt EXCEPT ![w] = attempts[task[w]] + 1]
            /\ Goto(w, IF status[task[w]] = "running" THEN "reopened" ELSE "opened")
    /\ UNCHANGED <<rows, redis, task, left, registered, env>>

BeginCommit__not_counted(w) ==
    /\ pc[w] \in {"opened", "reopened"}
    /\ status' = [status EXCEPT ![task[w]] = "running"]
    /\ Goto(w, "handler")
    /\ UNCHANGED <<attempts, error, redis, task, attempt, left, registered, env>>

(* ... and its commit writes the values computed from that read; the UPDATE *)
(* has no status column when the row read said running already.             *)
BeginCommit(w) ==
    /\ pc[w] \in {"opened", "reopened"}
    /\ status' = IF pc[w] = "opened" THEN [status EXCEPT ![task[w]] = "running"] ELSE status
    /\ attempts' = [attempts EXCEPT ![task[w]] = attempt[w]]
    /\ Goto(w, "handler")
    /\ UNCHANGED <<error, redis, task, attempt, left, registered, env>>

(* The handler returns, raises an ordinary exception (a timeout, an         *)
(* unregistered type, a refused connection), or raises PermanentJobError.   *)
HandlerEnds(w, line) ==
    /\ pc[w] = "handler"
    /\ Goto(w, line)
    /\ UNCHANGED <<rows, redis, task, attempt, left, registered, env>>

HandlerReturns(w)         == HandlerEnds(w, "record_success")
HandlerRaises(w)          == HandlerEnds(w, "record_failure")
HandlerRaisesPermanent(w) == HandlerEnds(w, "record_permanent")

RecordSuccess(w) ==
    /\ pc[w] = "record_success"
    /\ status' = [status EXCEPT ![task[w]] = "succeeded"]
    /\ error' = [error EXCEPT ![task[w]] = "none"]
    /\ Goto(w, "returned")
    /\ UNCHANGED <<attempts, redis, task, attempt, left, registered, env>>

RecordFailure__beyond(w) ==
    /\ pc[w] = "record_failure"
    /\ status' = [status EXCEPT ![task[w]] =
                    IF attempt[w] > MaxAttempts[task[w]] THEN "dead_letter" ELSE "failed"]
    /\ error' = [error EXCEPT ![task[w]] = "transient"]
    /\ Goto(w, "raised")
    /\ UNCHANGED <<attempts, redis, task, attempt, left, registered, env>>

RecordFailure__one_early(w) ==
    /\ pc[w] = "record_failure"
    /\ status' = [status EXCEPT ![task[w]] =
                    IF attempt[w] >= MaxAttempts[task[w]] - 1 THEN "dead_letter" ELSE "failed"]
    /\ error' = [error EXCEPT ![task[w]] = "transient"]
    /\ Goto(w, "raised")
    /\ UNCHANGED <<attempts, redis, task, attempt, left, registered, env>>

RecordFailure__tried_again(w) ==
    /\ pc[w] = "record_failure"
    /\ status' = [status EXCEPT ![task[w]] =
                    IF attempt[w] >= MaxAttempts[task[w]] THEN "dead_letter" ELSE "failed"]
    /\ error' = [error EXCEPT ![task[w]] = "transient"]
    /\ Goto(w, IF attempt[w] >= MaxAttempts[task[w]] THEN "raised" ELSE "handler")
    /\ UNCHANGED <<attempts, redis, task, attempt, left, registered, env>>

(* _record_failure(permanent=False), after which run_job re-raises. *)
RecordFailure(w) ==
    /\ pc[w] = "record_failure"
    /\ status' = [status EXCEPT ![task[w]] =
                    IF attempt[w] >= MaxAttempts[task[w]] THEN "dead_letter" ELSE "failed"]
    /\ error' = [error EXCEPT ![task[w]] = "transient"]
    /\ Goto(w, "raised")
    /\ UNCHANGED <<attempts, redis, task, attempt, left, registered, env>>

RecordPermanent__reraised(w) ==
    /\ pc[w] = "record_permanent"
    /\ status' = [status EXCEPT ![task[w]] = "dead_letter"]
    /\ error' = [error EXCEPT ![task[w]] = "permanent"]
    /\ Goto(w, "raised")
    /\ UNCHANGED <<attempts, redis, task, attempt, left, registered, env>>

(* _record_failure(permanent=True); the exception is swallowed. *)
RecordPermanent(w) ==
    /\ pc[w] = "record_permanent"
    /\ status' = [status EXCEPT ![task[w]] = "dead_letter"]
    /\ error' = [error EXCEPT ![task[w]] = "permanent"]
    /\ Goto(w, "returned")
    /\ UNCHANGED <<attempts, redis, task, attempt, left, registered, env>>

(* A transaction raises and rolls back: the exception leaves run_job. *)
TransactionFails(w) ==
    /\ dbFaults < MaxDbFaults
    /\ pc[w] \in {"begin", "opened", "reopened", "record_success", "record_failure", "record_permanent"}
    /\ dbFaults' = dbFaults + 1
    /\ Goto(w, "raised")
    /\ UNCHANGED <<rows, redis, task, attempt, left, registered, crashes, partitions, lostHandOffs>>

-----------------------------------------------------------------------------
(* RQ, external: what it does with a job whose execution ended.            *)

(* Job.retry when n > 0 retries are left: one is spent and the id is pushed *)
(* or parked, a second time if need be; else the failed registry.           *)
RetryOrFail(j, n) ==
    /\ retriesLeft' = [retriesLeft EXCEPT ![j] = IF n = 0 THEN 0 ELSE n - 1]
    /\ IF n = 0
       THEN transport' = [transport EXCEPT ![j] = "failed"] /\ UNCHANGED <<queued, scheduled>>
       ELSE IF RetryInterval(MaxAttempts[j], n) = 0
       THEN Push(j) /\ UNCHANGED scheduled
       ELSE /\ scheduled' = [scheduled EXCEPT ![j] = TRUE]
            /\ transport' = [transport EXCEPT ![j] = "scheduled"]
            /\ UNCHANGED queued

(* handle_job_success: the worker's copy of the hash is saved, its retries  *)
(* left included, whoever has changed the hash meanwhile.                   *)
RqSeesReturn(w) ==
    /\ pc[w] = "returned"
    /\ transport' = [transport EXCEPT ![task[w]] = "finished"]
    /\ retriesLeft' = [retriesLeft EXCEPT ![task[w]] = left[w]]
    /\ Leave(w)
    /\ UNCHANGED <<rows, queued, scheduled, orphans, env>>

(* handle_job_failure: it too goes by the copy the worker loaded.           *)
RqSeesException(w) ==
    /\ pc[w] = "raised"
    /\ RetryOrFail(task[w], left[w])
    /\ Leave(w)
    /\ UNCHANGED <<rows, orphans, env>>

(* The scheduler moves a due job from the scheduled registry to the queue.  *)
SchedulerTick(j) ==
    /\ Scheduler
    /\ scheduled[j]
    /\ scheduled' = [scheduled EXCEPT ![j] = FALSE]
    /\ Push(j)
    /\ UNCHANGED <<rows, retriesLeft, orphans, procs, env>>

(* Registry maintenance finds the entry of an execution whose worker died.  *)
Abandon(j) ==
    /\ orphans[j] > 0
    /\ orphans' = [orphans EXCEPT ![j] = @ - 1]
    /\ RetryOrFail(j, retriesLeft[j])
    /\ UNCHANGED <<rows, procs, env>>

(* The container dies at any line of run_job and is restarted.              *)
WorkerDies(w) ==
    /\ crashes < MaxCrashes
    /\ pc[w] # "idle"
    /\ crashes' = crashes + 1
    /\ orphans' = [orphans EXCEPT ![task[w]] = IF registered[w] THEN @ + 1 ELSE @]
    /\ Leave(w)
    /\ UNCHANGED <<rows, transport, retriesLeft, queued, scheduled, dbFaults, partitions, lostHandOffs>>

(* A live worker's heartbeat expires and registry maintenance takes its     *)
(* execution for abandoned; its run_job goes on.                            *)
LoseHeartbeat(w) ==
    /\ registered[w] /\ partitions[task[w]] < MaxPartitions
    /\ partitions' = [partitions EXCEPT ![task[w]] = @ + 1]
    /\ registered' = [registered EXCEPT ![w] = FALSE]
    /\ RetryOrFail(task[w], retriesLeft[task[w]])
    /\ UNCHANGED <<rows, orphans, pc, task, attempt, left, dbFaults, crashes, lostHandOffs>>

-----------------------------------------------------------------------------
Producer(j)  == Record(j) \/ HandOff(j)
Delivery(j)  == SchedulerTick(j) \/ Abandon(j) \/ \E w \in Workers : Take(w, j)
WorkerStep(w) ==
    \/ BeginRead(w) \/ BeginCommit(w)
    \/ HandlerReturns(w) \/ HandlerRaises(w) \/ HandlerRaisesPermanent(w)
    \/ RecordSuccess(w) \/ RecordFailure(w) \/ RecordPermanent(w)
    \/ RqSeesReturn(w) \/ RqSeesException(w)
Faults ==
    \/ \E j \in Jobs : HandOffLost(j)
    \/ \E w \in Workers : TransactionFails(w) \/ WorkerDies(w) \/ LoseHeartbeat(w)

Next ==
    \/ \E j \in Jobs : Producer(j) \/ Delivery(j)
    \/ \E w \in Workers : WorkerStep(w)
    \/ Faults

(* RQ limits how long a handler runs (its job timeout), so a handler ends;  *)
(* a worker that is alive keeps taking queued jobs; registry maintenance    *)
(* and, where there is one, the scheduler run periodically.                 *)
Fairness ==
    /\ \A j \in Jobs : WF_vars(HandOff(j)) /\ WF_vars(Delivery(j))
    /\ \A w \in Workers : WF_vars(WorkerStep(w))

Spec == Init /\ [][Next]_vars /\ Fairness

-----------------------------------------------------------------------------
(* Properties *)

TypeOK ==
    /\ status \in [Jobs -> Statuses]
    /\ attempts \in [Jobs -> Nat]
    /\ error \in [Jobs -> {"none", "transient", "permanent"}]
    /\ transport \in [Jobs -> Transports]
    /\ retriesLeft \in [Jobs -> Nat]
    /\ queued \in [Jobs -> Nat] /\ scheduled \in [Jobs -> BOOLEAN] /\ orphans \in [Jobs -> Nat]
    /\ pc \in [Workers -> Lines]
    /\ task \in [Workers -> Jobs \cup {NoJob}]
    /\ attempt \in [Workers -> Nat]
    /\ left \in [Workers -> Nat] /\ registered \in [Workers -> BOOLEAN]
    /\ \A w \in Workers : pc[w] # "idle" <=> task[w] \in Jobs
    /\ \A w \in Workers : registered[w] => task[w] \in Jobs
    /\ dbFaults \in Nat /\ crashes \in Nat /\ lostHandOffs \in Nat
    /\ partitions \in [Jobs -> Nat]

(* A job no execution of which was ever taken from a live worker.           *)
NeverOvertaken(j) == partitions[j] = 0

Waiting(j) == queued[j] + IF scheduled[j] THEN 1 ELSE 0

(* RQ knows such a job in one place at most: waiting, left behind by a dead *)
(* worker, or in one worker, whose copy of the hash is up to date.          *)
OneDelivery(j) ==
    /\ Waiting(j) + orphans[j] <= 1
    /\ transport[j] = "absent" => Waiting(j) + orphans[j] = 0
    /\ \A w \in Workers : task[w] = j =>
            /\ registered[w] /\ left[w] = retriesLeft[j]
            /\ Waiting(j) + orphans[j] = 0 /\ transport[j] # "absent"
            /\ \A v \in Workers : task[v] = j => v = w

Captured == {"opened", "reopened", "handler", "record_success", "record_failure", "record_permanent"}

(* The deliveries it may still get, RQ's retries and one that waits or that *)
(* a worker has not counted yet, added to the attempts counted in the row   *)
(* or captured by a worker, stay within the budget.                         *)
WithinBudget(j) ==
    /\ attempts[j] + retriesLeft[j] + Waiting(j) <= MaxAttempts[j]
    /\ transport[j] = "absent" => attempts[j] = 0
    /\ \A w \in Workers : task[w] = j =>
            /\ pc[w] = "begin" => attempts[j] + retriesLeft[j] + 1 <= MaxAttempts[j]
            /\ pc[w] \in Captured => attempt[w] + retriesLeft[j] <= MaxAttempts[j]

(* The inductive strengthening of the two properties after it.              *)
QueueInv == TypeOK /\ \A j \in Jobs : NeverOvertaken(j) => OneDelivery(j) /\ WithinBudget(j)

(* Attempts never exceed jobs.max_attempts: RQ's retry count is one less    *)
(* than the total, and no crash, failed transaction or redelivery yields a  *)
(* run beyond it (queue.retry_policy, run_job).  It is said of jobs whose   *)
(* executions kept their heartbeats: once RQ has queued a job again that is *)
(* still running, both executions retry from their own copies of the count. *)
AttemptsBudget ==
    \A j \in Jobs : NeverOvertaken(j) => attempts[j] <= MaxAttempts[j]

(* A job dead-lettered because its attempts are exhausted is one RQ will    *)
(* not run again: the row's verdict, computed from the captured attempt     *)
(* number, and RQ's own counter cannot disagree in that direction, whatever *)
(* crashes or fails, as long as no heartbeat of the job was lost            *)
(* ("premature" in the docstring of queue.retry_policy).                    *)
ExhaustedStaysDown ==
    \A j \in Jobs :
        NeverOvertaken(j) /\ status[j] = "dead_letter" /\ error[j] = "transient"
            => retriesLeft[j] = 0 /\ Waiting(j) = 0

(* When no worker is executing a job, the row and the queue tell the same   *)
(* story: `failed` only while a retry is on its way, a terminal status iff  *)
(* RQ is done with the job.  Holds when nothing crashes between two         *)
(* transactions.                                                            *)
RowAgreesWithQueue ==
    \A j \in Jobs : transport[j] \notin {"absent", "lost", "started"} =>
        /\ status[j] = "failed" => transport[j] \in {"queued", "scheduled"}
        /\ status[j] \in Terminal <=> transport[j] \in {"finished", "failed"}

(* A job that succeeded or was dead-lettered is never run or re-labelled    *)
(* again: run_job does not test the status it overwrites, so this rests on  *)
(* what the queue redelivers.                                               *)
TerminalIsFinal ==
    [][\A j \in Jobs : status[j] \in Terminal => status'[j] = status[j]]_vars

(* The lifecycle of runner.py's docstring, as the jobs table shows it.      *)
Lifecycle == INSTANCE JobLifecycle
                WITH Jobs <- Jobs, MaxAttempts <- MaxAttempts,
                     status <- status, attempts <- attempts
LifecycleSpec == Lifecycle!Spec

(* "run, retry with backoff, retry, dead-letter": every job handed to RQ    *)
(* eventually succeeds or is dead-lettered.                                 *)
Settles == \A j \in Jobs : transport[j] = "queued" ~> status[j] \in Terminal

(* RQ holds nothing of the job any more and no worker executes it.          *)
Drained(j) ==
    /\ transport[j] \in {"finished", "failed"}
    /\ Waiting(j) = 0 /\ orphans[j] = 0 /\ \A w \in Workers : task[w] # j

(* Redelivery ends: under every fault of the environment RQ is eventually   *)
(* done with each job it was handed, though overlapping executions push it  *)
(* twice and overwrite each other's count of the retries left.              *)
QueueDrains == \A j \in Jobs : transport[j] = "queued" ~> Drained(j)
=============================================================================
