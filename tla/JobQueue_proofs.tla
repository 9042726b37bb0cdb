--------------------------- MODULE JobQueue_proofs ---------------------------
(***************************************************************************)
(* Theorems about JobQueue for every set of jobs, every set of workers,    *)
(* every attempt limit and every number of faults.                         *)
(***************************************************************************)
EXTENDS JobQueue, TLAPS

USE DEF rows, redis, procs, env, vars

(* What RQ does with a failed execution, spelt out for the job it is about, *)
(* for the others, and for the types of its fields.                         *)
LEMMA RetryOrFailEffect ==
    ASSUME TypeOK, NEW j \in Jobs, NEW n \in Nat, RetryOrFail(j, n)
    PROVE  /\ transport' \in [Jobs -> Transports] /\ retriesLeft' \in [Jobs -> Nat]
           /\ queued' \in [Jobs -> Nat] /\ scheduled' \in [Jobs -> BOOLEAN]
           /\ \A i \in Jobs \ {j} :
                /\ transport'[i] = transport[i] /\ retriesLeft'[i] = retriesLeft[i]
                /\ queued'[i] = queued[i] /\ scheduled'[i] = scheduled[i]
           /\ n = 0 => /\ retriesLeft'[j] = 0 /\ transport'[j] = "failed"
                       /\ queued'[j] = queued[j] /\ scheduled'[j] = scheduled[j]
           /\ n # 0 => /\ retriesLeft'[j] = n - 1
                       /\ \/ /\ transport'[j] = "queued"
                             /\ queued'[j] = queued[j] + 1 /\ scheduled'[j] = scheduled[j]
                          \/ /\ transport'[j] = "scheduled"
                             /\ queued'[j] = queued[j] /\ scheduled'[j] = TRUE
<1> USE DEF TypeOK, Transports
<1>1. CASE n = 0
  <2>1. /\ retriesLeft' = [retriesLeft EXCEPT ![j] = 0]
        /\ transport' = [transport EXCEPT ![j] = "failed"]
        /\ queued' = queued /\ scheduled' = scheduled
    BY <1>1 DEF RetryOrFail
  <2> QED
    BY <1>1, <2>1
<1>2. CASE n # 0
  <2>1. retriesLeft' = [retriesLeft EXCEPT ![j] = n - 1] /\ n - 1 \in Nat
    BY <1>2 DEF RetryOrFail
  <2>2. \/ /\ queued' = [queued EXCEPT ![j] = @ + 1] /\ scheduled' = scheduled
           /\ transport' = [transport EXCEPT ![j] = "queued"]
        \/ /\ scheduled' = [scheduled EXCEPT ![j] = TRUE] /\ queued' = queued
           /\ transport' = [transport EXCEPT ![j] = "scheduled"]
    BY <1>2 DEF RetryOrFail, Push
  <2>3. CASE queued' = [queued EXCEPT ![j] = @ + 1]
    <3>1. /\ queued' \in [Jobs -> Nat] /\ queued'[j] = queued[j] + 1
          /\ \A i \in Jobs \ {j} : queued'[i] = queued[i]
      BY <2>3
    <3>2. \/ scheduled' = scheduled /\ transport' = [transport EXCEPT ![j] = "queued"]
          \/ /\ scheduled' = [scheduled EXCEPT ![j] = TRUE] /\ queued'[j] = queued[j]
             /\ transport' = [transport EXCEPT ![j] = "scheduled"]
      BY <2>2
    <3>3. queued[j] \in Nat
      OBVIOUS
    <3> HIDE <2>3
    <3> QED
      BY <1>2, <2>1, <3>1, <3>2, <3>3
  <2>4. CASE /\ queued' = queued /\ scheduled' = [scheduled EXCEPT ![j] = TRUE]
             /\ transport' = [transport EXCEPT ![j] = "scheduled"]
    BY <1>2, <2>1, <2>4
  <2> QED
    BY <2>2, <2>3, <2>4
<1> QED
  BY <1>1, <1>2

(* Every variable stays in its type, and exactly the busy workers hold a    *)
(* job: no action of the queue, of run_job or of RQ leaves a dangling task. *)
THEOREM TypeCorrect == Spec => []TypeOK
<1> USE JobsAssumption DEF TypeOK, Statuses, Transports, Lines
<1>1. Init => TypeOK
  BY DEF Init
<1>2. TypeOK /\ [Next]_vars => TypeOK'
  <2> SUFFICES ASSUME TypeOK, [Next]_vars PROVE TypeOK'
    OBVIOUS
  <2>1. ASSUME NEW j \in Jobs, Record(j) PROVE TypeOK'
    BY <2>1 DEF Record
  <2>2. ASSUME NEW j \in Jobs, HandOff(j) PROVE TypeOK'
    BY <2>2 DEF HandOff, Push, Retries
  <2>3. ASSUME NEW j \in Jobs, SchedulerTick(j) PROVE TypeOK'
    BY <2>3 DEF SchedulerTick, Push
  <2>4. ASSUME NEW j \in Jobs, Abandon(j) PROVE TypeOK'
    <3>1. /\ transport' \in [Jobs -> Transports] /\ retriesLeft' \in [Jobs -> Nat]
          /\ queued' \in [Jobs -> Nat] /\ scheduled' \in [Jobs -> BOOLEAN]
      BY <2>4, RetryOrFailEffect DEF Abandon
    <3>2. orphans' \in [Jobs -> Nat]
      BY <2>4 DEF Abandon
    <3> QED
      BY <2>4, <3>1, <3>2 DEF Abandon
  <2>5. ASSUME NEW j \in Jobs, NEW w \in Workers, Take(w, j) PROVE TypeOK'
    <3>1. queued' \in [Jobs -> Nat]
      BY <2>5 DEF Take
    <3> QED
      BY <2>5, <3>1 DEF Take, Goto
  <2>6. ASSUME NEW w \in Workers, WorkerStep(w) PROVE TypeOK'
    <3>1. CASE BeginRead(w)
      <4>1. attempts[task[w]] + 1 \in Nat
        BY <3>1 DEF BeginRead
      <4>2. attempt' \in [Workers -> Nat]
        BY <3>1, <4>1 DEF BeginRead
      <4> QED
        BY <3>1, <4>2 DEF BeginRead, Goto
    <3>2. CASE BeginCommit(w)
      BY <3>2 DEF BeginCommit, Goto
    <3>3. CASE HandlerReturns(w) \/ HandlerRaises(w) \/ HandlerRaisesPermanent(w)
      BY <3>3 DEF HandlerReturns, HandlerRaises, HandlerRaisesPermanent, HandlerEnds, Goto
    <3>4. CASE RecordSuccess(w)
      BY <3>4 DEF RecordSuccess, Goto
    <3>5. CASE RecordFailure(w)
      BY <3>5 DEF RecordFailure, Goto
    <3>6. CASE RecordPermanent(w)
      BY <3>6 DEF RecordPermanent, Goto
    <3>7. CASE RqSeesReturn(w)
      BY <3>7 DEF RqSeesReturn, Goto, Leave
    <3>8. CASE RqSeesException(w)
      <4>1. /\ transport' \in [Jobs -> Transports] /\ retriesLeft' \in [Jobs -> Nat]
            /\ queued' \in [Jobs -> Nat] /\ scheduled' \in [Jobs -> BOOLEAN]
        BY <3>8, RetryOrFailEffect DEF RqSeesException
      <4> QED
        BY <3>8, <4>1 DEF RqSeesException, Goto, Leave
    <3> QED
      BY <2>6, <3>1, <3>2, <3>3, <3>4, <3>5, <3>6, <3>7, <3>8 DEF WorkerStep
  <2>7. ASSUME NEW j \in Jobs, HandOffLost(j) PROVE TypeOK'
    BY <2>7 DEF HandOffLost
  <2>8. ASSUME NEW w \in Workers, TransactionFails(w) PROVE TypeOK'
    BY <2>8 DEF TransactionFails, Goto
  <2>9. ASSUME NEW w \in Workers, WorkerDies(w) PROVE TypeOK'
    <3>1. orphans' \in [Jobs -> Nat]
      BY <2>9 DEF WorkerDies
    <3>2. crashes' \in Nat
      BY <2>9 DEF WorkerDies
    <3> QED
      BY <2>9, <3>1, <3>2 DEF WorkerDies, Goto, Leave
  <2>10. ASSUME NEW w \in Workers, LoseHeartbeat(w) PROVE TypeOK'
    <3>1. task[w] \in Jobs /\ retriesLeft[task[w]] \in Nat
      BY <2>10 DEF LoseHeartbeat
    <3>2. /\ transport' \in [Jobs -> Transports] /\ retriesLeft' \in [Jobs -> Nat]
          /\ queued' \in [Jobs -> Nat] /\ scheduled' \in [Jobs -> BOOLEAN]
      BY <2>10, <3>1, RetryOrFailEffect DEF LoseHeartbeat
    <3>3. partitions' \in [Jobs -> Nat]
      BY <2>10 DEF LoseHeartbeat
    <3>4. registered' = [registered EXCEPT ![w] = FALSE] /\ UNCHANGED <<rows, orphans, pc, task, attempt, left, dbFaults, crashes, lostHandOffs>>
      BY <2>10 DEF LoseHeartbeat
    <3> QED
      BY <3>2, <3>3, <3>4
  <2>11. CASE UNCHANGED vars
    BY <2>11
  <2> QED
    BY <2>1, <2>2, <2>3, <2>4, <2>5, <2>6, <2>7, <2>8, <2>9, <2>10, <2>11
       DEF Next, Producer, Delivery, Faults
<1> QED
  BY <1>1, <1>2, PTL DEF Spec

-----------------------------------------------------------------------------
(* The attempts budget of a job no execution of which was taken from a live *)
(* worker: RQ knows the job in one place, and its counter, the row's count  *)
(* and the captured numbers stay within the limit together.                 *)

Kept(j) == OneDelivery(j) /\ WithinBudget(j)

(* A step that leaves the row's count, RQ's fields and the workers of a job *)
(* alone, but for moving one from a line to a later one, keeps both.        *)
LEMMA KeptFrame ==
    ASSUME NEW j \in Jobs, Kept(j),
           attempts'[j] = attempts[j], retriesLeft'[j] = retriesLeft[j],
           queued'[j] = queued[j], scheduled'[j] = scheduled[j], orphans'[j] = orphans[j],
           transport'[j] = "absent" => transport[j] = "absent",
           \A w \in Workers : task'[w] = j =>
                /\ task[w] = j /\ registered'[w] = registered[w]
                /\ left'[w] = left[w] /\ attempt'[w] = attempt[w]
                /\ pc'[w] = "begin" => pc[w] = "begin"
                /\ pc'[w] \in Captured => pc[w] \in Captured
    PROVE  Kept(j)'
<1>1. Waiting(j)' = Waiting(j)
  BY DEF Waiting
<1>2. OneDelivery(j)'
  BY <1>1 DEF Kept, OneDelivery
<1>3. WithinBudget(j)'
  BY <1>1 DEF Kept, WithinBudget
<1> QED
  BY <1>2, <1>3 DEF Kept

(* A job nobody executes before the step nor after it: the figures suffice. *)
LEMMA KeptIdle ==
    ASSUME NEW j \in Jobs,
           \A w \in Workers : task'[w] # j,
           transport'[j] # "absent",
           (Waiting(j) + orphans[j] <= 1)',
           (attempts[j] + retriesLeft[j] + Waiting(j) <= MaxAttempts[j])'
    PROVE  Kept(j)'
BY DEF Kept, OneDelivery, WithinBudget

(* A job executed by one worker whose copy of the hash is up to date.       *)
LEMMA KeptBusy ==
    ASSUME NEW j \in Jobs, NEW w \in Workers,
           \A v \in Workers \ {w} : task'[v] # j,
           registered'[w], left'[w] = retriesLeft'[j],
           transport'[j] # "absent",
           (Waiting(j) + orphans[j] = 0)', (Waiting(j) = 0)',
           attempts'[j] \in Nat, retriesLeft'[j] \in Nat, MaxAttempts[j] \in Nat,
           attempts'[j] + retriesLeft'[j] <= MaxAttempts[j],
           pc'[w] = "begin" => attempts'[j] + retriesLeft'[j] + 1 <= MaxAttempts[j],
           pc'[w] \in Captured => attempt'[w] + retriesLeft'[j] <= MaxAttempts[j]
    PROVE  Kept(j)'
<1>1. OneDelivery(j)'
  BY DEF OneDelivery
<1>2. WithinBudget(j)'
  BY DEF WithinBudget
<1> QED
  BY <1>1, <1>2 DEF Kept

LEMMA Figures ==
    ASSUME TypeOK, NEW j \in Jobs
    PROVE  /\ queued[j] \in Nat /\ orphans[j] \in Nat /\ scheduled[j] \in BOOLEAN
           /\ attempts[j] \in Nat /\ retriesLeft[j] \in Nat
           /\ MaxAttempts[j] \in Nat /\ MaxAttempts[j] >= 1
           /\ Waiting(j) \in Nat
           /\ Waiting(j) = 0 => queued[j] = 0 /\ scheduled[j] = FALSE
BY JobsAssumption DEF TypeOK, Waiting

(* The hand-off gives a job RQ did not know its whole budget at once.       *)
LEMMA HandOffKeeps ==
    ASSUME TypeOK, NEW j \in Jobs, Kept(j), NEW i \in Jobs, HandOff(i)
    PROVE  Kept(j)'
<1>1. CASE i # j
  <2>1. /\ queued'[j] = queued[j] /\ transport'[j] = transport[j]
        /\ retriesLeft'[j] = retriesLeft[j]
    BY <1>1 DEF HandOff, Push, TypeOK
  <2> QED
    BY <2>1, KeptFrame DEF HandOff
<1>2. CASE i = j
  <2>1. /\ transport[j] = "absent" /\ attempts[j] = 0
        /\ Waiting(j) + orphans[j] = 0 /\ \A w \in Workers : task[w] # j
    BY <1>2 DEF HandOff, Kept, OneDelivery, WithinBudget
  <2>0. /\ Waiting(j) \in Nat /\ orphans[j] \in Nat /\ MaxAttempts[j] \in Nat /\ MaxAttempts[j] >= 1
        /\ Waiting(j) = 0 => queued[j] = 0 /\ scheduled[j] = FALSE
    BY Figures
  <2>2. /\ queued[j] = 0 /\ scheduled[j] = FALSE /\ orphans[j] = 0
        /\ MaxAttempts[j] \in Nat /\ MaxAttempts[j] >= 1
    BY <2>0, <2>1
  <2>3. /\ queued'[j] = 1 /\ transport'[j] = "queued" /\ retriesLeft'[j] = Retries(MaxAttempts[j])
        /\ scheduled' = scheduled /\ orphans' = orphans /\ attempts' = attempts /\ task' = task
    BY <1>2, <2>2 DEF HandOff, Push, TypeOK
  <2>4. Retries(MaxAttempts[j]) = MaxAttempts[j] - 1
    BY <2>2 DEF Retries
  <2>5. Waiting(j)' = 1
    BY <2>2, <2>3 DEF Waiting
  <2>6. (Waiting(j) + orphans[j] <= 1)'
    BY <2>2, <2>3, <2>5
  <2>7. (attempts[j] + retriesLeft[j] + Waiting(j) <= MaxAttempts[j])'
    BY <2>1, <2>2, <2>3, <2>4, <2>5
  <2> QED
    BY <2>1, <2>3, <2>6, <2>7, KeptIdle
<1> QED
  BY <1>1, <1>2

(* A due retry changes places: what waits stays the same.                   *)
LEMMA TickKeeps ==
    ASSUME TypeOK, NEW j \in Jobs, Kept(j), NEW i \in Jobs, SchedulerTick(i)
    PROVE  Kept(j)'
<1>1. CASE i # j
  <2>1. /\ queued'[j] = queued[j] /\ transport'[j] = transport[j]
        /\ scheduled'[j] = scheduled[j]
    BY <1>1 DEF SchedulerTick, Push, TypeOK
  <2> QED
    BY <2>1, KeptFrame DEF SchedulerTick
<1>2. CASE i = j
  <2>1. /\ scheduled[j] /\ queued'[j] = queued[j] + 1 /\ scheduled'[j] = FALSE
        /\ transport'[j] = "queued" /\ UNCHANGED <<attempts, retriesLeft, orphans, task>>
    BY <1>2 DEF SchedulerTick, Push, TypeOK
  <2>0. queued[j] \in Nat /\ scheduled[j] = TRUE
    BY <2>1 DEF TypeOK
  <2>2. Waiting(j)' = Waiting(j) /\ Waiting(j) # 0
    BY <2>0, <2>1 DEF Waiting
  <2>3. Waiting(j) \in Nat /\ orphans[j] \in Nat
    BY Figures
  <2>4. /\ Waiting(j) + orphans[j] # 0 /\ Waiting(j) + orphans[j] <= 1
        /\ attempts[j] + retriesLeft[j] + Waiting(j) <= MaxAttempts[j]
    BY <2>2, <2>3 DEF Kept, OneDelivery, WithinBudget
  <2>5. \A w \in Workers : task[w] # j
    BY <2>4 DEF Kept, OneDelivery
  <2> QED
    BY <2>1, <2>2, <2>4, <2>5, KeptIdle
<1> QED
  BY <1>1, <1>2

(* What RQ does with an execution that failed, when the job is nowhere else *)
(* and the caller goes by an up-to-date count: one retry becomes waiting.   *)
LEMMA RetryKeeps ==
    ASSUME TypeOK, NEW j \in Jobs, RetryOrFail(j, retriesLeft[j]),
           Waiting(j) = 0, orphans'[j] = 0, attempts' = attempts,
           \A w \in Workers : task'[w] # j,
           attempts[j] + retriesLeft[j] <= MaxAttempts[j]
    PROVE  Kept(j)'
<1> DEFINE n == retriesLeft[j]
<1>1. n \in Nat /\ attempts[j] \in Nat /\ MaxAttempts[j] \in Nat
  BY Figures
<1>2. queued[j] = 0 /\ scheduled[j] = FALSE
  BY Figures
<1>3. CASE n = 0
  <2>1. /\ retriesLeft'[j] = 0 /\ transport'[j] = "failed"
        /\ queued'[j] = 0 /\ scheduled'[j] = FALSE
    BY <1>1, <1>2, <1>3, RetryOrFailEffect
  <2>2. Waiting(j)' = 0
    BY <2>1 DEF Waiting
  <2> QED
    BY <1>1, <1>3, <2>1, <2>2, KeptIdle
<1>4. CASE n # 0
  <2>1. /\ retriesLeft'[j] = n - 1
        /\ \/ transport'[j] = "queued" /\ queued'[j] = queued[j] + 1 /\ scheduled'[j] = scheduled[j]
           \/ transport'[j] = "scheduled" /\ queued'[j] = queued[j] /\ scheduled'[j] = TRUE
    BY <1>1, <1>4, RetryOrFailEffect
  <2>2. Waiting(j)' = 1 /\ transport'[j] # "absent"
    BY <1>2, <2>1 DEF Waiting
  <2>3. (Waiting(j) + orphans[j] <= 1)'
    BY <2>2
  <2>4. (attempts[j] + retriesLeft[j] + Waiting(j) <= MaxAttempts[j])'
    BY <1>1, <2>1, <2>2
  <2> QED
    BY <2>2, <2>3, <2>4, KeptIdle
<1> QED
  BY <1>3, <1>4

LEMMA AbandonKeeps ==
    ASSUME TypeOK, NEW j \in Jobs, Kept(j), NEW i \in Jobs, Abandon(i)
    PROVE  Kept(j)'
<1>0. retriesLeft[i] \in Nat /\ RetryOrFail(i, retriesLeft[i])
      /\ orphans' = [orphans EXCEPT ![i] = @ - 1] /\ orphans[i] > 0 /\ UNCHANGED <<rows, procs>>
  BY Figures DEF Abandon
<1>1. CASE i # j
  <2>1. /\ transport'[j] = transport[j] /\ retriesLeft'[j] = retriesLeft[j]
        /\ queued'[j] = queued[j] /\ scheduled'[j] = scheduled[j]
    BY <1>0, <1>1, RetryOrFailEffect
  <2>2. orphans'[j] = orphans[j]
    BY <1>0, <1>1 DEF TypeOK
  <2> QED
    BY <1>0, <2>1, <2>2, KeptFrame
<1>2. CASE i = j
  <2>0. /\ Waiting(j) \in Nat /\ orphans[j] \in Nat /\ attempts[j] \in Nat
        /\ retriesLeft[j] \in Nat /\ MaxAttempts[j] \in Nat
    BY Figures
  <2>1. orphans[j] = 1 /\ Waiting(j) = 0
    BY <1>0, <1>2, <2>0 DEF Kept, OneDelivery
  <2>4. \A w \in Workers : task[w] # j
    BY <2>1 DEF Kept, OneDelivery
  <2>2. orphans'[j] = 0
    BY <1>0, <1>2, <2>1 DEF TypeOK
  <2>3. attempts[j] + retriesLeft[j] <= MaxAttempts[j]
    BY <2>0, <2>1 DEF Kept, WithinBudget
  <2> QED
    BY <1>0, <1>2, <2>1, <2>2, <2>3, <2>4, RetryKeeps
<1> QED
  BY <1>1, <1>2

(* RQ delivers a job: what waited becomes a worker about to count a run.    *)
LEMMA TakeKeeps ==
    ASSUME TypeOK, TypeOK', NEW j \in Jobs, Kept(j), NEW w \in Workers, NEW i \in Jobs, Take(w, i)
    PROVE  Kept(j)'
<1>0. /\ queued[i] > 0 /\ queued' = [queued EXCEPT ![i] = @ - 1]
      /\ transport' = [transport EXCEPT ![i] = "started"]
      /\ pc'[w] = "begin" /\ task'[w] = i /\ left'[w] = retriesLeft[i] /\ registered'[w] = TRUE
      /\ \A v \in Workers \ {w} : /\ pc'[v] = pc[v] /\ task'[v] = task[v] /\ left'[v] = left[v]
                                  /\ registered'[v] = registered[v]
      /\ UNCHANGED <<rows, retriesLeft, scheduled, orphans, attempt>>
  BY DEF Take, Goto, TypeOK
<1>1. CASE i # j
  <2>1. queued'[j] = queued[j] /\ transport'[j] = transport[j]
    BY <1>0, <1>1 DEF TypeOK
  <2>2. \A v \in Workers : task'[v] = j =>
            /\ task[v] = j /\ registered'[v] = registered[v] /\ left'[v] = left[v]
            /\ attempt'[v] = attempt[v] /\ pc'[v] = pc[v]
    BY <1>0, <1>1
  <2> QED
    BY <1>0, <2>1, <2>2, KeptFrame
<1>2. CASE i = j
  <2>1. queued[j] \in Nat /\ orphans[j] \in Nat /\ scheduled[j] \in BOOLEAN
    BY Figures
  <2>2. Waiting(j) + orphans[j] <= 1 /\ Waiting(j) + orphans[j] # 0
    BY <1>0, <1>2, <2>1 DEF Waiting, Kept, OneDelivery
  <2>3. queued[j] = 1 /\ scheduled[j] = FALSE /\ orphans[j] = 0 /\ Waiting(j) = 1
    BY <1>0, <1>2, <2>1, <2>2 DEF Waiting
  <2>4. queued'[j] = 0 /\ transport'[j] = "started"
    BY <1>0, <1>2, <2>3 DEF TypeOK
  <2>5. Waiting(j)' = 0
    BY <1>0, <2>3, <2>4 DEF Waiting
  <2>6. \A v \in Workers : task[v] # j
    BY <2>2 DEF Kept, OneDelivery
  <2>7. attempts[j] + retriesLeft[j] + 1 <= MaxAttempts[j]
    BY <2>3 DEF Kept, WithinBudget
  <2>8. attempts[j] \in Nat /\ retriesLeft[j] \in Nat /\ MaxAttempts[j] \in Nat
    BY Figures
  <2>9. (Waiting(j) + orphans[j] = 0)'
    BY <1>0, <2>3, <2>5
  <2>10. \A v \in Workers \ {w} : task'[v] # j
    BY <1>0, <2>6
  <2>11. attempts[j] + retriesLeft[j] <= MaxAttempts[j]
    BY <2>7, <2>8
  <2> QED
    BY <1>0, <1>2, <2>4, <2>5, <2>7, <2>8, <2>9, <2>10, <2>11, KeptBusy DEF Captured
<1> QED
  BY <1>1, <1>2

(* What Kept says of the one worker executing a job.                        *)
LEMMA Executor ==
    ASSUME TypeOK, NEW j \in Jobs, Kept(j), NEW w \in Workers, task[w] = j
    PROVE  /\ \A v \in Workers \ {w} : task[v] # j
           /\ registered[w] /\ left[w] = retriesLeft[j]
           /\ transport[j] # "absent" /\ Waiting(j) = 0 /\ orphans[j] = 0
           /\ attempts[j] + retriesLeft[j] <= MaxAttempts[j]
           /\ pc[w] = "begin" => attempts[j] + retriesLeft[j] + 1 <= MaxAttempts[j]
           /\ pc[w] \in Captured => attempt[w] + retriesLeft[j] <= MaxAttempts[j]
<1>1. Waiting(j) + orphans[j] = 0 /\ Waiting(j) \in Nat /\ orphans[j] \in Nat
  BY Figures DEF Kept, OneDelivery
<1>2. Waiting(j) = 0 /\ orphans[j] = 0
  BY <1>1
<1>0. attempts[j] \in Nat /\ retriesLeft[j] \in Nat /\ MaxAttempts[j] \in Nat
  BY Figures
<1>3. attempts[j] + retriesLeft[j] <= MaxAttempts[j]
  BY <1>0, <1>2 DEF Kept, WithinBudget
<1>4. /\ pc[w] = "begin" => attempts[j] + retriesLeft[j] + 1 <= MaxAttempts[j]
      /\ pc[w] \in Captured => attempt[w] + retriesLeft[j] <= MaxAttempts[j]
  BY DEF Kept, WithinBudget
<1> QED
  BY <1>2, <1>3, <1>4 DEF Kept, OneDelivery

(* Reading the row captures the run a beginner stood for; committing moves  *)
(* the captured number to the row.                                          *)
LEMMA BeginKeeps ==
    ASSUME TypeOK, TypeOK', NEW j \in Jobs, Kept(j), NEW w \in Workers,
           BeginRead(w) \/ BeginCommit(w)
    PROVE  Kept(j)'
<1>0. /\ UNCHANGED <<redis, task, left, registered>>
      /\ \A v \in Workers \ {w} : pc'[v] = pc[v] /\ attempt'[v] = attempt[v]
      /\ pc'[w] # "begin"
  BY DEF BeginRead, BeginCommit, Goto, TypeOK
<1>1. CASE task[w] # j
  <2>1. attempts'[j] = attempts[j]
    BY <1>1 DEF BeginRead, BeginCommit, TypeOK
  <2>2. \A v \in Workers : task'[v] = j => v # w
    BY <1>0, <1>1
  <2> QED
    BY <1>0, <2>1, <2>2, KeptFrame
<1>2. CASE task[w] = j
  <2>0. attempts[j] \in Nat /\ retriesLeft[j] \in Nat /\ MaxAttempts[j] \in Nat /\ attempts'[j] \in Nat
    BY Figures DEF TypeOK
  <2>1. /\ \A v \in Workers \ {w} : task[v] # j
        /\ registered[w] /\ left[w] = retriesLeft[j]
        /\ transport[j] # "absent" /\ Waiting(j) = 0 /\ orphans[j] = 0
        /\ attempts[j] + retriesLeft[j] <= MaxAttempts[j]
        /\ pc[w] = "begin" => attempts[j] + retriesLeft[j] + 1 <= MaxAttempts[j]
        /\ pc[w] \in Captured => attempt[w] + retriesLeft[j] <= MaxAttempts[j]
    BY <1>2, Executor
  <2>2. Waiting(j)' = Waiting(j)
    BY <1>0 DEF Waiting
  <2>3. /\ attempts'[j] + retriesLeft'[j] <= MaxAttempts[j]
        /\ pc'[w] \in Captured => attempt'[w] + retriesLeft'[j] <= MaxAttempts[j]
    <3>1. CASE BeginRead(w)
      <4>1. /\ pc[w] = "begin" /\ attempts' = attempts /\ retriesLeft' = retriesLeft
            /\ pc'[w] = "returned" \/ attempt'[w] = attempts[j] + 1
        BY <1>2, <3>1 DEF BeginRead, Goto, TypeOK
      <4> QED
        BY <2>0, <2>1, <4>1 DEF Captured
    <3>2. CASE BeginCommit(w)
      <4>1. /\ pc[w] \in Captured /\ attempts'[j] = attempt[w] /\ attempt'[w] = attempt[w]
            /\ retriesLeft' = retriesLeft
        BY <1>2, <3>2 DEF BeginCommit, Captured, TypeOK
      <4> QED
        BY <2>1, <4>1
    <3> QED
      BY <3>1, <3>2
  <2>4. (Waiting(j) + orphans[j] = 0)' /\ (Waiting(j) = 0)'
    BY <1>0, <2>1, <2>2
  <2> QED
    BY <1>0, <2>0, <2>1, <2>3, <2>4, KeptBusy
<1> QED
  BY <1>1, <1>2

(* The worker leaves the job: saving its copy changes no count, and a retry *)
(* is taken from the count the hash shows.                                  *)
LEMMA LeaveKeeps ==
    ASSUME TypeOK, NEW j \in Jobs, Kept(j), NEW w \in Workers,
           RqSeesReturn(w) \/ RqSeesException(w)
    PROVE  Kept(j)'
<1>0. /\ UNCHANGED <<rows, orphans>> /\ pc[w] # "idle"
      /\ task'[w] = NoJob
      /\ \A v \in Workers \ {w} : /\ pc'[v] = pc[v] /\ task'[v] = task[v] /\ left'[v] = left[v]
                                  /\ attempt'[v] = attempt[v] /\ registered'[v] = registered[v]
  BY DEF RqSeesReturn, RqSeesException, Leave, Goto, TypeOK
<1>00. task[w] \in Jobs /\ left[w] \in Nat
  BY <1>0 DEF TypeOK
<1>1. CASE task[w] # j
  <2>1. /\ transport'[j] = transport[j] /\ retriesLeft'[j] = retriesLeft[j]
        /\ queued'[j] = queued[j] /\ scheduled'[j] = scheduled[j]
    <3>1. CASE RqSeesReturn(w)
      BY <1>1, <3>1 DEF RqSeesReturn, TypeOK
    <3>2. CASE RqSeesException(w)
      BY <1>00, <1>1, <3>2, RetryOrFailEffect DEF RqSeesException
    <3> QED
      BY <3>1, <3>2
  <2>2. \A v \in Workers : task'[v] = j => v # w
    BY <1>0, JobsAssumption
  <2> QED
    BY <1>0, <2>1, <2>2, KeptFrame
<1>2. CASE task[w] = j
  <2>1. /\ \A v \in Workers \ {w} : task[v] # j
        /\ left[w] = retriesLeft[j] /\ Waiting(j) = 0 /\ orphans[j] = 0
        /\ attempts[j] + retriesLeft[j] <= MaxAttempts[j]
    BY <1>2, Executor
  <2>2. \A v \in Workers : task'[v] # j
    BY <1>0, <2>1, JobsAssumption
  <2>3. CASE RqSeesReturn(w)
    <3>0. attempts[j] \in Nat /\ retriesLeft[j] \in Nat /\ MaxAttempts[j] \in Nat
      BY Figures
    <3>1. /\ transport'[j] = "finished" /\ retriesLeft'[j] = retriesLeft[j]
          /\ queued' = queued /\ scheduled' = scheduled
      BY <1>2, <2>1, <2>3 DEF RqSeesReturn, TypeOK
    <3>2. Waiting(j)' = 0
      BY <2>1, <3>1 DEF Waiting
    <3>3. (attempts[j] + retriesLeft[j] + Waiting(j) <= MaxAttempts[j])'
      BY <1>0, <2>1, <3>1, <3>2, <3>0
    <3>4. (Waiting(j) + orphans[j] <= 1)'
      BY <1>0, <2>1, <3>2
    <3> QED
      BY <2>2, <3>1, <3>3, <3>4, KeptIdle
  <2>4. CASE RqSeesException(w)
    <3>1. RetryOrFail(j, retriesLeft[j])
      BY <1>2, <2>1, <2>4 DEF RqSeesException
    <3> QED
      BY <1>0, <2>1, <2>2, <3>1, RetryKeeps
  <2> QED
    BY <2>3, <2>4
<1> QED
  BY <1>1, <1>2

(* A registered execution dies: its entry stays behind, and nothing else.   *)
LEMMA DeathKeeps ==
    ASSUME TypeOK, NEW j \in Jobs, Kept(j), NEW w \in Workers, WorkerDies(w)
    PROVE  Kept(j)'
<1>0. /\ UNCHANGED <<rows, transport, retriesLeft, queued, scheduled>> /\ pc[w] # "idle"
      /\ task'[w] = NoJob /\ task[w] \in Jobs
      /\ orphans' = [orphans EXCEPT ![task[w]] = IF registered[w] THEN @ + 1 ELSE @]
      /\ \A v \in Workers \ {w} : /\ pc'[v] = pc[v] /\ task'[v] = task[v] /\ left'[v] = left[v]
                                  /\ attempt'[v] = attempt[v] /\ registered'[v] = registered[v]
  BY DEF WorkerDies, Leave, Goto, TypeOK
<1>1. CASE task[w] # j
  <2>1. orphans'[j] = orphans[j]
    BY <1>0, <1>1 DEF TypeOK
  <2>2. \A v \in Workers : task'[v] = j => v # w
    BY <1>0, JobsAssumption
  <2> QED
    BY <1>0, <2>1, <2>2, KeptFrame
<1>2. CASE task[w] = j
  <2>1. /\ \A v \in Workers \ {w} : task[v] # j
        /\ registered[w] /\ transport[j] # "absent" /\ Waiting(j) = 0 /\ orphans[j] = 0
        /\ attempts[j] + retriesLeft[j] <= MaxAttempts[j]
    BY <1>2, Executor
  <2>2. \A v \in Workers : task'[v] # j
    BY <1>0, <2>1, JobsAssumption
  <2>0. attempts[j] \in Nat /\ retriesLeft[j] \in Nat /\ MaxAttempts[j] \in Nat
    BY Figures
  <2>3. orphans'[j] = 1
    BY <1>0, <1>2, <2>1 DEF TypeOK
  <2>4. Waiting(j)' = 0
    BY <1>0, <2>1 DEF Waiting
  <2>5. (attempts[j] + retriesLeft[j] + Waiting(j) <= MaxAttempts[j])'
    BY <1>0, <2>1, <2>4, <2>0
  <2> QED
    BY <1>0, <2>1, <2>2, <2>3, <2>4, <2>5, KeptIdle
<1> QED
  BY <1>1, <1>2

(* A live worker loses its heartbeat: the other jobs do not notice.         *)
LEMMA HeartbeatKeeps ==
    ASSUME TypeOK, NEW j \in Jobs, Kept(j), NEW w \in Workers, LoseHeartbeat(w), task[w] # j
    PROVE  Kept(j)'
<1>1. task[w] \in Jobs /\ retriesLeft[task[w]] \in Nat /\ RetryOrFail(task[w], retriesLeft[task[w]])
      /\ registered' = [registered EXCEPT ![w] = FALSE]
      /\ UNCHANGED <<rows, orphans, pc, task, attempt, left>>
  BY DEF LoseHeartbeat, TypeOK
<1>2. /\ transport'[j] = transport[j] /\ retriesLeft'[j] = retriesLeft[j]
      /\ queued'[j] = queued[j] /\ scheduled'[j] = scheduled[j]
  BY <1>1, RetryOrFailEffect
<1>3. \A v \in Workers : task'[v] = j => registered'[v] = registered[v]
  BY <1>1 DEF TypeOK
<1> QED
  BY <1>1, <1>2, <1>3, KeptFrame

(* A job once overtaken stays so: only the loss of a heartbeat counts.      *)
LEMMA StaysOvertaken ==
    ASSUME TypeOK, NEW j \in Jobs, [Next]_vars, NeverOvertaken(j)'
    PROVE  NeverOvertaken(j)
<1>1. CASE UNCHANGED partitions
  BY <1>1 DEF NeverOvertaken
<1>2. ASSUME NEW w \in Workers, LoseHeartbeat(w) PROVE NeverOvertaken(j)
  <2>1. /\ partitions' = [partitions EXCEPT ![task[w]] = @ + 1]
        /\ partitions \in [Jobs -> Nat] /\ partitions'[j] = 0
    BY <1>2 DEF LoseHeartbeat, NeverOvertaken, TypeOK
  <2> QED
    BY <2>1 DEF NeverOvertaken
<1> QED
  BY <1>1, <1>2
     DEF Next, Producer, Delivery, Faults, WorkerStep, Record, HandOff, SchedulerTick, Abandon,
         Take, BeginRead, BeginCommit, HandlerReturns, HandlerRaises, HandlerRaisesPermanent,
         HandlerEnds, RecordSuccess, RecordFailure, RecordPermanent, RqSeesReturn,
         RqSeesException, HandOffLost, TransactionFails, WorkerDies

(* Every step keeps the budget of a job that is not overtaken by it: one    *)
(* step of the proof per action.                                            *)
LEMMA KeptStep ==
    ASSUME TypeOK, TypeOK', NEW j \in Jobs, NeverOvertaken(j) => Kept(j), [Next]_vars,
           NeverOvertaken(j)'
    PROVE  Kept(j)'
<1>0. NeverOvertaken(j)
  BY StaysOvertaken
<1>00. Kept(j)
  BY <1>0
<1>1. ASSUME NEW i \in Jobs, Producer(i) \/ HandOffLost(i) PROVE Kept(j)'
  <2>1. CASE HandOff(i)
    BY <1>00, <2>1, HandOffKeeps
  <2>2. CASE Record(i) \/ HandOffLost(i)
    <3>1. transport'[j] = "absent" => transport[j] = "absent"
      BY <2>2 DEF Record, HandOffLost, TypeOK
    <3> QED
      BY <1>00, <2>2, <3>1, KeptFrame DEF Record, HandOffLost
  <2> QED
    BY <1>1, <2>1, <2>2 DEF Producer
<1>2. ASSUME NEW i \in Jobs, Delivery(i) PROVE Kept(j)'
  BY <1>00, <1>2, TickKeeps, AbandonKeeps, TakeKeeps DEF Delivery
<1>3. ASSUME NEW w \in Workers, WorkerStep(w) PROVE Kept(j)'
  <2>1. CASE BeginRead(w) \/ BeginCommit(w)
    BY <1>00, <2>1, BeginKeeps
  <2>2. CASE RqSeesReturn(w) \/ RqSeesException(w)
    BY <1>00, <2>2, LeaveKeeps
  <2>3. CASE \/ HandlerReturns(w) \/ HandlerRaises(w) \/ HandlerRaisesPermanent(w)
             \/ RecordSuccess(w) \/ RecordFailure(w) \/ RecordPermanent(w)
    <3>1. /\ UNCHANGED <<attempts, redis, task, attempt, left, registered>>
          /\ pc[w] \in Captured /\ pc'[w] # "begin" /\ \A v \in Workers \ {w} : pc'[v] = pc[v]
      BY <2>3 DEF HandlerReturns, HandlerRaises, HandlerRaisesPermanent, HandlerEnds,
                  RecordSuccess, RecordFailure, RecordPermanent, Goto, Captured, TypeOK
    <3> QED
      BY <1>00, <3>1, KeptFrame
  <2> QED
    BY <1>3, <2>1, <2>2, <2>3 DEF WorkerStep
<1>4. ASSUME NEW w \in Workers, TransactionFails(w) PROVE Kept(j)'
  <2>1. /\ UNCHANGED <<rows, redis, task, attempt, left, registered>>
        /\ pc'[w] = "raised" /\ \A v \in Workers \ {w} : pc'[v] = pc[v]
    BY <1>4 DEF TransactionFails, Goto, TypeOK
  <2>2. \A v \in Workers : /\ pc'[v] = "begin" => pc[v] = "begin"
                           /\ pc'[v] \in Captured => pc[v] \in Captured
    BY <2>1 DEF Captured
  <2> QED
    BY <1>00, <2>1, <2>2, KeptFrame
<1>5. ASSUME NEW w \in Workers, WorkerDies(w) PROVE Kept(j)'
  BY <1>00, <1>5, DeathKeeps
<1>6. ASSUME NEW w \in Workers, LoseHeartbeat(w) PROVE Kept(j)'
  <2>1. task[w] # j
    BY <1>0, <1>6 DEF LoseHeartbeat, NeverOvertaken, TypeOK
  <2> QED
    BY <1>00, <1>6, <2>1, HeartbeatKeeps
<1>7. CASE UNCHANGED vars
  BY <1>00, <1>7, KeptFrame
<1> QED
  BY <1>1, <1>2, <1>3, <1>4, <1>5, <1>6, <1>7 DEF Next, Faults

(* The strengthening of the two results below, inductive by itself: as long *)
(* as no heartbeat of a job was lost, RQ knows the job in one place, and    *)
(* the attempts counted or captured, the retries left and what waits stay   *)
(* within max_attempts together.                                            *)
THEOREM QueueInvariant == Spec => []QueueInv
<1> DEFINE Budgets == \A j \in Jobs : NeverOvertaken(j) => Kept(j)
<1>1. Init => Budgets
  <2> SUFFICES ASSUME Init, NEW j \in Jobs PROVE Kept(j)
    OBVIOUS
  <2>1. Waiting(j) = 0 /\ orphans[j] = 0 /\ attempts[j] = 0 /\ retriesLeft[j] = 0
    BY DEF Init, Waiting
  <2>2. \A w \in Workers : task[w] # j
    BY JobsAssumption DEF Init
  <2>3. MaxAttempts[j] \in Nat
    BY JobsAssumption
  <2> QED
    BY <2>1, <2>2, <2>3 DEF Kept, OneDelivery, WithinBudget
<1>2. TypeOK /\ TypeOK' /\ Budgets /\ [Next]_vars => Budgets'
  <2> SUFFICES ASSUME TypeOK, TypeOK', Budgets, [Next]_vars, NEW j \in Jobs, NeverOvertaken(j)'
               PROVE  Kept(j)'
    OBVIOUS
  <2> QED
    BY KeptStep
<1>3. TypeOK /\ Budgets <=> QueueInv
  BY DEF QueueInv, Kept
<1> QED
  BY <1>1, <1>2, <1>3, TypeCorrect, PTL DEF Spec

(* A job whose executions kept their heartbeats runs no more often than     *)
(* jobs.max_attempts allows, whatever crashes, failed transactions, lost    *)
(* hand-offs and redeliveries occur, to it or to other jobs.                *)
THEOREM AttemptsWithinBudget == Spec => []AttemptsBudget
<1>1. QueueInv => AttemptsBudget
  <2> SUFFICES ASSUME QueueInv, NEW j \in Jobs, NeverOvertaken(j)
               PROVE  attempts[j] <= MaxAttempts[j]
    BY DEF AttemptsBudget
  <2>1. TypeOK /\ attempts[j] + retriesLeft[j] + Waiting(j) <= MaxAttempts[j]
    BY DEF QueueInv, WithinBudget
  <2>2. /\ attempts[j] \in Nat /\ retriesLeft[j] \in Nat /\ Waiting(j) \in Nat
        /\ MaxAttempts[j] \in Nat
    BY <2>1, Figures
  <2> QED
    BY <2>1, <2>2
<1> QED
  BY <1>1, QueueInvariant, PTL

(* No retry left and nothing waiting: an execution that failed adds none.   *)
LEMMA RetryNothing ==
    ASSUME TypeOK, NEW j \in Jobs, retriesLeft[j] = 0, Waiting(j) = 0,
           NEW i \in Jobs, NEW n \in Nat, RetryOrFail(i, n), i = j => n = 0
    PROVE  (retriesLeft[j] = 0 /\ Waiting(j) = 0)'
<1>1. retriesLeft'[j] = 0 /\ queued'[j] = queued[j] /\ scheduled'[j] = scheduled[j]
  BY RetryOrFailEffect
<1> QED
  BY <1>1 DEF Waiting

(* A dead-lettered job without retries gets none from any step.             *)
LEMMA DownStep ==
    ASSUME TypeOK, NEW j \in Jobs, Kept(j), [Next]_vars, NeverOvertaken(j)',
           status[j] = "dead_letter", retriesLeft[j] = 0, Waiting(j) = 0
    PROVE  (retriesLeft[j] = 0 /\ Waiting(j) = 0)'
<1>0. queued[j] = 0 /\ scheduled[j] = FALSE
  BY Figures
<1>1. CASE UNCHANGED <<retriesLeft, queued, scheduled>>
  BY <1>1 DEF Waiting
<1>2. ASSUME NEW i \in Jobs, HandOff(i) \/ SchedulerTick(i) PROVE (retriesLeft[j] = 0 /\ Waiting(j) = 0)'
  <2>1. i # j
    BY <1>0, <1>2 DEF HandOff, SchedulerTick
  <2>2. retriesLeft'[j] = 0 /\ queued'[j] = queued[j] /\ scheduled'[j] = scheduled[j]
    BY <1>2, <2>1 DEF HandOff, SchedulerTick, Push, TypeOK
  <2> QED
    BY <2>2 DEF Waiting
<1>3. ASSUME NEW i \in Jobs, Abandon(i) PROVE (retriesLeft[j] = 0 /\ Waiting(j) = 0)'
  <2>1. retriesLeft[i] \in Nat /\ RetryOrFail(i, retriesLeft[i])
    BY <1>3, Figures DEF Abandon
  <2> QED
    BY <2>1, RetryNothing
<1>4. ASSUME NEW i \in Jobs, NEW w \in Workers, Take(w, i)
      PROVE  (retriesLeft[j] = 0 /\ Waiting(j) = 0)'
  <2>1. i # j
    BY <1>0, <1>4 DEF Take
  <2>2. retriesLeft'[j] = 0 /\ queued'[j] = queued[j] /\ scheduled'[j] = scheduled[j]
    BY <1>4, <2>1 DEF Take, TypeOK
  <2> QED
    BY <2>2 DEF Waiting
<1>5. ASSUME NEW w \in Workers, RqSeesReturn(w) PROVE (retriesLeft[j] = 0 /\ Waiting(j) = 0)'
  <2>1. task[w] = j => left[w] = 0
    BY Executor
  <2>2. task[w] \in Jobs
    BY <1>5 DEF RqSeesReturn, TypeOK
  <2>3. retriesLeft'[j] = 0 /\ queued' = queued /\ scheduled' = scheduled
    BY <1>5, <2>1, <2>2 DEF RqSeesReturn, TypeOK
  <2> QED
    BY <2>3 DEF Waiting
<1>6. ASSUME NEW w \in Workers, RqSeesException(w) PROVE (retriesLeft[j] = 0 /\ Waiting(j) = 0)'
  <2>1. task[w] = j => left[w] = 0
    BY Executor
  <2>2. task[w] \in Jobs /\ left[w] \in Nat /\ RetryOrFail(task[w], left[w])
    BY <1>6 DEF RqSeesException, TypeOK
  <2> QED
    BY <2>1, <2>2, RetryNothing
<1>7. ASSUME NEW w \in Workers, LoseHeartbeat(w) PROVE (retriesLeft[j] = 0 /\ Waiting(j) = 0)'
  <2>1. task[w] \in Jobs /\ retriesLeft[task[w]] \in Nat /\ RetryOrFail(task[w], retriesLeft[task[w]])
    BY <1>7 DEF LoseHeartbeat, TypeOK
  <2> QED
    BY <2>1, RetryNothing
<1> QED
  BY <1>1, <1>2, <1>3, <1>4, <1>5, <1>6, <1>7
     DEF Next, Producer, Delivery, Faults, WorkerStep, Record, BeginRead, BeginCommit,
         HandlerReturns, HandlerRaises, HandlerRaisesPermanent, HandlerEnds, RecordSuccess,
         RecordFailure, RecordPermanent, HandOffLost, TransactionFails, WorkerDies

(* A job dead-lettered for exhausted attempts, no heartbeat of which was    *)
(* lost, is never in RQ's hands again.                                      *)
THEOREM ExhaustedIsFinalForQueue == Spec => []ExhaustedStaysDown
<1>1. Init => ExhaustedStaysDown
  BY DEF Init, ExhaustedStaysDown
<1>2. ASSUME QueueInv, QueueInv', ExhaustedStaysDown, [Next]_vars PROVE ExhaustedStaysDown'
  <2> SUFFICES ASSUME NEW j \in Jobs, NeverOvertaken(j)', (status[j] = "dead_letter" /\ error[j] = "transient")'
               PROVE  (retriesLeft[j] = 0 /\ Waiting(j) = 0)'
    BY DEF ExhaustedStaysDown
  <2>0. TypeOK /\ TypeOK'
    BY <1>2 DEF QueueInv
  <2>1. NeverOvertaken(j)
    BY <1>2, <2>0, StaysOvertaken
  <2>2. Kept(j) /\ Kept(j)'
    BY <1>2, <2>1 DEF QueueInv, Kept
  <2>3. status[j] = "dead_letter" /\ error[j] = "transient" => retriesLeft[j] = 0 /\ Waiting(j) = 0
    BY <1>2, <2>1 DEF ExhaustedStaysDown
  <2>4. CASE ~(status[j] = "dead_letter" /\ error[j] = "transient")
    <3>1. PICK w \in Workers : RecordFailure(w) /\ task[w] = j
      BY <1>2, <2>0, <2>4
         DEF Next, Producer, Delivery, Faults, WorkerStep, Record, HandOff, SchedulerTick, Abandon,
             Take, BeginRead, BeginCommit, HandlerReturns, HandlerRaises, HandlerRaisesPermanent,
             HandlerEnds, RecordSuccess, RecordFailure, RecordPermanent, RqSeesReturn,
             RqSeesException, HandOffLost, TransactionFails, WorkerDies, LoseHeartbeat, TypeOK
    <3>2. /\ pc[w] \in Captured /\ attempt[w] \in Nat /\ retriesLeft' = retriesLeft
          /\ queued' = queued /\ scheduled' = scheduled
      BY <2>0, <3>1 DEF RecordFailure, Captured, TypeOK
    <3>3. attempt[w] >= MaxAttempts[j]
      BY <2>0, <3>1 DEF RecordFailure, TypeOK
    <3>4. attempt[w] + retriesLeft[j] <= MaxAttempts[j] /\ Waiting(j) = 0
      BY <2>0, <2>2, <3>1, <3>2, Executor
    <3>5. retriesLeft[j] \in Nat /\ MaxAttempts[j] \in Nat
      BY <2>0, Figures
    <3>6. retriesLeft[j] = 0
      BY <3>2, <3>3, <3>4, <3>5
    <3> QED
      BY <3>2, <3>4, <3>6 DEF Waiting
  <2>5. CASE status[j] = "dead_letter" /\ error[j] = "transient"
    <3>1. retriesLeft[j] = 0 /\ Waiting(j) = 0
      BY <2>3, <2>5
    <3> QED
      BY <1>2, <2>0, <2>2, <2>5, <3>1, DownStep
  <2> QED
    BY <2>4, <2>5
<1> QED
  BY <1>1, <1>2, QueueInvariant, PTL DEF Spec

-----------------------------------------------------------------------------
(* Without faults.  When no transaction fails, no worker dies and no        *)
(* heartbeat is lost (hand-offs to Redis may be), for every set of jobs and *)
(* workers and every attempt limit, with or without a scheduler, the jobs   *)
(* table and RQ never contradict each other, and the table goes through the *)
(* lifecycle JobLifecycle promises.                                         *)

Faultless == MaxDbFaults = 0 /\ MaxCrashes = 0 /\ MaxPartitions = 0

-----------------------------------------------------------------------------
(* The inductive invariant: a job waits, runs in exactly one worker or is   *)
(* done with; the row's count and RQ's counter add up to the limit, with    *)
(* one more for a delivery that is not counted yet.                         *)

Ahead(j) ==
    status[j] \in {"queued", "failed"} /\ attempts[j] + 1 + retriesLeft[j] = MaxAttempts[j]

Spent(j) == attempts[j] + retriesLeft[j] = MaxAttempts[j]

JobStory(j) ==
    /\ transport[j] \in {"absent", "lost"} =>
            status[j] \in {"absent", "queued"} /\ attempts[j] = 0
    /\ transport[j] \in {"queued", "scheduled"} => Ahead(j)
    /\ transport[j] \in {"finished", "failed"} => status[j] \in Terminal
    /\ queued[j] = IF transport[j] = "queued" THEN 1 ELSE 0
    /\ scheduled[j] => transport[j] = "scheduled"
    /\ orphans[j] = 0

Running == {"handler", "record_success", "record_failure", "record_permanent"}

WorkerStory(w) ==
    pc[w] # "idle" =>
        /\ transport[task[w]] = "started" /\ left[w] = retriesLeft[task[w]]
        /\ pc[w] # "reopened"
        /\ pc[w] \in {"begin", "opened"} => Ahead(task[w])
        /\ pc[w] = "opened" => attempt[w] = attempts[task[w]] + 1
        /\ pc[w] \in Running =>
                status[task[w]] = "running" /\ Spent(task[w]) /\ attempt[w] = attempts[task[w]]
        /\ pc[w] = "raised" =>
                /\ Spent(task[w])
                /\ status[task[w]] = IF retriesLeft[task[w]] = 0 THEN "dead_letter" ELSE "failed"
        /\ pc[w] = "returned" => status[task[w]] \in Terminal

(* Two workers never execute the same job.                                  *)
Apart == \A v, w \in Workers : pc[v] # "idle" /\ pc[w] # "idle" /\ task[v] = task[w] => v = w

Story ==
    /\ TypeOK
    /\ \A j \in Jobs : JobStory(j)
    /\ \A w \in Workers : WorkerStory(w)
    /\ Apart

(* A step on one job, by one worker, leaves the others' stories alone.      *)
LEMMA StoryFrame ==
    ASSUME Story, TypeOK', NEW j \in Jobs, NEW w \in Workers,
           \A i \in Jobs \ {j} :
                /\ status'[i] = status[i] /\ attempts'[i] = attempts[i]
                /\ transport'[i] = transport[i] /\ retriesLeft'[i] = retriesLeft[i]
                /\ queued'[i] = queued[i] /\ scheduled'[i] = scheduled[i]
                /\ orphans'[i] = orphans[i],
           \A v \in Workers \ {w} :
                /\ pc'[v] = pc[v] /\ task'[v] = task[v] /\ attempt'[v] = attempt[v]
                /\ left'[v] = left[v]
                /\ pc[v] # "idle" => task[v] # j,
           pc'[w] # "idle" => task'[w] = j,
           JobStory(j)', WorkerStory(w)'
    PROVE  Story'
<1>1. ASSUME NEW i \in Jobs \ {j} PROVE JobStory(i)'
  BY DEF Story, JobStory, Ahead
<1>2. ASSUME NEW v \in Workers \ {w} PROVE WorkerStory(v)'
  <2>1. WorkerStory(v) /\ pc'[v] = pc[v] /\ task'[v] = task[v] /\ attempt'[v] = attempt[v]
        /\ left'[v] = left[v]
    BY DEF Story
  <2>2. CASE pc[v] = "idle"
    BY <2>1, <2>2 DEF WorkerStory
  <2>3. CASE pc[v] # "idle"
    <3>1. task[v] \in Jobs \ {j}
      BY <2>3 DEF Story, TypeOK
    <3> QED
      BY <2>1, <3>1 DEF WorkerStory, Ahead, Spent
  <2> QED
    BY <2>2, <2>3
<1>3. Apart'
  BY DEF Story, Apart
<1> QED
  BY <1>1, <1>2, <1>3 DEF Story

(* A step on a job nobody executes leaves the workers' stories alone.       *)
LEMMA WaitingFrame ==
    ASSUME Story, TypeOK', NEW j \in Jobs, UNCHANGED procs,
           \A v \in Workers : pc[v] # "idle" => task[v] # j,
           \A i \in Jobs \ {j} :
                /\ status'[i] = status[i] /\ attempts'[i] = attempts[i]
                /\ transport'[i] = transport[i] /\ retriesLeft'[i] = retriesLeft[i]
                /\ queued'[i] = queued[i] /\ scheduled'[i] = scheduled[i]
                /\ orphans'[i] = orphans[i],
           JobStory(j)'
    PROVE  Story'
<1>1. ASSUME NEW i \in Jobs \ {j} PROVE JobStory(i)'
  BY DEF Story, JobStory, Ahead
<1>2. ASSUME NEW v \in Workers PROVE WorkerStory(v)'
  <2>1. WorkerStory(v) /\ (pc[v] # "idle" => task[v] \in Jobs \ {j})
    BY DEF Story, TypeOK
  <2>2. CASE pc[v] = "idle"
    BY <2>1, <2>2 DEF WorkerStory
  <2>3. CASE pc[v] # "idle"
    BY <2>1, <2>3 DEF WorkerStory, Ahead, Spent
  <2> QED
    BY <2>2, <2>3
<1>3. Apart'
  BY DEF Story, Apart
<1> QED
  BY <1>1, <1>2, <1>3 DEF Story

(* A step of run_job in w: RQ's fields stay.                                *)
LEMMA RunJobFrame ==
    ASSUME Story, TypeOK', NEW w \in Workers, pc[w] # "idle", UNCHANGED <<redis, task, left>>,
           NEW line \in Lines \ {"idle"}, Goto(w, line),
           \A i \in Jobs \ {task[w]} : status'[i] = status[i] /\ attempts'[i] = attempts[i],
           \A v \in Workers \ {w} : attempt'[v] = attempt[v],
           WorkerStory(w)'
    PROVE  Story'
<1> DEFINE j == task[w]
<1>1. /\ j \in Jobs /\ transport[j] = "started"
      /\ pc'[w] # "idle" /\ \A v \in Workers \ {w} : pc'[v] = pc[v]
  BY DEF Story, WorkerStory, TypeOK, Goto
<1>2. JobStory(j)'
  BY <1>1 DEF JobStory, Story
<1>3. \A v \in Workers \ {w} : pc[v] # "idle" => task[v] # j
  BY DEF Story, Apart
<1> QED
  BY <1>1, <1>2, <1>3, StoryFrame

-----------------------------------------------------------------------------
LEMMA StoryInit == Init => Story
<1> SUFFICES ASSUME Init PROVE Story
  OBVIOUS
<1>1. TypeOK
  BY JobsAssumption DEF Init, TypeOK, Statuses, Transports, Lines
<1> QED
  BY <1>1 DEF Init, Story, JobStory, WorkerStory, Apart

LEMMA ProducerStory ==
    ASSUME Story, TypeOK', NEW j \in Jobs, Producer(j) \/ SchedulerTick(j) \/ HandOffLost(j)
    PROVE  Story'
<1>1. TypeOK /\ JobStory(j)
  BY DEF Story
<1>2. CASE Record(j)
  <2>1. status[j] = "absent" /\ status'[j] = "queued" /\ UNCHANGED <<attempts, redis, procs>>
    BY <1>1, <1>2 DEF Record, TypeOK
  <2>2. transport[j] \in {"absent", "lost"} \/ transport[j] = "started"
    BY <1>1, <2>1 DEF JobStory, Ahead, TypeOK, Terminal, Transports
  <2>3. JobStory(j)'
    BY <1>1, <2>1, <2>2 DEF JobStory
  <2>4. \A v \in Workers : pc[v] # "idle" => task[v] # j
    BY <2>1 DEF Story, WorkerStory, Ahead, Running, Terminal, TypeOK, Lines
  <2> QED
    BY <1>2, <2>1, <2>3, <2>4, WaitingFrame DEF Record, Story, TypeOK
<1>3. CASE HandOff(j)
  <2>1. /\ transport[j] = "absent" /\ transport'[j] = "queued" /\ status'[j] = "queued"
        /\ attempts'[j] = 0 /\ retriesLeft'[j] = MaxAttempts[j] - 1 /\ MaxAttempts[j] \in Nat
    <3>1. MaxAttempts[j] \in Nat /\ Retries(MaxAttempts[j]) = MaxAttempts[j] - 1
      BY JobsAssumption DEF Retries
    <3>2. /\ transport' = [transport EXCEPT ![j] = "queued"]
          /\ retriesLeft' = [retriesLeft EXCEPT ![j] = Retries(MaxAttempts[j])]
          /\ transport[j] = "absent" /\ status[j] = "queued" /\ UNCHANGED rows
      BY <1>3 DEF HandOff, Push
    <3>3. attempts[j] = 0
      BY <1>1, <3>2 DEF JobStory
    <3> QED
      BY <1>1, <3>1, <3>2, <3>3 DEF TypeOK
  <2>2. queued'[j] = 1 /\ scheduled'[j] = scheduled[j] /\ orphans'[j] = orphans[j]
    BY <1>1, <1>3, <2>1 DEF HandOff, Push, JobStory, TypeOK
  <2>3. JobStory(j)'
    BY <1>1, <2>1, <2>2 DEF JobStory, Ahead
  <2>4. \A v \in Workers : pc[v] # "idle" => task[v] # j
    BY <2>1 DEF Story, WorkerStory
  <2> QED
    BY <1>3, <2>1, <2>3, <2>4, WaitingFrame DEF HandOff, Push, Story, TypeOK
<1>4. CASE SchedulerTick(j)
  <2>1. /\ transport[j] = "scheduled" /\ queued[j] = 0 /\ orphans[j] = 0 /\ Ahead(j)
    BY <1>1, <1>4 DEF SchedulerTick, JobStory
  <2>2. /\ transport'[j] = "queued" /\ queued'[j] = 1 /\ scheduled'[j] = FALSE
        /\ UNCHANGED <<rows, retriesLeft, orphans>>
    BY <1>1, <1>4, <2>1 DEF SchedulerTick, Push, TypeOK
  <2>3. JobStory(j)'
    BY <2>1, <2>2 DEF JobStory, Ahead
  <2>4. \A v \in Workers : pc[v] # "idle" => task[v] # j
    BY <2>1 DEF Story, WorkerStory
  <2> QED
    BY <1>4, <2>1, <2>3, <2>4, WaitingFrame DEF SchedulerTick, Push, Story, TypeOK
<1>5. CASE HandOffLost(j)
  <2>1. JobStory(j)' /\ transport[j] # "started"
    BY <1>1, <1>5 DEF HandOffLost, TypeOK, JobStory
  <2>2. \A v \in Workers : pc[v] # "idle" => task[v] # j
    BY <2>1 DEF Story, WorkerStory
  <2> QED
    BY <1>5, <2>1, <2>2, WaitingFrame DEF HandOffLost, Story, TypeOK
<1> QED
  BY <1>2, <1>3, <1>4, <1>5 DEF Producer

LEMMA TakeStory ==
    ASSUME Story, TypeOK', NEW j \in Jobs, NEW w \in Workers, Take(w, j)
    PROVE  Story'
<1>1. /\ pc[w] = "idle" /\ transport[j] = "queued" /\ JobStory(j) /\ TypeOK
      /\ queued[j] = 1 /\ ~scheduled[j]
      /\ UNCHANGED <<rows, retriesLeft, scheduled, orphans, attempt>>
  BY DEF Take, Story, JobStory
<1>2. /\ pc'[w] = "begin" /\ task'[w] = j /\ transport'[j] = "started"
      /\ left'[w] = retriesLeft[j] /\ queued'[j] = 0
      /\ \A v \in Workers \ {w} : pc'[v] = pc[v] /\ task'[v] = task[v] /\ left'[v] = left[v]
      /\ \A i \in Jobs \ {j} : transport'[i] = transport[i] /\ queued'[i] = queued[i]
  BY <1>1 DEF Take, Goto, TypeOK
<1>3. \A v \in Workers : pc[v] # "idle" => task[v] # j
  BY <1>1 DEF Story, WorkerStory
<1>5. JobStory(j)'
  BY <1>1, <1>2 DEF JobStory
<1>6. WorkerStory(w)'
  BY <1>1, <1>2 DEF JobStory, WorkerStory, Ahead, Running
<1> QED
  BY <1>1, <1>2, <1>3, <1>5, <1>6, StoryFrame

LEMMA RunJobStory ==
    ASSUME Story, TypeOK', NEW w \in Workers,
           \/ BeginRead(w) \/ BeginCommit(w)
           \/ HandlerReturns(w) \/ HandlerRaises(w) \/ HandlerRaisesPermanent(w)
           \/ RecordSuccess(w) \/ RecordFailure(w) \/ RecordPermanent(w)
    PROVE  Story'
<1> DEFINE j == task[w]
<1>1. TypeOK /\ WorkerStory(w)
  BY DEF Story
<1>2. pc[w] # "idle" => j \in Jobs
  BY <1>1 DEF TypeOK
<1> USE DEF Goto
<1>3. CASE BeginRead(w)
  <2>1. /\ pc[w] = "begin" /\ j \in Jobs /\ UNCHANGED <<rows, redis, task, left>>
        /\ status[j] \in {"queued", "failed"}
    BY <1>1, <1>2, <1>3 DEF BeginRead, WorkerStory, Ahead
  <2>2. /\ Goto(w, "opened") /\ pc'[w] = "opened" /\ attempt'[w] = attempts[j] + 1
        /\ \A v \in Workers \ {w} : attempt'[v] = attempt[v]
    BY <1>1, <1>3, <2>1 DEF BeginRead, TypeOK
  <2>3. WorkerStory(w)'
    BY <1>1, <2>1, <2>2 DEF WorkerStory, Ahead, Running
  <2> QED
    BY <2>1, <2>2, <2>3, RunJobFrame DEF Lines
<1>4. CASE BeginCommit(w)
  <2>1. /\ pc[w] = "opened" /\ j \in Jobs /\ UNCHANGED <<redis, task, attempt, left>>
    BY <1>1, <1>2, <1>4 DEF BeginCommit, WorkerStory
  <2>2. /\ Goto(w, "handler") /\ pc'[w] = "handler"
        /\ status' = [status EXCEPT ![j] = "running"]
        /\ attempts' = [attempts EXCEPT ![j] = attempt[w]]
    BY <1>1, <1>4, <2>1 DEF BeginCommit, TypeOK
  <2>3. /\ status'[j] = "running" /\ attempts'[j] = attempt[w]
        /\ \A i \in Jobs \ {j} : status'[i] = status[i] /\ attempts'[i] = attempts[i]
    BY <1>1, <2>1, <2>2 DEF TypeOK
  <2>4. WorkerStory(w)'
    BY <1>1, <2>1, <2>2, <2>3 DEF WorkerStory, Ahead, Spent, Running
  <2> QED
    BY <2>1, <2>2, <2>3, <2>4, RunJobFrame DEF Lines
<1>5. CASE HandlerReturns(w) \/ HandlerRaises(w) \/ HandlerRaisesPermanent(w)
  <2>1. PICK line \in {"record_success", "record_failure", "record_permanent"} : HandlerEnds(w, line)
    BY <1>5 DEF HandlerReturns, HandlerRaises, HandlerRaisesPermanent
  <2>2. /\ pc[w] = "handler" /\ pc'[w] = line /\ Goto(w, line)
        /\ UNCHANGED <<rows, redis, task, attempt, left>>
    BY <1>1, <2>1 DEF HandlerEnds, TypeOK
  <2>3. WorkerStory(w)'
    BY <1>1, <2>2 DEF WorkerStory, Spent, Running
  <2> QED
    BY <2>2, <2>3, RunJobFrame DEF Lines
<1>6. CASE RecordSuccess(w) \/ RecordPermanent(w)
  <2>1. /\ pc[w] \in {"record_success", "record_permanent"} /\ j \in Jobs
        /\ Goto(w, "returned") /\ pc'[w] = "returned"
        /\ UNCHANGED <<attempts, redis, task, attempt, left>>
    BY <1>1, <1>2, <1>6 DEF RecordSuccess, RecordPermanent, TypeOK
  <2>2. status'[j] \in Terminal /\ \A i \in Jobs \ {j} : status'[i] = status[i]
    BY <1>1, <1>6, <2>1 DEF RecordSuccess, RecordPermanent, TypeOK, Terminal
  <2>3. WorkerStory(w)'
    BY <1>1, <2>1, <2>2 DEF WorkerStory, Running
  <2> QED
    BY <2>1, <2>2, <2>3, RunJobFrame DEF Lines
<1>7. CASE RecordFailure(w)
  <2>1. /\ pc[w] = "record_failure" /\ j \in Jobs
        /\ Goto(w, "raised") /\ pc'[w] = "raised"
        /\ UNCHANGED <<attempts, redis, task, attempt, left>>
    BY <1>1, <1>2, <1>7 DEF RecordFailure, TypeOK
  <2>2. /\ status'[j] = IF attempt[w] >= MaxAttempts[j] THEN "dead_letter" ELSE "failed"
        /\ \A i \in Jobs \ {j} : status'[i] = status[i]
    BY <1>1, <1>7, <2>1 DEF RecordFailure, TypeOK
  <2>3. attempts[j] + retriesLeft[j] = MaxAttempts[j] /\ attempt[w] = attempts[j]
    BY <1>1, <2>1 DEF WorkerStory, Spent, Running
  <2>4. attempts[j] \in Nat /\ retriesLeft[j] \in Nat /\ MaxAttempts[j] \in Nat
    BY <1>1, <2>1, JobsAssumption DEF TypeOK
  <2>5. attempt[w] >= MaxAttempts[j] <=> retriesLeft[j] = 0
    BY <2>3, <2>4
  <2>6. WorkerStory(w)'
    BY <1>1, <2>1, <2>2, <2>3, <2>5 DEF WorkerStory, Spent, Running
  <2> QED
    BY <2>1, <2>2, <2>6, RunJobFrame DEF Lines
<1> QED
  BY <1>3, <1>4, <1>5, <1>6, <1>7

(* RQ's half: it retries what the row calls failed, and no more.            *)
LEMMA LeaveStory ==
    ASSUME Story, TypeOK', NEW w \in Workers, RqSeesReturn(w) \/ RqSeesException(w)
    PROVE  Story'
<1>0. PICK j \in Jobs : j = task[w]
  BY DEF Story, RqSeesReturn, RqSeesException, TypeOK
<1>1. TypeOK /\ WorkerStory(w) /\ JobStory(j) /\ pc[w] \in {"returned", "raised"} /\ j = task[w]
  BY <1>0 DEF Story, RqSeesReturn, RqSeesException
<1>2. /\ transport[j] = "started" /\ left[w] = retriesLeft[j] /\ UNCHANGED <<rows, orphans>>
      /\ queued[j] = 0 /\ ~scheduled[j] /\ orphans[j] = 0
  BY <1>1 DEF WorkerStory, JobStory, RqSeesReturn, RqSeesException
<1>3. /\ pc'[w] = "idle"
      /\ \A v \in Workers \ {w} : /\ pc'[v] = pc[v] /\ task'[v] = task[v]
                                  /\ attempt'[v] = attempt[v] /\ left'[v] = left[v]
  BY <1>1 DEF RqSeesReturn, RqSeesException, Leave, Goto, TypeOK
<1>4. WorkerStory(w)'
  BY <1>3 DEF WorkerStory
<1>5. /\ \A i \in Jobs \ {j} : /\ transport'[i] = transport[i] /\ retriesLeft'[i] = retriesLeft[i]
                               /\ queued'[i] = queued[i] /\ scheduled'[i] = scheduled[i]
      /\ JobStory(j)'
  <2>1. CASE RqSeesReturn(w)
    <3>1. /\ transport' = [transport EXCEPT ![j] = "finished"]
          /\ retriesLeft' = [retriesLeft EXCEPT ![j] = left[w]]
          /\ UNCHANGED <<queued, scheduled>> /\ pc[w] = "returned"
      BY <1>1, <2>1 DEF RqSeesReturn
    <3>2. transport'[j] = "finished" /\ status[j] \in Terminal
      BY <1>1, <3>1 DEF TypeOK, WorkerStory
    <3>3. JobStory(j)'
      BY <1>2, <3>1, <3>2 DEF JobStory
    <3> QED
      BY <1>1, <3>1, <3>3 DEF TypeOK
  <2>2. CASE RqSeesException(w)
    <3>0. retriesLeft[j] \in Nat
      BY <1>1 DEF TypeOK
    <3>1. RetryOrFail(j, retriesLeft[j]) /\ pc[w] = "raised"
      BY <1>1, <1>2, <2>2 DEF RqSeesException
    <3>2. /\ Spent(j) /\ status[j] = IF retriesLeft[j] = 0 THEN "dead_letter" ELSE "failed"
          /\ attempts[j] \in Nat /\ MaxAttempts[j] \in Nat
      BY <1>1, <3>1, JobsAssumption DEF TypeOK, WorkerStory
    <3>3. \A i \in Jobs \ {j} : /\ transport'[i] = transport[i] /\ retriesLeft'[i] = retriesLeft[i]
                                /\ queued'[i] = queued[i] /\ scheduled'[i] = scheduled[i]
      BY <1>1, <3>0, <3>1, RetryOrFailEffect
    <3>4. CASE retriesLeft[j] # 0
      <4>1. /\ retriesLeft'[j] = retriesLeft[j] - 1
            /\ \/ transport'[j] = "queued" /\ queued'[j] = queued[j] + 1 /\ scheduled'[j] = scheduled[j]
               \/ transport'[j] = "scheduled" /\ queued'[j] = queued[j] /\ scheduled'[j] = TRUE
        BY <1>1, <3>0, <3>1, <3>4, RetryOrFailEffect
      <4>2. Ahead(j)'
        BY <1>2, <3>0, <3>2, <3>4, <4>1 DEF Ahead, Spent
      <4>3. JobStory(j)'
        BY <1>2, <4>1, <4>2 DEF JobStory
      <4> QED
        BY <3>3, <4>3
    <3>5. CASE retriesLeft[j] = 0
      <4>1. transport'[j] = "failed" /\ queued'[j] = queued[j] /\ scheduled'[j] = scheduled[j]
        BY <1>1, <3>0, <3>1, <3>5, RetryOrFailEffect
      <4>2. JobStory(j)'
        BY <1>2, <3>2, <3>5, <4>1 DEF JobStory, Terminal
      <4> QED
        BY <3>3, <4>2
    <3> QED
      BY <3>4, <3>5
  <2> QED
    BY <2>1, <2>2
<1>6. \A v \in Workers \ {w} : pc[v] # "idle" => task[v] # j
  BY <1>1 DEF Story, Apart
<1> QED
  BY <1>1, <1>2, <1>3, <1>4, <1>5, <1>6, StoryFrame

LEMMA NoFaults ==
    ASSUME Faultless, TypeOK, NEW w \in Workers
    PROVE  ~(TransactionFails(w) \/ WorkerDies(w) \/ LoseHeartbeat(w))
<1>1. dbFaults \in Nat /\ crashes \in Nat
  BY DEF TypeOK
<1>2. registered[w] => partitions[task[w]] \in Nat
  BY DEF TypeOK
<1> QED
  BY <1>1, <1>2 DEF Faultless, TransactionFails, WorkerDies, LoseHeartbeat

LEMMA StoryStep == ASSUME Faultless, Story, TypeOK', [Next]_vars PROVE Story'
<1>1. ASSUME NEW j \in Jobs, Producer(j) \/ SchedulerTick(j) \/ HandOffLost(j) PROVE Story'
  BY <1>1, ProducerStory
<1>2. ASSUME NEW j \in Jobs, Abandon(j) PROVE Story'
  <2>1. orphans[j] > 0 /\ JobStory(j)
    BY <1>2 DEF Abandon, Story
  <2> QED
    BY <2>1 DEF JobStory
<1>3. ASSUME NEW j \in Jobs, NEW w \in Workers, Take(w, j) PROVE Story'
  BY <1>3, TakeStory
<1>4. ASSUME NEW w \in Workers, WorkerStep(w) PROVE Story'
  BY <1>4, RunJobStory, LeaveStory DEF WorkerStep
<1>5. ASSUME NEW w \in Workers, TransactionFails(w) \/ WorkerDies(w) \/ LoseHeartbeat(w)
      PROVE  Story'
  BY <1>5, NoFaults DEF Story
<1>6. CASE UNCHANGED vars
  BY <1>6 DEF Story, JobStory, WorkerStory, Ahead, Spent, Apart
<1> QED
  BY <1>1, <1>2, <1>3, <1>4, <1>5, <1>6 DEF Next, Delivery, Faults

LEMMA AlwaysStory == ASSUME Faultless PROVE Spec => []Story
<1>1. Story /\ TypeOK' /\ [Next]_vars => Story'
  BY StoryStep
<1> QED
  BY <1>1, StoryInit, TypeCorrect, PTL DEF Spec

(* Without faults, a row that no worker is executing and RQ tell the same   *)
(* story: `failed` only while a retry is on its way, terminal iff RQ is     *)
(* done.                                                                    *)
THEOREM FaultlessAgreement == ASSUME Faultless PROVE Spec => []RowAgreesWithQueue
<1>1. Story => RowAgreesWithQueue
  <2> SUFFICES ASSUME Story, NEW j \in Jobs, transport[j] \notin {"absent", "lost", "started"}
               PROVE  /\ status[j] = "failed" => transport[j] \in {"queued", "scheduled"}
                      /\ status[j] \in Terminal <=> transport[j] \in {"finished", "failed"}
    BY DEF RowAgreesWithQueue
  <2>1. JobStory(j) /\ transport[j] \in Transports
    BY DEF Story, TypeOK
  <2>2. CASE transport[j] \in {"queued", "scheduled"}
    BY <2>1, <2>2 DEF JobStory, Ahead, Terminal
  <2>3. CASE transport[j] \in {"finished", "failed"}
    BY <2>1, <2>3 DEF JobStory, Terminal
  <2> QED
    BY <2>1, <2>2, <2>3 DEF Transports
<1> QED
  BY <1>1, AlwaysStory, PTL

-----------------------------------------------------------------------------
(* The jobs table implements JobLifecycle, but for its liveness.           *)

LEMMA RecordRefines ==
    ASSUME Story, NEW w \in Workers, RecordSuccess(w) \/ RecordPermanent(w) \/ RecordFailure(w)
    PROVE  Lifecycle!End(task[w]) /\ task[w] \in Jobs
<1>1. pc[w] \in {"record_success", "record_permanent", "record_failure"} /\ TypeOK /\ WorkerStory(w)
  BY DEF Story, RecordSuccess, RecordPermanent, RecordFailure
<1>2. task[w] \in Jobs /\ status[task[w]] = "running" /\ attempt[w] = attempts[task[w]]
  BY <1>1 DEF TypeOK, WorkerStory, Running
<1>3. attempts[task[w]] \in Nat /\ MaxAttempts[task[w]] \in Nat
  BY <1>1, <1>2, JobsAssumption DEF TypeOK
<1>4. PICK s \in {"succeeded", "dead_letter", "failed"} :
            /\ status' = [status EXCEPT ![task[w]] = s]
            /\ s = "failed" => attempts[task[w]] < MaxAttempts[task[w]]
  <2>1. CASE RecordSuccess(w) \/ RecordPermanent(w)
    BY <2>1 DEF RecordSuccess, RecordPermanent
  <2>2. CASE RecordFailure(w)
    <3>1. status' = [status EXCEPT ![task[w]] =
            IF attempts[task[w]] >= MaxAttempts[task[w]] THEN "dead_letter" ELSE "failed"]
      BY <1>2, <2>2 DEF RecordFailure
    <3>2. CASE attempts[task[w]] >= MaxAttempts[task[w]]
      BY <3>1, <3>2
    <3>3. CASE attempts[task[w]] < MaxAttempts[task[w]]
      BY <1>3, <3>1, <3>3
    <3> QED
      BY <1>3, <3>2, <3>3
  <2> QED
    BY <2>1, <2>2
<1>5. attempts' = attempts
  BY DEF RecordSuccess, RecordPermanent, RecordFailure
<1> QED
  BY <1>2, <1>4, <1>5 DEF Lifecycle!End

LEMMA BeginRefines ==
    ASSUME Story, NEW w \in Workers, BeginCommit(w)
    PROVE  Lifecycle!Start(task[w]) /\ task[w] \in Jobs
<1>1. pc[w] = "opened" /\ TypeOK /\ WorkerStory(w)
  BY DEF Story, BeginCommit, WorkerStory
<1>2. task[w] \in Jobs /\ Ahead(task[w]) /\ attempt[w] = attempts[task[w]] + 1
  BY <1>1 DEF TypeOK, WorkerStory
<1>3. /\ attempts[task[w]] \in Nat /\ retriesLeft[task[w]] \in Nat /\ MaxAttempts[task[w]] \in Nat
  BY <1>1, <1>2, JobsAssumption DEF TypeOK
<1>4. /\ status' = [status EXCEPT ![task[w]] = "running"]
      /\ attempts' = [attempts EXCEPT ![task[w]] = attempts[task[w]] + 1]
  BY <1>1, <1>2 DEF BeginCommit
<1> QED
  BY <1>2, <1>3, <1>4 DEF Lifecycle!Start, Ahead

(* Every step changes the table as JobLifecycle allows, or not at all.      *)
LEMMA StepRefines ==
    ASSUME Faultless, Story, [Next]_vars
    PROVE  Lifecycle!Next \/ UNCHANGED <<status, attempts>>
<1>1. ASSUME NEW j \in Jobs, Record(j) PROVE Lifecycle!Submit(j)
  BY <1>1 DEF Record, Lifecycle!Submit
<1>2. ASSUME NEW j \in Jobs, Delivery(j) \/ HandOff(j) \/ HandOffLost(j)
      PROVE  UNCHANGED <<status, attempts>>
  BY <1>2 DEF Delivery, HandOff, HandOffLost, SchedulerTick, Abandon, Take
<1>3. ASSUME NEW w \in Workers, WorkerStep(w)
      PROVE  Lifecycle!Next \/ UNCHANGED <<status, attempts>>
  <2>1. CASE BeginCommit(w)
    BY <2>1, BeginRefines DEF Lifecycle!Next
  <2>2. CASE RecordSuccess(w) \/ RecordPermanent(w) \/ RecordFailure(w)
    BY <2>2, RecordRefines DEF Lifecycle!Next
  <2>3. CASE UNCHANGED rows
    BY <2>3
  <2> QED
    BY <1>3, <2>1, <2>2, <2>3
       DEF WorkerStep, BeginRead, HandlerReturns, HandlerRaises, HandlerRaisesPermanent,
           HandlerEnds, RqSeesReturn, RqSeesException
<1>4. ASSUME NEW w \in Workers, TransactionFails(w) \/ WorkerDies(w) \/ LoseHeartbeat(w)
      PROVE  FALSE
  BY <1>4, NoFaults DEF Story
<1>5. CASE UNCHANGED vars
  BY <1>5
<1> QED
  BY <1>1, <1>2, <1>3, <1>4, <1>5 DEF Next, Producer, Faults, Lifecycle!Next

(* Without faults the jobs table goes through the lifecycle of runner.py's  *)
(* docstring: one submission, one attempt per run, a run from `queued` or   *)
(* `failed` within the limit, `failed` exactly while attempts are left.     *)
THEOREM FollowsLifecycle ==
    ASSUME Faultless
    PROVE  Spec => Lifecycle!Init /\ [][Lifecycle!Next]_<<status, attempts>>
<1>1. Init => Lifecycle!Init
  BY DEF Init, Lifecycle!Init
<1>2. Story /\ [Next]_vars => [Lifecycle!Next]_<<status, attempts>>
  BY StepRefines
<1> QED
  BY <1>1, <1>2, AlwaysStory, PTL DEF Spec

(* Without faults a job that succeeded or was dead-lettered is never run or *)
(* re-labelled again, although run_job does not look at the status.         *)
THEOREM FaultlessTerminal == ASSUME Faultless PROVE Spec => TerminalIsFinal
<1>1. Story /\ [Next]_vars =>
          [\A j \in Jobs : status[j] \in Terminal => status'[j] = status[j]]_vars
  <2> SUFFICES ASSUME Story, [Next]_vars, NEW j \in Jobs, status[j] \in Terminal
               PROVE  status'[j] = status[j]
    OBVIOUS
  <2>1. CASE UNCHANGED <<status, attempts>>
    BY <2>1
  <2>2. CASE Lifecycle!Next
    <3>1. PICK i \in Jobs : Lifecycle!Submit(i) \/ Lifecycle!Start(i) \/ Lifecycle!End(i)
      BY <2>2 DEF Lifecycle!Next
    <3>2. status[i] \notin Terminal /\ status \in [Jobs -> Statuses]
      BY <3>1 DEF Lifecycle!Submit, Lifecycle!Start, Lifecycle!End, Terminal, Story, TypeOK
    <3> QED
      BY <3>1, <3>2 DEF Lifecycle!Submit, Lifecycle!Start, Lifecycle!End
  <2> QED
    BY <2>1, <2>2, StepRefines
<1> QED
  BY <1>1, AlwaysStory, PTL DEF Spec, TerminalIsFinal
=============================================================================
