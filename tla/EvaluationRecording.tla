------------------------ MODULE EvaluationRecording ------------------------
(***************************************************************************)
(* The evaluation_run job (jobs/evaluation.py) under redelivery: several   *)
(* executions of one job may follow or overlap each other, and each reads  *)
(* whether the job's run is recorded, scores the benchmark for as long as  *)
(* that takes, and inserts.  The guard is stale by then, the unique        *)
(* constraint on evaluation_runs.job_id decides, and the IntegrityError it *)
(* raises is told apart from the foreign key's by a second read.           *)
(*                                                                         *)
(* Executions are the processes that may run the handler; which of them    *)
(* runs which job, how often and when is unrestricted, so this covers      *)
(* every schedule the queue can produce.                                   *)
(***************************************************************************)
EXTENDS Integers, FiniteSets

CONSTANTS Jobs, Executions, NoJob

ASSUME EvaluationAssumption == NoJob \notin Jobs

VARIABLES
    present,    \* jobs that are still rows of the jobs table
    byJob,      \* evaluation_runs: rows per job_id ...
    orphaned,   \* ... and rows whose job_id a pruned job left NULL
    pc, task    \* per execution: line of the handler, its job

vars == <<present, byJob, orphaned, pc, task>>

Lines == {"idle", "guard", "score", "insert", "conflict", "returned", "raised"}

Init ==
    /\ present = Jobs
    /\ byJob = [j \in Jobs |-> 0]
    /\ orphaned = [j \in Jobs |-> 0]
    /\ pc = [e \in Executions |-> "idle"]
    /\ task = [e \in Executions |-> NoJob]

Goto(e, line) == pc' = [pc EXCEPT ![e] = line]

(* run_job finds the job's row and calls the handler. *)
Start(e, j) ==
    /\ pc[e] = "idle" /\ j \in present
    /\ task' = [task EXCEPT ![e] = j]
    /\ Goto(e, "guard")
    /\ UNCHANGED <<present, byJob, orphaned>>

(* already_recorded. *)
Recorded(j) == byJob[j] > 0

Guard(e) ==
    /\ pc[e] = "guard"
    /\ Goto(e, IF Recorded(task[e]) THEN "returned" ELSE "score")
    /\ UNCHANGED <<present, byJob, orphaned, task>>

(* run_evaluation; without a predictor or a benchmark it raises instead. *)
Score(e) ==
    /\ pc[e] = "score"
    /\ Goto(e, "insert")
    /\ UNCHANGED <<present, byJob, orphaned, task>>

(* What the table refuses: a job_id it has already, one that is no job. *)
Refused__no_unique(j) == j \notin present

Refused(j) == Recorded(j) \/ j \notin present

(* record and its commit. *)
Insert(e) ==
    /\ pc[e] = "insert"
    /\ IF Refused(task[e])
       THEN Goto(e, "conflict") /\ UNCHANGED byJob
       ELSE /\ byJob' = [byJob EXCEPT ![task[e]] = @ + 1]
            /\ Goto(e, "returned")
    /\ UNCHANGED <<present, orphaned, task>>

Recheck__swallow(e) ==
    /\ pc[e] = "conflict"
    /\ Goto(e, "returned")
    /\ UNCHANGED <<present, byJob, orphaned, task>>

Recheck__raise(e) ==
    /\ pc[e] = "conflict"
    /\ Goto(e, "raised")
    /\ UNCHANGED <<present, byJob, orphaned, task>>

(* except IntegrityError: the run exists, or the error is raised again. *)
Recheck(e) ==
    /\ pc[e] = "conflict"
    /\ Goto(e, IF Recorded(task[e]) THEN "returned" ELSE "raised")
    /\ UNCHANGED <<present, byJob, orphaned, task>>

(* The handler has returned or raised the IntegrityError. *)
Leave(e) ==
    /\ pc[e] \in {"returned", "raised"}
    /\ Goto(e, "idle")
    /\ task' = [task EXCEPT ![e] = NoJob]
    /\ UNCHANGED <<present, byJob, orphaned>>

(* Any line raises another exception (no predictor, no benchmark, a lost    *)
(* connection), RQ's timeout interrupts it, or the process dies.  Nothing   *)
(* uncommitted stays.                                                       *)
Abort(e) ==
    /\ pc[e] \in {"guard", "score", "insert", "conflict"}
    /\ Goto(e, "idle")
    /\ task' = [task EXCEPT ![e] = NoJob]
    /\ UNCHANGED <<present, byJob, orphaned>>

(* The insert commits and the process dies, or its connection does, before  *)
(* it learns so.                                                            *)
CommitUnseen(e) ==
    /\ pc[e] = "insert" /\ ~Refused(task[e])
    /\ byJob' = [byJob EXCEPT ![task[e]] = @ + 1]
    /\ Goto(e, "idle")
    /\ task' = [task EXCEPT ![e] = NoJob]
    /\ UNCHANGED <<present, orphaned>>

(* A job is deleted: ON DELETE SET NULL keeps its run. *)
Prune(j) ==
    /\ j \in present
    /\ present' = present \ {j}
    /\ orphaned' = [orphaned EXCEPT ![j] = @ + byJob[j]]
    /\ byJob' = [byJob EXCEPT ![j] = 0]
    /\ UNCHANGED <<pc, task>>

Next ==
    \/ \E e \in Executions :
        \/ \E j \in Jobs : Start(e, j)
        \/ Guard(e) \/ Score(e) \/ Insert(e) \/ Recheck(e) \/ Leave(e)
        \/ Abort(e) \/ CommitUnseen(e)
    \/ \E j \in Jobs : Prune(j)

Spec == Init /\ [][Next]_vars

-----------------------------------------------------------------------------
(* Properties *)

TypeOK ==
    /\ present \subseteq Jobs
    /\ byJob \in [Jobs -> Nat]
    /\ orphaned \in [Jobs -> Nat]
    /\ pc \in [Executions -> Lines]
    /\ task \in [Executions -> Jobs \cup {NoJob}]
    /\ \A e \in Executions : pc[e] # "idle" <=> task[e] \in Jobs

(* However often a job is delivered, its executions add at most one run to  *)
(* the history, pruned jobs included ("a retried job cannot add a second    *)
(* row to the history", EvaluationRun.job_id).                              *)
OneRunPerJob == \A j \in Jobs : byJob[j] + orphaned[j] <= 1

(* An execution that returns normally, from which run_job concludes         *)
(* `succeeded`, leaves a run of its job in the history.                     *)
ReturnedMeansRecorded ==
    \A e \in Executions : pc[e] = "returned" => byJob[task[e]] + orphaned[task[e]] >= 1

(* An IntegrityError is raised only for a job that no longer exists: it     *)
(* never dead-letters a job whose work is committed ("the false alarm that  *)
(* then costs a manual requeue", evaluation_run).                           *)
NoFalseAlarm ==
    \A e \in Executions : pc[e] = "raised" => task[e] \notin present

(* What makes them inductive: a conflict remembers why the insert was       *)
(* refused, and a pruned job has no row under its id.                       *)
ConflictHasReason ==
    /\ \A e \in Executions : pc[e] = "conflict" =>
            Recorded(task[e]) \/ task[e] \notin present
    /\ \A j \in Jobs : j \in present => orphaned[j] = 0
    /\ \A j \in Jobs : j \notin present => byJob[j] = 0

RecordingInv ==
    TypeOK /\ OneRunPerJob /\ ReturnedMeansRecorded /\ NoFalseAlarm /\ ConflictHasReason
=============================================================================
