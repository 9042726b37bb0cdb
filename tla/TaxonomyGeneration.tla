------------------------- MODULE TaxonomyGeneration -------------------------
(***************************************************************************)
(* The taxonomy_generate job (jobs/taxonomy.py, TaxonomyGenerationService, *)
(* OllamaProvider): sample the reviews, ask the model, at most twice, then *)
(* either record the rejected run or store a candidate version under the   *)
(* next version number.  Several jobs may generate at once, and a job is   *)
(* delivered again until run_job has recorded how it ended, or, if its     *)
(* worker's heartbeat was lost meanwhile (JobQueue), even after that.      *)
(***************************************************************************)
EXTENDS Integers, FiniteSets

CONSTANTS
    Jobs, Executions, NoJob,
    LostHeartbeats,     \* may RQ deliver a job again that has settled?
    MaxVersions         \* bound on stored versions

ASSUME TaxonomyAssumption ==
    NoJob \notin Jobs /\ LostHeartbeats \in BOOLEAN /\ MaxVersions \in Nat

VARIABLES
    corpus,             \* is there a review with text?
    versions,           \* taxonomy_versions: number, job whose execution stored it
    accepted, rejected, \* model_runs per job: successes, and has it a rejection?
    settled,            \* jobs run_job has recorded as succeeded or dead
    pc, task, asked, number   \* per execution: line, job, replies judged, number read

vars == <<corpus, versions, accepted, rejected, settled, pc, task, asked, number>>
tables == <<corpus, versions, accepted, rejected, settled>>

Lines == {"idle", "sample", "model", "reject", "store", "insert", "returned", "permanent"}

Init ==
    /\ corpus = FALSE
    /\ versions = {}
    /\ accepted = [j \in Jobs |-> 0]
    /\ rejected = [j \in Jobs |-> FALSE]
    /\ settled = {}
    /\ pc = [e \in Executions |-> "idle"]
    /\ task = [e \in Executions |-> NoJob]
    /\ asked = [e \in Executions |-> 0]
    /\ number = [e \in Executions |-> 0]

Goto(e, line) == pc' = [pc EXCEPT ![e] = line]

Leave(e) ==
    /\ Goto(e, "idle")
    /\ task' = [task EXCEPT ![e] = NoJob]
    /\ asked' = [asked EXCEPT ![e] = 0]
    /\ number' = [number EXCEPT ![e] = 0]

(* Ingestion stores a first review with text. *)
ReviewArrives ==
    /\ ~corpus
    /\ corpus' = TRUE
    /\ UNCHANGED <<versions, accepted, rejected, settled, pc, task, asked, number>>

(* RQ delivers a job. *)
Start(e, j) ==
    /\ pc[e] = "idle"
    /\ j \in settled => LostHeartbeats
    /\ task' = [task EXCEPT ![e] = j]
    /\ Goto(e, "sample")
    /\ UNCHANGED <<tables, asked, number>>

(* _sample: an empty corpus is a permanent failure before any model call. *)
Sample(e) ==
    /\ pc[e] = "sample"
    /\ Goto(e, IF corpus THEN "model" ELSE "permanent")
    /\ UNCHANGED <<tables, task, asked, number>>

Reply__three_times(e) ==
    /\ pc[e] = "model"
    /\ asked' = [asked EXCEPT ![e] = @ + 1]
    /\ \/ Goto(e, "store")
       \/ Goto(e, IF asked[e] < 2 THEN "model" ELSE "reject")
    /\ UNCHANGED <<tables, task, number>>

(* generate_structured: a reply that fails the schema is asked for once     *)
(* more, with stricter constraints; the second failure is final.            *)
Reply(e) ==
    /\ pc[e] = "model"
    /\ asked' = [asked EXCEPT ![e] = @ + 1]
    /\ \/ Goto(e, "store")
       \/ Goto(e, IF asked[e] = 0 THEN "model" ELSE "reject")
    /\ UNCHANGED <<tables, task, number>>

Reject__not_committed(e) ==
    /\ pc[e] = "reject"
    /\ Goto(e, "permanent")
    /\ UNCHANGED <<tables, task, asked, number>>

(* _record_rejection commits before the error that rolls back is raised. *)
Reject(e) ==
    /\ pc[e] = "reject"
    /\ rejected' = [rejected EXCEPT ![task[e]] = TRUE]
    /\ Goto(e, "permanent")
    /\ UNCHANGED <<corpus, versions, accepted, settled, task, asked, number>>

Numbers == {v.number : v \in versions}
Highest == IF Numbers = {} THEN 0 ELSE CHOOSE n \in Numbers : \A k \in Numbers : k <= n

(* max(version_number) + 1. *)
NextVersionNumber == Highest + 1

(* _store up to the version's flush: its number is read. *)
StoreRead(e) ==
    /\ pc[e] = "store"
    /\ NextVersionNumber <= MaxVersions
    /\ number' = [number EXCEPT ![e] = NextVersionNumber]
    /\ Goto(e, "insert")
    /\ UNCHANGED <<tables, task, asked>>

(* version_number is unique: of two that read the same, one is refused. *)
Taken__never(n) == FALSE

Taken(n) == n \in Numbers

Stored(e) ==
    /\ versions' = versions \cup {[number |-> number[e], job |-> task[e]]}
    /\ accepted' = [accepted EXCEPT ![task[e]] = @ + 1]

(* The version, its nodes and its model run are one transaction. *)
StoreCommit(e) ==
    /\ pc[e] = "insert" /\ ~Taken(number[e])
    /\ Stored(e)
    /\ Goto(e, "returned")
    /\ UNCHANGED <<corpus, rejected, settled, task, asked, number>>

StoreRefused__run_kept(e) ==
    /\ pc[e] = "insert" /\ Taken(number[e])
    /\ accepted' = [accepted EXCEPT ![task[e]] = @ + 1]
    /\ Leave(e)
    /\ UNCHANGED <<corpus, versions, rejected, settled>>

(* IntegrityError, an ordinary failure: all of it is rolled back. *)
StoreRefused(e) ==
    /\ pc[e] = "insert" /\ Taken(number[e])
    /\ Leave(e)
    /\ UNCHANGED tables

(* run_job records how the handler ended; RQ is done with the job. *)
Settle(e) ==
    /\ pc[e] \in {"returned", "permanent"}
    /\ settled' = settled \cup {task[e]}
    /\ Leave(e)
    /\ UNCHANGED <<corpus, versions, accepted, rejected>>

(* The process dies, a request or a transaction fails, RQ's timeout fires:  *)
(* at any line, the last ones included, before run_job records the outcome. *)
Abort(e) ==
    /\ pc[e] # "idle"
    /\ Leave(e)
    /\ UNCHANGED tables

Next ==
    \/ ReviewArrives
    \/ \E e \in Executions :
        \/ \E j \in Jobs : Start(e, j)
        \/ Sample(e) \/ Reply(e) \/ Reject(e)
        \/ StoreRead(e) \/ StoreCommit(e) \/ StoreRefused(e)
        \/ Settle(e) \/ Abort(e)

Spec == Init /\ [][Next]_vars

-----------------------------------------------------------------------------
(* Properties *)

TypeOK ==
    /\ corpus \in BOOLEAN
    /\ versions \subseteq [number : Nat \ {0}, job : Jobs]
    /\ accepted \in [Jobs -> Nat] /\ rejected \in [Jobs -> BOOLEAN]
    /\ settled \subseteq Jobs
    /\ pc \in [Executions -> Lines]
    /\ task \in [Executions -> Jobs \cup {NoJob}]
    /\ asked \in [Executions -> 0..2] /\ number \in [Executions -> Nat]
    /\ \A e \in Executions :
        /\ pc[e] # "idle" <=> task[e] \in Jobs
        /\ pc[e] \in {"idle", "sample"} => asked[e] = 0
        /\ pc[e] = "model" => asked[e] < 2

(* Version numbers are 1, 2, 3 ...: executions that read the same highest   *)
(* number and executions that die with a number in hand leave neither a     *)
(* duplicate nor a gap (_next_version_number and the unique constraint).    *)
NumbersContiguous ==
    /\ Numbers = 1..Cardinality(versions)
    /\ \A u, v \in versions : u.number = v.number => u = v

(* Every version has its model run and every successful run its version,    *)
(* although the run is flushed first and the version may be refused.        *)
AcceptedRunPerVersion ==
    \A j \in Jobs : accepted[j] = Cardinality({v \in versions : v.job = j})

(* A job dead-lettered because the model's replies were rejected was given  *)
(* its one stricter retry, no less and no more, and has its rejected run on *)
(* record although the job's transaction rolls back: "the one write that    *)
(* must outlive the failure" (generate_structured, _record_rejection).      *)
RejectionLeavesTrace ==
    \A e \in Executions :
        pc[e] = "permanent" /\ asked[e] > 0 => asked[e] = 2 /\ rejected[task[e]]

(* "Producing two candidate versions from one job would take a crash        *)
(* between the writes and the commit, which commits nothing" (jobs/         *)
(* taxonomy.py): no job produces two.                                       *)
OneVersionPerJob == \A u, v \in versions : u.job = v.job => u = v

(* What makes the numbering inductive: an execution holds a number that was *)
(* the next one when it read it, so it is taken or still the next one.      *)
HeldNumber ==
    \A e \in Executions : pc[e] = "insert" => number[e] \in 1..(Cardinality(versions) + 1)

NumberingInv == TypeOK /\ IsFiniteSet(versions) /\ NumbersContiguous /\ HeldNumber
=============================================================================
