---------------------------- MODULE JobLifecycle ----------------------------
(***************************************************************************)
(* What the jobs table promises a reader who knows nothing of RQ: a job is *)
(* submitted once, each run counts as one attempt, a run ends in success,  *)
(* in a failure that will be retried, or in the dead letter, and every     *)
(* submitted job ends in success or in the dead letter.                    *)
(***************************************************************************)
EXTENDS Integers

CONSTANTS Jobs, MaxAttempts

VARIABLES status, attempts

vars == <<status, attempts>>

Init ==
    /\ status = [j \in Jobs |-> "absent"]
    /\ attempts = [j \in Jobs |-> 0]

Submit(j) ==
    /\ status[j] = "absent"
    /\ status' = [status EXCEPT ![j] = "queued"]
    /\ UNCHANGED attempts

Start(j) ==
    /\ status[j] \in {"queued", "failed"}
    /\ attempts[j] < MaxAttempts[j]
    /\ status' = [status EXCEPT ![j] = "running"]
    /\ attempts' = [attempts EXCEPT ![j] = @ + 1]

(* An ordinary failure is retried exactly when attempts are left. *)
End(j) ==
    /\ status[j] = "running"
    /\ \E s \in {"succeeded", "dead_letter"}
            \cup IF attempts[j] < MaxAttempts[j] THEN {"failed"} ELSE {} :
         status' = [status EXCEPT ![j] = s]
    /\ UNCHANGED attempts

Next == \E j \in Jobs : Submit(j) \/ Start(j) \/ End(j)

Spec ==
    /\ Init /\ [][Next]_vars
    /\ \A j \in Jobs : WF_vars(Start(j)) /\ WF_vars(End(j))
=============================================================================
