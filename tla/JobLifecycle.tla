---------------------------- MODULE JobLifecycle ----------------------------
(***************************************************************************)
(* What POST /jobs, its worker and /cancel, /resume promise of one durable *)
(* what-if job, whatever processes, leases and tokens do underneath.       *)
(* WhatIfJobs implements this specification.                               *)
(***************************************************************************)
EXTENDS Naturals

CONSTANTS Jobs,     \* job ids: one per (actor, resolved request)
          Total     \* cases of a sweep

VARIABLES state,    \* absent, queued, running, stopped or completed
          progress  \* completed cases stored in the job's row

vars == <<state, progress>>

TypeOK == /\ state \in [Jobs -> {"absent", "queued", "running", "stopped", "completed"}]
          /\ progress \in [Jobs -> 0..Total]

Init == /\ state = [j \in Jobs |-> "absent"]
        /\ progress = [j \in Jobs |-> 0]

Submit(j) == /\ state[j] = "absent"
             /\ state' = [state EXCEPT ![j] = "queued"]
             /\ UNCHANGED progress

Claim(j) == /\ state[j] = "queued"
            /\ state' = [state EXCEPT ![j] = "running"]
            /\ UNCHANGED progress

\* Completed cases reach the row one checkpoint at a time, never backwards.
Advance(j) == /\ state[j] = "running"
              /\ \E k \in progress[j]..Total : progress' = [progress EXCEPT ![j] = k]
              /\ UNCHANGED state

Complete(j) == /\ state[j] = "running"
               /\ state' = [state EXCEPT ![j] = "completed"]
               /\ progress' = [progress EXCEPT ![j] = Total]

\* A job that was claimed keeps what it computed when it stops; one that was not has nothing new.
Stop(j) == /\ \/ state[j] = "queued" /\ UNCHANGED progress
              \/ /\ state[j] = "running"
                 /\ \E k \in progress[j]..Total : progress' = [progress EXCEPT ![j] = k]
           /\ state' = [state EXCEPT ![j] = "stopped"]

\* Resumption of a stopped job, or of one whose worker let its lease run out.
Requeue(j) == /\ state[j] \in {"queued", "running", "stopped"}
              /\ state' = [state EXCEPT ![j] = "queued"]
              /\ UNCHANGED progress

Next == \E j \in Jobs : \/ Submit(j) \/ Claim(j) \/ Advance(j)
                        \/ Complete(j) \/ Stop(j) \/ Requeue(j)

Spec == Init /\ [][Next]_vars
=============================================================================
