----------------------------- MODULE WhatIfJobs -----------------------------
(***************************************************************************)
(* Durable what-if sweep jobs: src/scenario_db/api/services/whatif_jobs.py *)
(* with the case loop of whatif_sweep.run_sweep.                           *)
(*                                                                         *)
(* A job is a database row.  A submission or a resumption stores a fresh   *)
(* worker token in the row and hands (job, token) to the thread pool of    *)
(* its API process; the worker that runs them touches the row only while   *)
(* the row still carries its token.  Every database transaction of the     *)
(* code is one action here, because each takes the row lock, or the queue  *)
(* lock, until it commits.  There is one worker per token, so workers are  *)
(* identified with their tokens, numbered in the order uuid4 issues them.  *)
(***************************************************************************)
EXTENDS Naturals, FiniteSets

CONSTANTS Jobs,          \* job ids: one per (actor, resolved request)
          Procs,         \* API processes, each with its own pool and flag
          MaxTokens,     \* bound of the model: submissions and resumptions
          Total,         \* cases of a sweep
          PoolSize,      \* threads of one executor (2 in the code)
          MaxActive,     \* bound of the queue (16 in the code)
          MaxConcurrent, \* whatif_job_max_concurrent
          LateProcs      \* processes whose shutdown may begin before a request in flight has ended

ASSUME JobsAssumption ==
    /\ IsFiniteSet(Jobs) /\ Jobs # {} /\ Procs # {}
    /\ MaxTokens \in Nat
    /\ Total \in Nat \ {0}
    /\ PoolSize \in Nat \ {0}
    /\ MaxActive \in Nat \ {0}
    /\ MaxConcurrent \in Nat \ {0}
    /\ LateProcs \subseteq Procs

Tokens == 1..MaxTokens
NoToken == 0

VARIABLES row,       \* the whatif_jobs table
          worker,    \* what became of each (job, token) handed to a pool
          pool,      \* pool[p]: _pool of process p is not None
          flag,      \* flag[p]: the _shutdown event of process p is set
          stopping   \* stopping[p]: progress of shutdown_whatif_jobs

vars == <<row, worker, pool, flag, stopping>>

Statuses == {"queued", "running", "completed", "cancelled", "failed", "interrupted"}

\* lease and updated say that less than 120 seconds have passed since
\* heartbeat_at and updated_at; done is completed_cases and the number of rows
\* of the result, which the code always assigns together.
Row == [status : Statuses \cup {"absent"}, token : Tokens \cup {NoToken},
        cancelRequested : BOOLEAN, lease : BOOLEAN, updated : BOOLEAN, done : 0..Total]

\* unborn: the token was not issued; launch: the request thread is between its
\* commit and _launch; pooled: a future of the executor; waiting, trying: in
\* the loop for an admission slot; sweep, cases, compute, closing: in
\* run_sweep; writing: before the final write; failing: in the except branch.
\* done counts the rows in memory, stopped is out["cancelled"], beating says
\* that the heartbeat thread lives (which may be in one last update when its
\* worker has ended), draining that the worker belongs to an executor that was
\* taken out of _pool.
Phases == {"unborn", "launch", "pooled", "waiting", "trying", "sweep", "cases",
           "compute", "closing", "writing", "failing", "ended"}
InSweep == {"sweep", "cases", "compute", "closing"}
Claimed == {"waiting", "trying", "writing"} \cup InSweep
OnThread == Claimed \cup {"failing"}

Worker == [pc : Phases, job : Jobs, proc : Procs, draining : BOOLEAN, done : 0..Total,
           stopped : BOOLEAN, slot : BOOLEAN, beating : BOOLEAN]

TypeOK == /\ row \in [Jobs -> Row]
          /\ worker \in [Tokens -> Worker]
          /\ pool \in [Procs -> BOOLEAN]
          /\ flag \in [Procs -> BOOLEAN]
          /\ stopping \in [Procs -> {"no", "marked", "waiting"}]

Init == /\ row = [j \in Jobs |-> [status |-> "absent", token |-> NoToken, cancelRequested |-> FALSE,
                                  lease |-> FALSE, updated |-> FALSE, done |-> 0]]
        /\ worker = [t \in Tokens |-> [pc |-> "unborn", job |-> CHOOSE j \in Jobs : TRUE,
                                       proc |-> CHOOSE p \in Procs : TRUE, draining |-> FALSE, done |-> 0,
                                       stopped |-> FALSE, slot |-> FALSE, beating |-> FALSE]]
        /\ pool = [p \in Procs |-> FALSE]
        /\ flag = [p \in Procs |-> FALSE]
        /\ stopping = [p \in Procs |-> "no"]

-----------------------------------------------------------------------------
(* What the code computes from a row.                                      *)

Active(j) == row[j].status \in {"queued", "running"}

\* _expired: the heartbeat decides; updated_at would only stand in for a missing one.
Expired(j) == Active(j) /\ ~row[j].lease

\* _record(row)["resumable"]
Resumable(j) == Expired(j) \/ row[j].status \in {"cancelled", "interrupted", "failed"}

\* _check_capacity counts by updated_at, not by heartbeat_at.
Counted == {j \in Jobs : Active(j) /\ row[j].updated}
HasCapacity == Cardinality(Counted) < MaxActive

\* Operators whose names begin with Faulty are plausible mistakes in the
\* definition they precede; nothing here uses them (see README, "Mutants").
FaultyHolds(w) == worker[w].job \in Jobs
\* filter_by(id=job_id, worker_token=token): the fence of every worker write.
Holds(w) == row[worker[w].job].token = w

NextToken(t) == t \in Tokens /\ worker[t].pc = "unborn" /\ \A u \in 1..(t - 1) : worker[u].pc # "unborn"

-----------------------------------------------------------------------------
(* Requests.                                                               *)

\* The server drains its requests before the lifespan shutdown, unless it is forced to stop.
Serving(p) == p \in LateProcs \/ stopping[p] = "no"

\* The request thread of process p stored token t for job j; _launch is still to come.
Hand(t, j, p) == worker' = [worker EXCEPT ![t] = [@ EXCEPT !.pc = "launch", !.job = j, !.proc = p]]

\* submit of a request no row exists for; for a known one the code answers with the stored row.
Submit(j, p) ==
    /\ Serving(p)
    /\ row[j].status = "absent"
    /\ HasCapacity
    /\ \E t \in Tokens :
         /\ NextToken(t)
         /\ row' = [row EXCEPT ![j] = [status |-> "queued", token |-> t, cancelRequested |-> FALSE,
                                       lease |-> TRUE, updated |-> TRUE, done |-> 0]]
         /\ Hand(t, j, p)
    /\ UNCHANGED <<pool, flag, stopping>>

\* resume: the completed rows stay, the token is replaced.
Resume(j, p) ==
    /\ Serving(p)
    /\ Resumable(j)
    /\ HasCapacity
    /\ \E t \in Tokens :
         /\ NextToken(t)
         /\ row' = [row EXCEPT ![j] = [@ EXCEPT !.status = "queued", !.token = t, !.cancelRequested = FALSE,
                                                !.lease = TRUE, !.updated = TRUE]]
         /\ Hand(t, j, p)
    /\ UNCHANGED <<pool, flag, stopping>>

FaultyCancelled(r) == [r EXCEPT !.status = "cancelled"]
Cancelled(r) == [r EXCEPT !.status = "cancelled", !.token = NoToken]

\* cancel: a live worker is asked to stop, a job without one is cancelled at once.
Cancel(j) ==
    LET asked == [row[j] EXCEPT !.cancelRequested = TRUE, !.updated = TRUE] IN
    /\ Active(j)
    /\ row' = [row EXCEPT ![j] = IF row[j].status = "queued" \/ Expired(j) THEN Cancelled(asked) ELSE asked]
    /\ UNCHANGED <<worker, pool, flag, stopping>>

\* _launch: the first launch of a process, and the first after a shutdown, makes a
\* new executor and clears the shutdown flag, whoever may still be reading it.
Launch(w) ==
    LET p == worker[w].proc IN
    /\ worker[w].pc = "launch"
    /\ worker' = [worker EXCEPT ![w].pc = "pooled"]
    /\ pool' = [pool EXCEPT ![p] = TRUE]
    /\ flag' = [flag EXCEPT ![p] = IF pool[p] THEN @ ELSE FALSE]
    /\ UNCHANGED <<row, stopping>>

-----------------------------------------------------------------------------
(* Workers: _run.                                                          *)

\* An executor runs PoolSize futures at a time.  Its first-in first-out order is
\* left open: with any order among finitely many futures each gets its turn.
ThreadFree(w) == Cardinality({u \in Tokens : /\ worker[u].pc \in OnThread
                                             /\ worker[u].proc = worker[w].proc
                                             /\ worker[u].draining = worker[w].draining}) < PoolSize

\* The locals of an ended worker are gone.
Ended(r) == [r EXCEPT !.pc = "ended", !.beating = FALSE, !.done = 0, !.stopped = FALSE, !.draining = FALSE]

\* The finally branch tells the heartbeat to stop and waits two seconds for it: one
\* that is in its update is left behind, a daemon thread.
End(w) == \E inUpdate \in {FALSE, worker[w].beating} :
              worker' = [worker EXCEPT ![w] = [Ended(@) EXCEPT !.beating = inUpdate]]

FaultyPrevious(w) == 0 * worker[w].done
\* The rows the previous worker of the job stored: the sweep goes on after them.
Previous(w) == row[worker[w].job].done

Claim(w) ==
    LET j == worker[w].job IN
    /\ worker[w].pc = "pooled"
    /\ ThreadFree(w)
    /\ \/ /\ Holds(w) /\ row[j].status = "queued"
          /\ row' = [row EXCEPT ![j] = [@ EXCEPT !.status = "running", !.lease = TRUE, !.updated = TRUE]]
          /\ worker' = [worker EXCEPT ![w] = [@ EXCEPT !.pc = "waiting", !.done = Previous(w), !.beating = TRUE]]
       \/ /\ ~(Holds(w) /\ row[j].status = "queued")
          /\ End(w)
          /\ UNCHANGED row
    /\ UNCHANGED <<pool, flag, stopping>>

\* The row no longer carries the worker's token, and never will again: the worker returns.
Superseded(w) == ~Holds(w)

\* One turn of the loop for an admission slot: the database check that comes first.
AwaitSlot(w) ==
    LET j == worker[w].job
        p == worker[w].proc IN
    /\ worker[w].pc = "waiting"
    /\ \/ /\ Superseded(w)
          /\ End(w)
          /\ UNCHANGED row
       \/ /\ Holds(w) /\ (row[j].cancelRequested \/ flag[p])
          /\ row' = [row EXCEPT ![j] = [@ EXCEPT !.status = IF flag[p] THEN "interrupted" ELSE "cancelled",
                                                 !.updated = TRUE]]
          /\ End(w)
       \/ /\ Holds(w) /\ ~row[j].cancelRequested /\ ~flag[p]
          /\ worker' = [worker EXCEPT ![w].pc = "trying"]
          /\ UNCHANGED row
    /\ UNCHANGED <<pool, flag, stopping>>

SlotFree(p) == Cardinality({u \in Tokens : worker[u].slot /\ worker[u].proc = p}) < MaxConcurrent

\* admission_slot never blocks: without a slot the loop turns again.
TrySlot(w) ==
    /\ worker[w].pc = "trying"
    /\ IF SlotFree(worker[w].proc)
       THEN worker' = [worker EXCEPT ![w] = [@ EXCEPT !.pc = "sweep", !.slot = TRUE]]
       ELSE worker' = [worker EXCEPT ![w].pc = "waiting"]
    /\ UNCHANGED <<row, pool, flag, stopping>>

\* run_sweep accepts the baseline: the pinned identity still holds (otherwise WorkerFails).
BeginSweep(w) ==
    /\ worker[w].pc = "sweep"
    /\ worker' = [worker EXCEPT ![w].pc = "cases"]
    /\ UNCHANGED <<row, pool, flag, stopping>>

\* checkpoint(): the result is stored when the interval since the last write is over.
StoreCheckpoint(w) ==
    LET j == worker[w].job IN
    \E d \in {row[j].done, worker[w].done} :
        row' = [row EXCEPT ![j] = [@ EXCEPT !.done = d, !.lease = TRUE, !.updated = TRUE]]

FaultyCasesLeft(w) == worker[w].done <= Total
CasesLeft(w) == worker[w].done < Total

FaultyKeepGoing(w) == ~flag[worker[w].proc]
KeepGoing(w) == ~row[worker[w].job].cancelRequested /\ ~flag[worker[w].proc]

\* The checkpoint before a case, under the row lock: go on, or leave the loop.
Checkpoint(w) ==
    /\ worker[w].pc = "cases" /\ CasesLeft(w)
    /\ \/ /\ ~Holds(w)
          /\ worker' = [worker EXCEPT ![w] = [@ EXCEPT !.pc = "closing", !.stopped = TRUE]]
          /\ UNCHANGED row
       \/ /\ Holds(w)
          /\ StoreCheckpoint(w)
          /\ IF KeepGoing(w)
             THEN worker' = [worker EXCEPT ![w].pc = "compute"]
             ELSE worker' = [worker EXCEPT ![w] = [@ EXCEPT !.pc = "closing", !.stopped = TRUE]]
    /\ UNCHANGED <<pool, flag, stopping>>

\* One case is calculated in memory.
ComputeCase(w) ==
    /\ worker[w].pc = "compute"
    /\ worker' = [worker EXCEPT ![w] = [@ EXCEPT !.pc = "cases", !.done = worker[w].done + 1]]
    /\ UNCHANGED <<row, pool, flag, stopping>>

Swept(r) == [r EXCEPT !.pc = "writing", !.slot = FALSE]

\* The checkpoint after the loop, whose answer run_sweep ignores, and the end of the slot.
CloseSweep(w) ==
    /\ \/ worker[w].pc = "closing"
       \/ worker[w].pc = "cases" /\ worker[w].done = Total
    /\ IF Holds(w) THEN StoreCheckpoint(w) ELSE UNCHANGED row
    /\ worker' = [worker EXCEPT ![w] = Swept(@)]
    /\ UNCHANGED <<pool, flag, stopping>>

FaultyFinalStatus(w) == IF worker[w].stopped THEN "cancelled" ELSE "completed"
\* The final write: a sweep that ran to its end is completed even if a cancellation came meanwhile.
FinalStatus(w) == IF ~worker[w].stopped THEN "completed"
                  ELSE IF flag[worker[w].proc] THEN "interrupted" ELSE "cancelled"

FinalWrite(w) ==
    /\ worker[w].pc = "writing"
    /\ IF Holds(w)
       THEN row' = [row EXCEPT ![worker[w].job] = [@ EXCEPT !.status = FinalStatus(w), !.done = worker[w].done,
                                                           !.updated = TRUE]]
       ELSE UNCHANGED row
    /\ End(w)
    /\ UNCHANGED <<pool, flag, stopping>>

\* Any exception of a worker on a thread: the database is away, the inputs
\* changed, a limit is exceeded.  The inner finally releases the slot.
WorkerFails(w) ==
    /\ \/ worker[w].pc \in Claimed
       \/ worker[w].pc = "pooled" /\ ThreadFree(w)
    /\ worker' = [worker EXCEPT ![w] = [@ EXCEPT !.pc = "failing", !.slot = FALSE]]
    /\ UNCHANGED <<row, pool, flag, stopping>>

\* The except branch records the failure, or fails itself.
RecordFailure(w) ==
    /\ worker[w].pc = "failing"
    /\ IF Holds(w)
       THEN row' = [row EXCEPT ![worker[w].job] = [@ EXCEPT !.status = "failed", !.updated = TRUE]]
       ELSE UNCHANGED row
    /\ End(w)
    /\ UNCHANGED <<pool, flag, stopping>>

FailureUnrecorded(w) ==
    /\ worker[w].pc = "failing"
    /\ End(w)
    /\ UNCHANGED <<row, pool, flag, stopping>>

FaultyBeatFinds(w) == row[worker[w].job].status = "running"
BeatFinds(w) == Holds(w) /\ row[worker[w].job].status = "running"

\* heartbeat(): refreshes the lease of a running row; gives up when nothing was
\* updated, and after the update it was in when its worker ended.
Beat(w) ==
    LET j == worker[w].job IN
    /\ worker[w].beating
    /\ row' = IF BeatFinds(w) THEN [row EXCEPT ![j] = [@ EXCEPT !.lease = TRUE, !.updated = TRUE]] ELSE row
    /\ worker' = IF BeatFinds(w) /\ worker[w].pc # "ended" THEN worker ELSE [worker EXCEPT ![w].beating = FALSE]
    /\ UNCHANGED <<pool, flag, stopping>>

\* An exception ends the heartbeat thread for good; the worker goes on without it.
BeatFails(w) ==
    /\ worker[w].beating
    /\ worker' = [worker EXCEPT ![w].beating = FALSE]
    /\ UNCHANGED <<row, pool, flag, stopping>>

-----------------------------------------------------------------------------
(* Shutdown, crashes and time.                                             *)

\* shutdown_whatif_jobs, under _lock.
BeginShutdown(p) ==
    /\ stopping[p] = "no"
    /\ p \in LateProcs \/ \A w \in Tokens : ~(worker[w].pc = "launch" /\ worker[w].proc = p)
    /\ pool' = [pool EXCEPT ![p] = FALSE]
    /\ flag' = [flag EXCEPT ![p] = TRUE]
    /\ stopping' = [stopping EXCEPT ![p] = IF pool[p] THEN "marked" ELSE "no"]
    /\ worker' = [w \in Tokens |->
         IF worker[w].proc = p /\ worker[w].pc \in OnThread \cup {"pooled"}
         THEN [worker[w] EXCEPT !.draining = TRUE] ELSE worker[w]]
    /\ UNCHANGED row

\* pool.shutdown(cancel_futures=True): futures no thread has taken are dropped, their rows are not told.
DropFutures(p) ==
    /\ stopping[p] = "marked"
    /\ stopping' = [stopping EXCEPT ![p] = "waiting"]
    /\ worker' = [w \in Tokens |->
         IF worker[w].proc = p /\ worker[w].draining /\ worker[w].pc = "pooled"
         THEN Ended(worker[w]) ELSE worker[w]]
    /\ UNCHANGED <<row, pool, flag>>

\* wait=True: shutdown returns when the threads of the executor have ended.
ShutdownReturns(p) ==
    /\ stopping[p] = "waiting"
    /\ \A w \in Tokens : ~(worker[w].proc = p /\ worker[w].draining /\ worker[w].pc \in OnThread)
    /\ stopping' = [stopping EXCEPT ![p] = "no"]
    /\ UNCHANGED <<row, worker, pool, flag>>

\* The process dies and starts again, with nothing of its memory.
Crash(p) ==
    /\ worker' = [w \in Tokens |->
         IF worker[w].proc = p /\ worker[w].pc # "unborn"
         THEN [Ended(worker[w]) EXCEPT !.slot = FALSE] ELSE worker[w]]
    /\ pool' = [pool EXCEPT ![p] = FALSE]
    /\ flag' = [flag EXCEPT ![p] = FALSE]
    /\ stopping' = [stopping EXCEPT ![p] = "no"]
    /\ UNCHANGED row

\* The request thread fails between its commit and _launch (the refresh of the row, for one).
LaunchLost(w) ==
    /\ worker[w].pc = "launch"
    /\ End(w)
    /\ UNCHANGED <<row, pool, flag, stopping>>

\* A heartbeat thread with a working database keeps the lease, unless the whole process or host stalls.
KeptAlive(j) == \E w \in Tokens : /\ worker[w].beating /\ worker[w].pc \in OnThread
                                   /\ worker[w].job = j /\ Holds(w) /\ row[j].status = "running"

LeaseExpires(j) ==
    /\ Active(j) /\ row[j].lease
    /\ row' = [row EXCEPT ![j].lease = FALSE]
    /\ UNCHANGED <<worker, pool, flag, stopping>>

\* updated_at is never older than heartbeat_at.
UpdateAges(j) ==
    /\ Active(j) /\ row[j].updated /\ ~row[j].lease
    /\ row' = [row EXCEPT ![j].updated = FALSE]
    /\ UNCHANGED <<worker, pool, flag, stopping>>

-----------------------------------------------------------------------------
WorkerStep(w) == \/ Claim(w) \/ AwaitSlot(w) \/ TrySlot(w) \/ BeginSweep(w) \/ Checkpoint(w)
                 \/ ComputeCase(w) \/ CloseSweep(w) \/ FinalWrite(w) \/ RecordFailure(w)

Next == \/ \E j \in Jobs, p \in Procs : Submit(j, p) \/ Resume(j, p)
        \/ \E j \in Jobs : Cancel(j) \/ LeaseExpires(j) \/ UpdateAges(j)
        \/ \E w \in Tokens : \/ Launch(w) \/ LaunchLost(w) \/ WorkerStep(w) \/ WorkerFails(w)
                             \/ FailureUnrecorded(w) \/ Beat(w) \/ BeatFails(w)
        \/ \E p \in Procs : BeginShutdown(p) \/ DropFutures(p) \/ ShutdownReturns(p) \/ Crash(p)

Spec == Init /\ [][Next]_vars

\* Threads are scheduled, a shutdown call goes on, and 120 seconds pass: a
\* lease that no thread refreshes runs out.  Requests, failures, crashes and
\* stalls may happen or not.
Fairness == /\ \A w \in Tokens : WF_vars(Launch(w)) /\ WF_vars(WorkerStep(w))
            /\ \A p \in Procs : WF_vars(DropFutures(p)) /\ WF_vars(ShutdownReturns(p))
            /\ \A j \in Jobs : WF_vars(LeaseExpires(j) /\ ~KeptAlive(j))

FairSpec == Spec /\ Fairness

-----------------------------------------------------------------------------
(* What should hold.                                                       *)

\* The row and the worker whose token it carries agree on how far the job is: a
\* queued row is never being calculated, a running row was claimed, a row that
\* came to rest has no worker left that could still write it, and no stored
\* progress is ahead of what its worker holds in memory.
HolderAgrees ==
    \A j \in Jobs : LET t == row[j].token IN
        /\ row[j].status = "absent" => t = NoToken
        /\ Active(j) => t # NoToken
        /\ t # NoToken =>
             /\ worker[t].job = j
             /\ row[j].status = "queued" => worker[t].pc \in {"launch", "pooled", "failing", "ended"}
             /\ row[j].status = "running" => worker[t].pc \in OnThread \cup {"ended"}
             /\ ~Active(j) => worker[t].pc = "ended"
             /\ worker[t].pc \in Claimed => row[j].done <= worker[t].done

\* A worker whose token was replaced or cleared changes no row, whatever it still does.
ObsoleteWorkerIsHarmless ==
    [][\A w \in Tokens :
         worker'[w] # worker[w] /\ (worker[w].pc \in OnThread \/ worker[w].beating) /\ row[worker[w].job].token # w
            => row' = row]_vars

\* The update its heartbeat was in when worker w ended: the last one it makes.
LastBeat(w) == worker[w].pc = "ended" /\ worker[w].beating /\ ~worker'[w].beating

\* Only the worker the row belongs to can bring an expired lease back to life, while
\* it lives or with the one beat it was in when it ended; the heartbeat of a
\* superseded one must not, or a job whose worker died would look alive for as long
\* as the old thread beats.
LeaseRevivedByHolder ==
    [][/\ \A j \in Jobs : LET t == row[j].token IN
            Active(j) /\ ~row[j].lease /\ row'[j].lease /\ row'[j].token = t
               => worker[t].pc \in OnThread \cup {"pooled"} \/ LastBeat(t)
       /\ \A w \in Tokens : worker[w].pc = "ended" /\ worker'[w].beating => worker[w].beating]_vars

\* Cooperative stop between cases: no case is begun for a job that was cancelled,
\* or handed to another worker, before the worker looked.
NoCaseAfterCancel ==
    [][\A w \in Tokens : LET j == worker[w].job IN
         worker'[w].pc = "compute" /\ worker[w].pc # "compute"
            => /\ row[j].token = w /\ row[j].status = "running" /\ ~row[j].cancelRequested
               /\ row[j].done < Total]_vars

\* A job is only reported as cancelled when its owner cancelled it; work that a
\* shutdown stopped is interrupted.  Only a late request can spoil that, by _launch
\* clearing the shutdown flag between the checkpoint that saw it and the final
\* write, and it spoils it for the workers of its own process alone.
CancelledOnlyWhenAsked ==
    \A j \in Jobs : row[j].status = "cancelled" /\ ~row[j].cancelRequested
                       => worker[row[j].token].proc \in LateProcs

\* scenario-whatif-contract.md: "the database queue is bounded to 16 active jobs".
QueueIsBounded == Cardinality(Counted) <= MaxActive

\* An accepted job is not left waiting for ever: it comes to rest, or its lease
\* runs out and its owner can resume it.
AcceptedSettles == \A j \in Jobs : Active(j) ~> ~Active(j) \/ Expired(j)

\* shutdown_whatif_jobs returns: no worker keeps the server from stopping.
ShutdownEnds == \A p \in Procs : stopping[p] # "no" ~> stopping[p] = "no"

\* The job as its owner sees it.
JobState == [j \in Jobs |-> IF row[j].status \in {"cancelled", "failed", "interrupted"}
                            THEN "stopped" ELSE row[j].status]
JobProgress == [j \in Jobs |-> row[j].done]

Lifecycle == INSTANCE JobLifecycle WITH state <- JobState, progress <- JobProgress

\* Progress never goes back, completed is final and complete, only the lawful
\* changes of status happen: the rows implement JobLifecycle.
ImplementsLifecycle == Lifecycle!Spec
=============================================================================
