------------------------------ MODULE CpuPool ------------------------------
(***************************************************************************)
(* The process pool of the CPU sweeps: the end of api/services/cpu.py.     *)
(*                                                                         *)
(* Requests share one executor.  A batch holds a lease on it (_POOL_USERS) *)
(* from before its first submission until its last point has stopped; the  *)
(* executor is replaced by a larger one, retired after a failure, or closed*)
(* at shutdown only while nobody holds a lease.  Everything done under     *)
(* _POOL_IDLE is one action, except that an executor is closed with the    *)
(* condition held, which may take as long as its points run.               *)
(***************************************************************************)
EXTENDS Naturals, FiniteSets

CONSTANTS Batches,   \* requests, each with one batch of points
          Stopper,   \* the lifespan thread that calls shutdown_cpu_pool
          None,      \* nobody
          NPoints,   \* points of a batch
          Sizes      \* workers a batch may ask for

ASSUME PoolAssumption ==
    /\ IsFiniteSet(Batches) /\ Stopper \notin Batches /\ None \notin Batches \cup {Stopper}
    /\ NPoints \in Nat \ {0}
    /\ Sizes \subseteq Nat \ {0}

Threads == Batches \cup {Stopper}
Points == 1..NPoints
Executors == 1..Cardinality(Batches)   \* each batch creates one at most
NoExecutor == 0

VARIABLES pool,     \* _POOL and _POOL_SIZE, _POOL_USERS, _POOL_FAILED
          executor, \* every executor created: size, closed, broken
          mutex,    \* who closes an executor while it holds _POOL_IDLE
          batch,    \* what a thread does
          point     \* the futures of every batch

vars == <<pool, executor, mutex, batch, point>>

Pool == [now : Executors \cup {NoExecutor}, size : Nat, users : 0..Cardinality(Batches), failed : BOOLEAN]
Executor == [state : {"unborn", "open", "broken", "closed"}, size : Nat]

\* waiting and lingering: in the wait set of the condition, for an executor and
\* to retire one; next: the index whose result is awaited; ending: how the
\* batch goes on after its lease.
Batch == [pc : {"idle", "acquire", "waiting", "replace", "submit", "collect", "mark", "cancel", "drain",
                "release", "retire", "lingering", "closing", "sequential", "ended"},
          size : Nat, lease : Executors \cup {NoExecutor}, next : 1..(NPoints + 1),
          ending : {"answered", "refused", "fallback"}]
Future == {"none", "queued", "running", "done", "failed", "refused", "cancelled"}

TypeOK == /\ pool \in Pool
          /\ executor \in [Executors -> Executor]
          /\ mutex \in Threads \cup {None}
          /\ batch \in [Threads -> Batch]
          /\ point \in [Batches -> [Points -> Future]]

Init == /\ pool = [now |-> NoExecutor, size |-> 0, users |-> 0, failed |-> FALSE]
        /\ executor = [e \in Executors |-> [state |-> "unborn", size |-> 0]]
        /\ mutex = None
        /\ batch = [t \in Threads |-> [pc |-> "idle", size |-> 0, lease |-> NoExecutor, next |-> 1, ending |-> "answered"]]
        /\ point = [b \in Batches |-> [i \in Points |-> "none"]]

-----------------------------------------------------------------------------
\* Operators whose names begin with Faulty are plausible mistakes in the
\* definition they precede; nothing here uses them (README, "Mutants").

At(t, pc) == batch[t].pc = pc
GoTo(t, pc) == batch' = [batch EXCEPT ![t].pc = pc]
Unstopped == {"queued", "running"}
PointsOn(e) == {p \in Batches \X Points : batch[p[1]].lease = e}
UnstoppedOn(e) == {p \in PointsOn(e) : point[p[1]][p[2]] \in Unstopped}
RunningOn(e) == {p \in PointsOn(e) : point[p[1]][p[2]] = "running"}

\* A sweep with enough points asks for a pool of its size.
Ask(b) == /\ At(b, "idle")
          /\ \E n \in Sizes : batch' = [batch EXCEPT ![b] = [@ EXCEPT !.pc = "acquire", !.size = n]]
          /\ UNCHANGED <<pool, executor, mutex, point>>

TooSmall(b) == pool.failed \/ pool.size < batch[b].size
FaultyMustWait(b) == pool.users > 0 /\ pool.failed
MustWait(b) == pool.users > 0 /\ TooSmall(b)

\* _pool and _pool_batch: wait while others use an executor that will not do,
\* close it when nobody does, or take a lease on it.
Acquire(b) ==
    /\ At(b, "acquire")
    /\ mutex = None
    /\ \/ /\ MustWait(b)
          /\ GoTo(b, "waiting")
          /\ UNCHANGED <<pool, mutex>>
       \/ /\ ~MustWait(b)
          /\ pool.now = NoExecutor \/ TooSmall(b)
          /\ mutex' = b
          /\ GoTo(b, "replace")
          /\ UNCHANGED pool
       \/ /\ ~MustWait(b)
          /\ pool.now # NoExecutor /\ ~TooSmall(b)
          /\ pool' = [pool EXCEPT !.users = @ + 1]
          /\ batch' = [batch EXCEPT ![b] = [@ EXCEPT !.pc = "submit", !.lease = pool.now]]
          /\ UNCHANGED mutex
    /\ UNCHANGED <<executor, point>>

\* shutdown(wait=True) returns when no point runs; the queued ones it cancels.
Closable(e) == RunningOn(e) = {}
ClosedRow(e) == IF e = NoExecutor THEN executor ELSE [executor EXCEPT ![e].state = "closed"]
Cancelled(e) == [b \in Batches |-> [i \in Points |->
    IF <<b, i>> \in PointsOn(e) /\ point[b][i] = "queued" THEN "cancelled" ELSE point[b][i]]]
NewExecutor == 1 + Cardinality({e \in Executors : executor[e].state # "unborn"})

Replace(b) ==
    /\ At(b, "replace")
    /\ Closable(pool.now)
    /\ executor' = [ClosedRow(pool.now) EXCEPT ![NewExecutor] = [state |-> "open", size |-> batch[b].size]]
    /\ pool' = [now |-> NewExecutor, size |-> batch[b].size, users |-> pool.users + 1, failed |-> FALSE]
    /\ batch' = [batch EXCEPT ![b] = [@ EXCEPT !.pc = "submit", !.lease = NewExecutor]]
    /\ point' = Cancelled(pool.now)
    /\ mutex' = None

\* No process can be started: the batch is calculated without a pool.
ReplaceFails(b) ==
    /\ At(b, "replace")
    /\ Closable(pool.now)
    /\ executor' = ClosedRow(pool.now)
    /\ pool' = [pool EXCEPT !.now = NoExecutor, !.size = 0]
    /\ GoTo(b, "sequential")
    /\ point' = Cancelled(pool.now)
    /\ mutex' = None

-----------------------------------------------------------------------------
(* The batch under its lease (_compute_points).                            *)

\* Submission fails from some point on when the executor is broken already,
\* or when a point cannot be sent.
Submit(b) ==
    /\ At(b, "submit")
    /\ \E n \in 0..NPoints :
          /\ executor[batch[b].lease].state = "broken" => n = 0
          /\ point' = [point EXCEPT ![b] = [i \in Points |-> IF i <= n THEN "queued" ELSE "none"]]
          /\ GoTo(b, IF n = NPoints THEN "collect" ELSE "mark")
    /\ UNCHANGED <<pool, executor, mutex>>

Collect(b) ==
    LET i == batch[b].next
        answer == IF i > NPoints THEN "done" ELSE point[b][i]
    IN  /\ At(b, "collect")
        /\ answer \in {"done", "failed", "refused"}
        /\ batch' = [batch EXCEPT ![b] =
              IF i > NPoints THEN [@ EXCEPT !.pc = "release"]
              ELSE IF answer = "done" THEN [@ EXCEPT !.next = i + 1]
              ELSE IF answer = "failed" THEN [@ EXCEPT !.pc = "mark"]
              ELSE [@ EXCEPT !.pc = "cancel", !.ending = "refused"]]
        /\ UNCHANGED <<pool, executor, mutex, point>>

\* Only the executor the batch used is declared failed.
Mark(b) == /\ At(b, "mark")
           /\ mutex = None
           /\ pool' = IF pool.now = batch[b].lease THEN [pool EXCEPT !.failed = TRUE] ELSE pool
           /\ batch' = [batch EXCEPT ![b] = [@ EXCEPT !.pc = "cancel", !.ending = "fallback"]]
           /\ UNCHANGED <<executor, mutex, point>>

\* _drain_points: queued points are cancelled, running ones awaited.
CancelPoints(b) == /\ At(b, "cancel")
                   /\ point' = [point EXCEPT ![b] = [i \in Points |-> IF @[i] = "queued" THEN "cancelled" ELSE @[i]]]
                   /\ GoTo(b, "drain")
                   /\ UNCHANGED <<pool, executor, mutex>>
FaultyDrained(b) == \A i \in Points : point[b][i] # "queued"
Drained(b) == \A i \in Points : point[b][i] \notin Unstopped
Drain(b) == /\ At(b, "drain")
            /\ Drained(b)
            /\ GoTo(b, "release")
            /\ UNCHANGED <<pool, executor, mutex, point>>

\* The lease ends and everybody in the wait set looks again.
FaultyWoken(t) == IF At(t, "waiting") THEN "acquire" ELSE batch[t].pc
Woken(t) == IF At(t, "waiting") THEN "acquire" ELSE IF At(t, "lingering") THEN "retire" ELSE batch[t].pc
Users(b) == pool.users - 1
AfterLease(b) == IF batch[b].ending = "fallback" THEN "retire" ELSE "ended"

Release(b) ==
    /\ At(b, "release")
    /\ mutex = None
    /\ pool' = [pool EXCEPT !.users = Users(b)]
    /\ batch' = [t \in Threads |-> [batch[t] EXCEPT !.pc = IF t = b THEN AfterLease(b) ELSE Woken(t)]]
    /\ UNCHANGED <<executor, mutex, point>>

-----------------------------------------------------------------------------
(* _retire_cpu_pool: after a failure, of the executor that failed; at       *)
(* shutdown, of whatever executor there is.                                 *)

Stop == /\ At(Stopper, "idle")
        /\ GoTo(Stopper, "retire")
        /\ UNCHANGED <<pool, executor, mutex, point>>

Afterwards(t) == IF t = Stopper THEN "ended" ELSE "sequential"
IsReplaced(t) == t # Stopper /\ pool.now # batch[t].lease

Retire(t) ==
    /\ At(t, "retire")
    /\ mutex = None
    /\ \/ /\ IsReplaced(t)
          /\ GoTo(t, Afterwards(t))
          /\ UNCHANGED mutex
       \/ /\ ~IsReplaced(t)
          /\ pool.users > 0
          /\ GoTo(t, "lingering")
          /\ UNCHANGED mutex
       \/ /\ ~IsReplaced(t)
          /\ pool.users = 0
          /\ GoTo(t, "closing")
          /\ mutex' = t
    /\ UNCHANGED <<pool, executor, point>>

Close(t) ==
    /\ At(t, "closing")
    /\ Closable(pool.now)
    /\ executor' = ClosedRow(pool.now)
    /\ point' = Cancelled(pool.now)
    /\ pool' = [pool EXCEPT !.now = NoExecutor, !.size = 0, !.failed = FALSE]
    /\ mutex' = None
    /\ GoTo(t, Afterwards(t))

\* The points that are missing are calculated in the request's own thread.
Sequential(b) == /\ At(b, "sequential")
                 /\ GoTo(b, "ended")
                 /\ UNCHANGED <<pool, executor, mutex, point>>

-----------------------------------------------------------------------------
(* The worker processes.                                                   *)

RunPoint(b, i) ==
    LET e == batch[b].lease
    IN  /\ point[b][i] = "queued"
        /\ executor[e].state = "open"
        /\ Cardinality(RunningOn(e)) < executor[e].size
        /\ point' = [point EXCEPT ![b][i] = "running"]
        /\ UNCHANGED <<pool, executor, mutex, batch>>

FinishPoint(b, i) ==
    /\ point[b][i] = "running"
    /\ \E how \in {"done", "failed", "refused"} : point' = [point EXCEPT ![b][i] = how]
    /\ UNCHANGED <<pool, executor, mutex, batch>>

\* A worker process dies: the executor fails all it had not finished.
Break(e) ==
    /\ executor[e].state = "open"
    /\ executor' = [executor EXCEPT ![e].state = "broken"]
    /\ point' = [b \in Batches |-> [i \in Points |->
                    IF <<b, i>> \in UnstoppedOn(e) THEN "failed" ELSE point[b][i]]]
    /\ UNCHANGED <<pool, mutex, batch>>

BatchStep(b) == \/ Replace(b) \/ ReplaceFails(b) \/ Submit(b) \/ Collect(b) \/ CancelPoints(b) \/ Drain(b)
                \/ Close(b) \/ Sequential(b)
LockStep(b) == Acquire(b) \/ Mark(b) \/ Release(b) \/ Retire(b)
PointStep(b) == \E i \in Points : RunPoint(b, i) \/ FinishPoint(b, i)

Next == \/ \E b \in Batches : Ask(b) \/ BatchStep(b) \/ LockStep(b) \/ PointStep(b)
        \/ Stop \/ Retire(Stopper) \/ Close(Stopper)
        \/ \E e \in Executors : Break(e)

Spec == Init /\ [][Next]_vars

\* Request threads and workers run, and a thread that wants the condition gets it.
Fairness == /\ \A b \in Batches : WF_vars(BatchStep(b)) /\ SF_vars(LockStep(b)) /\ WF_vars(PointStep(b))
            /\ SF_vars(Retire(Stopper)) /\ WF_vars(Close(Stopper))
FairSpec == Spec /\ Fairness

-----------------------------------------------------------------------------
(* Properties                                                              *)

HasLease(b) == batch[b].pc \in {"submit", "collect", "mark", "cancel", "drain", "release"}

\* "A batch owns its executor until every submitted future has stopped": no
\* executor is closed under a lease, whoever wants a larger one, retires one
\* or shuts down, and users counts the leases.
LeasedStaysOpen ==
    /\ pool.users = Cardinality({b \in Batches : HasLease(b)})
    /\ \A b \in Batches : HasLease(b) => /\ batch[b].lease = pool.now
                                         /\ executor[batch[b].lease].state # "closed"

\* "Never resize underneath another request or overlap old and replacement
\* workers": one executor at most has not been closed, and no point is left on
\* a closed one.
OneExecutor ==
    /\ Cardinality({e \in Executors : executor[e].state \in {"open", "broken"}}) <= 1
    /\ \A e \in Executors : executor[e].state = "closed" => UnstoppedOn(e) = {}

\* Closing an executor happens with the condition held, and never has to wait
\* there: its points have all stopped (_pool, _retire_cpu_pool).
ClosingIsQuick == \A t \in Threads : batch[t].pc \in {"replace", "closing"} => UnstoppedOn(pool.now) = {}

\* "Cancel queued points and await running ones before any sequential
\* fallback": nothing calculates a point of a batch that calculates it itself.
DrainedBeforeFallback ==
    \A b \in Batches : batch[b].pc \in {"retire", "lingering", "closing", "sequential", "ended"} =>
        \A i \in DOMAIN point[b] : point[b][i] \notin Unstopped

\* Every batch is answered and shutdown returns: no waiter of the condition is
\* left behind, whatever fails meanwhile.
BatchesEnd == \A t \in Threads : ~At(t, "idle") ~> At(t, "ended")
=============================================================================
