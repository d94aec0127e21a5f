----------------------------- MODULE MCRequests -----------------------------
(***************************************************************************)
(* What must end in one API process: sweep jobs (WhatIfJobs), registrations*)
(* and promotions (ModelBases), batches of the CPU pool (CpuPool), requests*)
(* and applies that use the rule and facets caches (ServingCaches), callers*)
(* of the result cache (ResultCache).  These components share no state, so *)
(* TLC explores each of them by itself: part names the one that moves, the *)
(* others stay in their initial states, where no fair action is enabled.   *)
(***************************************************************************)
EXTENDS ModelBases

CONSTANTS None, a1, a2, Stopper, k1, k2, c1, j1, p1

VARIABLES part,
          pool, executor, mutex, batch, point,           \* CpuPool
          db, answered, rules, rLock, facets, thread,    \* ServingCaches
          values, pending, future, caller,               \* ResultCache
          row, worker, jPool, flag, stopping             \* WhatIfJobs

\* The threads of each component have the same names.
TwoSessions == {a1, a2}
OneContent == {c1}

Pool == INSTANCE CpuPool WITH Batches <- {a1, a2}, NPoints <- 1, Sizes <- {1, 2}
Caches == INSTANCE ServingCaches WITH RequestThreads <- {a1, a2}, NoThread <- None, MaxCommits <- 1, lock <- rLock
Cached == INSTANCE ResultCache WITH Callers <- {a1, a2}, Cases <- {k1, k2}, Capacity <- 1, NoCaller <- None

\* One job in one process; its workers are the tokens 1 and 2.
Jobs == INSTANCE WhatIfJobs WITH pool <- jPool, Jobs <- {j1}, Procs <- {p1}, MaxTokens <- 2, Total <- 1,
    PoolSize <- 2, MaxActive <- 2, MaxConcurrent <- 1, LateProcs <- {p1}
Token(a) == IF a = a1 THEN 1 ELSE 2

poolVars == <<pool, executor, mutex, batch, point>>
cacheVars == <<db, answered, rules, rLock, facets, thread>>
resultVars == <<values, pending, future, caller>>
jobVars == <<row, worker, jPool, flag, stopping>>
All == <<part, basesVars, poolVars, cacheVars, resultVars, jobVars>>

\* Both variants have a current prediction, and the trial of a draft basis has
\* recalculated them: a promotion would replace both.
Tried(v) == [pred |-> v, status |-> "ok", run |-> 1, under |-> 0]
TriedInit ==
    /\ inputs = 0
    /\ basis = [b \in Bases |-> [status |-> "draft", content |-> c1, stamp |-> 0, trial |-> 1,
                                 items |-> [v \in VariantKeys |-> Tried(v)]]]
    /\ pred = [p \in Preds |-> [variant |-> IF p \in VariantKeys THEN p ELSE 1, supersedes |-> 0, basis |-> 0, under |-> 0,
                                status |-> IF p \in VariantKeys THEN "current" ELSE "absent"]]
    /\ project = NoSession
    /\ lock = [v \in VariantKeys |-> NoSession]
    /\ req = [r \in Sessions |-> Fresh]

MCInit == /\ part \in {"bases", "pool", "caches", "results", "jobs"}
          /\ TriedInit /\ Pool!Init /\ Caches!CachesInit /\ Cached!ResultInit /\ Jobs!Init
          /\ part # "caches" => rules.loaded

InBases(A) == part = "bases" /\ A /\ UNCHANGED <<part, poolVars, cacheVars, resultVars, jobVars>>
InPool(A) == part = "pool" /\ A /\ UNCHANGED <<part, basesVars, cacheVars, resultVars, jobVars>>
InCaches(A) == part = "caches" /\ A /\ UNCHANGED <<part, basesVars, poolVars, resultVars, jobVars>>
InCached(A) == part = "results" /\ A /\ UNCHANGED <<part, basesVars, poolVars, cacheVars, jobVars>>
InJobs(A) == part = "jobs" /\ A /\ UNCHANGED <<part, basesVars, poolVars, cacheVars, resultVars>>

\* updated_at need not age where one job never meets a full queue.
NeverFull == row[j1].updated => row'[j1].updated

\* One registration at a time has a review to honour, one batch asks for two workers.
MCNext == InBases(BasesNext /\ ~req'[a1].guarded) \/ InPool(Pool!Next /\ batch'[a1].size <= 1)
          \/ InCaches(Caches!CachesNext) \/ InCached(Cached!ResultNext)
          \/ InJobs(Jobs!Next /\ NeverFull)

-----------------------------------------------------------------------------
\* The fairness formulas of the five modules.  As only one part ever moves, an
\* action of one module shares its formula with an action of another.
Runs(a) == \/ InBases(RequestStep(a))
           \/ InPool(Pool!BatchStep(a))
           \/ InCaches(Caches!RuleStep(a) \/ Caches!FacetStep(a) \/ Caches!Serve(a))
           \/ InCached(Cached!CallerStep(a))
           \/ InJobs(Jobs!WorkerStep(Token(a)))
Others(a) == InBases(EndDeadlock(a)) \/ InPool(Pool!PointStep(a)) \/ InJobs(Jobs!Launch(Token(a)))
IsGranted(a) == InBases(LockStep(a)) \/ InPool(Pool!LockStep(a)) \/ InCaches(Caches!RuleLockStep(a))

\* The variables of the part that moves: all that a step can change.
Moving == CASE part = "bases" -> basesVars [] part = "pool" -> poolVars [] part = "caches" -> cacheVars
            [] part = "results" -> resultVars [] part = "jobs" -> jobVars

MCSpec == /\ MCInit /\ [][MCNext]_All
          /\ \A a \in {a1, a2} : WF_Moving(Runs(a)) /\ WF_Moving(Others(a)) /\ SF_Moving(IsGranted(a))
          /\ SF_Moving(InPool(Pool!Retire(Stopper))) /\ WF_Moving(InPool(Pool!Close(Stopper)) \/ InJobs(Jobs!DropFutures(p1)))
          /\ WF_Moving(InJobs(Jobs!ShutdownReturns(p1)))
          /\ WF_Moving(InJobs(Jobs!LeaseExpires(j1) /\ ~Jobs!KeptAlive(j1)))

-----------------------------------------------------------------------------
\* Every registration and promotion, every batch, every request that uses a
\* cache, every apply and every caller of the result cache comes to an end, and
\* an accepted job comes to rest or its lease runs out (RequestsEnd, BatchesEnd,
\* RequestsAnswer, CallersEnd, AcceptedSettles of the modules).
Busy(a) == \/ req[a].pc # "idle" \/ batch[a].pc \notin {"idle", "ended"} \/ thread[a].pc # "idle"
           \/ caller[a].pc \notin {"idle", "answered"}
           \/ a = a1 /\ Jobs!Active(j1) /\ ~Jobs!Expired(j1)
ThreadsEnd == \A a \in {a1, a2} : Busy(a) ~> ~Busy(a)

\* The shutdown of the CPU pool and that of the job threads return (CpuPool,
\* ShutdownEnds of WhatIfJobs).
Stopping == batch[Stopper].pc \notin {"idle", "ended"} \/ stopping[p1] # "no"
ShutdownsEnd == Stopping ~> ~Stopping
=============================================================================
