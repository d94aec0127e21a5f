-------------------------- MODULE WhatIfJobs_proofs --------------------------
(***************************************************************************)
(* Proofs about WhatIfJobs for every set of jobs and processes and every   *)
(* value of the bounds.                                                    *)
(*                                                                         *)
(* First the types and the agreement of the holder's locals with its row.  *)
(* Then what the steps do to the rows: they implement JobLifecycle, a      *)
(* superseded worker changes nothing, only the holder revives a lease, no  *)
(* case is begun for a job that should stop, and only its owner cancels it.*)
(***************************************************************************)
EXTENDS WhatIfJobs, TLAPS

-----------------------------------------------------------------------------
(* Records: a row, or a worker, with some of its fields replaced.          *)

LEMMA ConstantFacts == /\ Total \in Nat /\ Total > 0
                       /\ MaxTokens \in Nat
                       /\ \A t \in Tokens : t \in Nat /\ t # NoToken
  BY JobsAssumption DEF Tokens, NoToken

\* What a fresh row, and a row with new stamps, a new status, new progress or a new token look like.
LEMMA RowUpdates ==
    ASSUME NEW r \in Row, NEW s \in Statuses, NEW t \in Tokens \cup {NoToken}, NEW d \in 0..Total
    PROVE  /\ [r EXCEPT !.lease = FALSE] \in Row
           /\ [r EXCEPT !.updated = FALSE] \in Row
           /\ [r EXCEPT !.lease = TRUE, !.updated = TRUE] \in Row
           /\ [r EXCEPT !.done = d, !.lease = TRUE, !.updated = TRUE] \in Row
           /\ [r EXCEPT !.status = s, !.lease = TRUE, !.updated = TRUE] \in Row
           /\ [r EXCEPT !.status = s, !.updated = TRUE] \in Row
           /\ [r EXCEPT !.status = s, !.done = d, !.updated = TRUE] \in Row
           /\ [r EXCEPT !.status = s, !.token = t] \in Row
           /\ [r EXCEPT !.cancelRequested = TRUE, !.updated = TRUE] \in Row
           /\ [r EXCEPT !.status = s, !.token = t, !.cancelRequested = FALSE, !.lease = TRUE, !.updated = TRUE] \in Row
  BY ZenonT(60) DEF Row, Statuses

\* The replacements the actions make in a worker: what is typed stays typed, and which fields stay.
LEMMA WorkerPc ==
    ASSUME NEW r \in Worker, NEW x \in Phases
    PROVE  LET k == [r EXCEPT !.pc = x] IN
           k \in Worker /\ k.pc = x /\ k.job = r.job /\ k.done = r.done /\ k.stopped = r.stopped
  BY DEF Worker

LEMMA WorkerBeatStops ==
    ASSUME NEW r \in Worker
    PROVE  LET k == [r EXCEPT !.beating = FALSE] IN
           k \in Worker /\ k.pc = r.pc /\ k.job = r.job /\ k.done = r.done /\ k.stopped = r.stopped
  BY DEF Worker

LEMMA WorkerDrains ==
    ASSUME NEW r \in Worker
    PROVE  LET k == [r EXCEPT !.draining = TRUE] IN
           k \in Worker /\ k.pc = r.pc /\ k.job = r.job /\ k.done = r.done /\ k.stopped = r.stopped
  BY DEF Worker

LEMMA WorkerHanded ==
    ASSUME NEW r \in Worker, NEW x \in Phases, NEW j \in Jobs, NEW p \in Procs
    PROVE  LET k == [r EXCEPT !.pc = x, !.job = j, !.proc = p] IN
           k \in Worker /\ k.pc = x /\ k.job = j /\ k.done = r.done /\ k.stopped = r.stopped
  BY DEF Worker

LEMMA WorkerComputes ==
    ASSUME NEW r \in Worker, NEW x \in Phases, NEW d \in 0..Total
    PROVE  LET k == [r EXCEPT !.pc = x, !.done = d] IN
           k \in Worker /\ k.pc = x /\ k.job = r.job /\ k.done = d /\ k.stopped = r.stopped
  BY DEF Worker

LEMMA WorkerClaims ==
    ASSUME NEW r \in Worker, NEW x \in Phases, NEW d \in 0..Total
    PROVE  LET k == [r EXCEPT !.pc = x, !.done = d, !.beating = TRUE] IN
           k \in Worker /\ k.pc = x /\ k.job = r.job /\ k.done = d /\ k.stopped = r.stopped
  BY DEF Worker

LEMMA WorkerSlot ==
    ASSUME NEW r \in Worker, NEW x \in Phases, NEW b \in BOOLEAN
    PROVE  LET k == [r EXCEPT !.pc = x, !.slot = b] IN
           k \in Worker /\ k.pc = x /\ k.job = r.job /\ k.done = r.done /\ k.stopped = r.stopped
  BY DEF Worker

LEMMA WorkerStops ==
    ASSUME NEW r \in Worker, NEW x \in Phases
    PROVE  LET k == [r EXCEPT !.pc = x, !.stopped = TRUE] IN
           k \in Worker /\ k.pc = x /\ k.job = r.job /\ k.done = r.done /\ k.stopped = TRUE
  BY DEF Worker

LEMMA EndedTyped == ASSUME NEW r \in Worker
                    PROVE  /\ Ended(r) \in Worker /\ Ended(r).pc = "ended" /\ Ended(r).job = r.job
                           /\ [Ended(r) EXCEPT !.slot = FALSE] \in Worker
                           /\ [Ended(r) EXCEPT !.slot = FALSE].pc = "ended"
                           /\ [Ended(r) EXCEPT !.slot = FALSE].job = r.job
<1>1. 0 \in 0..Total
  BY ConstantFacts
<1> QED
  BY <1>1 DEF Ended, Worker, Phases

-----------------------------------------------------------------------------
(***************************************************************************)
(* Type correctness.  "compute" is only entered with a case left, without  *)
(* which the number of rows could run past Total: the bound on a worker's  *)
(* rows needs this conjunct to be inductive.                               *)
(***************************************************************************)
CaseLeftInCompute == \A w \in Tokens : worker[w].pc = "compute" => worker[w].done < Total

TypeInv == TypeOK /\ CaseLeftInCompute

LEMMA TypeInvInit == Init => TypeInv
<1>1. (CHOOSE j \in Jobs : TRUE) \in Jobs /\ (CHOOSE p \in Procs : TRUE) \in Procs
  BY JobsAssumption
<1>2. 0 \in 0..Total
  BY ConstantFacts
<1> QED
  BY <1>1, <1>2 DEF Init, TypeInv, TypeOK, CaseLeftInCompute, Row, Statuses, Worker, Phases

\* A step that changes at most one row and at most one worker, to well-typed
\* records, and leaves the rest of the state typed.
LEMMA OneRowOneWorker ==
    ASSUME TypeInv,
           NEW j \in Jobs, NEW r \in Row, NEW w \in Tokens, NEW k \in Worker,
           k.pc = "compute" => k.done < Total,
           row' = [row EXCEPT ![j] = r] \/ row' = row,
           worker' = [worker EXCEPT ![w] = k] \/ worker' = worker,
           pool' \in [Procs -> BOOLEAN], flag' \in [Procs -> BOOLEAN],
           stopping' \in [Procs -> {"no", "marked", "waiting"}]
    PROVE  TypeInv'
  BY DEF TypeInv, TypeOK, CaseLeftInCompute

LEMMA OneWorker ==
    ASSUME TypeInv,
           NEW w \in Tokens, NEW k \in Worker,
           k.pc = "compute" => k.done < Total,
           row' = row, worker' = [worker EXCEPT ![w] = k],
           pool' \in [Procs -> BOOLEAN], flag' \in [Procs -> BOOLEAN],
           stopping' \in [Procs -> {"no", "marked", "waiting"}]
    PROVE  TypeInv'
  BY DEF TypeInv, TypeOK, CaseLeftInCompute

LEMMA Typed == ASSUME TypeInv
               PROVE  /\ \A j \in Jobs : row[j] \in Row
                      /\ \A w \in Tokens : worker[w] \in Worker
                      /\ \A w \in Tokens : worker[w].job \in Jobs /\ worker[w].done \in 0..Total
                      /\ \A j \in Jobs : row[j].done \in 0..Total
                      /\ \A j \in Jobs : row[j].token \in Tokens \cup {NoToken}
  BY DEF TypeInv, TypeOK, Row, Worker

\* What becomes of a worker that ends: its heartbeat may still be in an update, nothing else is left.
GoneFrom(k, r) ==
    /\ k \in Worker /\ k.pc = "ended" /\ k.job = r.job /\ k.proc = r.proc /\ k.done = 0
    /\ ~k.stopped /\ ~k.draining /\ (k.beating => r.beating)

LEMMA EndedWorker ==
    ASSUME TypeInv, NEW w \in Tokens, End(w)
    PROVE  \E k : GoneFrom(k, worker[w]) /\ worker' = [worker EXCEPT ![w] = k]
<1>1. PICK b \in {FALSE, worker[w].beating} : worker' = [worker EXCEPT ![w] = [Ended(@) EXCEPT !.beating = b]]
  BY DEF End
<1> DEFINE e == Ended(worker[w])
           k == [e EXCEPT !.beating = b]
<1>2. worker[w] \in Worker /\ e \in Worker
  BY Typed, EndedTyped
<1>3. /\ e.pc = "ended" /\ e.job = worker[w].job /\ e.proc = worker[w].proc /\ e.done = 0
      /\ e.stopped = FALSE /\ e.draining = FALSE
  BY <1>2 DEF Ended, Worker
<1>4. b \in BOOLEAN /\ (b => worker[w].beating)
  BY <1>2 DEF Worker
<1>5. worker' = [worker EXCEPT ![w] = k]
  BY <1>1
<1> HIDE DEF e
<1>6. /\ k \in Worker /\ k.pc = e.pc /\ k.job = e.job /\ k.proc = e.proc /\ k.done = e.done
      /\ k.stopped = e.stopped /\ k.draining = e.draining /\ k.beating = b
  BY <1>2, <1>4 DEF Worker
<1> HIDE DEF k
<1> QED
  BY <1>3, <1>4, <1>5, <1>6 DEF GoneFrom

\* What a heartbeat leaves of its worker, and of the row: the thread may end, the lease may be fresh.
SameButBeat(k, r) ==
    /\ k \in Worker /\ k.pc = r.pc /\ k.job = r.job /\ k.proc = r.proc /\ k.done = r.done
    /\ k.stopped = r.stopped /\ k.draining = r.draining /\ (k.beating => r.beating)

SameButLease(q, r) ==
    /\ q \in Row /\ q.status = r.status /\ q.token = r.token /\ q.done = r.done
    /\ q.cancelRequested = r.cancelRequested

LEMMA BeatenWorker ==
    ASSUME TypeInv, NEW w \in Tokens, Beat(w) \/ BeatFails(w)
    PROVE  \E k : /\ SameButBeat(k, worker[w]) /\ worker' = [worker EXCEPT ![w] = k]
                  /\ worker[w].pc = "ended" => ~k.beating
<1> DEFINE k == [worker[w] EXCEPT !.beating = FALSE]
<1>1. worker[w] \in Worker /\ worker \in [Tokens -> Worker]
  BY DEF TypeInv, TypeOK
<1>2. SameButBeat(k, worker[w]) /\ ~k.beating
  BY <1>1 DEF SameButBeat, Worker
<1>3. SameButBeat(worker[w], worker[w]) /\ worker = [worker EXCEPT ![w] = worker[w]]
  BY <1>1 DEF SameButBeat
<1>4. \/ worker' = worker /\ worker[w].pc # "ended"
      \/ worker' = [worker EXCEPT ![w] = k]
  BY DEF Beat, BeatFails
<1> HIDE DEF k
<1> QED
  BY <1>2, <1>3, <1>4

LEMMA BeatenRow ==
    ASSUME TypeInv, NEW w \in Tokens, Beat(w) \/ BeatFails(w)
    PROVE  \E q : /\ SameButLease(q, row[worker[w].job]) /\ row' = [row EXCEPT ![worker[w].job] = q]
                  /\ q = row[worker[w].job] \/ BeatFinds(w)
<1> DEFINE j == worker[w].job
           q == [row[j] EXCEPT !.lease = TRUE, !.updated = TRUE]
<1>1. j \in Jobs /\ row[j] \in Row /\ row \in [Jobs -> Row]
  BY Typed DEF TypeInv, TypeOK
<1>2. SameButLease(q, row[j]) /\ SameButLease(row[j], row[j]) /\ row = [row EXCEPT ![j] = row[j]]
  BY <1>1 DEF SameButLease, Row
<1>3. row' = row \/ (BeatFinds(w) /\ row' = [row EXCEPT ![j] = q])
  BY DEF Beat, BeatFails
<1> HIDE DEF q
<1> QED
  BY <1>2, <1>3

LEMMA TypeInvStep == TypeInv /\ [Next]_vars => TypeInv'
<1> SUFFICES ASSUME TypeInv, [Next]_vars PROVE TypeInv'
  OBVIOUS
<1> USE Typed
<1>0. /\ pool \in [Procs -> BOOLEAN] /\ flag \in [Procs -> BOOLEAN]
      /\ stopping \in [Procs -> {"no", "marked", "waiting"}]
      /\ \E j \in Jobs : TRUE
  BY JobsAssumption DEF TypeInv, TypeOK
<1>1. ASSUME NEW j \in Jobs, NEW p \in Procs, Submit(j, p) PROVE TypeInv'
  <2>1. PICK t \in Tokens :
            /\ row' = [row EXCEPT ![j] = [status |-> "queued", token |-> t, cancelRequested |-> FALSE,
                                          lease |-> TRUE, updated |-> TRUE, done |-> 0]]
            /\ Hand(t, j, p)
    BY <1>1 DEF Submit
  <2>2. [status |-> "queued", token |-> t, cancelRequested |-> FALSE,
         lease |-> TRUE, updated |-> TRUE, done |-> 0] \in Row
    BY ConstantFacts DEF Row, Statuses
  <2>3. [worker[t] EXCEPT !.pc = "launch", !.job = j, !.proc = p] \in Worker
    BY Typed DEF Worker, Phases
  <2>4. [worker[t] EXCEPT !.pc = "launch", !.job = j, !.proc = p].pc = "launch"
    BY DEF Worker
  <2> QED
    BY <1>0, <1>1, <2>1, <2>2, <2>3, <2>4, OneRowOneWorker DEF Submit, Hand
<1>2. ASSUME NEW j \in Jobs, NEW p \in Procs, Resume(j, p) PROVE TypeInv'
  <2>1. PICK t \in Tokens :
            /\ row' = [row EXCEPT ![j] = [@ EXCEPT !.status = "queued", !.token = t, !.cancelRequested = FALSE,
                                                   !.lease = TRUE, !.updated = TRUE]]
            /\ Hand(t, j, p)
    BY <1>2 DEF Resume
  <2>2. [row[j] EXCEPT !.status = "queued", !.token = t, !.cancelRequested = FALSE,
                       !.lease = TRUE, !.updated = TRUE] \in Row
    BY RowUpdates DEF Statuses
  <2>3. [worker[t] EXCEPT !.pc = "launch", !.job = j, !.proc = p] \in Worker
    BY Typed DEF Worker, Phases
  <2>4. [worker[t] EXCEPT !.pc = "launch", !.job = j, !.proc = p].pc = "launch"
    BY DEF Worker
  <2> QED
    BY <1>0, <1>2, <2>1, <2>2, <2>3, <2>4, OneRowOneWorker DEF Resume, Hand
<1>3. ASSUME NEW j \in Jobs, Cancel(j) PROVE TypeInv'
  <2> DEFINE asked == [row[j] EXCEPT !.cancelRequested = TRUE, !.updated = TRUE]
  <2>1. asked \in Row
    BY RowUpdates, ConstantFacts DEF Statuses
  <2>2. Cancelled(asked) \in Row
    BY <2>1, RowUpdates DEF Statuses, Cancelled
  <2>3. \E r \in Row : row' = [row EXCEPT ![j] = r]
    BY <1>3, <2>1, <2>2 DEF Cancel
  <2> QED
    BY <1>0, <1>3, <2>3 DEF Cancel, TypeInv, TypeOK, CaseLeftInCompute
<1>4. ASSUME NEW j \in Jobs, LeaseExpires(j) PROVE TypeInv'
  BY ZenonT(60), <1>0, <1>4, RowUpdates DEF LeaseExpires, TypeInv, TypeOK, CaseLeftInCompute, Statuses
<1>5. ASSUME NEW j \in Jobs, UpdateAges(j) PROVE TypeInv'
  BY ZenonT(60), <1>0, <1>5, RowUpdates DEF UpdateAges, TypeInv, TypeOK, CaseLeftInCompute, Statuses
<1>6. ASSUME NEW w \in Tokens, Launch(w) PROVE TypeInv'
  <2> DEFINE k == [worker[w] EXCEPT !.pc = "pooled"]
  <2>1. k \in Worker /\ k.pc = "pooled"
    BY ZenonT(60), WorkerPc DEF Phases
  <2> QED
    BY <1>0, <1>6, <2>1, OneRowOneWorker DEF Launch
<1>7. ASSUME NEW w \in Tokens, LaunchLost(w) PROVE TypeInv'
  <2>1. PICK k : GoneFrom(k, worker[w]) /\ worker' = [worker EXCEPT ![w] = k]
    BY <1>7, EndedWorker DEF LaunchLost
  <2> QED
    BY <1>0, <1>7, <2>1, OneWorker DEF LaunchLost, GoneFrom
<1>8. ASSUME NEW w \in Tokens, Claim(w) PROVE TypeInv'
  <2>1. CASE End(w) /\ UNCHANGED row
    <3>1. PICK k : GoneFrom(k, worker[w]) /\ worker' = [worker EXCEPT ![w] = k]
      BY <2>1, EndedWorker
    <3> QED
      BY <1>0, <1>8, <2>1, <3>1, OneWorker DEF Claim, GoneFrom
  <2>2. CASE ~(End(w) /\ UNCHANGED row)
    <3> DEFINE r == [row[worker[w].job] EXCEPT !.status = "running", !.lease = TRUE, !.updated = TRUE]
               k == [worker[w] EXCEPT !.pc = "waiting", !.done = Previous(w), !.beating = TRUE]
    <3>1. r \in Row
      BY RowUpdates DEF Statuses
    <3>2. k \in Worker /\ k.pc = "waiting"
      BY Typed DEF Worker, Phases, Previous
    <3>3. row' = [row EXCEPT ![worker[w].job] = r] /\ worker' = [worker EXCEPT ![w] = k]
      BY <1>8, <2>2 DEF Claim
    <3>4. UNCHANGED <<pool, flag, stopping>>
      BY <1>8 DEF Claim
    <3> HIDE DEF r, k
    <3> QED
      BY <1>0, <3>1, <3>2, <3>3, <3>4, OneRowOneWorker
  <2> QED
    BY <2>1, <2>2
<1>9. ASSUME NEW w \in Tokens, AwaitSlot(w) PROVE TypeInv'
  <2> DEFINE r == [row[worker[w].job] EXCEPT !.status = IF flag[worker[w].proc] THEN "interrupted" ELSE "cancelled",
                                             !.updated = TRUE]
             k == [worker[w] EXCEPT !.pc = "trying"]
  <2>1. r \in Row
    BY RowUpdates DEF Statuses
  <2>2. k \in Worker /\ k.pc = "trying"
    BY ZenonT(60), WorkerPc DEF Phases
  <2>3. CASE End(w)
    <3>1. row' = row \/ row' = [row EXCEPT ![worker[w].job] = r]
      BY <1>9 DEF AwaitSlot, Superseded
    <3>2. UNCHANGED <<pool, flag, stopping>>
      BY <1>9 DEF AwaitSlot, Superseded
    <3>3. PICK e : GoneFrom(e, worker[w]) /\ worker' = [worker EXCEPT ![w] = e]
      BY <2>3, EndedWorker
    <3> HIDE DEF r, k
    <3> QED
      BY <1>0, <2>1, <3>1, <3>2, <3>3, OneRowOneWorker DEF GoneFrom
  <2>4. CASE worker' = [worker EXCEPT ![w] = k] /\ row' = row
    BY ZenonT(60), <1>0, <1>9, <2>1, <2>2, <2>4, OneRowOneWorker DEF AwaitSlot, Superseded
  <2> QED
    BY <1>9, <2>3, <2>4 DEF AwaitSlot, Superseded
<1>10. ASSUME NEW w \in Tokens, TrySlot(w) PROVE TypeInv'
  <2> DEFINE k == [worker[w] EXCEPT !.pc = "sweep", !.slot = TRUE]
             l == [worker[w] EXCEPT !.pc = "waiting"]
  <2>1. k \in Worker /\ k.pc = "sweep" /\ l \in Worker /\ l.pc = "waiting"
    BY Typed DEF Worker, Phases
  <2>2. worker' = [worker EXCEPT ![w] = k] \/ worker' = [worker EXCEPT ![w] = l]
    BY <1>10 DEF TrySlot
  <2> QED
    BY <1>0, <1>10, <2>1, <2>2, OneWorker DEF TrySlot
<1>11. ASSUME NEW w \in Tokens, BeginSweep(w) PROVE TypeInv'
  <2> DEFINE k == [worker[w] EXCEPT !.pc = "cases"]
  <2>1. k \in Worker /\ k.pc = "cases"
    BY WorkerPc DEF Phases
  <2> QED
    BY <1>0, <1>11, <2>1, OneRowOneWorker DEF BeginSweep
<1>12. ASSUME NEW w \in Tokens, Checkpoint(w) PROVE TypeInv'
  <2> DEFINE j == worker[w].job
             k == [worker[w] EXCEPT !.pc = "compute"]
             l == [worker[w] EXCEPT !.pc = "closing", !.stopped = TRUE]
  <2>1. k \in Worker /\ l \in Worker /\ l.pc = "closing"
    BY Typed DEF Worker, Phases
  <2>2. k.done < Total
    BY <1>12, WorkerPc DEF Checkpoint, CasesLeft, Phases
  <2>3. worker' = [worker EXCEPT ![w] = k] \/ worker' = [worker EXCEPT ![w] = l]
    BY <1>12 DEF Checkpoint
  <2>4. row' = row \/ \E r \in Row : row' = [row EXCEPT ![j] = r]
    <3>1. CASE StoreCheckpoint(w)
      <4>1. PICK d \in {row[j].done, worker[w].done} :
                row' = [row EXCEPT ![j] = [@ EXCEPT !.done = d, !.lease = TRUE, !.updated = TRUE]]
        BY <3>1 DEF StoreCheckpoint
      <4>2. [row[j] EXCEPT !.done = d, !.lease = TRUE, !.updated = TRUE] \in Row
        BY RowUpdates, ConstantFacts DEF Statuses
      <4> QED
        BY <4>1, <4>2
    <3> QED
      BY <1>12, <3>1 DEF Checkpoint
  <2>5. UNCHANGED <<pool, flag, stopping>>
    BY <1>12 DEF Checkpoint
  <2>6. j \in Jobs /\ row[j] \in Row
    BY Typed
  <2> HIDE DEF j, k, l
  <2> QED
    BY <1>0, <2>1, <2>2, <2>3, <2>4, <2>5, <2>6, OneRowOneWorker
<1>13. ASSUME NEW w \in Tokens, ComputeCase(w) PROVE TypeInv'
  <2> DEFINE k == [worker[w] EXCEPT !.pc = "cases", !.done = worker[w].done + 1]
  <2>1. worker[w].done + 1 \in 0..Total
    BY <1>13, ConstantFacts DEF ComputeCase, TypeInv, CaseLeftInCompute
  <2>2. k \in Worker /\ k.pc = "cases"
    BY <2>1, Typed DEF Worker, Phases
  <2>3. worker' = [worker EXCEPT ![w] = k] /\ UNCHANGED <<row, pool, flag, stopping>>
    BY <1>13 DEF ComputeCase
  <2> HIDE DEF k
  <2> QED
    BY <1>0, <2>2, <2>3, OneWorker
<1>14. ASSUME NEW w \in Tokens, CloseSweep(w) PROVE TypeInv'
  <2> DEFINE j == worker[w].job
  <2>1. Swept(worker[w]) \in Worker /\ Swept(worker[w]).pc = "writing"
    BY ZenonT(60), WorkerSlot DEF Phases, Swept
  <2>2. row' = row \/ \E r \in Row : row' = [row EXCEPT ![j] = r]
    <3>1. CASE StoreCheckpoint(w)
      <4>1. PICK d \in {row[j].done, worker[w].done} :
                row' = [row EXCEPT ![j] = [@ EXCEPT !.done = d, !.lease = TRUE, !.updated = TRUE]]
        BY <3>1 DEF StoreCheckpoint
      <4>2. [row[j] EXCEPT !.done = d, !.lease = TRUE, !.updated = TRUE] \in Row
        BY RowUpdates, ConstantFacts DEF Statuses
      <4> QED
        BY <4>1, <4>2
    <3> QED
      BY <1>14, <3>1 DEF CloseSweep
  <2> QED
    BY <1>0, <1>14, <2>1, <2>2, OneRowOneWorker DEF CloseSweep
<1>15. ASSUME NEW w \in Tokens, FinalWrite(w) PROVE TypeInv'
  <2> DEFINE r == [row[worker[w].job] EXCEPT !.status = FinalStatus(w), !.done = worker[w].done, !.updated = TRUE]
  <2>1. r \in Row
    BY ZenonT(60), RowUpdates, ConstantFacts DEF Statuses, FinalStatus
  <2>2. PICK k : GoneFrom(k, worker[w]) /\ worker' = [worker EXCEPT ![w] = k]
    BY <1>15, EndedWorker DEF FinalWrite
  <2>3. (row' = row \/ row' = [row EXCEPT ![worker[w].job] = r]) /\ UNCHANGED <<pool, flag, stopping>>
    BY <1>15 DEF FinalWrite
  <2> HIDE DEF r
  <2> QED
    BY <1>0, <2>1, <2>2, <2>3, OneRowOneWorker DEF GoneFrom
<1>16. ASSUME NEW w \in Tokens, WorkerFails(w) PROVE TypeInv'
  <2> DEFINE k == [worker[w] EXCEPT !.pc = "failing", !.slot = FALSE]
  <2>1. k \in Worker /\ k.pc = "failing"
    BY WorkerSlot DEF Phases
  <2> QED
    BY ZenonT(60), <1>0, <1>16, <2>1, OneRowOneWorker DEF WorkerFails
<1>17. ASSUME NEW w \in Tokens, RecordFailure(w) PROVE TypeInv'
  <2> DEFINE r == [row[worker[w].job] EXCEPT !.status = "failed", !.updated = TRUE]
  <2>1. r \in Row
    BY RowUpdates, ConstantFacts DEF Statuses
  <2>2. PICK k : GoneFrom(k, worker[w]) /\ worker' = [worker EXCEPT ![w] = k]
    BY <1>17, EndedWorker DEF RecordFailure
  <2>3. (row' = row \/ row' = [row EXCEPT ![worker[w].job] = r]) /\ UNCHANGED <<pool, flag, stopping>>
    BY <1>17 DEF RecordFailure
  <2> HIDE DEF r
  <2> QED
    BY <1>0, <2>1, <2>2, <2>3, OneRowOneWorker DEF GoneFrom
<1>18. ASSUME NEW w \in Tokens, FailureUnrecorded(w) PROVE TypeInv'
  <2>1. PICK k : GoneFrom(k, worker[w]) /\ worker' = [worker EXCEPT ![w] = k]
    BY <1>18, EndedWorker DEF FailureUnrecorded
  <2> QED
    BY <1>0, <1>18, <2>1, OneWorker DEF FailureUnrecorded, GoneFrom
<1>19. ASSUME NEW w \in Tokens, Beat(w) \/ BeatFails(w) PROVE TypeInv'
  <2>1. PICK k : SameButBeat(k, worker[w]) /\ worker' = [worker EXCEPT ![w] = k]
    BY <1>19, BeatenWorker
  <2>2. PICK q : SameButLease(q, row[worker[w].job]) /\ row' = [row EXCEPT ![worker[w].job] = q]
    BY <1>19, BeatenRow
  <2>3. k \in Worker /\ (k.pc = "compute" => k.done < Total)
    BY <2>1 DEF TypeInv, CaseLeftInCompute, SameButBeat
  <2>4. q \in Row /\ UNCHANGED <<pool, flag, stopping>>
    BY <1>19, <2>2 DEF Beat, BeatFails, SameButLease
  <2> QED
    BY <1>0, <2>1, <2>2, <2>3, <2>4, OneRowOneWorker
<1>21. ASSUME NEW p \in Procs, BeginShutdown(p) PROVE TypeInv'
  <2>1. \A w \in Tokens : LET k == [worker[w] EXCEPT !.draining = TRUE] IN
            k \in Worker /\ k.pc = worker[w].pc /\ k.done = worker[w].done
    BY WorkerDrains DEF Phases
  <2>2. worker' \in [Tokens -> Worker]
    BY <1>21, <2>1 DEF BeginShutdown
  <2>3. CaseLeftInCompute'
    BY <1>21, <2>1 DEF BeginShutdown, CaseLeftInCompute, TypeInv
  <2> QED
    BY <1>0, <1>21, <2>2, <2>3 DEF BeginShutdown, TypeInv, TypeOK
<1>22. ASSUME NEW p \in Procs, DropFutures(p) PROVE TypeInv'
  <2>1. worker' \in [Tokens -> Worker]
    BY <1>22, EndedTyped DEF DropFutures
  <2>2. CaseLeftInCompute'
    BY <1>22, EndedTyped DEF DropFutures, CaseLeftInCompute, TypeInv
  <2> QED
    BY <1>0, <1>22, <2>1, <2>2 DEF DropFutures, TypeInv, TypeOK
<1>23. ASSUME NEW p \in Procs, ShutdownReturns(p) PROVE TypeInv'
  BY <1>0, <1>23 DEF ShutdownReturns, TypeInv, TypeOK, CaseLeftInCompute
<1>24. ASSUME NEW p \in Procs, Crash(p) PROVE TypeInv'
  <2>1. worker' \in [Tokens -> Worker]
    BY <1>24, EndedTyped DEF Crash
  <2>2. CaseLeftInCompute'
    BY <1>24, EndedTyped DEF Crash, CaseLeftInCompute, TypeInv
  <2> QED
    BY <1>0, <1>24, <2>1, <2>2 DEF Crash, TypeInv, TypeOK
<1>25. CASE UNCHANGED vars
  BY <1>25 DEF vars, TypeInv, TypeOK, CaseLeftInCompute
<1> QED
  BY <1>1, <1>2, <1>3, <1>4, <1>5, <1>6, <1>7, <1>8, <1>9, <1>10, <1>11, <1>12, <1>13, <1>14, <1>15, <1>16, <1>17, <1>18, <1>19, <1>21, <1>22, <1>23, <1>24, <1>25
  DEF Next, WorkerStep

\* Every reachable state is well typed.
THEOREM TypeCorrect == Spec => []TypeOK
<1>1. TypeInv => TypeOK
  BY DEF TypeInv
<1> QED
  BY <1>1, TypeInvInit, TypeInvStep, PTL DEF Spec

-----------------------------------------------------------------------------
(***************************************************************************)
(* The agreement of a row with the worker it names.  It is inductive with  *)
(* the types alone: a worker only acts on a row that carries its token, a  *)
(* new token is one no row carries, and a row changes owner only together  *)
(* with its token.  RowMatches says it of one row r and the worker wk that *)
(* r.token stands for.                                                     *)
(***************************************************************************)
RowMatches(j, r, wk) ==
    /\ r.status = "absent" => r.token = NoToken
    /\ r.status \in {"queued", "running"} => r.token # NoToken
    /\ r.token # NoToken =>
         /\ wk.job = j
         /\ r.status = "queued" => wk.pc \in {"launch", "pooled", "failing", "ended"}
         /\ r.status = "running" => wk.pc \in OnThread \cup {"ended"}
         /\ r.status \notin {"queued", "running"} => wk.pc = "ended"
         /\ wk.pc \in Claimed => r.done <= wk.done

LEMMA HolderAgreesByRow == HolderAgrees <=> \A j \in Jobs : RowMatches(j, row[j], worker[row[j].token])
  BY DEF HolderAgrees, RowMatches, Active

LEMMA HolderAgreesByRowNext == HolderAgrees' <=> \A j \in Jobs : RowMatches(j, row'[j], worker'[row'[j].token])
  BY DEF HolderAgrees, RowMatches, Active

\* No row carries a token that was not issued.
LEMMA UnbornUnused ==
    ASSUME TypeInv, HolderAgrees, NEW t \in Tokens, worker[t].pc = "unborn", NEW j \in Jobs
    PROVE  row[j].token # t
<1>1. RowMatches(j, row[j], worker[row[j].token])
  BY HolderAgreesByRow
<1>2. t # NoToken
  BY ConstantFacts
<1> QED
  BY <1>1, <1>2 DEF RowMatches, OnThread, Claimed, InSweep

\* A step of one worker and of the row of its job keeps every row matched.
LEMMA OneJobStep ==
    ASSUME TypeInv, HolderAgrees,
           NEW j \in Jobs, NEW r \in Row, NEW w \in Tokens, NEW k \in Worker,
           worker[w].job = j \/ worker[w].pc = "unborn",
           row' = [row EXCEPT ![j] = r], worker' = [worker EXCEPT ![w] = k],
           r.token = w => RowMatches(j, r, k),
           r.token # w => RowMatches(j, r, worker[r.token])
    PROVE  HolderAgrees'
<1>1. worker \in [Tokens -> Worker] /\ row \in [Jobs -> Row]
  BY DEF TypeInv, TypeOK
<1> SUFFICES ASSUME NEW i \in Jobs PROVE RowMatches(i, row'[i], worker'[row'[i].token])
  BY HolderAgreesByRowNext
<1>2. CASE i = j
  BY <1>1, <1>2
<1>3. CASE i # j
  <2>1. row'[i] = row[i] /\ RowMatches(i, row[i], worker[row[i].token])
    BY <1>1, <1>3, HolderAgreesByRow
  <2>2. row[i].token # w
    BY <1>3, <2>1, UnbornUnused, ConstantFacts DEF RowMatches
  <2> QED
    BY <1>1, <2>1, <2>2
<1> QED
  BY <1>2, <1>3

\* So does a step that leaves the rows alone and only ends workers, or lets them keep what matters here.
LEMMA WorkersEnd ==
    ASSUME TypeInv, HolderAgrees, UNCHANGED row,
           \A w \in Tokens : /\ worker'[w].job = worker[w].job
                             /\ \/ worker'[w].pc = worker[w].pc /\ worker'[w].done = worker[w].done
                                \/ worker'[w].pc = "ended" /\ worker[w].pc # "unborn"
    PROVE  HolderAgrees'
<1> SUFFICES ASSUME NEW j \in Jobs PROVE RowMatches(j, row[j], worker'[row[j].token])
  BY HolderAgreesByRowNext
<1>1. RowMatches(j, row[j], worker[row[j].token])
  BY HolderAgreesByRow
<1>2. row[j].token \in Tokens \cup {NoToken}
  BY Typed
<1>3. CASE row[j].token = NoToken
  BY <1>1, <1>3 DEF RowMatches
<1>4. CASE row[j].token \in Tokens
  BY <1>1, <1>4 DEF RowMatches, OnThread, Claimed, InSweep
<1> QED
  BY <1>2, <1>3, <1>4

\* Only the row changes.
LEMMA RowStep ==
    ASSUME TypeInv, HolderAgrees, NEW j \in Jobs, NEW r,
           row' = [row EXCEPT ![j] = r], UNCHANGED worker, RowMatches(j, r, worker[r.token])
    PROVE  HolderAgrees'
<1>1. row \in [Jobs -> Row]
  BY DEF TypeInv, TypeOK
<1> QED
  BY <1>1, HolderAgreesByRow, HolderAgreesByRowNext

\* Only worker w changes, and what its row may say of its phase stays true.
LEMMA WorkerStepKeepsRows ==
    ASSUME TypeInv, HolderAgrees, NEW w \in Tokens, NEW k \in Worker,
           UNCHANGED row, worker' = [worker EXCEPT ![w] = k],
           k.job = worker[w].job, k.done = worker[w].done \/ worker[w].done <= k.done,
           worker[w].pc \in OnThread => k.pc \in OnThread,
           worker[w].pc = "launch" => k.pc = "pooled",
           worker[w].pc = "pooled" => k.pc = "failing",
           worker[w].pc \in OnThread \cup {"launch", "pooled"},
           k.pc \in Claimed => worker[w].pc \in Claimed
    PROVE  HolderAgrees'
<1>1. worker \in [Tokens -> Worker]
  BY DEF TypeInv, TypeOK
<1> SUFFICES ASSUME NEW j \in Jobs, row[j].token = w PROVE RowMatches(j, row[j], k)
  BY <1>1, HolderAgreesByRow, HolderAgreesByRowNext
<1>2. RowMatches(j, row[j], worker[w])
  BY HolderAgreesByRow
<1>3. row[j].done <= worker[w].done => row[j].done <= k.done
  BY Typed, ConstantFacts DEF Worker
<1>4. worker[w].pc # "ended" /\ w # NoToken
  BY ConstantFacts DEF OnThread, Claimed, InSweep
<1>5. row[j].status \in {"queued", "running"}
  BY <1>2, <1>4 DEF RowMatches
<1>6. CASE row[j].status = "queued"
  BY <1>2, <1>3, <1>4, <1>6 DEF RowMatches, OnThread, Claimed, InSweep
<1>7. CASE row[j].status = "running"
  BY <1>2, <1>3, <1>4, <1>7 DEF RowMatches, OnThread, Claimed, InSweep
<1> QED
  BY <1>5, <1>6, <1>7

\* A worker that ends without touching its row.
LEMMA EndKeepsRows ==
    ASSUME TypeInv, HolderAgrees, NEW w \in Tokens, End(w), UNCHANGED row, worker[w].pc # "unborn"
    PROVE  HolderAgrees'
<1>1. worker \in [Tokens -> Worker]
  BY DEF TypeInv, TypeOK
<1>2. PICK k : GoneFrom(k, worker[w]) /\ worker' = [worker EXCEPT ![w] = k]
  BY EndedWorker
<1>3. \A v \in Tokens : worker'[v] = IF v = w THEN k ELSE worker[v]
  BY <1>1, <1>2
<1>4. k.job = worker[w].job /\ k.pc = "ended"
  BY <1>2 DEF GoneFrom
<1> QED
  BY <1>3, <1>4, WorkersEnd

\* A worker that ends and brings its own row to rest.
LEMMA EndWithRow ==
    ASSUME TypeInv, HolderAgrees, NEW w \in Tokens, End(w), NEW r \in Row,
           row[worker[w].job].token = w, row' = [row EXCEPT ![worker[w].job] = r],
           r.token = row[worker[w].job].token,
           r.status \in {"completed", "cancelled", "failed", "interrupted"}
    PROVE  HolderAgrees'
<1>1. PICK k : k \in Worker /\ k.pc = "ended" /\ k.job = worker[w].job /\ worker' = [worker EXCEPT ![w] = k]
  BY EndedWorker DEF GoneFrom
<1>2. RowMatches(worker[w].job, r, k)
  BY <1>1 DEF RowMatches, OnThread, Claimed, InSweep
<1> QED
  BY <1>1, <1>2, Typed, OneJobStep

\* A checkpoint of the worker that holds the row.
LEMMA StoreKeepsRows ==
    ASSUME TypeInv, HolderAgrees, NEW w \in Tokens, NEW k \in Worker, Holds(w), StoreCheckpoint(w),
           worker' = [worker EXCEPT ![w] = k],
           k.job = worker[w].job, k.done = worker[w].done,
           worker[w].pc \in Claimed, k.pc \in Claimed
    PROVE  HolderAgrees'
<1> DEFINE j == worker[w].job
<1>1. j \in Jobs /\ row[j] \in Row /\ w # NoToken /\ row[j].token = w
  BY Typed, ConstantFacts DEF Holds
<1>2. PICK d \in {row[j].done, worker[w].done} :
          row' = [row EXCEPT ![j] = [@ EXCEPT !.done = d, !.lease = TRUE, !.updated = TRUE]]
  BY DEF StoreCheckpoint
<1> DEFINE r == [row[j] EXCEPT !.done = d, !.lease = TRUE, !.updated = TRUE]
<1>3. r \in Row /\ r.status = row[j].status /\ r.token = w /\ r.done = d
  BY <1>1, Typed DEF Row
<1>4. RowMatches(j, row[j], worker[w])
  BY <1>1, HolderAgreesByRow
<1>5. row' = [row EXCEPT ![j] = r]
  BY <1>2
<1> HIDE DEF r, j
<1>6. row[j].done <= k.done /\ k.done <= k.done
  BY <1>1, <1>4, Typed, ConstantFacts DEF RowMatches, Row, Worker
<1>7. r.status = "running"
  BY <1>1, <1>3, <1>4 DEF RowMatches, OnThread, Claimed, InSweep
<1>8. RowMatches(j, r, k)
  BY <1>1, <1>2, <1>3, <1>6, <1>7 DEF RowMatches, OnThread, j
<1> QED
  BY <1>1, <1>3, <1>5, <1>8, OneJobStep DEF j

\* A heartbeat, its end included.
LEMMA BeatKeepsRows ==
    ASSUME TypeInv, HolderAgrees, NEW w \in Tokens, Beat(w) \/ BeatFails(w)
    PROVE  HolderAgrees'
<1> DEFINE j == worker[w].job
<1>1. PICK k : SameButBeat(k, worker[w]) /\ worker' = [worker EXCEPT ![w] = k]
  BY BeatenWorker
<1>2. PICK q : SameButLease(q, row[j]) /\ row' = [row EXCEPT ![j] = q]
  BY BeatenRow
<1>3. j \in Jobs /\ RowMatches(j, row[j], worker[row[j].token])
  BY Typed, HolderAgreesByRow
<1> HIDE DEF j
<1>4. q.token = w => RowMatches(j, q, k)
  BY <1>1, <1>2, <1>3 DEF RowMatches, SameButBeat, SameButLease
<1>5. q.token # w => RowMatches(j, q, worker[q.token])
  BY <1>2, <1>3 DEF RowMatches, SameButLease
<1>6. k \in Worker /\ q \in Row
  BY <1>1, <1>2 DEF SameButBeat, SameButLease
<1> QED
  BY <1>1, <1>2, <1>3, <1>4, <1>5, <1>6, OneJobStep DEF j

LEMMA HolderAgreesInit == Init => HolderAgrees
  BY DEF Init, HolderAgrees, Active

LEMMA HolderAgreesStep == TypeInv /\ HolderAgrees /\ [Next]_vars => HolderAgrees'
<1> SUFFICES ASSUME TypeInv, HolderAgrees, [Next]_vars PROVE HolderAgrees'
  OBVIOUS
<1>0. \A j \in Jobs : RowMatches(j, row[j], worker[row[j].token])
  BY HolderAgreesByRow
<1>1. ASSUME NEW j \in Jobs, NEW p \in Procs, Submit(j, p) PROVE HolderAgrees'
  <2>1. PICK t \in Tokens :
            /\ NextToken(t)
            /\ row' = [row EXCEPT ![j] = [status |-> "queued", token |-> t, cancelRequested |-> FALSE,
                                          lease |-> TRUE, updated |-> TRUE, done |-> 0]]
            /\ Hand(t, j, p)
    BY <1>1 DEF Submit
  <2> DEFINE r == [status |-> "queued", token |-> t, cancelRequested |-> FALSE,
                   lease |-> TRUE, updated |-> TRUE, done |-> 0]
             k == [worker[t] EXCEPT !.pc = "launch", !.job = j, !.proc = p]
  <2>2. r \in Row /\ r.status = "queued" /\ r.token = t
    BY ConstantFacts DEF Row, Statuses
  <2>3. k \in Worker /\ k.pc = "launch" /\ k.job = j
    BY Typed DEF Worker, Phases
  <2>4. worker[t].pc = "unborn"
    BY <2>1 DEF NextToken
  <2>5. row' = [row EXCEPT ![j] = r] /\ worker' = [worker EXCEPT ![t] = k]
    BY <2>1 DEF Hand
  <2> HIDE DEF r, k
  <2>6. RowMatches(j, r, k)
    BY <2>2, <2>3, ConstantFacts DEF RowMatches, OnThread, Claimed, InSweep
  <2> QED
    BY <2>2, <2>3, <2>4, <2>5, <2>6, OneJobStep
<1>2. ASSUME NEW j \in Jobs, NEW p \in Procs, Resume(j, p) PROVE HolderAgrees'
  <2>1. PICK t \in Tokens :
            /\ NextToken(t)
            /\ row' = [row EXCEPT ![j] = [@ EXCEPT !.status = "queued", !.token = t, !.cancelRequested = FALSE,
                                                   !.lease = TRUE, !.updated = TRUE]]
            /\ Hand(t, j, p)
    BY <1>2 DEF Resume
  <2> DEFINE r == [row[j] EXCEPT !.status = "queued", !.token = t, !.cancelRequested = FALSE,
                                 !.lease = TRUE, !.updated = TRUE]
             k == [worker[t] EXCEPT !.pc = "launch", !.job = j, !.proc = p]
  <2>2. r \in Row /\ r.status = "queued" /\ r.token = t
    BY ZenonT(60), Typed DEF Row, Statuses
  <2>3. k \in Worker /\ k.pc = "launch" /\ k.job = j
    BY Typed DEF Worker, Phases
  <2>4. worker[t].pc = "unborn"
    BY <2>1 DEF NextToken
  <2>5. row' = [row EXCEPT ![j] = r] /\ worker' = [worker EXCEPT ![t] = k]
    BY <2>1 DEF Hand
  <2> HIDE DEF r, k
  <2>6. RowMatches(j, r, k)
    BY <2>2, <2>3, ConstantFacts DEF RowMatches, OnThread, Claimed, InSweep
  <2> QED
    BY <2>2, <2>3, <2>4, <2>5, <2>6, OneJobStep
<1>3. ASSUME NEW j \in Jobs, Cancel(j) PROVE HolderAgrees'
  <2> DEFINE asked == [row[j] EXCEPT !.cancelRequested = TRUE, !.updated = TRUE]
  <2>1. /\ asked.status = row[j].status /\ asked.token = row[j].token /\ asked.done = row[j].done
        /\ Cancelled(asked).status = "cancelled" /\ Cancelled(asked).token = NoToken
    BY Typed DEF Row, Cancelled
  <2>2. PICK r : /\ row' = [row EXCEPT ![j] = r]
                 /\ r = asked \/ r = Cancelled(asked)
    BY <1>3 DEF Cancel
  <2>3. UNCHANGED worker
    BY <1>3 DEF Cancel
  <2> HIDE DEF asked
  <2>4. RowMatches(j, r, worker[r.token])
    BY <1>0, <2>1, <2>2 DEF RowMatches
  <2> QED
    BY <1>0, <2>2, <2>3, <2>4, RowStep
<1>4. ASSUME NEW j \in Jobs, LeaseExpires(j) PROVE HolderAgrees'
  <2> DEFINE r == [row[j] EXCEPT !.lease = FALSE]
  <2>1. r.status = row[j].status /\ r.token = row[j].token /\ r.done = row[j].done
    BY Typed DEF Row
  <2>2. row' = [row EXCEPT ![j] = r] /\ UNCHANGED worker
    BY <1>4 DEF LeaseExpires
  <2> HIDE DEF r
  <2>3. RowMatches(j, r, worker[r.token])
    BY <1>0, <2>1 DEF RowMatches
  <2> QED
    BY <2>2, <2>3, RowStep
<1>5. ASSUME NEW j \in Jobs, UpdateAges(j) PROVE HolderAgrees'
  <2> DEFINE r == [row[j] EXCEPT !.updated = FALSE]
  <2>1. r.status = row[j].status /\ r.token = row[j].token /\ r.done = row[j].done
    BY Typed DEF Row
  <2>2. row' = [row EXCEPT ![j] = r] /\ UNCHANGED worker
    BY <1>5 DEF UpdateAges
  <2> HIDE DEF r
  <2>3. RowMatches(j, r, worker[r.token])
    BY <1>0, <2>1 DEF RowMatches
  <2> QED
    BY <2>2, <2>3, RowStep
<1>6. ASSUME NEW w \in Tokens, Launch(w) PROVE HolderAgrees'
  <2> DEFINE k == [worker[w] EXCEPT !.pc = "pooled"]
  <2>1. k \in Worker /\ k.pc = "pooled" /\ k.job = worker[w].job /\ k.done = worker[w].done
    BY Typed DEF Worker, Phases
  <2>2. worker' = [worker EXCEPT ![w] = k] /\ UNCHANGED row /\ worker[w].pc = "launch"
    BY <1>6 DEF Launch
  <2> HIDE DEF k
  <2> QED
    BY <2>1, <2>2, WorkerStepKeepsRows DEF OnThread, Claimed, InSweep
<1>7. ASSUME NEW w \in Tokens, LaunchLost(w) PROVE HolderAgrees'
  BY <1>7, EndKeepsRows DEF LaunchLost
<1>8. ASSUME NEW w \in Tokens, Claim(w) PROVE HolderAgrees'
  <2>1. CASE End(w) /\ UNCHANGED row
    BY <1>8, <2>1, EndKeepsRows DEF Claim
  <2>2. CASE ~(End(w) /\ UNCHANGED row)
    <3> DEFINE j == worker[w].job
               r == [row[j] EXCEPT !.status = "running", !.lease = TRUE, !.updated = TRUE]
               k == [worker[w] EXCEPT !.pc = "waiting", !.done = Previous(w), !.beating = TRUE]
    <3>0. j \in Jobs /\ row[j] \in Row
      BY Typed
    <3>1. r \in Row /\ r.status = "running" /\ r.token = row[j].token /\ r.done = row[j].done
      BY <3>0 DEF Row, Statuses
    <3>2. k \in Worker /\ k.pc = "waiting" /\ k.job = j /\ k.done = row[j].done
      BY Typed DEF Worker, Phases, Previous
    <3>3. row' = [row EXCEPT ![j] = r] /\ worker' = [worker EXCEPT ![w] = k] /\ row[j].token = w
      BY <1>8, <2>2 DEF Claim, Holds
    <3> HIDE DEF r, k
    <3>4. RowMatches(j, r, k)
      BY <3>1, <3>2, <3>3, ConstantFacts, Typed DEF RowMatches, OnThread, Claimed, InSweep
    <3> QED
      BY <3>1, <3>2, <3>3, <3>4, Typed, OneJobStep
  <2> QED
    BY <2>1, <2>2
<1>9. ASSUME NEW w \in Tokens, AwaitSlot(w) PROVE HolderAgrees'
  <2> DEFINE j == worker[w].job
             r == [row[j] EXCEPT !.status = IF flag[worker[w].proc] THEN "interrupted" ELSE "cancelled",
                                 !.updated = TRUE]
             k == [worker[w] EXCEPT !.pc = "trying"]
  <2>1. CASE End(w) /\ UNCHANGED row
    BY <1>9, <2>1, EndKeepsRows DEF AwaitSlot, Superseded
  <2>2. CASE End(w) /\ row' = [row EXCEPT ![j] = r] /\ row[j].token = w
    <3>0. j \in Jobs /\ row[j] \in Row
      BY Typed
    <3>1. r \in Row /\ r.status \in {"interrupted", "cancelled"} /\ r.token = row[j].token
      BY <3>0 DEF Row, Statuses
    <3> HIDE DEF r
    <3> QED
      BY <2>2, <3>1, EndWithRow
  <2>3. CASE worker' = [worker EXCEPT ![w] = k] /\ UNCHANGED row
    <3>1. k \in Worker /\ k.pc = "trying" /\ k.job = j /\ k.done = worker[w].done
      BY Typed DEF Worker, Phases
    <3>2. worker[w].pc = "waiting"
      BY <1>9 DEF AwaitSlot, Superseded
    <3> HIDE DEF k
    <3> QED
      BY <2>3, <3>1, <3>2, WorkerStepKeepsRows DEF OnThread, Claimed, InSweep
  <2> QED
    BY <1>9, <2>1, <2>2, <2>3 DEF AwaitSlot, Superseded, Holds
<1>10. ASSUME NEW w \in Tokens, TrySlot(w) PROVE HolderAgrees'
  <2> DEFINE k == [worker[w] EXCEPT !.pc = "sweep", !.slot = TRUE]
             l == [worker[w] EXCEPT !.pc = "waiting"]
  <2>1. /\ k \in Worker /\ k.pc = "sweep" /\ k.job = worker[w].job /\ k.done = worker[w].done
        /\ l \in Worker /\ l.pc = "waiting" /\ l.job = worker[w].job /\ l.done = worker[w].done
    BY Typed DEF Worker, Phases
  <2>2. worker' = [worker EXCEPT ![w] = k] \/ worker' = [worker EXCEPT ![w] = l]
    BY <1>10 DEF TrySlot
  <2>3. UNCHANGED row /\ worker[w].pc = "trying"
    BY <1>10 DEF TrySlot
  <2> HIDE DEF k, l
  <2> QED
    BY <2>1, <2>2, <2>3, WorkerStepKeepsRows DEF OnThread, Claimed, InSweep
<1>11. ASSUME NEW w \in Tokens, BeginSweep(w) PROVE HolderAgrees'
  <2> DEFINE k == [worker[w] EXCEPT !.pc = "cases"]
  <2>1. k \in Worker /\ k.pc = "cases" /\ k.job = worker[w].job /\ k.done = worker[w].done
    BY Typed DEF Worker, Phases
  <2>2. worker' = [worker EXCEPT ![w] = k] /\ UNCHANGED row /\ worker[w].pc = "sweep"
    BY <1>11 DEF BeginSweep
  <2> HIDE DEF k
  <2> QED
    BY <2>1, <2>2, WorkerStepKeepsRows DEF OnThread, Claimed, InSweep
<1>12. ASSUME NEW w \in Tokens, Checkpoint(w) PROVE HolderAgrees'
  <2> DEFINE k == [worker[w] EXCEPT !.pc = "compute"]
             l == [worker[w] EXCEPT !.pc = "closing", !.stopped = TRUE]
  <2>1. /\ k \in Worker /\ k.pc = "compute" /\ k.job = worker[w].job /\ k.done = worker[w].done
        /\ l \in Worker /\ l.pc = "closing" /\ l.job = worker[w].job /\ l.done = worker[w].done
    BY Typed DEF Worker, Phases
  <2>2. worker' = [worker EXCEPT ![w] = k] \/ worker' = [worker EXCEPT ![w] = l]
    BY <1>12 DEF Checkpoint
  <2>3. worker[w].pc = "cases" /\ (UNCHANGED row \/ (Holds(w) /\ StoreCheckpoint(w)))
    BY <1>12 DEF Checkpoint
  <2> HIDE DEF k, l
  <2>4. CASE UNCHANGED row
    BY <2>1, <2>2, <2>3, <2>4, WorkerStepKeepsRows DEF OnThread, Claimed, InSweep
  <2>5. CASE Holds(w) /\ StoreCheckpoint(w)
    BY <2>1, <2>2, <2>3, <2>5, StoreKeepsRows DEF OnThread, Claimed, InSweep
  <2> QED
    BY <2>3, <2>4, <2>5
<1>13. ASSUME NEW w \in Tokens, ComputeCase(w) PROVE HolderAgrees'
  <2> DEFINE k == [worker[w] EXCEPT !.pc = "cases", !.done = worker[w].done + 1]
  <2>1. worker[w].done + 1 \in 0..Total /\ worker[w].done <= worker[w].done + 1
    BY <1>13, ConstantFacts, Typed DEF ComputeCase, TypeInv, CaseLeftInCompute
  <2>2. k \in Worker /\ k.pc = "cases" /\ k.job = worker[w].job /\ k.done = worker[w].done + 1
    BY <2>1, Typed DEF Worker, Phases
  <2>3. worker' = [worker EXCEPT ![w] = k] /\ UNCHANGED row /\ worker[w].pc = "compute"
    BY <1>13 DEF ComputeCase
  <2> HIDE DEF k
  <2> QED
    BY <2>1, <2>2, <2>3, WorkerStepKeepsRows DEF OnThread, Claimed, InSweep
<1>14. ASSUME NEW w \in Tokens, CloseSweep(w) PROVE HolderAgrees'
  <2> DEFINE k == Swept(worker[w])
  <2>1. k \in Worker /\ k.pc = "writing" /\ k.job = worker[w].job /\ k.done = worker[w].done
    BY Typed DEF Worker, Phases, Swept
  <2>2. worker' = [worker EXCEPT ![w] = k] /\ worker[w].pc \in {"closing", "cases"}
    BY <1>14 DEF CloseSweep
  <2>3. UNCHANGED row \/ (Holds(w) /\ StoreCheckpoint(w))
    BY <1>14 DEF CloseSweep
  <2> HIDE DEF k
  <2>4. CASE UNCHANGED row
    BY <2>1, <2>2, <2>4, WorkerStepKeepsRows DEF OnThread, Claimed, InSweep
  <2>5. CASE Holds(w) /\ StoreCheckpoint(w)
    BY <2>1, <2>2, <2>5, StoreKeepsRows DEF OnThread, Claimed, InSweep
  <2> QED
    BY <2>3, <2>4, <2>5
<1>15. ASSUME NEW w \in Tokens, FinalWrite(w) PROVE HolderAgrees'
  <2> DEFINE r == [row[worker[w].job] EXCEPT !.status = FinalStatus(w), !.done = worker[w].done, !.updated = TRUE]
  <2>0. worker[w].job \in Jobs /\ row[worker[w].job] \in Row /\ worker[w].done \in 0..Total
    BY Typed
  <2>1. r \in Row /\ r.status \in {"completed", "interrupted", "cancelled"} /\ r.token = row[worker[w].job].token
    BY <2>0 DEF Row, Statuses, FinalStatus
  <2>2. End(w) /\ (UNCHANGED row \/ (Holds(w) /\ row' = [row EXCEPT ![worker[w].job] = r])) /\ worker[w].pc = "writing"
    BY <1>15 DEF FinalWrite
  <2> HIDE DEF r
  <2> QED
    BY <2>1, <2>2, EndWithRow, EndKeepsRows DEF Holds
<1>16. ASSUME NEW w \in Tokens, WorkerFails(w) PROVE HolderAgrees'
  <2> DEFINE k == [worker[w] EXCEPT !.pc = "failing", !.slot = FALSE]
  <2>1. k \in Worker /\ k.pc = "failing" /\ k.job = worker[w].job /\ k.done = worker[w].done
    BY Typed DEF Worker, Phases
  <2>2. worker' = [worker EXCEPT ![w] = k] /\ UNCHANGED row /\ worker[w].pc \in Claimed \cup {"pooled"}
    BY <1>16 DEF WorkerFails
  <2> HIDE DEF k
  <2> QED
    BY <2>1, <2>2, WorkerStepKeepsRows DEF OnThread, Claimed, InSweep
<1>17. ASSUME NEW w \in Tokens, RecordFailure(w) PROVE HolderAgrees'
  <2> DEFINE r == [row[worker[w].job] EXCEPT !.status = "failed", !.updated = TRUE]
  <2>0. worker[w].job \in Jobs /\ row[worker[w].job] \in Row
    BY Typed
  <2>1. r \in Row /\ r.status = "failed" /\ r.token = row[worker[w].job].token
    BY <2>0 DEF Row, Statuses
  <2>2. End(w) /\ (UNCHANGED row \/ (Holds(w) /\ row' = [row EXCEPT ![worker[w].job] = r])) /\ worker[w].pc = "failing"
    BY <1>17 DEF RecordFailure
  <2> HIDE DEF r
  <2> QED
    BY <2>1, <2>2, EndWithRow, EndKeepsRows DEF Holds
<1>18. ASSUME NEW w \in Tokens, FailureUnrecorded(w) PROVE HolderAgrees'
  BY <1>18, EndKeepsRows DEF FailureUnrecorded
<1>19. ASSUME NEW w \in Tokens, Beat(w) \/ BeatFails(w) PROVE HolderAgrees'
  BY <1>19, BeatKeepsRows
<1>21. ASSUME NEW p \in Procs, BeginShutdown(p) PROVE HolderAgrees'
  <2>1. \A w \in Tokens : LET k == [worker[w] EXCEPT !.draining = TRUE] IN
            k.pc = worker[w].pc /\ k.done = worker[w].done /\ k.job = worker[w].job
    BY Typed DEF Worker
  <2>2. \A w \in Tokens : worker'[w].pc = worker[w].pc /\ worker'[w].done = worker[w].done
                          /\ worker'[w].job = worker[w].job
    BY <1>21, <2>1 DEF BeginShutdown
  <2>3. UNCHANGED row
    BY <1>21 DEF BeginShutdown
  <2> QED
    BY <2>2, <2>3, WorkersEnd
<1>22. ASSUME NEW p \in Procs, DropFutures(p) PROVE HolderAgrees'
  <2>1. \A w \in Tokens : \/ worker'[w] = worker[w]
                          \/ worker'[w] = Ended(worker[w]) /\ worker[w].pc = "pooled"
    BY <1>22 DEF DropFutures
  <2>2. UNCHANGED row
    BY <1>22 DEF DropFutures
  <2>3. \A w \in Tokens : Ended(worker[w]).job = worker[w].job /\ Ended(worker[w]).pc = "ended"
    BY EndedTyped, Typed
  <2> QED
    BY <2>1, <2>2, <2>3, WorkersEnd
<1>23. ASSUME NEW p \in Procs, ShutdownReturns(p) PROVE HolderAgrees'
  BY <1>23, WorkersEnd DEF ShutdownReturns
<1>24. ASSUME NEW p \in Procs, Crash(p) PROVE HolderAgrees'
  <2>1. \A w \in Tokens : \/ worker'[w] = worker[w]
                          \/ worker'[w] = [Ended(worker[w]) EXCEPT !.slot = FALSE] /\ worker[w].pc # "unborn"
    BY <1>24 DEF Crash
  <2>2. UNCHANGED row
    BY <1>24 DEF Crash
  <2>3. \A w \in Tokens : LET k == [Ended(worker[w]) EXCEPT !.slot = FALSE] IN
            k.job = worker[w].job /\ k.pc = "ended"
    BY EndedTyped, Typed
  <2> QED
    BY <2>1, <2>2, <2>3, WorkersEnd
<1>25. CASE UNCHANGED vars
  BY <1>25 DEF vars, HolderAgrees, Active
<1> QED
  BY <1>1, <1>2, <1>3, <1>4, <1>5, <1>6, <1>7, <1>8, <1>9, <1>10, <1>11, <1>12, <1>13,
     <1>14, <1>15, <1>16, <1>17, <1>18, <1>19, <1>21, <1>22, <1>23, <1>24, <1>25
  DEF Next, WorkerStep

\* A row and the worker that holds it always agree; the runs check it as HolderAgrees.
THEOREM HolderAgreement == Spec => []HolderAgrees
<1>1. Init => TypeInv /\ HolderAgrees
  BY TypeInvInit, HolderAgreesInit
<1>2. TypeInv /\ HolderAgrees /\ [Next]_vars => (TypeInv /\ HolderAgrees)'
  BY TypeInvStep, HolderAgreesStep
<1> QED
  BY <1>1, <1>2, PTL DEF Spec

-----------------------------------------------------------------------------
(* Two facts about locals that the refinement needs besides the types and  *)
(* HolderAgrees: a sweep that was not stopped ran through every case       *)
(* before its final write, and a row that does not exist has no progress.  *)

SweepRanThrough == \A w \in Tokens : /\ worker[w].pc = "closing" => worker[w].stopped
                                     /\ worker[w].pc = "writing" /\ ~worker[w].stopped => worker[w].done = Total

NothingBeforeSubmit == \A j \in Jobs : row[j].status = "absent" => row[j].done = 0

Inv == TypeInv /\ HolderAgrees /\ SweepRanThrough /\ NothingBeforeSubmit

LEMMA RanThroughInit == Init => SweepRanThrough /\ NothingBeforeSubmit
  BY DEF Init, SweepRanThrough, NothingBeforeSubmit

\* Only two actions lead to the phases SweepRanThrough speaks of.
LEMMA RanThroughKept ==
    ASSUME SweepRanThrough,
           \A w \in Tokens : \/ worker'[w].pc \notin {"closing", "writing"}
                             \/ /\ worker'[w].pc = worker[w].pc /\ worker'[w].done = worker[w].done
                                /\ worker'[w].stopped = worker[w].stopped
    PROVE  SweepRanThrough'
  BY DEF SweepRanThrough

LEMMA RanThroughOneWorker ==
    ASSUME TypeInv, SweepRanThrough, NEW w \in Tokens, NEW k, worker' = [worker EXCEPT ![w] = k],
           \/ k.pc \notin {"closing", "writing"}
           \/ k.pc = worker[w].pc /\ k.done = worker[w].done /\ k.stopped = worker[w].stopped
    PROVE  SweepRanThrough'
<1>1. worker \in [Tokens -> Worker]
  BY DEF TypeInv, TypeOK
<1> QED
  BY <1>1, RanThroughKept

LEMMA RanThroughStep == TypeInv /\ SweepRanThrough /\ [Next]_vars => SweepRanThrough'
<1> SUFFICES ASSUME TypeInv, SweepRanThrough, [Next]_vars PROVE SweepRanThrough'
  OBVIOUS
<1>1. ASSUME NEW j \in Jobs, NEW p \in Procs, Submit(j, p) \/ Resume(j, p) PROVE SweepRanThrough'
  <2>1. PICK t \in Tokens : Hand(t, j, p)
    BY <1>1 DEF Submit, Resume
  <2>2. [worker[t] EXCEPT !.pc = "launch", !.job = j, !.proc = p].pc = "launch"
    BY Typed DEF Worker
  <2> QED
    BY <2>1, <2>2, RanThroughOneWorker DEF Hand
<1>2. ASSUME UNCHANGED worker PROVE SweepRanThrough'
  BY <1>2, RanThroughKept
<1>3. ASSUME NEW w \in Tokens, End(w) PROVE SweepRanThrough'
  <2>1. PICK k : k.pc = "ended" /\ worker' = [worker EXCEPT ![w] = k]
    BY <1>3, EndedWorker DEF GoneFrom
  <2> QED
    BY <2>1, RanThroughOneWorker
<1>4. ASSUME NEW w \in Tokens, Launch(w) PROVE SweepRanThrough'
  <2>1. [worker[w] EXCEPT !.pc = "pooled"].pc = "pooled"
    BY Typed DEF Worker
  <2> QED
    BY <1>4, <2>1, RanThroughOneWorker DEF Launch
<1>5. ASSUME NEW w \in Tokens, Claim(w) PROVE SweepRanThrough'
  <2>1. [worker[w] EXCEPT !.pc = "waiting", !.done = Previous(w), !.beating = TRUE].pc = "waiting"
    BY Typed DEF Worker
  <2> QED
    BY <1>3, <1>5, <2>1, RanThroughOneWorker DEF Claim
<1>6. ASSUME NEW w \in Tokens, AwaitSlot(w) PROVE SweepRanThrough'
  <2>1. [worker[w] EXCEPT !.pc = "trying"].pc = "trying"
    BY Typed DEF Worker
  <2> QED
    BY <1>3, <1>6, <2>1, RanThroughOneWorker DEF AwaitSlot, Superseded
<1>7. ASSUME NEW w \in Tokens, TrySlot(w) PROVE SweepRanThrough'
  <2>1. /\ [worker[w] EXCEPT !.pc = "sweep", !.slot = TRUE].pc = "sweep"
        /\ [worker[w] EXCEPT !.pc = "waiting"].pc = "waiting"
    BY Typed DEF Worker
  <2> QED
    BY <1>7, <2>1, RanThroughOneWorker DEF TrySlot
<1>8. ASSUME NEW w \in Tokens, BeginSweep(w) PROVE SweepRanThrough'
  <2>1. [worker[w] EXCEPT !.pc = "cases"].pc = "cases"
    BY Typed DEF Worker
  <2> QED
    BY <1>8, <2>1, RanThroughOneWorker DEF BeginSweep
<1>9. ASSUME NEW w \in Tokens, Checkpoint(w) PROVE SweepRanThrough'
  <2> DEFINE k == [worker[w] EXCEPT !.pc = "compute"]
             l == [worker[w] EXCEPT !.pc = "closing", !.stopped = TRUE]
  <2>1. k.pc = "compute" /\ l.pc = "closing" /\ l.stopped
    BY Typed DEF Worker
  <2>2. worker' = [worker EXCEPT ![w] = k] \/ worker' = [worker EXCEPT ![w] = l]
    BY <1>9 DEF Checkpoint
  <2>3. worker \in [Tokens -> Worker]
    BY DEF TypeInv, TypeOK
  <2> HIDE DEF k, l
  <2> QED
    BY <2>1, <2>2, <2>3 DEF SweepRanThrough
<1>10. ASSUME NEW w \in Tokens, ComputeCase(w) PROVE SweepRanThrough'
  <2>1. [worker[w] EXCEPT !.pc = "cases", !.done = worker[w].done + 1].pc = "cases"
    BY Typed DEF Worker
  <2> QED
    BY <1>10, <2>1, RanThroughOneWorker DEF ComputeCase
<1>11. ASSUME NEW w \in Tokens, CloseSweep(w) PROVE SweepRanThrough'
  <2> DEFINE k == Swept(worker[w])
  <2>1. k.pc = "writing" /\ k.stopped = worker[w].stopped /\ k.done = worker[w].done
    BY Typed DEF Worker, Swept
  <2>2. worker[w].stopped \/ worker[w].done = Total
    BY <1>11 DEF CloseSweep, SweepRanThrough
  <2>3. worker' = [worker EXCEPT ![w] = k] /\ worker \in [Tokens -> Worker]
    BY <1>11 DEF CloseSweep, TypeInv, TypeOK
  <2> HIDE DEF k
  <2> QED
    BY <2>1, <2>2, <2>3 DEF SweepRanThrough
<1>12. ASSUME NEW w \in Tokens, WorkerFails(w) PROVE SweepRanThrough'
  <2>1. [worker[w] EXCEPT !.pc = "failing", !.slot = FALSE].pc = "failing"
    BY Typed DEF Worker
  <2> QED
    BY <1>12, <2>1, RanThroughOneWorker DEF WorkerFails
<1>13. ASSUME NEW w \in Tokens, Beat(w) \/ BeatFails(w) PROVE SweepRanThrough'
  <2>1. PICK k : SameButBeat(k, worker[w]) /\ worker' = [worker EXCEPT ![w] = k]
    BY <1>13, BeatenWorker
  <2>2. k.pc = worker[w].pc /\ k.done = worker[w].done /\ k.stopped = worker[w].stopped
    BY <2>1 DEF SameButBeat
  <2> QED
    BY <2>1, <2>2, RanThroughOneWorker
<1>14. ASSUME NEW p \in Procs, BeginShutdown(p) PROVE SweepRanThrough'
  <2>1. \A w \in Tokens : LET k == [worker[w] EXCEPT !.draining = TRUE] IN
            k.pc = worker[w].pc /\ k.done = worker[w].done /\ k.stopped = worker[w].stopped
    BY Typed DEF Worker
  <2>2. \A w \in Tokens : /\ worker'[w].pc = worker[w].pc /\ worker'[w].done = worker[w].done
                          /\ worker'[w].stopped = worker[w].stopped
    BY <1>14, <2>1 DEF BeginShutdown
  <2> QED
    BY <2>2, RanThroughKept
<1>15. ASSUME NEW p \in Procs, DropFutures(p) PROVE SweepRanThrough'
  <2>1. \A w \in Tokens : Ended(worker[w]).pc = "ended"
    BY EndedTyped, Typed
  <2>2. \A w \in Tokens : worker'[w] = worker[w] \/ worker'[w].pc = "ended"
    BY <1>15, <2>1 DEF DropFutures
  <2> QED
    BY <2>2, RanThroughKept
<1>16. ASSUME NEW p \in Procs, Crash(p) PROVE SweepRanThrough'
  <2>1. \A w \in Tokens : [Ended(worker[w]) EXCEPT !.slot = FALSE].pc = "ended"
    BY EndedTyped, Typed
  <2>2. \A w \in Tokens : worker'[w] = worker[w] \/ worker'[w].pc = "ended"
    BY <1>16, <2>1 DEF Crash
  <2> QED
    BY <2>2, RanThroughKept
<1>17. ASSUME NEW j \in Jobs, Cancel(j) \/ LeaseExpires(j) \/ UpdateAges(j) PROVE UNCHANGED worker
  BY <1>17 DEF Cancel, LeaseExpires, UpdateAges
<1>18. ASSUME NEW w \in Tokens,
              FinalWrite(w) \/ RecordFailure(w) \/ FailureUnrecorded(w) \/ LaunchLost(w)
       PROVE  End(w)
  BY <1>18 DEF FinalWrite, RecordFailure, FailureUnrecorded, LaunchLost
<1>19. ASSUME NEW p \in Procs, ShutdownReturns(p) PROVE UNCHANGED worker
  BY <1>19 DEF ShutdownReturns
<1>20. CASE UNCHANGED vars
  BY <1>2, <1>20 DEF vars
<1> QED
  BY <1>1, <1>2, <1>3, <1>4, <1>5, <1>6, <1>7, <1>8, <1>9, <1>10, <1>11, <1>12, <1>13, <1>14,
     <1>15, <1>16, <1>17, <1>18, <1>19, <1>20
  DEF Next, WorkerStep

-----------------------------------------------------------------------------
(***************************************************************************)
(* Every step changes at most one row, and a row only in one of the ways   *)
(* JobLifecycle allows.                                                    *)
(***************************************************************************)
Resting == {"cancelled", "failed", "interrupted"}

Change(q, r) ==
    \/ q.status = "absent" /\ r.status = "queued" /\ r.done = 0
    \/ q.status = "queued" /\ r.status = "running" /\ r.done = q.done
    \/ q.status = "running" /\ r.status = "running" /\ r.done \in q.done..Total
    \/ q.status = "running" /\ r.status = "completed" /\ r.done = Total
    \/ q.status = "queued" /\ r.status \in Resting /\ r.done = q.done
    \/ q.status = "running" /\ r.status \in Resting /\ r.done \in q.done..Total
    \/ q.status \in {"queued", "running"} \cup Resting /\ r.status = "queued" /\ r.done = q.done
    \/ r.status = q.status /\ r.done = q.done

RowChanges == \/ UNCHANGED row
              \/ \E j \in Jobs, r \in Row : row' = [row EXCEPT ![j] = r] /\ Change(row[j], r)

\* A worker that holds its row, by its phase: the row is queued before the claim and running after it.
LEMMA HeldRow ==
    ASSUME Inv, NEW w \in Tokens, Holds(w)
    PROVE  LET j == worker[w].job IN
           /\ j \in Jobs /\ row[j] \in Row /\ row[j].done \in 0..Total /\ worker[w].done \in 0..Total
           /\ worker[w].pc \in Claimed => row[j].status = "running" /\ row[j].done <= worker[w].done
           /\ worker[w].pc = "failing" => row[j].status \in {"queued", "running"}
<1> DEFINE j == worker[w].job
<1>1. /\ j \in Jobs /\ row[j] \in Row /\ row[j].done \in 0..Total /\ worker[w].done \in 0..Total
      /\ row[j].token = w /\ w # NoToken
  BY Typed, ConstantFacts DEF Inv, Holds
<1>2. RowMatches(j, row[j], worker[w])
  BY <1>1, HolderAgreesByRow DEF Inv
<1>3. row[j].status \in Statuses \cup {"absent"}
  BY <1>1 DEF Row
<1> HIDE DEF j
<1> QED
  BY <1>1, <1>2, <1>3 DEF RowMatches, OnThread, Claimed, InSweep, Statuses, j

LEMMA StoreChanges ==
    ASSUME Inv, NEW w \in Tokens, Holds(w), StoreCheckpoint(w), worker[w].pc \in Claimed
    PROVE  RowChanges
<1> DEFINE j == worker[w].job
<1>1. /\ j \in Jobs /\ row[j] \in Row /\ row[j].done \in 0..Total /\ worker[w].done \in 0..Total
      /\ row[j].status = "running" /\ row[j].done <= worker[w].done
  BY HeldRow
<1>2. PICK d \in {row[j].done, worker[w].done} :
          row' = [row EXCEPT ![j] = [@ EXCEPT !.done = d, !.lease = TRUE, !.updated = TRUE]]
  BY DEF StoreCheckpoint
<1> DEFINE r == [row[j] EXCEPT !.done = d, !.lease = TRUE, !.updated = TRUE]
<1>3. r \in Row /\ r.status = "running" /\ r.done = d
  BY <1>1 DEF Row
<1>4. d \in row[j].done..Total
  BY <1>1, <1>2, ConstantFacts
<1>5. row' = [row EXCEPT ![j] = r]
  BY <1>2
<1> HIDE DEF r, j
<1> QED
  BY <1>1, <1>3, <1>4, <1>5 DEF RowChanges, Change

LEMMA StepChangesRows == Inv /\ [Next]_vars => RowChanges
<1> SUFFICES ASSUME Inv, [Next]_vars PROVE RowChanges
  OBVIOUS
<1>0. TypeInv
  BY DEF Inv
<1>1. ASSUME NEW j \in Jobs, NEW p \in Procs, Submit(j, p) PROVE RowChanges
  <2>1. PICK t \in Tokens :
            row' = [row EXCEPT ![j] = [status |-> "queued", token |-> t, cancelRequested |-> FALSE,
                                      lease |-> TRUE, updated |-> TRUE, done |-> 0]]
    BY <1>1 DEF Submit
  <2> DEFINE r == [status |-> "queued", token |-> t, cancelRequested |-> FALSE,
                   lease |-> TRUE, updated |-> TRUE, done |-> 0]
  <2>2. r \in Row /\ r.status = "queued" /\ r.done = 0
    BY ConstantFacts DEF Row, Statuses
  <2>3. row[j].status = "absent"
    BY <1>1 DEF Submit
  <2> HIDE DEF r
  <2> QED
    BY <2>1, <2>2, <2>3 DEF RowChanges, Change, r
<1>2. ASSUME NEW j \in Jobs, NEW p \in Procs, Resume(j, p) PROVE RowChanges
  <2>1. PICK t \in Tokens :
            row' = [row EXCEPT ![j] = [@ EXCEPT !.status = "queued", !.token = t, !.cancelRequested = FALSE,
                                                !.lease = TRUE, !.updated = TRUE]]
    BY <1>2 DEF Resume
  <2> DEFINE r == [row[j] EXCEPT !.status = "queued", !.token = t, !.cancelRequested = FALSE,
                                 !.lease = TRUE, !.updated = TRUE]
  <2>2. r \in Row /\ r.status = "queued" /\ r.done = row[j].done
    BY ZenonT(60), <1>0, Typed DEF Row, Statuses
  <2>3. row[j].status \in {"queued", "running"} \cup Resting
    BY <1>2 DEF Resume, Resumable, Expired, Active, Resting
  <2>4. row' = [row EXCEPT ![j] = r]
    BY <2>1
  <2> HIDE DEF r
  <2> QED
    BY <2>2, <2>3, <2>4 DEF RowChanges, Change
<1>3. ASSUME NEW j \in Jobs, Cancel(j) PROVE RowChanges
  <2> DEFINE asked == [row[j] EXCEPT !.cancelRequested = TRUE, !.updated = TRUE]
  <2>0. row[j] \in Row
    BY <1>0, Typed
  <2>1. /\ asked \in Row /\ asked.status = row[j].status /\ asked.done = row[j].done
        /\ Cancelled(asked) \in Row /\ Cancelled(asked).status = "cancelled"
        /\ Cancelled(asked).done = row[j].done
    BY <2>0 DEF Row, Statuses, Cancelled
  <2>3. row[j].done \in row[j].done..Total
    BY <1>0, Typed, ConstantFacts
  <2>2. /\ row[j].status \in {"queued", "running"}
        /\ row' = [row EXCEPT ![j] = asked] \/ row' = [row EXCEPT ![j] = Cancelled(asked)]
    BY <1>3 DEF Cancel, Active
  <2> HIDE DEF asked
  <2> QED
    BY <2>1, <2>2, <2>3 DEF RowChanges, Change, Resting
<1>4. ASSUME NEW j \in Jobs, LeaseExpires(j) PROVE RowChanges
  <2> DEFINE r == [row[j] EXCEPT !.lease = FALSE]
  <2>1. r \in Row /\ r.status = row[j].status /\ r.done = row[j].done
    BY <1>0, Typed DEF Row
  <2>2. row' = [row EXCEPT ![j] = r]
    BY <1>4 DEF LeaseExpires
  <2> HIDE DEF r
  <2> QED
    BY <2>1, <2>2 DEF RowChanges, Change
<1>5. ASSUME NEW j \in Jobs, UpdateAges(j) PROVE RowChanges
  <2> DEFINE r == [row[j] EXCEPT !.updated = FALSE]
  <2>1. r \in Row /\ r.status = row[j].status /\ r.done = row[j].done
    BY <1>0, Typed DEF Row
  <2>2. row' = [row EXCEPT ![j] = r]
    BY <1>5 DEF UpdateAges
  <2> HIDE DEF r
  <2> QED
    BY <2>1, <2>2 DEF RowChanges, Change
<1>6. ASSUME UNCHANGED row PROVE RowChanges
  BY <1>6 DEF RowChanges
<1>7. ASSUME NEW w \in Tokens, Claim(w) PROVE RowChanges
  <2> DEFINE j == worker[w].job
             r == [row[j] EXCEPT !.status = "running", !.lease = TRUE, !.updated = TRUE]
  <2>1. j \in Jobs /\ row[j] \in Row
    BY <1>0, Typed
  <2>2. r \in Row /\ r.status = "running" /\ r.done = row[j].done
    BY <2>1 DEF Row, Statuses
  <2>3. UNCHANGED row \/ (row[j].status = "queued" /\ row' = [row EXCEPT ![j] = r])
    BY <1>7 DEF Claim
  <2> HIDE DEF r, j
  <2> QED
    BY <2>1, <2>2, <2>3 DEF RowChanges, Change
<1>8. ASSUME NEW w \in Tokens, AwaitSlot(w) PROVE RowChanges
  <2> DEFINE j == worker[w].job
             r == [row[j] EXCEPT !.status = IF flag[worker[w].proc] THEN "interrupted" ELSE "cancelled",
                                 !.updated = TRUE]
  <2>1. UNCHANGED row \/ (Holds(w) /\ worker[w].pc \in Claimed /\ row' = [row EXCEPT ![j] = r])
    BY <1>8 DEF AwaitSlot, Superseded, Claimed
  <2>2. CASE Holds(w) /\ worker[w].pc \in Claimed /\ row' = [row EXCEPT ![j] = r]
    <3>1. j \in Jobs /\ row[j] \in Row /\ row[j].status = "running" /\ row[j].done \in row[j].done..Total
      BY <2>2, HeldRow, ConstantFacts
    <3>2. r \in Row /\ r.status \in Resting /\ r.done = row[j].done
      BY <3>1 DEF Row, Statuses, Resting
    <3> HIDE DEF r, j
    <3> QED
      BY <2>2, <3>1, <3>2 DEF RowChanges, Change
  <2> QED
    BY <1>6, <2>1, <2>2
<1>9. ASSUME NEW w \in Tokens, Checkpoint(w) \/ CloseSweep(w) PROVE RowChanges
  <2>1. worker[w].pc \in Claimed /\ (UNCHANGED row \/ (Holds(w) /\ StoreCheckpoint(w)))
    BY <1>9 DEF Checkpoint, CloseSweep, Claimed, InSweep
  <2> QED
    BY <1>6, <2>1, StoreChanges
<1>10. ASSUME NEW w \in Tokens, FinalWrite(w) PROVE RowChanges
  <2> DEFINE j == worker[w].job
             r == [row[j] EXCEPT !.status = FinalStatus(w), !.done = worker[w].done, !.updated = TRUE]
  <2>1. worker[w].pc = "writing" /\ (UNCHANGED row \/ (Holds(w) /\ row' = [row EXCEPT ![j] = r]))
    BY <1>10 DEF FinalWrite
  <2>2. CASE Holds(w) /\ row' = [row EXCEPT ![j] = r]
    <3>1. /\ j \in Jobs /\ row[j] \in Row /\ row[j].status = "running"
          /\ worker[w].done \in 0..Total /\ worker[w].done \in row[j].done..Total
      BY <2>1, <2>2, HeldRow, ConstantFacts DEF Claimed
    <3>2. /\ r \in Row /\ r.status = FinalStatus(w) /\ r.done = worker[w].done
      BY <3>1 DEF Row, Statuses, FinalStatus
    <3>3. FinalStatus(w) \in Resting \/ (FinalStatus(w) = "completed" /\ worker[w].done = Total)
      BY <2>1 DEF FinalStatus, Resting, Inv, SweepRanThrough
    <3> HIDE DEF r, j
    <3> QED
      BY <2>2, <3>1, <3>2, <3>3 DEF RowChanges, Change
  <2> QED
    BY <1>6, <2>1, <2>2
<1>11. ASSUME NEW w \in Tokens, RecordFailure(w) PROVE RowChanges
  <2> DEFINE j == worker[w].job
             r == [row[j] EXCEPT !.status = "failed", !.updated = TRUE]
  <2>1. worker[w].pc = "failing" /\ (UNCHANGED row \/ (Holds(w) /\ row' = [row EXCEPT ![j] = r]))
    BY <1>11 DEF RecordFailure
  <2>2. CASE Holds(w) /\ row' = [row EXCEPT ![j] = r]
    <3>1. /\ j \in Jobs /\ row[j] \in Row /\ row[j].status \in {"queued", "running"}
          /\ row[j].done \in row[j].done..Total
      BY <2>1, <2>2, HeldRow, ConstantFacts
    <3>2. r \in Row /\ r.status = "failed" /\ r.done = row[j].done
      BY <3>1 DEF Row, Statuses
    <3> HIDE DEF r, j
    <3> QED
      BY <2>2, <3>1, <3>2 DEF RowChanges, Change, Resting
  <2> QED
    BY <1>6, <2>1, <2>2
<1>12. ASSUME NEW w \in Tokens, Beat(w) PROVE RowChanges
  <2> DEFINE j == worker[w].job
             r == [row[j] EXCEPT !.lease = TRUE, !.updated = TRUE]
  <2>1. j \in Jobs /\ row[j] \in Row
    BY <1>0, Typed
  <2>2. r \in Row /\ r.status = row[j].status /\ r.done = row[j].done
    BY <2>1 DEF Row
  <2>3. UNCHANGED row \/ row' = [row EXCEPT ![j] = r]
    BY <1>12 DEF Beat
  <2> HIDE DEF r, j
  <2> QED
    BY <2>1, <2>2, <2>3 DEF RowChanges, Change
<1>13. ASSUME NEW w \in Tokens,
              \/ Launch(w) \/ LaunchLost(w) \/ TrySlot(w) \/ BeginSweep(w) \/ ComputeCase(w)
              \/ WorkerFails(w) \/ FailureUnrecorded(w) \/ BeatFails(w)
       PROVE  UNCHANGED row
  BY <1>13 DEF Launch, LaunchLost, TrySlot, BeginSweep, ComputeCase, WorkerFails, FailureUnrecorded, BeatFails
<1>14. ASSUME NEW p \in Procs, BeginShutdown(p) \/ DropFutures(p) \/ ShutdownReturns(p) \/ Crash(p)
       PROVE  UNCHANGED row
  BY <1>14 DEF BeginShutdown, DropFutures, ShutdownReturns, Crash
<1>15. CASE UNCHANGED vars
  BY <1>6, <1>15 DEF vars
<1> QED
  BY <1>1, <1>2, <1>3, <1>4, <1>5, <1>6, <1>7, <1>8, <1>9, <1>10, <1>11, <1>12, <1>13, <1>14, <1>15
  DEF Next, WorkerStep

LEMMA InvInit == Init => Inv
  BY TypeInvInit, HolderAgreesInit, RanThroughInit DEF Inv

LEMMA InvStep == Inv /\ [Next]_vars => Inv'
<1> SUFFICES ASSUME Inv, [Next]_vars PROVE Inv'
  OBVIOUS
<1>1. TypeInv' /\ HolderAgrees' /\ SweepRanThrough'
  BY TypeInvStep, HolderAgreesStep, RanThroughStep DEF Inv
<1>2. RowChanges /\ row \in [Jobs -> Row]
  BY StepChangesRows DEF Inv, TypeInv, TypeOK
<1>3. NothingBeforeSubmit'
  BY <1>2 DEF RowChanges, Change, Resting, NothingBeforeSubmit, Inv
<1> QED
  BY <1>1, <1>3 DEF Inv

-----------------------------------------------------------------------------
(* The refinement: steps of rows as steps of JobLifecycle.                 *)

StateOf(r) == IF r.status \in Resting THEN "stopped" ELSE r.status

LEMMA RowSeen ==
    ASSUME TypeInv, NEW j \in Jobs, NEW r \in Row, row' = [row EXCEPT ![j] = r]
    PROVE  /\ JobState[j] = StateOf(row[j]) /\ JobProgress[j] = row[j].done
           /\ JobState' = [JobState EXCEPT ![j] = StateOf(r)]
           /\ JobProgress' = [JobProgress EXCEPT ![j] = r.done]
  BY DEF TypeInv, TypeOK, JobState, JobProgress, StateOf, Resting

LEMMA RefinementInit == Init => Lifecycle!Init
  BY DEF Init, Lifecycle!Init, JobState, JobProgress

LEMMA RefinementStep == Inv /\ [Next]_vars => [Lifecycle!Next]_(Lifecycle!vars)
<1> SUFFICES ASSUME Inv, [Next]_vars PROVE [Lifecycle!Next]_(Lifecycle!vars)
  OBVIOUS
<1>1. RowChanges
  BY StepChangesRows
<1>2. CASE UNCHANGED row
  BY <1>2 DEF Lifecycle!vars, JobState, JobProgress
<1>3. ASSUME NEW j \in Jobs, NEW r \in Row, row' = [row EXCEPT ![j] = r], Change(row[j], r)
      PROVE  [Lifecycle!Next]_(Lifecycle!vars)
  <2> DEFINE S == JobState
             P == JobProgress
  <2>1. /\ S[j] = StateOf(row[j]) /\ P[j] = row[j].done
        /\ S' = [S EXCEPT ![j] = StateOf(r)] /\ P' = [P EXCEPT ![j] = r.done]
    BY <1>3, RowSeen DEF Inv
  <2>2. S = [S EXCEPT ![j] = S[j]] /\ P = [P EXCEPT ![j] = P[j]]
    BY DEF JobState, JobProgress
  <2>3. row[j].status = "absent" => row[j].done = 0
    BY DEF Inv, NothingBeforeSubmit
  <2> HIDE DEF S, P
  <2>4. CASE row[j].status = "absent" /\ r.status = "queued" /\ r.done = 0
    <3>1. Lifecycle!Submit(j)
      BY <2>1, <2>2, <2>3, <2>4 DEF Lifecycle!Submit, StateOf, Resting, S, P
    <3> QED
      BY <3>1 DEF Lifecycle!Next
  <2>5. CASE row[j].status = "queued" /\ r.status = "running" /\ r.done = row[j].done
    <3>1. Lifecycle!Claim(j)
      BY <2>1, <2>2, <2>5 DEF Lifecycle!Claim, StateOf, Resting, S, P
    <3> QED
      BY <3>1 DEF Lifecycle!Next
  <2>6. CASE row[j].status = "running" /\ r.status = "running" /\ r.done \in row[j].done..Total
    <3>1. Lifecycle!Advance(j)
      BY <2>1, <2>2, <2>6 DEF Lifecycle!Advance, StateOf, Resting, S, P
    <3> QED
      BY <3>1 DEF Lifecycle!Next
  <2>7. CASE row[j].status = "running" /\ r.status = "completed" /\ r.done = Total
    <3>1. Lifecycle!Complete(j)
      BY <2>1, <2>2, <2>7 DEF Lifecycle!Complete, StateOf, Resting, S, P
    <3> QED
      BY <3>1 DEF Lifecycle!Next
  <2>8. CASE row[j].status = "queued" /\ r.status \in Resting /\ r.done = row[j].done
    <3>1. Lifecycle!Stop(j)
      BY <2>1, <2>2, <2>8 DEF Lifecycle!Stop, StateOf, Resting, S, P
    <3> QED
      BY <3>1 DEF Lifecycle!Next
  <2>9. CASE row[j].status = "running" /\ r.status \in Resting /\ r.done \in row[j].done..Total
    <3>1. Lifecycle!Stop(j)
      BY <2>1, <2>2, <2>9 DEF Lifecycle!Stop, StateOf, Resting, S, P
    <3> QED
      BY <3>1 DEF Lifecycle!Next
  <2>10. CASE /\ row[j].status \in {"queued", "running"} \cup Resting
              /\ r.status = "queued" /\ r.done = row[j].done
    <3>1. Lifecycle!Requeue(j)
      BY <2>1, <2>2, <2>10 DEF Lifecycle!Requeue, StateOf, Resting, S, P
    <3> QED
      BY <3>1 DEF Lifecycle!Next
  <2>11. CASE r.status = row[j].status /\ r.done = row[j].done
    <3>1. S' = S /\ P' = P
      BY <2>1, <2>2, <2>11 DEF StateOf
    <3> QED
      BY <3>1 DEF Lifecycle!vars, S, P
  <2> QED
    BY <1>3, <2>4, <2>5, <2>6, <2>7, <2>8, <2>9, <2>10, <2>11 DEF Change
<1> QED
  BY <1>1, <1>2, <1>3 DEF RowChanges

\* The rows of the detailed specification behave as JobLifecycle allows: progress
\* never goes back, completed is final and complete, and no worker that lost its
\* token is seen in a job's state.
THEOREM Refinement == Spec => ImplementsLifecycle
<1> QED
  BY InvInit, InvStep, RefinementInit, RefinementStep, PTL DEF Spec, ImplementsLifecycle, Lifecycle!Spec

-----------------------------------------------------------------------------
(* A worker acts alone.                                                    *)

\* An action of worker v touches no other worker, and the row only under the token.
LEMMA OneWorkerAtATime ==
    ASSUME NEW v \in Tokens,
           Launch(v) \/ LaunchLost(v) \/ WorkerStep(v) \/ WorkerFails(v)
             \/ FailureUnrecorded(v) \/ Beat(v) \/ BeatFails(v)
    PROVE  /\ Holds(v) \/ UNCHANGED row
           /\ UNCHANGED worker \/ \E k : worker' = [worker EXCEPT ![v] = k]
<1>1. CASE Launch(v) \/ LaunchLost(v) \/ WorkerFails(v) \/ FailureUnrecorded(v) \/ BeatFails(v)
  BY <1>1 DEF Launch, LaunchLost, WorkerFails, FailureUnrecorded, BeatFails, End
<1>2. CASE Claim(v)
  BY <1>2 DEF Claim, End
<1>3. CASE AwaitSlot(v)
  BY <1>3 DEF AwaitSlot, Superseded, End
<1>4. CASE TrySlot(v) \/ BeginSweep(v) \/ ComputeCase(v)
  BY <1>4 DEF TrySlot, BeginSweep, ComputeCase
<1>5. CASE Checkpoint(v)
  BY <1>5 DEF Checkpoint
<1>6. CASE CloseSweep(v)
  BY <1>6 DEF CloseSweep
<1>7. CASE FinalWrite(v) \/ RecordFailure(v)
  BY <1>7 DEF FinalWrite, RecordFailure, End
<1>8. CASE Beat(v)
  <2>1. (Holds(v) \/ UNCHANGED row) /\ (UNCHANGED worker \/ worker' = [worker EXCEPT ![v].beating = FALSE])
    BY <1>8 DEF Beat, BeatFinds
  <2> QED
    BY <2>1
<1> QED
  BY <1>1, <1>2, <1>3, <1>4, <1>5, <1>6, <1>7, <1>8 DEF WorkerStep

-----------------------------------------------------------------------------
(***************************************************************************)
(* Who may report a job as cancelled.  The final write of a worker goes by *)
(* the shutdown flag it reads then, and stopped was set by the flag it     *)
(* read before: for a job nobody cancelled the flag must still be up.      *)
(* Only _launch lowers it, when it finds no pool; and while a worker of    *)
(* the old executor is left, a shutdown is under way, which has no request *)
(* in flight unless the process is one of LateProcs.  StopInv says this of *)
(* each process, worker and row.                                           *)
(***************************************************************************)
ProcessAgrees(p) == pool[p] => ~flag[p]

WorkerAgrees(w) ==
    LET k == worker[w]
        p == worker[w].proc IN
    /\ k.beating => k.pc \in OnThread \cup {"ended"}
    /\ k.stopped => k.pc \in OnThread
    /\ k.draining => k.pc \in OnThread \cup {"pooled"} /\ stopping[p] # "no"
    /\ k.draining /\ k.pc = "pooled" => stopping[p] = "marked"
    /\ k.pc \in OnThread \cup {"pooled"} /\ ~k.draining => pool[p]
    /\ k.pc = "launch" /\ p \notin LateProcs => stopping[p] = "no"
    /\ k.stopped /\ Holds(w) /\ p \notin LateProcs => row[k.job].cancelRequested \/ flag[p]

RowAgrees(j) ==
    row[j].status = "cancelled" /\ ~row[j].cancelRequested
      => row[j].token \in Tokens /\ worker[row[j].token].proc \in LateProcs

StopInv == /\ \A p \in Procs : ProcessAgrees(p)
           /\ \A w \in Tokens : WorkerAgrees(w)
           /\ \A j \in Jobs : RowAgrees(j)

LEMMA StopInit == Init => StopInv
  BY DEF Init, StopInv, ProcessAgrees, WorkerAgrees, RowAgrees, OnThread, Claimed, InSweep

LEMMA Functions ==
    ASSUME TypeInv
    PROVE  /\ row \in [Jobs -> Row] /\ worker \in [Tokens -> Worker]
           /\ pool \in [Procs -> BOOLEAN] /\ flag \in [Procs -> BOOLEAN]
           /\ stopping \in [Procs -> {"no", "marked", "waiting"}]
           /\ \A w \in Tokens : worker[w].proc \in Procs /\ worker[w].job \in Jobs
  BY DEF TypeInv, TypeOK, Worker

\* What a worker may do to the row: nothing, or as its holder, without inventing a cancellation.
HolderWrites(w) ==
    \/ UNCHANGED row
    \/ /\ Holds(w)
       /\ \E r \in Row : /\ row' = [row EXCEPT ![worker[w].job] = r] /\ r.token = w
                         /\ r.cancelRequested = row[worker[w].job].cancelRequested
                         /\ r.status = "cancelled" => r.cancelRequested \/ worker[w].proc \in LateProcs

\* A step of worker w leaves what StopInv says of everything else.
LEMMA StopOneWorker ==
    ASSUME TypeInv, StopInv, NEW w \in Tokens, NEW k \in Worker, worker' = [worker EXCEPT ![w] = k],
           k.job = worker[w].job, k.proc = worker[w].proc, UNCHANGED <<pool, flag, stopping>>,
           HolderWrites(w), WorkerAgrees(w)'
    PROVE  StopInv'
<1> USE Functions
<1> DEFINE i == worker[w].job
<1>1. \A v \in Tokens : v # w => worker'[v] = worker[v]
  OBVIOUS
<1>2. worker'[w] = k
  OBVIOUS
<1>3. ASSUME NEW v \in Tokens PROVE WorkerAgrees(v)'
  <2>1. CASE v = w
    BY <2>1
  <2>2. CASE v # w
    <3>1. WorkerAgrees(v) /\ worker'[v] = worker[v]
      BY <1>1, <2>2 DEF StopInv
    <3>2. Holds(v)' => Holds(v) /\ row'[worker[v].job] = row[worker[v].job]
      BY <1>1, <2>2 DEF HolderWrites, Holds
    <3> QED
      BY <3>1, <3>2 DEF WorkerAgrees
  <2> QED
    BY <2>1, <2>2
<1>4. ASSUME NEW j \in Jobs PROVE RowAgrees(j)'
  <2>1. \A v \in Tokens : worker'[v].proc = worker[v].proc
    BY <1>1, <1>2
  <2>2. CASE row'[j] = row[j]
    BY <2>1, <2>2 DEF StopInv, RowAgrees
  <2>3. CASE row'[j] # row[j]
    <3>1. PICK r \in Row : /\ row'[j] = r /\ r.token = w
                           /\ r.status = "cancelled" => r.cancelRequested \/ worker[w].proc \in LateProcs
      BY <2>3 DEF HolderWrites
    <3> QED
      BY <2>1, <3>1 DEF RowAgrees
  <2> QED
    BY <2>2, <2>3
<1>5. \A p \in Procs : ProcessAgrees(p)'
  BY DEF StopInv, ProcessAgrees
<1> QED
  BY <1>3, <1>4, <1>5 DEF StopInv

\* A worker goes on on its thread; if it stops, or has stopped, it is for a reason.
LEMMA StopGoesOn ==
    ASSUME TypeInv, StopInv, NEW w \in Tokens, NEW k \in Worker, worker' = [worker EXCEPT ![w] = k],
           worker[w].pc \in OnThread \cup {"pooled"}, k.pc \in OnThread,
           k.job = worker[w].job, k.proc = worker[w].proc, k.draining = worker[w].draining,
           UNCHANGED <<pool, flag, stopping>>, HolderWrites(w),
           \/ k.stopped = worker[w].stopped
           \/ Holds(w) => row[k.job].cancelRequested \/ flag[k.proc]
    PROVE  StopInv'
<1> USE Functions
<1>1. WorkerAgrees(w) /\ worker'[w] = k
  BY DEF StopInv
<1>2. /\ Holds(w)' => Holds(w)
      /\ row'[k.job].cancelRequested = row[k.job].cancelRequested
  BY DEF HolderWrites, Holds
<1>3. k.pc # "launch" /\ k.pc # "pooled"
  BY DEF OnThread, Claimed, InSweep
<1>4. WorkerAgrees(w)'
  BY <1>1, <1>2, <1>3 DEF WorkerAgrees
<1> QED
  BY <1>4, StopOneWorker

\* A worker ends.
LEMMA StopEnds ==
    ASSUME TypeInv, StopInv, NEW w \in Tokens, End(w), UNCHANGED <<pool, flag, stopping>>, HolderWrites(w)
    PROVE  StopInv'
<1>1. PICK k : GoneFrom(k, worker[w]) /\ worker' = [worker EXCEPT ![w] = k]
  BY EndedWorker
<1>2. /\ k \in Worker /\ k.job = worker[w].job /\ k.proc = worker[w].proc
      /\ k.pc = "ended" /\ ~k.stopped /\ ~k.draining
  BY <1>1 DEF GoneFrom
<1>3. worker' = [worker EXCEPT ![w] = k]
  BY <1>1
<1>4. worker'[w] = k
  BY <1>3, Functions
<1>5. WorkerAgrees(w)'
  BY <1>2, <1>4 DEF WorkerAgrees, OnThread, Claimed, InSweep
<1> QED
  BY <1>2, <1>3, <1>5, StopOneWorker

LEMMA StoreIsLawful ==
    ASSUME TypeInv, NEW w \in Tokens, Holds(w), StoreCheckpoint(w), row[worker[w].job].status # "cancelled"
    PROVE  HolderWrites(w)
<1> DEFINE j == worker[w].job
<1>1. j \in Jobs /\ row[j] \in Row /\ row[j].done \in 0..Total /\ worker[w].done \in 0..Total
  BY Typed
<1>2. PICK d \in {row[j].done, worker[w].done} :
          row' = [row EXCEPT ![j] = [@ EXCEPT !.done = d, !.lease = TRUE, !.updated = TRUE]]
  BY DEF StoreCheckpoint
<1> DEFINE r == [row[j] EXCEPT !.done = d, !.lease = TRUE, !.updated = TRUE]
<1>3. /\ r \in Row /\ r.status = row[j].status /\ r.token = row[j].token
      /\ r.cancelRequested = row[j].cancelRequested
  BY <1>1 DEF Row
<1>4. row' = [row EXCEPT ![j] = r]
  BY <1>2
<1> HIDE DEF r
<1> QED
  BY <1>3, <1>4 DEF HolderWrites, Holds

\* A row changes alone, as its owner or time changes it.
LEMMA StopOneRow ==
    ASSUME TypeInv, StopInv, NEW j \in Jobs, NEW r \in Row, row' = [row EXCEPT ![j] = r],
           UNCHANGED <<worker, pool, flag, stopping>>,
           \/ r.cancelRequested /\ r.token \in {row[j].token, NoToken}
           \/ r.cancelRequested = row[j].cancelRequested /\ r.token = row[j].token /\ r.status = row[j].status
    PROVE  StopInv'
<1> USE Functions
<1>1. ASSUME NEW w \in Tokens PROVE WorkerAgrees(w)'
  <2>1. Holds(w)' => Holds(w) /\ (row[worker[w].job].cancelRequested => row'[worker[w].job].cancelRequested)
    BY ConstantFacts DEF Holds
  <2>2. WorkerAgrees(w)
    BY DEF StopInv
  <2> QED
    BY <2>1, <2>2 DEF WorkerAgrees
<1>2. ASSUME NEW i \in Jobs PROVE RowAgrees(i)'
  <2>1. RowAgrees(i)
    BY DEF StopInv
  <2> QED
    BY <2>1 DEF RowAgrees
<1>3. \A p \in Procs : ProcessAgrees(p)'
  BY DEF StopInv, ProcessAgrees
<1> QED
  BY <1>1, <1>2, <1>3 DEF StopInv

\* A fresh token is stored in a row and handed to a process.
LEMMA StopHanded ==
    ASSUME TypeInv, HolderAgrees, StopInv, NEW j \in Jobs, NEW p \in Procs, NEW t \in Tokens, NEW r \in Row,
           Serving(p), NextToken(t), Hand(t, j, p), row' = [row EXCEPT ![j] = r],
           r.token = t, r.status = "queued", UNCHANGED <<pool, flag, stopping>>
    PROVE  StopInv'
<1> USE Functions
<1>1. worker[t].pc = "unborn" /\ worker[t] \in Worker
  BY DEF NextToken
<1> DEFINE k == [worker[t] EXCEPT !.pc = "launch", !.job = j, !.proc = p]
<1>2. /\ k.pc = "launch" /\ k.proc = p /\ k.job = j /\ k.beating = worker[t].beating
      /\ k.stopped = worker[t].stopped /\ k.draining = worker[t].draining
  BY <1>1 DEF Worker
<1>3. worker' = [worker EXCEPT ![t] = k]
  BY DEF Hand
<1> HIDE DEF k
<1>4. ~worker[t].beating /\ ~worker[t].stopped /\ ~worker[t].draining
  BY <1>1 DEF StopInv, WorkerAgrees, OnThread, Claimed, InSweep
<1>5. ASSUME NEW w \in Tokens PROVE WorkerAgrees(w)'
  <2>1. CASE w = t
    BY <1>2, <1>3, <1>4, <2>1 DEF WorkerAgrees, Serving, OnThread, Claimed, InSweep
  <2>2. CASE w # t
    <3>1. WorkerAgrees(w) /\ worker'[w] = worker[w]
      BY <1>3, <2>2 DEF StopInv
    <3>2. Holds(w)' => Holds(w) /\ row'[worker[w].job] = row[worker[w].job]
      BY <2>2, <3>1 DEF Holds
    <3> QED
      BY <3>1, <3>2 DEF WorkerAgrees
  <2> QED
    BY <2>1, <2>2
<1>6. ASSUME NEW i \in Jobs PROVE RowAgrees(i)'
  <2>1. CASE i = j
    BY <2>1 DEF RowAgrees
  <2>2. CASE i # j
    <3>1. row'[i] = row[i] /\ RowAgrees(i) /\ row[i].token # t
      BY <1>1, <2>2, UnbornUnused DEF StopInv
    <3>2. row[i].token \in Tokens => worker'[row[i].token] = worker[row[i].token]
      BY <1>3, <3>1
    <3> QED
      BY <3>1, <3>2 DEF RowAgrees
  <2> QED
    BY <2>1, <2>2
<1>7. \A q \in Procs : ProcessAgrees(q)'
  BY DEF StopInv, ProcessAgrees
<1> QED
  BY <1>5, <1>6, <1>7 DEF StopInv

\* A launch can only lower a flag that no worker of a shutdown still reads.
LEMMA StopLaunch == ASSUME TypeInv, StopInv, NEW w \in Tokens, Launch(w) PROVE StopInv'
<1> USE Functions
<1> DEFINE p == worker[w].proc
           k == [worker[w] EXCEPT !.pc = "pooled"]
<1>1. /\ k.pc = "pooled" /\ k.proc = p /\ k.job = worker[w].job /\ k.beating = worker[w].beating
      /\ k.stopped = worker[w].stopped /\ k.draining = worker[w].draining
  BY DEF Worker
<1>2. /\ worker' = [worker EXCEPT ![w] = k] /\ pool' = [pool EXCEPT ![p] = TRUE]
      /\ flag' = [flag EXCEPT ![p] = IF pool[p] THEN @ ELSE FALSE]
      /\ worker[w].pc = "launch" /\ row' = row /\ stopping' = stopping
  BY DEF Launch
<1>3. p \in Procs /\ worker'[w] = k /\ \A v \in Tokens : v # w => worker'[v] = worker[v]
  BY <1>2
<1>4. WorkerAgrees(w) /\ ~worker[w].beating /\ ~worker[w].stopped /\ ~worker[w].draining
  BY <1>2 DEF StopInv, WorkerAgrees, OnThread, Claimed, InSweep
<1> HIDE DEF k, p
<1>5. ASSUME NEW v \in Tokens PROVE WorkerAgrees(v)'
  <2>1. CASE v = w
    BY <1>1, <1>2, <1>3, <1>4, <2>1 DEF WorkerAgrees, p
  <2>2. CASE v # w
    <3>1. WorkerAgrees(v) /\ worker'[v] = worker[v]
      BY <1>3, <2>2 DEF StopInv
    <3>2. Holds(v)' <=> Holds(v)
      BY <1>2, <3>1 DEF Holds
    <3>3. pool[worker[v].proc] => pool'[worker[v].proc]
      BY <1>2, <1>3
    <3>4. ASSUME worker[v].stopped, worker[v].proc \notin LateProcs, flag[worker[v].proc]
          PROVE  flag'[worker[v].proc]
      <4>1. CASE worker[v].proc # p
        BY <1>2, <3>4, <4>1
      <4>2. CASE worker[v].proc = p
        <5>1. ~pool[p] /\ worker[v].pc \in OnThread
          BY <1>3, <3>1, <3>4, <4>2 DEF StopInv, ProcessAgrees, WorkerAgrees
        <5>2. stopping[p] # "no"
          BY <3>1, <4>2, <5>1 DEF WorkerAgrees
        <5>3. stopping[p] = "no"
          BY <1>2, <1>4, <3>4, <4>2 DEF WorkerAgrees, p
        <5> QED
          BY <5>2, <5>3
      <4> QED
        BY <4>1, <4>2
    <3> QED
      BY <1>2, <3>1, <3>2, <3>3, <3>4 DEF WorkerAgrees
  <2> QED
    BY <2>1, <2>2
<1>6. ASSUME NEW j \in Jobs PROVE RowAgrees(j)'
  <2>1. \A v \in Tokens : worker'[v].proc = worker[v].proc
    BY <1>1, <1>3 DEF p
  <2> QED
    BY <1>2, <2>1 DEF StopInv, RowAgrees
<1>7. ASSUME NEW q \in Procs PROVE ProcessAgrees(q)'
  BY <1>2, <1>3 DEF StopInv, ProcessAgrees
<1> QED
  BY <1>5, <1>6, <1>7 DEF StopInv

\* A step of process p that leaves the rows: its workers agree again, no other worker changes.
LEMMA StopOneProcess ==
    ASSUME TypeInv, StopInv, NEW p \in Procs, UNCHANGED row,
           NEW a \in BOOLEAN, NEW b \in BOOLEAN, NEW c,
           pool' = [pool EXCEPT ![p] = a], flag' = [flag EXCEPT ![p] = b], a => ~b,
           stopping' = [stopping EXCEPT ![p] = c],
           \A w \in Tokens : worker'[w].proc = worker[w].proc /\ (worker[w].proc # p => worker'[w] = worker[w]),
           \A w \in Tokens : worker[w].proc = p => WorkerAgrees(w)'
    PROVE  StopInv'
<1> USE Functions
<1>1. ASSUME NEW w \in Tokens PROVE WorkerAgrees(w)'
  <2>1. CASE worker[w].proc # p
    <3>1. WorkerAgrees(w) /\ worker'[w] = worker[w]
      BY <2>1 DEF StopInv
    <3>2. /\ pool'[worker[w].proc] = pool[worker[w].proc] /\ flag'[worker[w].proc] = flag[worker[w].proc]
          /\ stopping'[worker[w].proc] = stopping[worker[w].proc]
      BY <2>1
    <3> QED
      BY <3>1, <3>2 DEF WorkerAgrees, Holds
  <2> QED
    BY <2>1
<1>2. \A j \in Jobs : RowAgrees(j)'
  BY DEF StopInv, RowAgrees
<1>3. \A q \in Procs : ProcessAgrees(q)'
  BY DEF StopInv, ProcessAgrees
<1> QED
  BY <1>1, <1>2, <1>3 DEF StopInv

LEMMA StopBegins == ASSUME TypeInv, StopInv, NEW p \in Procs, BeginShutdown(p) PROVE StopInv'
<1> USE Functions
<1>1. /\ stopping[p] = "no" /\ row' = row
      /\ pool' = [pool EXCEPT ![p] = FALSE] /\ flag' = [flag EXCEPT ![p] = TRUE]
      /\ stopping' = [stopping EXCEPT ![p] = IF pool[p] THEN "marked" ELSE "no"]
      /\ p \in LateProcs \/ \A w \in Tokens : ~(worker[w].pc = "launch" /\ worker[w].proc = p)
      /\ worker' = [w \in Tokens |->
           IF worker[w].proc = p /\ worker[w].pc \in OnThread \cup {"pooled"}
           THEN [worker[w] EXCEPT !.draining = TRUE] ELSE worker[w]]
  BY DEF BeginShutdown
<1>2. ASSUME NEW w \in Tokens
      PROVE  /\ worker'[w].pc = worker[w].pc /\ worker'[w].proc = worker[w].proc
             /\ worker'[w].job = worker[w].job /\ worker'[w].beating = worker[w].beating
             /\ worker'[w].stopped = worker[w].stopped
             /\ worker'[w].draining = (worker[w].draining
                  \/ (worker[w].proc = p /\ worker[w].pc \in OnThread \cup {"pooled"}))
             /\ worker[w].proc # p => worker'[w] = worker[w]
  <2> DEFINE k == [worker[w] EXCEPT !.draining = TRUE]
  <2>1. worker[w] \in Worker
    OBVIOUS
  <2>2. /\ k.pc = worker[w].pc /\ k.proc = worker[w].proc /\ k.job = worker[w].job
        /\ k.beating = worker[w].beating /\ k.stopped = worker[w].stopped /\ k.draining = TRUE
    BY <2>1 DEF Worker
  <2>3. worker[w].draining \in BOOLEAN
    BY <2>1 DEF Worker
  <2>4. worker'[w] = IF worker[w].proc = p /\ worker[w].pc \in OnThread \cup {"pooled"} THEN k ELSE worker[w]
    BY <1>1
  <2> HIDE DEF k
  <2> QED
    BY <2>2, <2>3, <2>4
<1>3. ASSUME NEW w \in Tokens, worker[w].proc = p PROVE WorkerAgrees(w)'
  <2>1. WorkerAgrees(w)
    BY DEF StopInv
  <2>2. ~worker[w].draining
    BY <1>1, <1>3, <2>1 DEF WorkerAgrees
  <2>3. worker[w].pc \in OnThread \cup {"pooled"} => stopping'[p] = "marked"
    BY <1>1, <1>3, <2>1, <2>2 DEF WorkerAgrees
  <2>4. worker[w].pc = "launch" => p \in LateProcs
    BY <1>1, <1>3
  <2>5. flag'[p]
    BY <1>1
  <2> QED
    BY <1>2, <1>3, <2>1, <2>2, <2>3, <2>4, <2>5 DEF WorkerAgrees
<1> QED
  BY <1>1, <1>2, <1>3, StopOneProcess

LEMMA StopDrops == ASSUME TypeInv, StopInv, NEW p \in Procs, DropFutures(p) PROVE StopInv'
<1> USE Functions
<1>1. /\ stopping[p] = "marked" /\ row' = row /\ pool' = pool /\ flag' = flag
      /\ stopping' = [stopping EXCEPT ![p] = "waiting"]
      /\ worker' = [w \in Tokens |->
           IF worker[w].proc = p /\ worker[w].draining /\ worker[w].pc = "pooled"
           THEN Ended(worker[w]) ELSE worker[w]]
  BY DEF DropFutures
<1>2. ASSUME NEW w \in Tokens
      PROVE  LET k == Ended(worker[w]) IN
             k.pc = "ended" /\ k.proc = worker[w].proc /\ ~k.beating /\ ~k.stopped /\ ~k.draining
  <2>1. Ended(worker[w]) \in Worker /\ worker[w] \in Worker
    BY EndedTyped
  <2> QED
    BY <2>1 DEF Ended, Worker
<1>3. ASSUME NEW w \in Tokens PROVE worker'[w].proc = worker[w].proc /\ (worker[w].proc # p => worker'[w] = worker[w])
  BY <1>1, <1>2
<1>4. ASSUME NEW w \in Tokens, worker[w].proc = p PROVE WorkerAgrees(w)'
  <2>1. WorkerAgrees(w)
    BY DEF StopInv
  <2>2. CASE worker[w].draining /\ worker[w].pc = "pooled"
    <3>1. worker'[w] = Ended(worker[w])
      BY <1>1, <1>4, <2>2
    <3> QED
      BY <1>2, <3>1 DEF WorkerAgrees, OnThread, Claimed, InSweep
  <2>3. CASE ~(worker[w].draining /\ worker[w].pc = "pooled")
    <3>1. worker'[w] = worker[w]
      BY <1>1, <2>3
    <3>2. stopping'[p] = "waiting" /\ ~(worker[w].pc = "launch" /\ p \notin LateProcs)
      BY <1>1, <1>4, <2>1 DEF WorkerAgrees
    <3> QED
      BY <1>1, <1>4, <2>1, <2>3, <3>1, <3>2 DEF WorkerAgrees, Holds
  <2> QED
    BY <2>2, <2>3
<1> DEFINE a == pool[p]
           b == flag[p]
<1>5. pool' = [pool EXCEPT ![p] = a] /\ flag' = [flag EXCEPT ![p] = b] /\ a \in BOOLEAN /\ b \in BOOLEAN /\ (a => ~b)
  BY <1>1 DEF StopInv, ProcessAgrees
<1> HIDE DEF a, b
<1>6. row' = row /\ stopping' = [stopping EXCEPT ![p] = "waiting"]
  BY <1>1
<1> QED
  BY <1>3, <1>4, <1>5, <1>6, StopOneProcess

LEMMA StopReturns == ASSUME TypeInv, StopInv, NEW p \in Procs, ShutdownReturns(p) PROVE StopInv'
<1> USE Functions
<1>1. /\ stopping[p] = "waiting" /\ row' = row /\ worker' = worker /\ pool' = pool /\ flag' = flag
      /\ stopping' = [stopping EXCEPT ![p] = "no"]
      /\ \A w \in Tokens : ~(worker[w].proc = p /\ worker[w].draining /\ worker[w].pc \in OnThread)
  BY DEF ShutdownReturns
<1>2. ASSUME NEW w \in Tokens, worker[w].proc = p PROVE WorkerAgrees(w)'
  <2>1. WorkerAgrees(w) /\ stopping'[p] = "no"
    BY <1>1 DEF StopInv
  <2>2. ~worker[w].draining
    BY <1>1, <1>2, <2>1 DEF WorkerAgrees
  <2> QED
    BY <1>1, <1>2, <2>1, <2>2 DEF WorkerAgrees, Holds
<1> DEFINE a == pool[p]
           b == flag[p]
<1>3. pool' = [pool EXCEPT ![p] = a] /\ flag' = [flag EXCEPT ![p] = b] /\ a \in BOOLEAN /\ b \in BOOLEAN /\ (a => ~b)
  BY <1>1 DEF StopInv, ProcessAgrees
<1> HIDE DEF a, b
<1> QED
  BY <1>1, <1>2, <1>3, StopOneProcess

LEMMA StopCrash == ASSUME TypeInv, StopInv, NEW p \in Procs, Crash(p) PROVE StopInv'
<1> USE Functions
<1>1. /\ row' = row /\ pool' = [pool EXCEPT ![p] = FALSE] /\ flag' = [flag EXCEPT ![p] = FALSE]
      /\ stopping' = [stopping EXCEPT ![p] = "no"]
      /\ worker' = [w \in Tokens |->
           IF worker[w].proc = p /\ worker[w].pc # "unborn"
           THEN [Ended(worker[w]) EXCEPT !.slot = FALSE] ELSE worker[w]]
  BY DEF Crash
<1>2. ASSUME NEW w \in Tokens
      PROVE  LET k == [Ended(worker[w]) EXCEPT !.slot = FALSE] IN
             k.pc = "ended" /\ k.proc = worker[w].proc /\ ~k.beating /\ ~k.stopped /\ ~k.draining
  <2>1. Ended(worker[w]) \in Worker /\ worker[w] \in Worker
    BY EndedTyped
  <2> QED
    BY <2>1 DEF Ended, Worker
<1>3. ASSUME NEW w \in Tokens PROVE worker'[w].proc = worker[w].proc /\ (worker[w].proc # p => worker'[w] = worker[w])
  BY <1>1, <1>2
<1>4. ASSUME NEW w \in Tokens, worker[w].proc = p PROVE WorkerAgrees(w)'
  <2>1. WorkerAgrees(w)
    BY DEF StopInv
  <2>2. worker[w].pc = "unborn" \/ worker'[w] = [Ended(worker[w]) EXCEPT !.slot = FALSE]
    BY <1>1, <1>4
  <2>3. /\ worker'[w].pc \in {"unborn", "ended"}
        /\ ~worker'[w].beating /\ ~worker'[w].stopped /\ ~worker'[w].draining
    BY <1>1, <1>2, <2>1, <2>2 DEF WorkerAgrees, OnThread, Claimed, InSweep
  <2> QED
    BY <2>3 DEF WorkerAgrees, OnThread, Claimed, InSweep
<1> QED
  BY <1>1, <1>3, <1>4, StopOneProcess

LEMMA StopStep == Inv /\ StopInv /\ [Next]_vars => StopInv'
<1> SUFFICES ASSUME Inv, StopInv, [Next]_vars PROVE StopInv'
  OBVIOUS
<1>0. TypeInv /\ HolderAgrees
  BY DEF Inv
<1> USE <1>0, Functions
<1>1. ASSUME NEW j \in Jobs, NEW p \in Procs, Submit(j, p) PROVE StopInv'
  <2>1. PICK t \in Tokens :
            /\ NextToken(t) /\ Hand(t, j, p)
            /\ row' = [row EXCEPT ![j] = [status |-> "queued", token |-> t, cancelRequested |-> FALSE,
                                          lease |-> TRUE, updated |-> TRUE, done |-> 0]]
    BY <1>1 DEF Submit
  <2> DEFINE r == [status |-> "queued", token |-> t, cancelRequested |-> FALSE,
                   lease |-> TRUE, updated |-> TRUE, done |-> 0]
  <2>2. r \in Row /\ r.status = "queued" /\ r.token = t
    BY ConstantFacts DEF Row, Statuses
  <2>3. row' = [row EXCEPT ![j] = r] /\ Serving(p) /\ UNCHANGED <<pool, flag, stopping>>
    BY <1>1, <2>1 DEF Submit
  <2> HIDE DEF r
  <2> QED
    BY <2>1, <2>2, <2>3, StopHanded
<1>2. ASSUME NEW j \in Jobs, NEW p \in Procs, Resume(j, p) PROVE StopInv'
  <2>1. PICK t \in Tokens :
            /\ NextToken(t) /\ Hand(t, j, p)
            /\ row' = [row EXCEPT ![j] = [@ EXCEPT !.status = "queued", !.token = t, !.cancelRequested = FALSE,
                                                   !.lease = TRUE, !.updated = TRUE]]
    BY <1>2 DEF Resume
  <2> DEFINE r == [row[j] EXCEPT !.status = "queued", !.token = t, !.cancelRequested = FALSE,
                                 !.lease = TRUE, !.updated = TRUE]
  <2>2. r \in Row
    BY ZenonT(60), Typed DEF Row, Statuses
  <2>3. r.status = "queued" /\ r.token = t
    BY DEF Row
  <2>4. row' = [row EXCEPT ![j] = r] /\ Serving(p) /\ UNCHANGED <<pool, flag, stopping>>
    BY <1>2, <2>1 DEF Resume
  <2> HIDE DEF r
  <2> QED
    BY <2>1, <2>2, <2>3, <2>4, StopHanded
<1>3. ASSUME NEW j \in Jobs, Cancel(j) PROVE StopInv'
  <2> DEFINE asked == [row[j] EXCEPT !.cancelRequested = TRUE, !.updated = TRUE]
             r == IF row[j].status = "queued" \/ Expired(j) THEN Cancelled(asked) ELSE asked
  <2>1. /\ asked \in Row /\ asked.cancelRequested /\ asked.token = row[j].token
        /\ Cancelled(asked) \in Row /\ Cancelled(asked).cancelRequested /\ Cancelled(asked).token = NoToken
    BY DEF Row, Statuses, Cancelled
  <2>2. r \in Row /\ r.cancelRequested /\ r.token \in {row[j].token, NoToken}
    BY <2>1
  <2>3. row' = [row EXCEPT ![j] = r] /\ UNCHANGED <<worker, pool, flag, stopping>>
    BY <1>3 DEF Cancel
  <2> HIDE DEF r
  <2> QED
    BY <2>2, <2>3, StopOneRow
<1>4. ASSUME NEW j \in Jobs, LeaseExpires(j) \/ UpdateAges(j) PROVE StopInv'
  <2> DEFINE q == [row[j] EXCEPT !.lease = FALSE]
             r == [row[j] EXCEPT !.updated = FALSE]
  <2>1. /\ q \in Row /\ q.cancelRequested = row[j].cancelRequested
        /\ q.token = row[j].token /\ q.status = row[j].status
        /\ r \in Row /\ r.cancelRequested = row[j].cancelRequested
        /\ r.token = row[j].token /\ r.status = row[j].status
    BY DEF Row
  <2>2. /\ row' = [row EXCEPT ![j] = q] \/ row' = [row EXCEPT ![j] = r]
        /\ UNCHANGED <<worker, pool, flag, stopping>>
    BY <1>4 DEF LeaseExpires, UpdateAges
  <2> HIDE DEF q, r
  <2> QED
    BY <2>1, <2>2, StopOneRow
<1>5. ASSUME NEW w \in Tokens, Claim(w) PROVE StopInv'
  <2>1. CASE End(w) /\ UNCHANGED row
    BY <1>5, <2>1, StopEnds DEF Claim, HolderWrites
  <2>2. CASE ~(End(w) /\ UNCHANGED row)
    <3> DEFINE r == [row[worker[w].job] EXCEPT !.status = "running", !.lease = TRUE, !.updated = TRUE]
               k == [worker[w] EXCEPT !.pc = "waiting", !.done = Previous(w), !.beating = TRUE]
    <3>1. /\ r \in Row /\ r.status = "running" /\ r.token = row[worker[w].job].token
          /\ r.cancelRequested = row[worker[w].job].cancelRequested
      BY DEF Statuses, Row
    <3>2. k \in Worker
      BY Typed DEF Worker, Phases, Previous
    <3>3. /\ k.pc = "waiting" /\ k.job = worker[w].job /\ k.proc = worker[w].proc
          /\ k.draining = worker[w].draining /\ k.stopped = worker[w].stopped
      BY DEF Worker
    <3>4. /\ row' = [row EXCEPT ![worker[w].job] = r] /\ worker' = [worker EXCEPT ![w] = k] /\ Holds(w)
          /\ worker[w].pc = "pooled" /\ UNCHANGED <<pool, flag, stopping>>
      BY <1>5, <2>2 DEF Claim
    <3> HIDE DEF r, k
    <3>5. HolderWrites(w)
      BY <3>1, <3>4 DEF HolderWrites, Holds
    <3> QED
      BY <3>2, <3>3, <3>4, <3>5, StopGoesOn DEF OnThread, Claimed
  <2> QED
    BY <2>1, <2>2
<1>6. ASSUME NEW w \in Tokens, AwaitSlot(w) PROVE StopInv'
  <2>1. CASE End(w)
    <3> DEFINE r == [row[worker[w].job] EXCEPT !.status = IF flag[worker[w].proc] THEN "interrupted" ELSE "cancelled",
                                               !.updated = TRUE]
    <3>1. /\ r \in Row /\ r.token = row[worker[w].job].token
          /\ r.status = IF flag[worker[w].proc] THEN "interrupted" ELSE "cancelled"
          /\ r.cancelRequested = row[worker[w].job].cancelRequested
      BY DEF Statuses, Row
    <3>2. \/ UNCHANGED row
          \/ /\ Holds(w) /\ (row[worker[w].job].cancelRequested \/ flag[worker[w].proc])
             /\ row' = [row EXCEPT ![worker[w].job] = r]
      BY <1>6 DEF AwaitSlot, Superseded
    <3>3. UNCHANGED <<pool, flag, stopping>>
      BY <1>6 DEF AwaitSlot
    <3> HIDE DEF r
    <3>4. HolderWrites(w)
      BY <3>1, <3>2 DEF HolderWrites, Holds
    <3> QED
      BY <2>1, <3>3, <3>4, StopEnds
  <2>2. CASE ~End(w)
    <3> DEFINE k == [worker[w] EXCEPT !.pc = "trying"]
    <3>1. /\ k \in Worker /\ k.pc = "trying" /\ k.job = worker[w].job /\ k.proc = worker[w].proc
          /\ k.draining = worker[w].draining /\ k.stopped = worker[w].stopped
      BY DEF Worker, Phases
    <3>2. worker[w].pc = "waiting" /\ worker' = [worker EXCEPT ![w] = k] /\ UNCHANGED <<row, pool, flag, stopping>>
      BY <1>6, <2>2 DEF AwaitSlot
    <3> HIDE DEF k
    <3> QED
      BY <3>1, <3>2, StopGoesOn DEF HolderWrites, OnThread, Claimed
  <2> QED
    BY <2>1, <2>2
<1>7. ASSUME NEW w \in Tokens, TrySlot(w) \/ BeginSweep(w) \/ ComputeCase(w) \/ WorkerFails(w) PROVE StopInv'
  <2>1. PICK k : /\ worker' = [worker EXCEPT ![w] = k]
                 /\ k \in {[worker[w] EXCEPT !.pc = "sweep", !.slot = TRUE], [worker[w] EXCEPT !.pc = "waiting"],
                            [worker[w] EXCEPT !.pc = "cases"], [worker[w] EXCEPT !.pc = "cases", !.done = worker[w].done + 1],
                            [worker[w] EXCEPT !.pc = "failing", !.slot = FALSE]}
    BY <1>7 DEF TrySlot, BeginSweep, ComputeCase, WorkerFails
  <2>2. /\ k.pc \in OnThread /\ k.job = worker[w].job /\ k.proc = worker[w].proc
        /\ k.draining = worker[w].draining /\ k.stopped = worker[w].stopped
    BY <2>1 DEF Worker, OnThread, Claimed, InSweep
  <2>3. TypeInv'
    BY TypeInvStep
  <2>4. worker'[w] = k /\ worker'[w] \in Worker
    BY <2>1, <2>3 DEF TypeInv, TypeOK
  <2>5. /\ worker[w].pc \in OnThread \cup {"pooled"}
        /\ UNCHANGED <<row, pool, flag, stopping>>
    BY <1>7 DEF TrySlot, BeginSweep, ComputeCase, WorkerFails, OnThread, Claimed, InSweep
  <2> QED
    BY <2>1, <2>2, <2>4, <2>5, StopGoesOn DEF HolderWrites
<1>8. ASSUME NEW w \in Tokens, Checkpoint(w) PROVE StopInv'
  <2> DEFINE k == [worker[w] EXCEPT !.pc = "compute"]
             l == [worker[w] EXCEPT !.pc = "closing", !.stopped = TRUE]
  <2>1. /\ k \in Worker /\ k.pc \in OnThread /\ k.job = worker[w].job /\ k.proc = worker[w].proc
        /\ k.draining = worker[w].draining /\ k.stopped = worker[w].stopped
        /\ l \in Worker /\ l.pc \in OnThread /\ l.job = worker[w].job /\ l.proc = worker[w].proc
        /\ l.draining = worker[w].draining
    BY DEF Worker, Phases, OnThread, Claimed, InSweep
  <2>2. /\ worker[w].pc \in OnThread /\ worker[w].pc \in Claimed /\ UNCHANGED <<pool, flag, stopping>>
        /\ \/ worker' = [worker EXCEPT ![w] = k]
           \/ worker' = [worker EXCEPT ![w] = l] /\ (Holds(w) => ~KeepGoing(w))
        /\ UNCHANGED row \/ (Holds(w) /\ StoreCheckpoint(w))
    BY <1>8 DEF Checkpoint, OnThread, Claimed, InSweep
  <2>3. HolderWrites(w)
    <3>1. CASE UNCHANGED row
      BY <3>1 DEF HolderWrites
    <3>2. CASE Holds(w) /\ StoreCheckpoint(w)
      BY <2>2, <3>2, HeldRow, StoreIsLawful
    <3> QED
      BY <2>2, <3>1, <3>2
  <2>4. ~KeepGoing(w) => row[worker[w].job].cancelRequested \/ flag[worker[w].proc]
    BY DEF KeepGoing
  <2> HIDE DEF k, l
  <2> QED
    BY <2>1, <2>2, <2>3, <2>4, StopGoesOn
<1>9. ASSUME NEW w \in Tokens, CloseSweep(w) PROVE StopInv'
  <2> DEFINE k == Swept(worker[w])
  <2>1. /\ k \in Worker /\ k.pc \in OnThread /\ k.job = worker[w].job /\ k.proc = worker[w].proc
        /\ k.draining = worker[w].draining /\ k.stopped = worker[w].stopped
    BY DEF Worker, Phases, Swept, OnThread, Claimed
  <2>2. /\ worker[w].pc \in OnThread /\ worker[w].pc \in Claimed /\ UNCHANGED <<pool, flag, stopping>>
        /\ worker' = [worker EXCEPT ![w] = k]
        /\ UNCHANGED row \/ (Holds(w) /\ StoreCheckpoint(w))
    BY <1>9 DEF CloseSweep, OnThread, Claimed, InSweep
  <2>3. HolderWrites(w)
    <3>1. CASE UNCHANGED row
      BY <3>1 DEF HolderWrites
    <3>2. CASE Holds(w) /\ StoreCheckpoint(w)
      BY <2>2, <3>2, HeldRow, StoreIsLawful
    <3> QED
      BY <2>2, <3>1, <3>2
  <2> HIDE DEF k
  <2> QED
    BY <2>1, <2>2, <2>3, StopGoesOn
<1>10. ASSUME NEW w \in Tokens, FinalWrite(w) PROVE StopInv'
  <2> DEFINE r == [row[worker[w].job] EXCEPT !.status = FinalStatus(w), !.done = worker[w].done, !.updated = TRUE]
  <2>1. End(w) /\ UNCHANGED <<pool, flag, stopping>> /\ (UNCHANGED row \/ (Holds(w) /\ row' = [row EXCEPT ![worker[w].job] = r]))
    BY <1>10 DEF FinalWrite
  <2>2. worker[w].done \in 0..Total
    BY Typed
  <2>3. /\ r \in Row /\ r.status = FinalStatus(w) /\ r.token = row[worker[w].job].token
        /\ r.cancelRequested = row[worker[w].job].cancelRequested
    <3>1. FinalStatus(w) \in Statuses
      BY DEF Statuses, FinalStatus
    <3> QED
      BY <2>2, <3>1 DEF Row
  <2>4. FinalStatus(w) = "cancelled" /\ Holds(w) => row[worker[w].job].cancelRequested \/ worker[w].proc \in LateProcs
    BY DEF FinalStatus, StopInv, WorkerAgrees
  <2> HIDE DEF r
  <2>5. HolderWrites(w)
    BY <2>1, <2>3, <2>4 DEF HolderWrites, Holds
  <2> QED
    BY <2>1, <2>5, StopEnds
<1>11. ASSUME NEW w \in Tokens, RecordFailure(w) PROVE StopInv'
  <2> DEFINE r == [row[worker[w].job] EXCEPT !.status = "failed", !.updated = TRUE]
  <2>1. End(w) /\ UNCHANGED <<pool, flag, stopping>> /\ (UNCHANGED row \/ (Holds(w) /\ row' = [row EXCEPT ![worker[w].job] = r]))
    BY <1>11 DEF RecordFailure
  <2>2. /\ r \in Row /\ r.status = "failed" /\ r.token = row[worker[w].job].token
        /\ r.cancelRequested = row[worker[w].job].cancelRequested
    BY DEF Row, Statuses
  <2> HIDE DEF r
  <2>3. HolderWrites(w)
    BY <2>1, <2>2 DEF HolderWrites, Holds
  <2> QED
    BY <2>1, <2>3, StopEnds
<1>12. ASSUME NEW w \in Tokens, FailureUnrecorded(w) \/ LaunchLost(w) PROVE StopInv'
  BY <1>12, StopEnds DEF FailureUnrecorded, LaunchLost, HolderWrites
<1>13. ASSUME NEW w \in Tokens, Beat(w) \/ BeatFails(w) PROVE StopInv'
  <2> DEFINE j == worker[w].job
  <2>1. PICK k : SameButBeat(k, worker[w]) /\ worker' = [worker EXCEPT ![w] = k]
    BY <1>13, BeatenWorker
  <2>2. PICK q : /\ SameButLease(q, row[j]) /\ row' = [row EXCEPT ![j] = q]
                 /\ q = row[j] \/ BeatFinds(w)
    BY <1>13, BeatenRow
  <2>3. j \in Jobs /\ row[j] \in Row /\ q \in Row /\ k \in Worker /\ UNCHANGED <<pool, flag, stopping>>
    BY <1>13, <2>1, <2>2 DEF Beat, BeatFails, SameButBeat, SameButLease
  <2>4. HolderWrites(w)
    BY <2>2, <2>3 DEF HolderWrites, BeatFinds, Holds, SameButLease
  <2>5. worker'[w] = k /\ row'[j] = q /\ WorkerAgrees(w)
    BY <2>1, <2>2, <2>3 DEF StopInv
  <2>6. Holds(w)' => Holds(w)
    BY <2>1, <2>2, <2>5 DEF Holds, SameButBeat, SameButLease
  <2>7. WorkerAgrees(w)'
    BY <2>1, <2>2, <2>3, <2>5, <2>6 DEF WorkerAgrees, SameButBeat, SameButLease
  <2> QED
    BY <2>1, <2>3, <2>4, <2>7, StopOneWorker DEF SameButBeat
<1>14. CASE UNCHANGED vars
  BY <1>14 DEF vars, StopInv, ProcessAgrees, WorkerAgrees, RowAgrees, Holds
<1> QED
  BY <1>1, <1>2, <1>3, <1>4, <1>5, <1>6, <1>7, <1>8, <1>9, <1>10, <1>11, <1>12, <1>13, <1>14,
     StopLaunch, StopBegins, StopDrops, StopReturns, StopCrash
  DEF Next, WorkerStep

\* A job that nobody cancelled is not reported as cancelled, except by a worker of
\* a process whose shutdown may overtake a request in flight.
THEOREM Cancellation == Spec => []CancelledOnlyWhenAsked
<1>1. StopInv => CancelledOnlyWhenAsked
  BY DEF StopInv, RowAgrees, CancelledOnlyWhenAsked
<1> QED
  BY <1>1, InvInit, InvStep, StopInit, StopStep, PTL DEF Spec

-----------------------------------------------------------------------------
(* What no step does: for a superseded worker, to a lease, or for a job    *)
(* that should stop.                                                       *)

\* A worker whose token was replaced or cleared changes no row, whatever it still does,
\* nor does the heartbeat it left behind.
THEOREM Fencing == Spec => ObsoleteWorkerIsHarmless
<1> DEFINE Harmless == \A w \in Tokens :
             worker'[w] # worker[w] /\ (worker[w].pc \in OnThread \/ worker[w].beating) /\ row[worker[w].job].token # w
                => row' = row
<1>1. ASSUME Inv, StopInv, Next PROVE Harmless
  <2> SUFFICES ASSUME NEW w \in Tokens, worker'[w] # worker[w], worker[w].pc \in OnThread \/ worker[w].beating,
                      row[worker[w].job].token # w
               PROVE  row' = row
    OBVIOUS
  <2>0. worker \in [Tokens -> Worker]
    BY <1>1 DEF Inv, TypeInv, TypeOK
  <2>1. ASSUME NEW j \in Jobs, NEW p \in Procs, Submit(j, p) \/ Resume(j, p) PROVE FALSE
    <3>1. PICK t \in Tokens : NextToken(t) /\ Hand(t, j, p)
      BY <2>1 DEF Submit, Resume
    <3>2. t # w
      BY <1>1, <3>1 DEF StopInv, WorkerAgrees, NextToken, OnThread, Claimed, InSweep
    <3> QED
      BY <2>0, <3>1, <3>2 DEF Hand
  <2>2. ASSUME NEW j \in Jobs, Cancel(j) \/ LeaseExpires(j) \/ UpdateAges(j) PROVE FALSE
    BY <2>2 DEF Cancel, LeaseExpires, UpdateAges
  <2>3. ASSUME NEW v \in Tokens,
               Launch(v) \/ LaunchLost(v) \/ WorkerStep(v) \/ WorkerFails(v)
                 \/ FailureUnrecorded(v) \/ Beat(v) \/ BeatFails(v)
        PROVE  row' = row
    <3>1. v = w
      BY <2>0, <2>3, OneWorkerAtATime
    <3>2. ~Holds(v)
      BY <3>1 DEF Holds
    <3> QED
      BY <2>3, <3>2, OneWorkerAtATime
  <2>4. ASSUME NEW p \in Procs, BeginShutdown(p) \/ DropFutures(p) \/ ShutdownReturns(p) \/ Crash(p)
        PROVE  row' = row
    BY <2>4 DEF BeginShutdown, DropFutures, ShutdownReturns, Crash
  <2> QED
    BY <1>1, <2>1, <2>2, <2>3, <2>4 DEF Next
<1>2. Inv /\ StopInv /\ [Next]_vars => [Harmless]_vars
  BY <1>1
<1>3. Spec => [][Harmless]_vars
  BY <1>2, InvInit, InvStep, StopInit, StopStep, PTL DEF Spec
<1> QED
  BY <1>3 DEF ObsoleteWorkerIsHarmless

\* An expired lease comes back to life only by the worker whose token the row
\* carries, while it is in the pool or on a thread, or by the update its heartbeat was
\* in when it ended: every write of a worker is fenced, and a heartbeat outlives its
\* worker by one update.
THEOREM LeaseRevival == Spec => LeaseRevivedByHolder
<1> DEFINE Revived ==
             /\ \A j \in Jobs : LET t == row[j].token IN
                   Active(j) /\ ~row[j].lease /\ row'[j].lease /\ row'[j].token = t
                      => worker[t].pc \in OnThread \cup {"pooled"} \/ LastBeat(t)
             /\ \A w \in Tokens : worker[w].pc = "ended" /\ worker'[w].beating => worker[w].beating
<1>1. ASSUME Inv, StopInv, Next, NEW j \in Jobs
      PROVE  LET t == row[j].token IN
             Active(j) /\ ~row[j].lease /\ row'[j].lease /\ row'[j].token = t
                => worker[t].pc \in OnThread \cup {"pooled"} \/ LastBeat(t)
  <2> SUFFICES ASSUME ~row[j].lease, row'[j].lease, row'[j].token = row[j].token
               PROVE  worker[row[j].token].pc \in OnThread \cup {"pooled"} \/ LastBeat(row[j].token)
    OBVIOUS
  <2>0. TypeInv /\ HolderAgrees /\ row \in [Jobs -> Row] /\ worker \in [Tokens -> Worker] /\ row[j] \in Row
    BY <1>1, Functions DEF Inv
  <2>1. ASSUME NEW i \in Jobs, NEW p \in Procs, Submit(i, p) \/ Resume(i, p) PROVE FALSE
    <3>1. PICK t \in Tokens : NextToken(t) /\ \E r : row' = [row EXCEPT ![i] = r] /\ r.token = t
      <4>1. CASE Submit(i, p)
        BY <4>1 DEF Submit
      <4>2. CASE Resume(i, p)
        <5>1. PICK t \in Tokens :
                  /\ NextToken(t)
                  /\ row' = [row EXCEPT ![i] = [@ EXCEPT !.status = "queued", !.token = t, !.cancelRequested = FALSE,
                                                         !.lease = TRUE, !.updated = TRUE]]
          BY <4>2 DEF Resume
        <5>2. [row[i] EXCEPT !.status = "queued", !.token = t, !.cancelRequested = FALSE,
                             !.lease = TRUE, !.updated = TRUE].token = t
          BY <2>0 DEF Row
        <5> QED
          BY <5>1, <5>2
      <4> QED
        BY <2>1, <4>1, <4>2
    <3>2. row[j].token # t
      BY <2>0, <3>1, UnbornUnused DEF NextToken
    <3> QED
      BY <2>0, <3>1, <3>2
  <2>2. ASSUME NEW i \in Jobs, Cancel(i) \/ LeaseExpires(i) \/ UpdateAges(i) PROVE FALSE
    <3> DEFINE asked == [row[i] EXCEPT !.cancelRequested = TRUE, !.updated = TRUE]
    <3>1. /\ asked.lease = row[i].lease /\ Cancelled(asked).lease = row[i].lease
          /\ ~[row[i] EXCEPT !.lease = FALSE].lease /\ [row[i] EXCEPT !.updated = FALSE].lease = row[i].lease
      BY <2>0 DEF Cancelled, Row
    <3>2. PICK r \in {asked, Cancelled(asked), [row[i] EXCEPT !.lease = FALSE], [row[i] EXCEPT !.updated = FALSE]} :
              row' = [row EXCEPT ![i] = r]
      BY <2>2 DEF Cancel, LeaseExpires, UpdateAges
    <3>3. r.lease => row[i].lease
      BY <3>1, <3>2
    <3> QED
      BY <2>0, <3>2, <3>3
  <2>3. ASSUME NEW p \in Procs, BeginShutdown(p) \/ DropFutures(p) \/ ShutdownReturns(p) \/ Crash(p) PROVE FALSE
    BY <2>3 DEF BeginShutdown, DropFutures, ShutdownReturns, Crash
  <2>4. ASSUME NEW w \in Tokens,
               Launch(w) \/ LaunchLost(w) \/ WorkerStep(w) \/ WorkerFails(w)
                 \/ FailureUnrecorded(w) \/ Beat(w) \/ BeatFails(w)
        PROVE  worker[row[j].token].pc \in OnThread \cup {"pooled"} \/ LastBeat(row[j].token)
    <3>1. row' # row /\ Holds(w)
      BY <2>4, OneWorkerAtATime
    <3>2. row' = [row EXCEPT ![worker[w].job] = row'[worker[w].job]]
      BY <2>0, <2>4, <3>1
      DEF Launch, LaunchLost, WorkerStep, WorkerFails, FailureUnrecorded, Beat, BeatFails, Claim, AwaitSlot,
          TrySlot, BeginSweep, Checkpoint, StoreCheckpoint, ComputeCase, CloseSweep, FinalWrite, RecordFailure
    <3>3. row[j].token = w
      BY <2>0, <3>1, <3>2, Functions DEF Holds
    <3>4. worker[w].pc \in OnThread \cup {"pooled", "ended"}
      <4>1. CASE worker[w].beating
        BY <1>1, <4>1 DEF StopInv, WorkerAgrees
      <4>2. CASE ~worker[w].beating
        BY <2>4, <3>1, <4>2
        DEF Launch, LaunchLost, WorkerStep, WorkerFails, FailureUnrecorded, Beat, BeatFails, Claim, AwaitSlot,
            TrySlot, BeginSweep, Checkpoint, ComputeCase, CloseSweep, FinalWrite, RecordFailure,
            OnThread, Claimed, InSweep
      <4> QED
        BY <4>1, <4>2
    <3>5. CASE worker[w].pc = "ended"
      <4>1. Beat(w) /\ worker[w].beating
        BY <2>4, <3>1, <3>5
        DEF Launch, LaunchLost, WorkerStep, WorkerFails, FailureUnrecorded, Beat, BeatFails, Claim, AwaitSlot,
            TrySlot, BeginSweep, Checkpoint, ComputeCase, CloseSweep, FinalWrite, RecordFailure, Claimed, InSweep
      <4>2. PICK k : worker' = [worker EXCEPT ![w] = k] /\ ~k.beating
        BY <2>0, <3>5, <4>1, BeatenWorker
      <4> QED
        BY <2>0, <3>3, <3>5, <4>1, <4>2 DEF LastBeat
    <3> QED
      BY <3>3, <3>4, <3>5
  <2> QED
    BY <1>1, <2>1, <2>2, <2>3, <2>4 DEF Next
<1>2. ASSUME Inv, StopInv, Next, NEW w \in Tokens
      PROVE  worker[w].pc = "ended" /\ worker'[w].beating => worker[w].beating
  <2> SUFFICES ASSUME worker[w].pc = "ended", worker'[w].beating, ~worker[w].beating
               PROVE  FALSE
    OBVIOUS
  <2>0. TypeInv /\ worker \in [Tokens -> Worker] /\ worker[w] \in Worker
    BY <1>2, Functions DEF Inv
  <2>1. ASSUME NEW i \in Jobs, NEW p \in Procs, Submit(i, p) \/ Resume(i, p) PROVE FALSE
    <3>1. PICK t \in Tokens : NextToken(t) /\ Hand(t, i, p)
      BY <2>1 DEF Submit, Resume
    <3> QED
      BY <2>0, <3>1 DEF NextToken, Hand
  <2>2. ASSUME NEW i \in Jobs, Cancel(i) \/ LeaseExpires(i) \/ UpdateAges(i) PROVE FALSE
    BY <2>2 DEF Cancel, LeaseExpires, UpdateAges
  <2>3. ASSUME NEW v \in Tokens,
               Launch(v) \/ LaunchLost(v) \/ WorkerStep(v) \/ WorkerFails(v)
                 \/ FailureUnrecorded(v) \/ Beat(v) \/ BeatFails(v)
        PROVE  FALSE
    <3>1. v = w
      BY <2>0, <2>3, OneWorkerAtATime
    <3> QED
      BY <2>3, <3>1
      DEF Launch, LaunchLost, WorkerStep, WorkerFails, FailureUnrecorded, Beat, BeatFails, Claim, AwaitSlot,
          TrySlot, BeginSweep, Checkpoint, ComputeCase, CloseSweep, FinalWrite, RecordFailure, Claimed, InSweep
  <2>4. ASSUME NEW p \in Procs, BeginShutdown(p) \/ DropFutures(p) \/ ShutdownReturns(p) \/ Crash(p) PROVE FALSE
    <3>1. ~[Ended(worker[w]) EXCEPT !.slot = FALSE].beating
      BY <2>0 DEF Ended, Worker
    <3> QED
      BY <2>4, <3>1 DEF BeginShutdown, DropFutures, ShutdownReturns, Crash, OnThread, Claimed, InSweep
  <2> QED
    BY <1>2, <2>1, <2>2, <2>3, <2>4 DEF Next
<1>3. Inv /\ StopInv /\ [Next]_vars => [Revived]_vars
  BY <1>1, <1>2
<1>4. Spec => [][Revived]_vars
  BY <1>3, InvInit, InvStep, StopInit, StopStep, PTL DEF Spec
<1> QED
  BY <1>4 DEF LeaseRevivedByHolder

\* A case is begun only at a checkpoint that found the row under the worker's own
\* token, running, not cancelled, and with cases left to store.
THEOREM CooperativeStop == Spec => NoCaseAfterCancel
<1> DEFINE Lawful == \A w \in Tokens : LET j == worker[w].job IN
             worker'[w].pc = "compute" /\ worker[w].pc # "compute"
                => /\ row[j].token = w /\ row[j].status = "running" /\ ~row[j].cancelRequested
                   /\ row[j].done < Total
<1>1. ASSUME Inv, Next PROVE Lawful
  <2> SUFFICES ASSUME NEW w \in Tokens, worker'[w].pc = "compute", worker[w].pc # "compute"
               PROVE  LET j == worker[w].job IN
                      /\ row[j].token = w /\ row[j].status = "running" /\ ~row[j].cancelRequested
                      /\ row[j].done < Total
    OBVIOUS
  <2>0. TypeInv /\ worker \in [Tokens -> Worker] /\ worker[w] \in Worker
    BY <1>1, Functions DEF Inv
  <2>1. ASSUME NEW v \in Tokens, End(v) PROVE FALSE
    <3>1. PICK k : k.pc = "ended" /\ worker' = [worker EXCEPT ![v] = k]
      BY <2>0, <2>1, EndedWorker DEF GoneFrom
    <3> QED
      BY <2>0, <3>1
  <2>2. ASSUME NEW j \in Jobs, NEW p \in Procs, Submit(j, p) \/ Resume(j, p) PROVE FALSE
    <3>1. PICK t \in Tokens : Hand(t, j, p)
      BY <2>2 DEF Submit, Resume
    <3>2. [worker[t] EXCEPT !.pc = "launch", !.job = j, !.proc = p].pc = "launch"
      BY <2>0 DEF Worker
    <3> QED
      BY <2>0, <3>1, <3>2 DEF Hand
  <2>3. ASSUME NEW j \in Jobs, Cancel(j) \/ LeaseExpires(j) \/ UpdateAges(j) PROVE FALSE
    BY <2>3 DEF Cancel, LeaseExpires, UpdateAges
  <2>4. ASSUME NEW p \in Procs, BeginShutdown(p) PROVE FALSE
    <3>1. [worker[w] EXCEPT !.draining = TRUE].pc = worker[w].pc
      BY <2>0 DEF Worker
    <3> QED
      BY <2>4, <3>1 DEF BeginShutdown
  <2>5. ASSUME NEW p \in Procs, DropFutures(p) \/ ShutdownReturns(p) \/ Crash(p) PROVE FALSE
    <3>1. Ended(worker[w]).pc = "ended" /\ [Ended(worker[w]) EXCEPT !.slot = FALSE].pc = "ended"
      BY <2>0, EndedTyped
    <3> QED
      BY <2>5, <3>1 DEF DropFutures, ShutdownReturns, Crash
  <2>6. ASSUME NEW v \in Tokens, NEW k, worker' = [worker EXCEPT ![v] = k],
               k.pc # "compute" \/ k.pc = worker[v].pc
        PROVE  FALSE
    BY <2>0, <2>6
  <2>7. ASSUME NEW v \in Tokens, Launch(v) \/ TrySlot(v) \/ BeginSweep(v) \/ WorkerFails(v) PROVE FALSE
    <3>1. PICK x \in Phases \ {"compute"}, b \in BOOLEAN :
              \/ worker' = [worker EXCEPT ![v] = [@ EXCEPT !.pc = x]]
              \/ worker' = [worker EXCEPT ![v] = [@ EXCEPT !.pc = x, !.slot = b]]
      BY <2>7 DEF Launch, TrySlot, BeginSweep, WorkerFails, Phases
    <3>2. [worker[v] EXCEPT !.pc = x].pc = x /\ [worker[v] EXCEPT !.pc = x, !.slot = b].pc = x
      BY <2>0 DEF Worker
    <3> QED
      BY <2>6, <3>1, <3>2
  <2>8. ASSUME NEW v \in Tokens, Claim(v) \/ AwaitSlot(v) PROVE FALSE
    <3>1. /\ [worker[v] EXCEPT !.pc = "waiting", !.done = Previous(v), !.beating = TRUE].pc = "waiting"
          /\ [worker[v] EXCEPT !.pc = "trying"].pc = "trying"
      BY <2>0 DEF Worker
    <3> QED
      BY <2>1, <2>6, <2>8, <3>1 DEF Claim, AwaitSlot, Superseded
  <2>9. ASSUME NEW v \in Tokens, ComputeCase(v) \/ CloseSweep(v) PROVE FALSE
    <3>1. [worker[v] EXCEPT !.pc = "cases", !.done = worker[v].done + 1].pc = "cases" /\ Swept(worker[v]).pc = "writing"
      BY <2>0 DEF Worker, Swept
    <3> QED
      BY <2>6, <2>9, <3>1 DEF ComputeCase, CloseSweep
  <2>10. ASSUME NEW v \in Tokens, Beat(v) \/ BeatFails(v) PROVE FALSE
    <3>1. PICK k : k.pc = worker[v].pc /\ worker' = [worker EXCEPT ![v] = k]
      BY <2>0, <2>10, BeatenWorker DEF SameButBeat
    <3> QED
      BY <2>6, <3>1
  <2>11. ASSUME NEW v \in Tokens,
                LaunchLost(v) \/ FinalWrite(v) \/ RecordFailure(v) \/ FailureUnrecorded(v)
         PROVE  FALSE
    BY <2>1, <2>11 DEF LaunchLost, FinalWrite, RecordFailure, FailureUnrecorded
  <2>12. PICK v \in Tokens : Checkpoint(v)
    BY <1>1, <2>2, <2>3, <2>4, <2>5, <2>7, <2>8, <2>9, <2>10, <2>11 DEF Next, WorkerStep
  <2>13. v = w /\ Holds(w) /\ KeepGoing(w) /\ CasesLeft(w) /\ worker[w].pc = "cases"
    <3>1. [worker[v] EXCEPT !.pc = "closing", !.stopped = TRUE].pc = "closing"
      BY <2>0 DEF Worker
    <3>2. Holds(v) /\ KeepGoing(v) /\ worker' = [worker EXCEPT ![v].pc = "compute"]
      BY <2>6, <2>12, <3>1 DEF Checkpoint
    <3> QED
      BY <2>0, <2>12, <3>2 DEF Checkpoint
  <2>14. LET j == worker[w].job IN
         /\ row[j].status = "running" /\ row[j].done <= worker[w].done
         /\ row[j].done \in 0..Total /\ worker[w].done \in 0..Total
    BY <1>1, <2>13, HeldRow DEF Claimed, InSweep
  <2> QED
    BY <2>13, <2>14, ConstantFacts DEF Holds, KeepGoing, CasesLeft
<1>2. Inv /\ [Next]_vars => [Lawful]_vars
  BY <1>1
<1>3. Spec => [][Lawful]_vars
  BY <1>2, InvInit, InvStep, PTL DEF Spec
<1> QED
  BY <1>3 DEF NoCaseAfterCancel
=============================================================================
