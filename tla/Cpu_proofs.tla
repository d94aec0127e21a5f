----------------------------- MODULE Cpu_proofs -----------------------------
(***************************************************************************)
(* Proofs about the calculations of CPU scheduling: first the pool of the  *)
(* server, CpuPool, for every finite set of batches, every number of points*)
(* and all sizes; then the page of the browser, CpuAnalysis, for every     *)
(* number of calls and all their answers.                                  *)
(***************************************************************************)
EXTENDS CpuPool, CpuAnalysis, FiniteSetTheorems, TLAPS

PoolRecord == [now : Executors \cup {NoExecutor}, size : Nat, users : Nat, failed : BOOLEAN]

Types == /\ pool \in PoolRecord
         /\ executor \in [Executors -> Executor]
         /\ mutex \in Threads \cup {None}
         /\ batch \in [Threads -> Batch]
         /\ point \in [Batches -> [Points -> Future]]

\* Leases are on the executor of the pool, and users counts them.
Holders == {b \in Batches : HasLease(b)}
Leases == /\ pool.users = Cardinality(Holders)
          /\ \A b \in Holders : pool.now # NoExecutor /\ batch[b].lease = pool.now

\* The executor of the pool is the only one that is not closed.
Live(e) == executor[e].state \in {"open", "broken"}
Current == \A e \in Executors : Live(e) <=> e = pool.now

\* Executors are created in order, and by batches that keep their lease on record.
Born == {e \in Executors : executor[e].state # "unborn"}
Led == {b \in Batches : batch[b].lease # NoExecutor}
Numbered == /\ Born = 1..Cardinality(Born)
            /\ Cardinality(Born) <= Cardinality(Led)
Early == {"idle", "acquire", "waiting", "replace"}
NotLed == \A b \in Batches : batch[b].pc \in Early => batch[b].lease = NoExecutor

\* Who closes an executor holds the condition, and nobody has a lease then.
Closing == {"replace", "closing"}
Stopping == {"idle", "retire", "lingering", "closing", "ended"}
Exclusive == /\ \A t \in Threads : batch[t].pc \in Closing <=> mutex = t
             /\ mutex # None => pool.users = 0
             /\ batch[Stopper].pc \in Stopping

\* Points run only while their batch collects or drains them.
Busy == {"collect", "mark", "cancel", "drain"}
Quiet(b) == \A i \in Points : point[b][i] \notin Unstopped
Collected(b) == \A i \in Points : i < batch[b].next => point[b][i] \notin Unstopped
Stopped(b) == /\ batch[b].pc \notin Busy => Quiet(b)
              /\ batch[b].pc = "collect" => Collected(b)
              /\ batch[b].pc \in Early \cup {"submit"} => batch[b].next = 1
PointsStopped == \A b \in Batches : Stopped(b)

PoolInv == Types /\ Leases /\ Current /\ Numbered /\ NotLed /\ Exclusive /\ PointsStopped

-----------------------------------------------------------------------------
(* Sets of batches and of executors.                                       *)

LEMMA Names == /\ IsFiniteSet(Batches) /\ Cardinality(Batches) \in Nat
               /\ Stopper \notin Batches /\ None \notin Threads
               /\ \A b \in Batches : b \in Threads /\ b # None /\ b # Stopper
               /\ Stopper \in Threads
               /\ NPoints \in Nat \ {0} /\ Sizes \subseteq Nat
  BY PoolAssumption, FS_CardinalityType DEF Threads

LEMMA HoldersFinite == IsFiniteSet(Holders) /\ Cardinality(Holders) \in Nat /\ Cardinality(Holders) <= Cardinality(Batches)
  <1>1. Holders \subseteq Batches
    BY DEF Holders
  <1>2. QED
    BY <1>1, Names, FS_Subset, FS_CardinalityType

LEMMA NobodyHolds == ASSUME Leases, pool.users = 0 PROVE Holders = {}
  BY HoldersFinite, FS_EmptySet DEF Leases

LEMMA LedFinite == IsFiniteSet(Led) /\ Cardinality(Led) \in Nat
  <1>1. Led \subseteq Batches
    BY DEF Led
  <1>2. QED
    BY <1>1, Names, FS_Subset, FS_CardinalityType

LEMMA BornFinite == IsFiniteSet(Born) /\ Cardinality(Born) \in Nat
  <1>1. Born \subseteq Executors /\ IsFiniteSet(Executors)
    BY Names, FS_Interval DEF Born, Executors
  <1>2. QED
    BY <1>1, FS_Subset, FS_CardinalityType

\* A batch without a lease finds a number for a new executor.
LEMMA NewIsUnborn ==
    ASSUME PoolInv, NEW b \in Batches, batch[b].lease = NoExecutor
    PROVE  /\ NewExecutor \in Executors /\ NewExecutor = 1 + Cardinality(Born)
           /\ NewExecutor \notin Born
  <1>1. NewExecutor = 1 + Cardinality(Born)
    BY DEF NewExecutor, Born
  <1>2. Led \subseteq Batches \ {b}
    BY DEF Led
  <1>3. IsFiniteSet(Batches \ {b}) /\ Cardinality(Batches \ {b}) = Cardinality(Batches) - 1
    BY Names, FS_RemoveElement
  <1>4. Cardinality(Led) <= Cardinality(Batches) - 1
    BY <1>2, <1>3, FS_Subset
  <1>5. Cardinality(Born) <= Cardinality(Batches) - 1
    BY <1>4, LedFinite, BornFinite, Names DEF PoolInv, Numbered
  <1>6. QED
    BY <1>1, <1>5, BornFinite, Names DEF PoolInv, Numbered, Executors

\* What a step keeps that neither gives nor ends a lease nor touches an executor.
LEMMA Keep ==
    ASSUME PoolInv, Types', executor' = executor,
           pool'.now = pool.now, pool'.users = pool.users,
           \A b \in Batches : (HasLease(b)' <=> HasLease(b)) /\ batch'[b].lease = batch[b].lease
    PROVE  Leases' /\ Current' /\ Numbered'
  <1>1. Holders' = Holders /\ Led' = Led /\ Born' = Born
    BY DEF Holders, Led, Born
  <1>2. Leases'
    BY <1>1 DEF PoolInv, Leases, Holders
  <1>3. Current'
    BY DEF PoolInv, Current, Live
  <1>4. Numbered'
    BY <1>1 DEF PoolInv, Numbered
  <1>5. QED
    BY <1>2, <1>3, <1>4

\* A step of one thread that touches no executor and no lease, and closes or
\* comes to close the executor of the pool only when nobody else does.
LEMMA OneThread ==
    ASSUME PoolInv, Types', executor' = executor,
           pool'.now = pool.now, pool'.users = pool.users,
           NEW t \in Threads,
           \A u \in Threads \ {t} : batch'[u] = batch[u],
           batch'[t].lease = batch[t].lease, HasLease(t)' <=> HasLease(t),
           \/ mutex' = mutex /\ batch[t].pc \notin Closing /\ batch'[t].pc \notin Closing
           \/ mutex = None /\ mutex' = t /\ pool.users = 0 /\ batch'[t].pc \in Closing,
           batch'[t].pc \in Early => batch[t].pc \in Early,
           t = Stopper => batch'[t].pc \in Stopping,
           \A c \in Batches \ {t} : point'[c] = point[c],
           t \in Batches => Stopped(t)'
    PROVE  PoolInv'
  <1>1. \A b \in Batches : (HasLease(b)' <=> HasLease(b)) /\ batch'[b].lease = batch[b].lease
    BY Names DEF HasLease
  <1>2. Leases' /\ Current' /\ Numbered'
    BY <1>1, Keep
  <1>3. NotLed'
    BY Names DEF PoolInv, NotLed
  <1>4. Exclusive'
    BY Names DEF PoolInv, Exclusive
  <1>5. \A c \in Batches \ {t} : Stopped(c)'
    BY Names DEF PoolInv, PointsStopped, Stopped, Quiet, Collected
  <1>6. QED
    BY <1>2, <1>3, <1>4, <1>5 DEF PoolInv, PointsStopped

\* A step after which no point runs or is queued that was not before.
LEMMA FewerPoints ==
    ASSUME PoolInv,
           \A c \in Batches : \A i \in Points : point'[c][i] \in Unstopped => point[c][i] \in Unstopped,
           \A c \in Batches : /\ batch'[c].next = batch[c].next
                              /\ batch[c].pc \in Busy \/ batch'[c].pc \in Busy => batch'[c].pc = batch[c].pc
                              /\ batch'[c].pc \in Early \cup {"submit"} => batch[c].pc \in Early \cup {"submit"}
    PROVE  PointsStopped'
  <1>1. ASSUME NEW c \in Batches, batch'[c].pc \notin Busy PROVE Quiet(c)'
    BY <1>1 DEF PoolInv, PointsStopped, Stopped, Quiet
  <1>2. ASSUME NEW c \in Batches, batch'[c].pc = "collect" PROVE Collected(c)'
    BY <1>2 DEF PoolInv, PointsStopped, Stopped, Collected, Busy
  <1>3. ASSUME NEW c \in Batches, batch'[c].pc \in Early \cup {"submit"} PROVE batch'[c].next = 1
    BY <1>3 DEF PoolInv, PointsStopped, Stopped
  <1>4. QED
    BY <1>1, <1>2, <1>3 DEF PointsStopped, Stopped

-----------------------------------------------------------------------------
(* The records of threads and of the pool.                                 *)

Pcs == Early \cup Busy \cup {"submit", "release", "retire", "lingering", "closing", "sequential", "ended"}

LEMMA Moved ==
    ASSUME Types, NEW t \in Threads, NEW pc \in Pcs, GoTo(t, pc)
    PROVE  /\ batch' \in [Threads -> Batch]
           /\ batch'[t].pc = pc /\ batch'[t].lease = batch[t].lease /\ batch'[t].next = batch[t].next
           /\ \A u \in Threads \ {t} : batch'[u] = batch[u]
  <1>1. PICK r \in Batch : r = batch[t]
    BY DEF Types
  <1>2. PICK n \in Batch : n = [r EXCEPT !.pc = pc]
    BY DEF Batch, Pcs, Early, Busy
  <1>3. n.pc = pc /\ n.lease = r.lease /\ n.next = r.next
    BY <1>2 DEF Batch
  <1>4. batch' = [batch EXCEPT ![t] = n]
    BY <1>1, <1>2 DEF GoTo, Types
  <1>5. QED
    BY <1>1, <1>3, <1>4 DEF Types

LEMMA PoolUpdates ==
    ASSUME Types, NEW n \in Nat
    PROVE  /\ [pool EXCEPT !.users = n] \in PoolRecord
           /\ [pool EXCEPT !.users = n].now = pool.now /\ [pool EXCEPT !.users = n].users = n
           /\ [pool EXCEPT !.failed = TRUE] \in PoolRecord
           /\ [pool EXCEPT !.failed = TRUE].now = pool.now /\ [pool EXCEPT !.failed = TRUE].users = pool.users
  BY DEF Types, PoolRecord

LEMMA PoolTypes == ASSUME Types PROVE pool.users \in Nat /\ pool.size \in Nat /\ pool.now \in Executors \cup {NoExecutor}
  BY DEF Types, PoolRecord

-----------------------------------------------------------------------------
(* Steps of one thread.                                                    *)

LEMMA AskStep == ASSUME PoolInv, NEW b \in Batches, Ask(b) PROVE PoolInv'
  <1>1. b \in Threads /\ b # Stopper /\ batch[b].pc = "idle" /\ batch[b] \in Batch /\ Types
    BY Names DEF Ask, At, PoolInv, Types
  <1>2. PICK size \in Nat : batch' = [batch EXCEPT ![b] = [@ EXCEPT !.pc = "acquire", !.size = size]]
    BY Names DEF Ask
  <1>3. PICK new \in Batch : /\ batch' = [batch EXCEPT ![b] = new]
                             /\ new.pc = "acquire" /\ new.lease = batch[b].lease /\ new.next = batch[b].next
    <2>1. [batch[b] EXCEPT !.pc = "acquire", !.size = size] \in Batch
      BY <1>1 DEF Batch
    <2>2. /\ [batch[b] EXCEPT !.pc = "acquire", !.size = size].pc = "acquire"
          /\ [batch[b] EXCEPT !.pc = "acquire", !.size = size].lease = batch[b].lease
          /\ [batch[b] EXCEPT !.pc = "acquire", !.size = size].next = batch[b].next
      BY <1>1 DEF Batch
    <2>3. QED
      BY <1>1, <1>2, <2>1, <2>2 DEF Types
  <1>4. /\ batch' \in [Threads -> Batch] /\ batch'[b].pc = "acquire" /\ batch'[b].lease = batch[b].lease
        /\ batch'[b].next = batch[b].next
        /\ \A u \in Threads \ {b} : batch'[u] = batch[u]
    BY <1>1, <1>3 DEF Types
  <1>5. executor' = executor /\ pool' = pool /\ mutex' = mutex /\ point' = point
    BY DEF Ask
  <1>6. Types'
    BY <1>1, <1>4, <1>5 DEF Types
  <1>7. Stopped(b)'
    BY <1>1, <1>4, <1>5 DEF PoolInv, PointsStopped, Stopped, Quiet, Busy, Early
  <1>8. QED
    BY <1>1, <1>4, <1>5, <1>6, <1>7, OneThread DEF HasLease, Closing, Early

LEMMA AcquireWithoutLease ==
    ASSUME PoolInv, NEW b \in Batches, Acquire(b), pool' = pool
    PROVE  PoolInv'
  <1>1. b \in Threads /\ b # Stopper /\ batch[b].pc = "acquire" /\ mutex = None /\ Types
    BY Names DEF Acquire, At, PoolInv
  <1>2. pool.users \in Nat /\ pool.size \in Nat
    BY <1>1, PoolTypes
  <1>3. PICK pc \in {"waiting", "replace"} :
           /\ GoTo(b, pc)
           /\ pc = "waiting" => mutex' = mutex
           /\ pc = "replace" => mutex' = b /\ pool.users = 0
    <2>1. pool.now = NoExecutor => pool.users = 0
      BY HoldersFinite, FS_EmptySet DEF PoolInv, Leases, Holders
    <2>2. pool'.users # pool.users + 1
      BY <1>2
    <2>3. ASSUME pool' = [pool EXCEPT !.users = @ + 1] PROVE FALSE
      <3>1. [pool EXCEPT !.users = pool.users + 1].users = pool.users + 1
        BY <1>1, <1>2, PoolUpdates
      <3>2. QED
        BY <2>2, <2>3, <3>1
    <2>4. QED
      BY <1>2, <2>1, <2>3 DEF Acquire, MustWait
  <1>4. /\ batch' \in [Threads -> Batch] /\ batch'[b].pc = pc /\ batch'[b].lease = batch[b].lease
        /\ batch'[b].next = batch[b].next
        /\ \A u \in Threads \ {b} : batch'[u] = batch[u]
    BY <1>1, <1>3, Moved DEF Pcs, Early
  <1>5. executor' = executor /\ point' = point
    BY DEF Acquire
  <1>6. Types'
    BY <1>1, <1>3, <1>4, <1>5 DEF Types
  <1>7. Stopped(b)'
    BY <1>1, <1>4, <1>5 DEF PoolInv, PointsStopped, Stopped, Quiet, Busy, Early
  <1>8. QED
    BY <1>1, <1>3, <1>4, <1>5, <1>6, <1>7, OneThread DEF HasLease, Closing, Early

LEMMA SubmitStep == ASSUME PoolInv, NEW b \in Batches, Submit(b) PROVE PoolInv'
  <1>1. b \in Threads /\ b # Stopper /\ batch[b].pc = "submit" /\ Types
    BY Names DEF Submit, At, PoolInv
  <1>2. PICK n \in 0..NPoints, pc \in {"collect", "mark"} :
           /\ point' = [point EXCEPT ![b] = [i \in Points |-> IF i <= n THEN "queued" ELSE "none"]]
           /\ GoTo(b, pc)
    BY DEF Submit
  <1>3. /\ batch' \in [Threads -> Batch] /\ batch'[b].pc = pc /\ batch'[b].lease = batch[b].lease
        /\ batch'[b].next = batch[b].next
        /\ \A u \in Threads \ {b} : batch'[u] = batch[u]
    BY <1>1, <1>2, Moved DEF Pcs, Busy
  <1>4. executor' = executor /\ pool' = pool /\ mutex' = mutex
    BY DEF Submit
  <1>5. point' \in [Batches -> [Points -> Future]] /\ \A c \in Batches \ {b} : point'[c] = point[c]
    BY <1>1, <1>2 DEF Types, Future
  <1>6. Types'
    BY <1>1, <1>3, <1>4, <1>5 DEF Types
  <1>7. Stopped(b)'
    <2>1. batch'[b].next = 1
      BY <1>1, <1>3 DEF PoolInv, PointsStopped, Stopped
    <2>2. Collected(b)'
      BY <2>1 DEF Collected, Points
    <2>3. QED
      BY <1>3, <2>2 DEF Stopped, Busy, Early
  <1>8. QED
    BY <1>1, <1>3, <1>4, <1>5, <1>6, <1>7, OneThread DEF HasLease, Closing, Early

LEMMA CollectStep == ASSUME PoolInv, NEW b \in Batches, Collect(b) PROVE PoolInv'
  <1> DEFINE r == batch[b]
  <1>1. b \in Threads /\ b # Stopper /\ r.pc = "collect" /\ r \in Batch /\ Types /\ Collected(b)
    BY Names DEF Collect, At, PoolInv, Types, PointsStopped, Stopped
  <1>2. r.next \in 1..(NPoints + 1) /\ NPoints \in Nat \ {0}
    BY <1>1, Names DEF Batch
  <1>3. PICK new \in Batch :
           /\ batch' = [batch EXCEPT ![b] = new] /\ new.lease = r.lease
           /\ \/ new.pc = "release" /\ r.next > NPoints
              \/ new.pc = "collect" /\ r.next \in Points /\ point[b][r.next] = "done" /\ new.next = r.next + 1
              \/ new.pc \in {"mark", "cancel"}
    <2> DEFINE answer == point[b][r.next]
               to == IF r.next > NPoints THEN [r EXCEPT !.pc = "release"]
                     ELSE IF answer = "done" THEN [r EXCEPT !.next = r.next + 1]
                     ELSE IF answer = "failed" THEN [r EXCEPT !.pc = "mark"]
                     ELSE [r EXCEPT !.pc = "cancel", !.ending = "refused"]
    <2>0. batch' = [batch EXCEPT ![b] = to] /\ (r.next <= NPoints => answer \in {"done", "failed", "refused"})
      BY <1>2 DEF Collect
    <2>1. CASE r.next > NPoints
      <3>1. to = [r EXCEPT !.pc = "release"]
        BY <2>1
      <3>2. [r EXCEPT !.pc = "release"] \in Batch /\ [r EXCEPT !.pc = "release"].lease = r.lease
            /\ [r EXCEPT !.pc = "release"].pc = "release"
        BY <1>1 DEF Batch
      <3>3. QED
        BY <2>0, <2>1, <3>1, <3>2
    <2>2. CASE r.next \in Points /\ point[b][r.next] = "done"
      <3>1. to = [r EXCEPT !.next = r.next + 1]
        BY <1>2, <2>2 DEF Points
      <3>2. r.next + 1 \in 1..(NPoints + 1)
        BY <1>2, <2>2 DEF Points
      <3>3. [r EXCEPT !.next = r.next + 1] \in Batch /\ [r EXCEPT !.next = r.next + 1].lease = r.lease
            /\ [r EXCEPT !.next = r.next + 1].pc = "collect" /\ [r EXCEPT !.next = r.next + 1].next = r.next + 1
        BY <1>1, <3>2 DEF Batch
      <3>4. QED
        BY <2>0, <2>2, <3>1, <3>3
    <2>3. CASE r.next \in Points /\ point[b][r.next] = "failed"
      <3>1. to = [r EXCEPT !.pc = "mark"]
        BY <1>2, <2>3 DEF Points
      <3>2. [r EXCEPT !.pc = "mark"] \in Batch /\ [r EXCEPT !.pc = "mark"].lease = r.lease
            /\ [r EXCEPT !.pc = "mark"].pc = "mark"
        BY <1>1 DEF Batch
      <3>3. QED
        BY <2>0, <3>1, <3>2
    <2>4. CASE r.next \in Points /\ point[b][r.next] = "refused"
      <3>1. to = [r EXCEPT !.pc = "cancel", !.ending = "refused"]
        BY <1>2, <2>4 DEF Points
      <3>2. [r EXCEPT !.pc = "cancel", !.ending = "refused"] \in Batch
            /\ [r EXCEPT !.pc = "cancel", !.ending = "refused"].lease = r.lease
            /\ [r EXCEPT !.pc = "cancel", !.ending = "refused"].pc = "cancel"
        BY <1>1 DEF Batch
      <3>3. QED
        BY <2>0, <3>1, <3>2
    <2>5. r.next > NPoints \/ (r.next \in Points /\ answer \in {"done", "failed", "refused"})
      BY <1>2, <2>0 DEF Points
    <2>6. QED
      BY <2>1, <2>2, <2>3, <2>4, <2>5
  <1>4. /\ batch' \in [Threads -> Batch] /\ batch'[b] = new
        /\ \A u \in Threads \ {b} : batch'[u] = batch[u]
    BY <1>1, <1>3 DEF Types
  <1>5. executor' = executor /\ pool' = pool /\ mutex' = mutex /\ point' = point
    BY DEF Collect
  <1>6. Types'
    BY <1>1, <1>4, <1>5 DEF Types
  <1>7. Stopped(b)'
    <2>1. CASE new.pc = "release" /\ r.next > NPoints
      BY <1>1, <1>2, <1>4, <1>5, <2>1 DEF Stopped, Quiet, Collected, Points, Early
    <2>2. CASE new.pc = "collect" /\ r.next \in Points /\ point[b][r.next] = "done" /\ new.next = r.next + 1
      <3>1. ASSUME NEW i \in Points, i < new.next PROVE point'[b][i] \notin Unstopped
        <4>1. i < r.next \/ i = r.next
          BY <1>2, <2>2, <3>1 DEF Points
        <4>2. QED
          BY <1>1, <1>5, <2>2, <4>1 DEF Collected, Unstopped
      <3>2. QED
        BY <1>4, <2>2, <3>1 DEF Stopped, Collected, Busy, Early
    <2>3. CASE new.pc \in {"mark", "cancel"}
      BY <1>4, <2>3 DEF Stopped, Busy, Early
    <2>4. QED
      BY <1>3, <2>1, <2>2, <2>3
  <1>8. QED
    BY <1>1, <1>3, <1>4, <1>5, <1>6, <1>7, OneThread DEF HasLease, Closing, Early

LEMMA MarkStep == ASSUME PoolInv, NEW b \in Batches, Mark(b) PROVE PoolInv'
  <1> DEFINE r == batch[b]
  <1>1. b \in Threads /\ b # Stopper /\ r.pc = "mark" /\ r \in Batch /\ Types
    BY Names DEF Mark, At, PoolInv, Types
  <1>2. PICK new \in Batch :
           batch' = [batch EXCEPT ![b] = new] /\ new.lease = r.lease /\ new.pc = "cancel"
    <2>1. [r EXCEPT !.pc = "cancel", !.ending = "fallback"] \in Batch
          /\ [r EXCEPT !.pc = "cancel", !.ending = "fallback"].lease = r.lease
          /\ [r EXCEPT !.pc = "cancel", !.ending = "fallback"].pc = "cancel"
      BY <1>1 DEF Batch
    <2>2. QED
      BY <2>1 DEF Mark
  <1>3. /\ batch' \in [Threads -> Batch] /\ batch'[b] = new
        /\ \A u \in Threads \ {b} : batch'[u] = batch[u]
    BY <1>1, <1>2 DEF Types
  <1>4. executor' = executor /\ mutex' = mutex /\ point' = point
    BY DEF Mark
  <1>5. pool' \in PoolRecord /\ pool'.now = pool.now /\ pool'.users = pool.users
    <2>1. CASE pool' = pool
      BY <1>1, <2>1 DEF Types
    <2>2. CASE pool' = [pool EXCEPT !.failed = TRUE]
      BY <1>1, <2>2, PoolTypes, PoolUpdates
    <2>3. QED
      BY <2>1, <2>2 DEF Mark
  <1>6. Types'
    BY <1>1, <1>3, <1>4, <1>5 DEF Types
  <1>7. Stopped(b)'
    BY <1>2, <1>3 DEF Stopped, Busy, Early
  <1>8. QED
    BY <1>1, <1>2, <1>3, <1>4, <1>5, <1>6, <1>7, OneThread DEF HasLease, Closing, Early

LEMMA CancelStep == ASSUME PoolInv, NEW b \in Batches, CancelPoints(b) PROVE PoolInv'
  <1>1. b \in Threads /\ b # Stopper /\ batch[b].pc = "cancel" /\ Types
    BY Names DEF CancelPoints, At, PoolInv
  <1>2. /\ batch' \in [Threads -> Batch] /\ batch'[b].pc = "drain" /\ batch'[b].lease = batch[b].lease
        /\ \A u \in Threads \ {b} : batch'[u] = batch[u]
    BY <1>1, Moved DEF CancelPoints, Pcs, Busy
  <1>3. executor' = executor /\ pool' = pool /\ mutex' = mutex
    BY DEF CancelPoints
  <1>4. point' \in [Batches -> [Points -> Future]] /\ \A c \in Batches \ {b} : point'[c] = point[c]
    <2>1. [i \in Points |-> IF point[b][i] = "queued" THEN "cancelled" ELSE point[b][i]] \in [Points -> Future]
      BY <1>1 DEF Types, Future
    <2>2. QED
      BY <1>1, <2>1 DEF CancelPoints, Types
  <1>5. Types'
    BY <1>1, <1>2, <1>3, <1>4 DEF Types
  <1>6. Stopped(b)'
    BY <1>2 DEF Stopped, Busy, Early
  <1>7. QED
    BY <1>1, <1>2, <1>3, <1>4, <1>5, <1>6, OneThread DEF HasLease, Closing, Early

LEMMA DrainStep == ASSUME PoolInv, NEW b \in Batches, Drain(b) PROVE PoolInv'
  <1>1. b \in Threads /\ b # Stopper /\ batch[b].pc = "drain" /\ Types /\ Quiet(b)
    BY Names DEF Drain, Drained, At, PoolInv, Quiet
  <1>2. /\ batch' \in [Threads -> Batch] /\ batch'[b].pc = "release" /\ batch'[b].lease = batch[b].lease
        /\ \A u \in Threads \ {b} : batch'[u] = batch[u]
    BY <1>1, Moved DEF Drain, Pcs
  <1>3. executor' = executor /\ pool' = pool /\ mutex' = mutex /\ point' = point
    BY DEF Drain
  <1>4. Types'
    BY <1>1, <1>2, <1>3 DEF Types
  <1>5. Stopped(b)'
    BY <1>1, <1>2, <1>3 DEF Stopped, Quiet, Busy, Early
  <1>6. QED
    BY <1>1, <1>2, <1>3, <1>4, <1>5, OneThread DEF HasLease, Closing, Early

LEMMA SequentialStep == ASSUME PoolInv, NEW b \in Batches, Sequential(b) PROVE PoolInv'
  <1>1. b \in Threads /\ b # Stopper /\ batch[b].pc = "sequential" /\ Types
    BY Names DEF Sequential, At, PoolInv
  <1>2. /\ batch' \in [Threads -> Batch] /\ batch'[b].pc = "ended" /\ batch'[b].lease = batch[b].lease
        /\ \A u \in Threads \ {b} : batch'[u] = batch[u]
    BY <1>1, Moved DEF Sequential, Pcs
  <1>3. executor' = executor /\ pool' = pool /\ mutex' = mutex /\ point' = point
    BY DEF Sequential
  <1>4. Types'
    BY <1>1, <1>2, <1>3 DEF Types
  <1>5. Stopped(b)'
    BY <1>1, <1>2, <1>3 DEF PoolInv, PointsStopped, Stopped, Quiet, Busy, Early
  <1>6. QED
    BY <1>1, <1>2, <1>3, <1>4, <1>5, OneThread DEF HasLease, Closing, Early

LEMMA StopStep == ASSUME PoolInv, Stop PROVE PoolInv'
  <1>1. batch[Stopper].pc = "idle" /\ Types
    BY DEF Stop, At, PoolInv
  <1>2. /\ batch' \in [Threads -> Batch] /\ batch'[Stopper].pc = "retire"
        /\ batch'[Stopper].lease = batch[Stopper].lease
        /\ \A u \in Threads \ {Stopper} : batch'[u] = batch[u]
    BY <1>1, Names, Moved DEF Stop, Pcs
  <1>3. executor' = executor /\ pool' = pool /\ mutex' = mutex /\ point' = point
    BY DEF Stop
  <1>4. Types'
    BY <1>1, <1>2, <1>3 DEF Types
  <1>5. QED
    BY <1>1, <1>2, <1>3, <1>4, Names, OneThread DEF HasLease, Closing, Early, Stopping

LEMMA RetireStep == ASSUME PoolInv, NEW t \in Threads, Retire(t) PROVE PoolInv'
  <1>1. batch[t].pc = "retire" /\ mutex = None /\ Types
    BY DEF Retire, At, PoolInv
  <1>2. PICK pc \in {"ended", "sequential", "lingering", "closing"} :
           /\ GoTo(t, pc)
           /\ pc = "closing" => mutex' = t /\ pool.users = 0
           /\ pc # "closing" => mutex' = mutex
           /\ pc = "sequential" => t # Stopper
    BY DEF Retire, Afterwards
  <1>3. /\ batch' \in [Threads -> Batch] /\ batch'[t].pc = pc /\ batch'[t].lease = batch[t].lease
        /\ \A u \in Threads \ {t} : batch'[u] = batch[u]
    BY <1>1, <1>2, Moved DEF Pcs
  <1>4. executor' = executor /\ pool' = pool /\ point' = point
    BY DEF Retire
  <1>5. Types'
    BY <1>1, <1>2, <1>3, <1>4 DEF Types
  <1>6. t \in Batches => Stopped(t)'
    BY <1>1, <1>3, <1>4 DEF PoolInv, PointsStopped, Stopped, Quiet, Busy, Early
  <1>7. QED
    BY <1>1, <1>2, <1>3, <1>4, <1>5, <1>6, OneThread DEF HasLease, Closing, Early, Stopping

-----------------------------------------------------------------------------
(* Steps that give or end a lease.                                         *)

LEMMA AcquireLease ==
    ASSUME PoolInv, NEW b \in Batches, Acquire(b), pool' # pool
    PROVE  PoolInv'
  <1> DEFINE r == batch[b]
             e == pool.now
  <1>1. b \in Threads /\ b # Stopper /\ r.pc = "acquire" /\ r.lease = NoExecutor /\ mutex = None
        /\ Types /\ r \in Batch /\ r.next = 1 /\ Quiet(b)
    BY Names DEF Acquire, At, PoolInv, NotLed, Early, Types, PointsStopped, Stopped, Busy
  <1>2. pool.users \in Nat /\ pool.now \in Executors \cup {NoExecutor}
    BY <1>1, PoolTypes
  <1>3. /\ pool.now # NoExecutor /\ mutex' = mutex /\ executor' = executor /\ point' = point
        /\ pool' = [pool EXCEPT !.users = pool.users + 1]
        /\ batch' = [batch EXCEPT ![b] = [r EXCEPT !.pc = "submit", !.lease = e]]
    BY DEF Acquire
  <1>4. pool' \in PoolRecord /\ pool'.now = pool.now /\ pool'.users = pool.users + 1
    BY <1>1, <1>2, <1>3, PoolUpdates
  <1>5. PICK new \in Batch : /\ batch' = [batch EXCEPT ![b] = new]
                             /\ new.pc = "submit" /\ new.lease = pool.now /\ new.next = 1
    <2>1. [r EXCEPT !.pc = "submit", !.lease = e] \in Batch
      BY <1>1, <1>2 DEF Batch
    <2>2. /\ [r EXCEPT !.pc = "submit", !.lease = e].pc = "submit"
          /\ [r EXCEPT !.pc = "submit", !.lease = e].lease = e
          /\ [r EXCEPT !.pc = "submit", !.lease = e].next = r.next
      BY <1>1 DEF Batch
    <2>3. QED
      BY <1>1, <1>3, <2>1, <2>2
  <1>6. /\ batch' \in [Threads -> Batch] /\ batch'[b] = new
        /\ \A u \in Threads \ {b} : batch'[u] = batch[u]
    BY <1>1, <1>5 DEF Types
  <1>7. Types'
    BY <1>1, <1>3, <1>4, <1>6 DEF Types
  <1>8. Holders' = Holders \cup {b} /\ b \notin Holders
    BY <1>1, <1>5, <1>6, Names DEF Holders, HasLease
  <1>9. Leases'
    <2>1. Cardinality(Holders') = Cardinality(Holders) + 1
      BY <1>8, HoldersFinite, FS_AddElement
    <2>2. pool'.users = Cardinality(Holders')
      BY <1>4, <2>1 DEF PoolInv, Leases
    <2>3. \A c \in Holders' : pool'.now # NoExecutor /\ batch'[c].lease = pool'.now
      BY <1>3, <1>4, <1>5, <1>6, <1>8, Names DEF PoolInv, Leases, Holders
    <2>4. QED
      BY <2>2, <2>3 DEF Leases
  <1>10. Current'
    BY <1>3, <1>4 DEF PoolInv, Current, Live
  <1>11. Numbered'
    <2>1. Born' = Born
      BY <1>3 DEF Born
    <2>2. Led \subseteq Led' /\ Led' \subseteq Batches
      BY <1>1, <1>5, <1>6, Names DEF Led
    <2>3. IsFiniteSet(Led') /\ Cardinality(Led) <= Cardinality(Led') /\ Cardinality(Led') \in Nat
      BY <2>2, Names, FS_Subset, FS_CardinalityType
    <2>4. QED
      BY <2>1, <2>3, LedFinite, BornFinite DEF PoolInv, Numbered
  <1>12. NotLed' /\ Exclusive'
    BY <1>1, <1>3, <1>5, <1>6, Names DEF PoolInv, NotLed, Exclusive, Early, Closing
  <1>13. PointsStopped'
    BY <1>1, <1>3, <1>5, <1>6, Names DEF PoolInv, PointsStopped, Stopped, Quiet, Collected, Early, Busy
  <1>14. QED
    BY <1>7, <1>9, <1>10, <1>11, <1>12, <1>13 DEF PoolInv

LEMMA ReleaseStep == ASSUME PoolInv, NEW b \in Batches, Release(b) PROVE PoolInv'
  <1>1. b \in Threads /\ b # Stopper /\ batch[b].pc = "release" /\ mutex = None /\ Types
    BY Names DEF Release, At, PoolInv
  <1>2. b \in Holders
    BY <1>1 DEF Holders, HasLease
  <1>3. Cardinality(Holders \ {b}) = pool.users - 1 /\ pool.users - 1 \in Nat
    <2>1. IsFiniteSet(Holders \ {b}) /\ Cardinality(Holders \ {b}) = Cardinality(Holders) - 1
      BY <1>2, HoldersFinite, FS_RemoveElement
    <2>2. QED
      BY <2>1, FS_CardinalityType DEF PoolInv, Leases
  <1>4. /\ mutex' = mutex /\ executor' = executor /\ point' = point
        /\ pool' = [pool EXCEPT !.users = pool.users - 1]
    BY DEF Release, Users
  <1>5. pool' \in PoolRecord /\ pool'.now = pool.now /\ pool'.users = pool.users - 1
    BY <1>1, <1>3, <1>4, PoolUpdates
  <1>6. /\ batch' \in [Threads -> Batch]
        /\ batch'[b].pc \in {"retire", "ended"}
        /\ \A t \in Threads : /\ batch'[t].lease = batch[t].lease /\ batch'[t].next = batch[t].next
                              /\ \/ t = b
                                 \/ batch'[t].pc = batch[t].pc
                                 \/ batch[t].pc = "waiting" /\ batch'[t].pc = "acquire"
                                 \/ batch[t].pc = "lingering" /\ batch'[t].pc = "retire"
    <2>1. ASSUME NEW t \in Threads
          PROVE  /\ batch'[t] \in Batch
                 /\ batch'[t].lease = batch[t].lease /\ batch'[t].next = batch[t].next
                 /\ t = b => batch'[t].pc \in {"retire", "ended"}
                 /\ \/ t = b
                    \/ batch'[t].pc = batch[t].pc
                    \/ batch[t].pc = "waiting" /\ batch'[t].pc = "acquire"
                    \/ batch[t].pc = "lingering" /\ batch'[t].pc = "retire"
      <3>1. PICK old \in Batch : old = batch[t]
        BY <1>1 DEF Types
      <3>2. PICK pc \in Pcs : /\ batch'[t] = [old EXCEPT !.pc = pc]
                              /\ t = b => pc \in {"retire", "ended"}
                              /\ \/ t = b
                                 \/ pc = old.pc
                                 \/ old.pc = "waiting" /\ pc = "acquire"
                                 \/ old.pc = "lingering" /\ pc = "retire"
        <4>1. old.pc \in Pcs
          BY DEF Batch, Pcs, Early, Busy
        <4>2. batch'[t] = [old EXCEPT !.pc = IF t = b THEN AfterLease(b) ELSE Woken(t)]
          BY <3>1 DEF Release
        <4>3. AfterLease(b) \in {"retire", "ended"}
          BY DEF AfterLease
        <4>4. Woken(t) \in Pcs /\ \/ Woken(t) = old.pc
                                  \/ old.pc = "waiting" /\ Woken(t) = "acquire"
                                  \/ old.pc = "lingering" /\ Woken(t) = "retire"
          BY <3>1, <4>1 DEF Woken, At, Pcs, Early
        <4>5. (IF t = b THEN AfterLease(b) ELSE Woken(t)) \in Pcs
          BY <4>3, <4>4 DEF Pcs
        <4>6. QED
          BY <4>2, <4>3, <4>4, <4>5
      <3>3. [old EXCEPT !.pc = pc] \in Batch /\ [old EXCEPT !.pc = pc].pc = pc
            /\ [old EXCEPT !.pc = pc].lease = old.lease /\ [old EXCEPT !.pc = pc].next = old.next
        BY DEF Batch, Pcs, Early, Busy
      <3>4. QED
        BY <3>1, <3>2, <3>3
    <2>2. DOMAIN batch' = Threads /\ batch' = [t \in Threads |-> batch'[t]]
      BY DEF Release
    <2>3. QED
      BY <1>1, <2>1, <2>2
  <1>7. Types'
    BY <1>1, <1>4, <1>5, <1>6 DEF Types
  <1>8. Holders' = Holders \ {b}
    BY <1>1, <1>6, Names DEF Holders, HasLease
  <1>9. Leases'
    <2>1. pool'.users = Cardinality(Holders')
      BY <1>3, <1>5, <1>8
    <2>2. \A c \in Holders' : c \in Holders /\ c \in Threads
      BY <1>8, Names DEF Holders
    <2>3. \A c \in Holders' : pool'.now # NoExecutor /\ batch'[c].lease = pool'.now
      BY <1>5, <1>6, <2>2 DEF PoolInv, Leases
    <2>4. QED
      BY <2>1, <2>3 DEF Leases
  <1>10. Current'
    BY <1>4, <1>5 DEF PoolInv, Current, Live
  <1>11. Numbered'
    <2>1. Born' = Born /\ Led' = Led
      BY <1>4, <1>6, Names DEF Born, Led
    <2>2. QED
      BY <2>1 DEF PoolInv, Numbered
  <1>12. NotLed'
    BY <1>1, <1>6, Names DEF PoolInv, NotLed, Early
  <1>13. Exclusive'
    BY <1>1, <1>4, <1>5, <1>6, Names DEF PoolInv, Exclusive, Closing, Stopping
  <1>14. PointsStopped'
    <2>1. \A c \in Batches : \A i \in Points : point'[c][i] \in Unstopped => point[c][i] \in Unstopped
      BY <1>4
    <2>2. ASSUME NEW c \in Batches
          PROVE  /\ batch'[c].next = batch[c].next
                 /\ batch[c].pc \in Busy \/ batch'[c].pc \in Busy => batch'[c].pc = batch[c].pc
                 /\ batch'[c].pc \in Early \cup {"submit"} => batch[c].pc \in Early \cup {"submit"}
      BY <1>1, <1>6, Names DEF Busy, Early
    <2>3. QED
      BY <2>1, <2>2, FewerPoints
  <1>15. QED
    BY <1>7, <1>9, <1>10, <1>11, <1>12, <1>13, <1>14 DEF PoolInv

-----------------------------------------------------------------------------
(* Steps that close an executor.                                           *)

\* What closing does to the points: it only stops some.
LEMMA CancelledPoints ==
    ASSUME Types, NEW e \in Executors \cup {NoExecutor}
    PROVE  /\ Cancelled(e) \in [Batches -> [Points -> Future]]
           /\ \A c \in Batches : \A i \in Points : Cancelled(e)[c][i] \in Unstopped => point[c][i] \in Unstopped
  <1>1. Cancelled(e) \in [Batches -> [Points -> Future]]
    BY DEF Types, Cancelled, Future
  <1>2. ASSUME NEW c \in Batches, NEW i \in Points, Cancelled(e)[c][i] \in Unstopped PROVE point[c][i] \in Unstopped
    <2>1. Cancelled(e)[c][i] = IF <<c, i>> \in PointsOn(e) /\ point[c][i] = "queued" THEN "cancelled" ELSE point[c][i]
      BY DEF Cancelled
    <2>2. QED
      BY <1>2, <2>1 DEF Unstopped
  <1>3. QED
    BY <1>1, <1>2

\* After it, only the executor of the pool could be live, and that is closed.
LEMMA ClosedRows ==
    ASSUME PoolInv
    PROVE  /\ ClosedRow(pool.now) \in [Executors -> Executor]
           /\ \A e \in Executors : /\ ClosedRow(pool.now)[e].state \notin {"open", "broken"}
                                   /\ ClosedRow(pool.now)[e].state = "unborn" <=> executor[e].state = "unborn"
  <1>1. /\ executor \in [Executors -> Executor] /\ pool.now \in Executors \cup {NoExecutor}
        /\ NoExecutor \notin Executors
    BY PoolTypes DEF PoolInv, Types, Executors, NoExecutor
  <1>2. CASE pool.now = NoExecutor
    <2>1. ClosedRow(pool.now) = executor
      BY <1>2 DEF ClosedRow
    <2>2. QED
      BY <1>1, <1>2, <2>1 DEF PoolInv, Current, Live
  <1>3. CASE pool.now \in Executors
    <2>1. PICK new \in Executor : ClosedRow(pool.now) = [executor EXCEPT ![pool.now] = new] /\ new.state = "closed"
      <3>1. PICK x \in Executor : x = executor[pool.now]
        BY <1>1, <1>3
      <3>2. [x EXCEPT !.state = "closed"] \in Executor /\ [x EXCEPT !.state = "closed"].state = "closed"
        BY DEF Executor
      <3>3. ClosedRow(pool.now) = [executor EXCEPT ![pool.now] = [x EXCEPT !.state = "closed"]]
        BY <1>1, <1>3, <3>1 DEF ClosedRow
      <3>4. QED
        BY <3>2, <3>3
    <2>2. executor[pool.now].state \in {"open", "broken"}
      BY <1>3 DEF PoolInv, Current, Live
    <2>3. QED
      BY <1>1, <1>3, <2>1, <2>2 DEF PoolInv, Current, Live
  <1>4. QED
    BY <1>1, <1>2, <1>3

\* The executor is closed and there is none afterwards: a replacement that
\* fails, or a retirement.
LEMMA LeftWithout ==
    ASSUME PoolInv, NEW t \in Threads, batch[t].pc \in Closing, NEW pc \in {"sequential", "ended"},
           t = Stopper => pc = "ended", GoTo(t, pc),
           executor' = ClosedRow(pool.now), point' = Cancelled(pool.now), mutex' = None,
           pool' \in PoolRecord, pool'.now = NoExecutor, pool'.users = pool.users
    PROVE  PoolInv'
  <1>1. Types /\ mutex = t /\ pool.users = 0 /\ Holders = {} /\ pool.now \in Executors \cup {NoExecutor}
        /\ None \notin Threads
    BY Names, NobodyHolds, PoolTypes DEF PoolInv, Exclusive
  <1>2. /\ batch' \in [Threads -> Batch] /\ batch'[t].pc = pc /\ batch'[t].lease = batch[t].lease
        /\ batch'[t].next = batch[t].next
        /\ \A u \in Threads \ {t} : batch'[u] = batch[u]
    BY <1>1, Moved DEF Pcs
  <1>3. Types'
    BY <1>1, <1>2, ClosedRows, CancelledPoints DEF Types
  <1>4. Leases'
    <2>1. Holders' = {}
      BY <1>1, <1>2, Names DEF Holders, HasLease
    <2>2. QED
      BY <1>1, <2>1, FS_EmptySet DEF Leases
  <1>5. Current'
    BY ClosedRows DEF Current, Live, Executors, NoExecutor
  <1>6. Numbered'
    <2>1. Born' = Born
      BY ClosedRows DEF Born
    <2>2. Led' = Led
      BY <1>2, Names DEF Led
    <2>3. QED
      BY <2>1, <2>2 DEF PoolInv, Numbered
  <1>7. NotLed'
    BY <1>2, Names DEF PoolInv, NotLed, Early
  <1>8. Exclusive'
    BY <1>1, <1>2, Names DEF PoolInv, Exclusive, Closing, Stopping
  <1>9. PointsStopped'
    <2>1. \A c \in Batches : \A i \in Points : point'[c][i] \in Unstopped => point[c][i] \in Unstopped
      BY <1>1, CancelledPoints
    <2>2. ASSUME NEW c \in Batches
          PROVE  /\ batch'[c].next = batch[c].next
                 /\ batch[c].pc \in Busy \/ batch'[c].pc \in Busy => batch'[c].pc = batch[c].pc
                 /\ batch'[c].pc \in Early \cup {"submit"} => batch[c].pc \in Early \cup {"submit"}
      BY <1>2, Names DEF Busy, Early, Closing
    <2>3. QED
      BY <2>1, <2>2, FewerPoints
  <1>10. QED
    BY <1>3, <1>4, <1>5, <1>6, <1>7, <1>8, <1>9 DEF PoolInv

LEMMA ReplaceFailsStep == ASSUME PoolInv, NEW b \in Batches, ReplaceFails(b) PROVE PoolInv'
  <1>1. [pool EXCEPT !.now = NoExecutor, !.size = 0] \in PoolRecord
        /\ [pool EXCEPT !.now = NoExecutor, !.size = 0].now = NoExecutor
        /\ [pool EXCEPT !.now = NoExecutor, !.size = 0].users = pool.users
    BY DEF PoolInv, Types, PoolRecord
  <1>2. pool' \in PoolRecord /\ pool'.now = NoExecutor /\ pool'.users = pool.users
    BY <1>1 DEF ReplaceFails
  <1>3. b \in Threads /\ b # Stopper /\ batch[b].pc \in Closing /\ GoTo(b, "sequential")
        /\ executor' = ClosedRow(pool.now) /\ point' = Cancelled(pool.now) /\ mutex' = None
    BY Names DEF ReplaceFails, At, Closing
  <1>4. QED
    BY <1>2, <1>3, LeftWithout

LEMMA CloseStep == ASSUME PoolInv, NEW t \in Threads, Close(t) PROVE PoolInv'
  <1>1. [pool EXCEPT !.now = NoExecutor, !.size = 0, !.failed = FALSE] \in PoolRecord
        /\ [pool EXCEPT !.now = NoExecutor, !.size = 0, !.failed = FALSE].now = NoExecutor
        /\ [pool EXCEPT !.now = NoExecutor, !.size = 0, !.failed = FALSE].users = pool.users
    BY DEF PoolInv, Types, PoolRecord
  <1>2. pool' \in PoolRecord /\ pool'.now = NoExecutor /\ pool'.users = pool.users
    BY <1>1 DEF Close
  <1>3. batch[t].pc \in Closing /\ GoTo(t, Afterwards(t))
        /\ executor' = ClosedRow(pool.now) /\ point' = Cancelled(pool.now) /\ mutex' = None
    BY DEF Close, At, Closing
  <1>4. Afterwards(t) \in {"sequential", "ended"} /\ (t = Stopper => Afterwards(t) = "ended")
    BY DEF Afterwards
  <1>5. QED
    BY <1>2, <1>3, <1>4, LeftWithout

LEMMA ReplaceStep == ASSUME PoolInv, NEW b \in Batches, Replace(b) PROVE PoolInv'
  <1> DEFINE r == batch[b]
             e == NewExecutor
  <1>1. b \in Threads /\ b # Stopper /\ r.pc = "replace" /\ r.lease = NoExecutor /\ Types /\ r \in Batch
        /\ r.next = 1
    BY Names DEF Replace, At, PoolInv, NotLed, Early, Types, PointsStopped, Stopped, Busy
  <1>2. mutex = b /\ pool.users = 0 /\ Holders = {} /\ pool.now \in Executors \cup {NoExecutor}
    BY <1>1, Names, NobodyHolds, PoolTypes DEF PoolInv, Exclusive, Closing
  <1>3. e \in Executors /\ e = 1 + Cardinality(Born) /\ e \notin Born
    BY <1>1, NewIsUnborn
  <1>4. PICK k \in Executors : k = e
    BY <1>3
  <1>5. r.size \in Nat
    BY <1>1 DEF Batch
  <1>6. PICK x \in Executor : executor' = [ClosedRow(pool.now) EXCEPT ![k] = x] /\ x.state = "open"
    <2>1. [state |-> "open", size |-> r.size] \in Executor
      BY <1>5 DEF Executor
    <2>2. QED
      BY <1>4, <2>1 DEF Replace
  <1>7. pool' \in PoolRecord /\ pool'.now = k /\ pool'.users = 1
    BY <1>2, <1>4, <1>5 DEF Replace, PoolRecord
  <1>8. PICK new \in Batch : /\ batch' = [batch EXCEPT ![b] = new]
                             /\ new.pc = "submit" /\ new.lease = k /\ new.next = 1
    <2>1. [r EXCEPT !.pc = "submit", !.lease = k] \in Batch
      BY <1>1 DEF Batch
    <2>2. /\ [r EXCEPT !.pc = "submit", !.lease = k].pc = "submit"
          /\ [r EXCEPT !.pc = "submit", !.lease = k].lease = k
          /\ [r EXCEPT !.pc = "submit", !.lease = k].next = r.next
      BY <1>1 DEF Batch
    <2>3. QED
      BY <1>1, <1>4, <2>1, <2>2 DEF Replace
  <1>9. /\ batch' \in [Threads -> Batch] /\ batch'[b] = new
        /\ \A u \in Threads \ {b} : batch'[u] = batch[u]
    BY <1>1, <1>8 DEF Types
  <1>10. executor' \in [Executors -> Executor] /\ executor'[k].state = "open"
         /\ \A x1 \in Executors \ {k} : executor'[x1] = ClosedRow(pool.now)[x1]
    BY <1>6, ClosedRows
  <1>11. point' = Cancelled(pool.now) /\ mutex' = None
    BY DEF Replace
  <1>12. Types'
    BY <1>2, <1>7, <1>9, <1>10, <1>11, <1>1, CancelledPoints DEF Types
  <1>13. Holders' = {b}
    BY <1>1, <1>2, <1>8, <1>9, Names DEF Holders, HasLease
  <1>14. Leases'
    <2>1. Cardinality({b}) = 1
      BY FS_Singleton
    <2>2. k # NoExecutor
      BY DEF Executors, NoExecutor
    <2>3. QED
      BY <1>7, <1>8, <1>9, <1>13, <2>1, <2>2 DEF Leases
  <1>15. Current'
    BY <1>7, <1>10, ClosedRows DEF Current, Live
  <1>16. Numbered'
    <2>1. Born' = Born \cup {k}
      BY <1>4, <1>10, ClosedRows DEF Born
    <2>2. Cardinality(Born') = Cardinality(Born) + 1
      BY <1>3, <1>4, <2>1, BornFinite, FS_AddElement
    <2>3. Led' = Led \cup {b} /\ b \notin Led
      BY <1>1, <1>8, <1>9, Names DEF Led, Executors, NoExecutor
    <2>4. Cardinality(Led') = Cardinality(Led) + 1
      BY <2>3, LedFinite, FS_AddElement
    <2>5. Born' = 1..Cardinality(Born')
      <3>1. Born = 1..Cardinality(Born)
        BY DEF PoolInv, Numbered
      <3>2. (1..Cardinality(Born)) \cup {1 + Cardinality(Born)} = 1..(Cardinality(Born) + 1)
        BY BornFinite
      <3>3. QED
        BY <1>3, <1>4, <2>1, <2>2, <3>1, <3>2
    <2>6. QED
      BY <2>2, <2>4, <2>5, BornFinite, LedFinite DEF PoolInv, Numbered
  <1>17. NotLed'
    BY <1>8, <1>9, Names DEF PoolInv, NotLed, Early
  <1>18. Exclusive'
    BY <1>2, <1>8, <1>9, <1>11, <1>1, Names DEF PoolInv, Exclusive, Closing
  <1>19. PointsStopped'
    <2>1. \A c \in Batches : \A i \in Points : point'[c][i] \in Unstopped => point[c][i] \in Unstopped
      BY <1>1, <1>2, <1>11, CancelledPoints
    <2>2. ASSUME NEW c \in Batches
          PROVE  /\ batch'[c].next = batch[c].next
                 /\ batch[c].pc \in Busy \/ batch'[c].pc \in Busy => batch'[c].pc = batch[c].pc
                 /\ batch'[c].pc \in Early \cup {"submit"} => batch[c].pc \in Early \cup {"submit"}
      BY <1>1, <1>8, <1>9, Names DEF Busy, Early
    <2>3. QED
      BY <2>1, <2>2, FewerPoints
  <1>20. QED
    BY <1>12, <1>14, <1>15, <1>16, <1>17, <1>18, <1>19 DEF PoolInv

-----------------------------------------------------------------------------
(* Steps of the worker processes.                                          *)

\* A step that moves points, and no batch.
LEMMA WorkerStep ==
    ASSUME PoolInv, batch' = batch, pool' = pool, mutex' = mutex,
           executor' \in [Executors -> Executor], point' \in [Batches -> [Points -> Future]],
           \A e \in Executors : /\ Live(e)' <=> Live(e)
                                /\ executor'[e].state = "unborn" <=> executor[e].state = "unborn",
           \A c \in Batches : \A i \in Points : point'[c][i] \in Unstopped => point[c][i] \in Unstopped
    PROVE  PoolInv'
  <1>1. Types'
    BY DEF PoolInv, Types
  <1>2. Leases' /\ NotLed' /\ Exclusive'
    BY DEF PoolInv, Leases, Holders, HasLease, NotLed, Exclusive
  <1>3. Current'
    BY DEF PoolInv, Current
  <1>4. Numbered'
    <2>1. Born' = Born /\ Led' = Led
      BY DEF Born, Led
    <2>2. QED
      BY <2>1 DEF PoolInv, Numbered
  <1>5. PointsStopped'
    BY FewerPoints DEF Busy, Early
  <1>6. QED
    BY <1>1, <1>2, <1>3, <1>4, <1>5 DEF PoolInv

LEMMA PointSteps ==
    ASSUME PoolInv, NEW b \in Batches, NEW i \in Points, RunPoint(b, i) \/ FinishPoint(b, i)
    PROVE  PoolInv'
  <1>1. PICK how \in Future : point' = [point EXCEPT ![b][i] = how]
    BY DEF RunPoint, FinishPoint, Future
  <1>2. /\ point \in [Batches -> [Points -> Future]] /\ point[b][i] \in Unstopped
        /\ executor \in [Executors -> Executor]
    BY DEF PoolInv, Types, RunPoint, FinishPoint, Unstopped
  <1>3. point' \in [Batches -> [Points -> Future]]
        /\ \A c \in Batches : \A j \in Points : c # b \/ j # i => point'[c][j] = point[c][j]
    BY <1>1, <1>2
  <1>4. batch' = batch /\ pool' = pool /\ mutex' = mutex /\ executor' = executor
    BY DEF RunPoint, FinishPoint
  <1>5. \A c \in Batches : \A j \in Points : point'[c][j] \in Unstopped => point[c][j] \in Unstopped
    BY <1>2, <1>3
  <1>6. \A e \in Executors : /\ Live(e)' <=> Live(e)
                             /\ executor'[e].state = "unborn" <=> executor[e].state = "unborn"
    BY <1>4 DEF Live
  <1>7. QED
    BY <1>2, <1>3, <1>4, <1>5, <1>6, WorkerStep

LEMMA BreakStep == ASSUME PoolInv, NEW e \in Executors, Break(e) PROVE PoolInv'
  <1>1. /\ point \in [Batches -> [Points -> Future]] /\ executor \in [Executors -> Executor]
        /\ executor[e].state = "open"
        /\ batch' = batch /\ pool' = pool /\ mutex' = mutex
    BY DEF PoolInv, Types, Break
  <1>2. PICK x \in Executor : executor' = [executor EXCEPT ![e] = x] /\ x.state = "broken"
    <2>1. PICK y \in Executor : y = executor[e]
      BY <1>1
    <2>2. [y EXCEPT !.state = "broken"] \in Executor /\ [y EXCEPT !.state = "broken"].state = "broken"
      BY DEF Executor
    <2>3. QED
      BY <1>1, <2>1, <2>2 DEF Break
  <1>3. executor' \in [Executors -> Executor]
        /\ \A f \in Executors : /\ Live(f)' <=> Live(f)
                                /\ executor'[f].state = "unborn" <=> executor[f].state = "unborn"
    BY <1>1, <1>2 DEF Live
  <1>4. point' = [c \in Batches |-> [i \in Points |-> IF <<c, i>> \in UnstoppedOn(e) THEN "failed" ELSE point[c][i]]]
    BY DEF Break
  <1>5. point' \in [Batches -> [Points -> Future]]
    BY <1>1, <1>4 DEF Future
  <1>6. \A c \in Batches : \A i \in Points : point'[c][i] \in Unstopped => point[c][i] \in Unstopped
    <2>1. ASSUME NEW c \in Batches, NEW i \in Points PROVE point'[c][i] = "failed" \/ point'[c][i] = point[c][i]
      BY <1>4
    <2>2. QED
      BY <2>1 DEF Unstopped
  <1>7. QED
    BY <1>1, <1>3, <1>5, <1>6, WorkerStep

-----------------------------------------------------------------------------
(* The invariant.                                                          *)

LEMMA PoolInit == Init => PoolInv
  <1> SUFFICES ASSUME Init PROVE PoolInv
    OBVIOUS
  <1> DEFINE first == [pc |-> "idle", size |-> 0, lease |-> NoExecutor, next |-> 1, ending |-> "answered"]
  <1>1. first \in Batch /\ batch = [t \in Threads |-> first]
    BY Names DEF Init, Batch
  <1>2. \A t \in Threads : batch[t].pc = "idle" /\ batch[t].lease = NoExecutor /\ batch[t].next = 1
    BY <1>1
  <1>3. pool \in PoolRecord /\ pool.now = NoExecutor /\ pool.users = 0 /\ mutex = None
    BY DEF Init, PoolRecord
  <1>4. executor \in [Executors -> Executor] /\ \A e \in Executors : executor[e].state = "unborn"
    BY DEF Init, Executor
  <1>5. point \in [Batches -> [Points -> Future]] /\ \A b \in Batches : \A i \in Points : point[b][i] = "none"
    BY DEF Init, Future
  <1>6. Types
    BY <1>1, <1>3, <1>4, <1>5 DEF Types
  <1>7. Leases
    <2>1. Holders = {}
      BY <1>2, Names DEF Holders, HasLease
    <2>2. QED
      BY <1>3, <2>1, FS_EmptySet DEF Leases
  <1>8. Current
    BY <1>3, <1>4 DEF Current, Live, Executors, NoExecutor
  <1>9. Numbered
    <2>1. Born = {} /\ Led = {}
      BY <1>2, <1>4, Names DEF Born, Led
    <2>2. Cardinality({}) = 0
      BY FS_EmptySet
    <2>3. QED
      BY <2>1, <2>2 DEF Numbered
  <1>10. NotLed
    BY <1>2, Names DEF NotLed
  <1>11. Exclusive
    BY <1>2, <1>3, Names DEF Exclusive, Closing, Stopping
  <1>12. PointsStopped
    BY <1>2, <1>5, Names DEF PointsStopped, Stopped, Quiet, Unstopped, Early, Busy
  <1>13. QED
    BY <1>6, <1>7, <1>8, <1>9, <1>10, <1>11, <1>12 DEF PoolInv

LEMMA PoolNext == PoolInv /\ [Next]_vars => PoolInv'
  <1> SUFFICES ASSUME PoolInv, [Next]_vars PROVE PoolInv'
    OBVIOUS
  <1>1. ASSUME NEW b \in Batches, Ask(b) \/ LockStep(b) PROVE PoolInv'
    <2>1. CASE Ask(b)
      BY <2>1, AskStep
    <2>2. CASE Acquire(b)
      BY <2>2, AcquireLease, AcquireWithoutLease
    <2>3. CASE Mark(b)
      BY <2>3, MarkStep
    <2>4. CASE Release(b)
      BY <2>4, ReleaseStep
    <2>5. CASE Retire(b)
      BY <2>5, RetireStep, Names
    <2>6. QED
      BY <1>1, <2>1, <2>2, <2>3, <2>4, <2>5 DEF LockStep
  <1>2. ASSUME NEW b \in Batches, BatchStep(b) PROVE PoolInv'
    <2>1. CASE Replace(b)
      BY <2>1, ReplaceStep
    <2>2. CASE ReplaceFails(b)
      BY <2>2, ReplaceFailsStep
    <2>3. CASE Submit(b)
      BY <2>3, SubmitStep
    <2>4. CASE Collect(b)
      BY <2>4, CollectStep
    <2>5. CASE CancelPoints(b)
      BY <2>5, CancelStep
    <2>6. CASE Drain(b)
      BY <2>6, DrainStep
    <2>7. CASE Close(b)
      BY <2>7, CloseStep, Names
    <2>8. CASE Sequential(b)
      BY <2>8, SequentialStep
    <2>9. QED
      BY <1>2, <2>1, <2>2, <2>3, <2>4, <2>5, <2>6, <2>7, <2>8 DEF BatchStep
  <1>3. ASSUME NEW b \in Batches, PointStep(b) PROVE PoolInv'
    BY <1>3, PointSteps DEF PointStep
  <1>4. CASE Stop
    BY <1>4, StopStep
  <1>5. CASE Retire(Stopper)
    BY <1>5, RetireStep, Names
  <1>6. CASE Close(Stopper)
    BY <1>6, CloseStep, Names
  <1>7. ASSUME NEW e \in Executors, Break(e) PROVE PoolInv'
    BY <1>7, BreakStep
  <1>8. CASE UNCHANGED vars
    <2>1. pool' = pool /\ executor' = executor /\ mutex' = mutex /\ batch' = batch /\ point' = point
      BY <1>8 DEF vars
    <2>2. Types /\ \A e \in Executors : /\ Live(e)' <=> Live(e)
                                        /\ executor'[e].state = "unborn" <=> executor[e].state = "unborn"
      BY <2>1 DEF PoolInv, Live
    <2>3. QED
      BY <2>1, <2>2, WorkerStep DEF Types
  <1>9. QED
    BY <1>1, <1>2, <1>3, <1>4, <1>5, <1>6, <1>7, <1>8 DEF Next

LEMMA PoolAlways == Spec => []PoolInv
  BY PoolInit, PoolNext, PTL DEF Spec

\* No batch is without a lease while points of it run or are queued.
LEMMA UnstoppedHasLease ==
    ASSUME PoolInv, NEW b \in Batches, NEW i \in Points, point[b][i] \in Unstopped
    PROVE  b \in Holders
  BY DEF PoolInv, PointsStopped, Stopped, Quiet, Busy, Holders, HasLease

-----------------------------------------------------------------------------
(* Theorems.                                                               *)

\* The records of the pool, of the executors, of the threads and of the futures
\* keep their shape (_POOL and its companions in api/services/cpu.py); no more
\* executors are created than there are batches.
THEOREM PoolTyped == Spec => []TypeOK
  <1>1. PoolInv => TypeOK
    <2> SUFFICES ASSUME PoolInv PROVE TypeOK
      OBVIOUS
    <2>1. pool.users \in 0..Cardinality(Batches)
      BY HoldersFinite, Names DEF PoolInv, Leases
    <2>2. pool \in Pool
      BY <2>1 DEF PoolInv, Types, PoolRecord, Pool
    <2>3. QED
      BY <2>2 DEF PoolInv, Types, TypeOK
  <1>2. QED
    BY <1>1, PoolAlways, PTL

\* No executor is closed while a batch has a lease on it, whoever wants a larger
\* one, retires one or shuts down, and _POOL_USERS counts the leases (_pool_batch,
\* _retire_cpu_pool), for any number of batches, points and sizes.
THEOREM LeasesHold == Spec => []LeasedStaysOpen
  <1>1. PoolInv => LeasedStaysOpen
    <2> SUFFICES ASSUME PoolInv PROVE LeasedStaysOpen
      OBVIOUS
    <2>1. pool.users = Cardinality({b \in Batches : HasLease(b)})
      BY DEF PoolInv, Leases, Holders
    <2>2. ASSUME NEW b \in Batches, HasLease(b)
          PROVE  batch[b].lease = pool.now /\ executor[batch[b].lease].state # "closed"
      <3>1. batch[b].lease = pool.now /\ pool.now # NoExecutor
        BY <2>2 DEF PoolInv, Leases, Holders
      <3>2. Live(pool.now)
        BY <3>1, PoolTypes DEF PoolInv, Current
      <3>3. QED
        BY <3>1, <3>2 DEF Live
    <2>3. QED
      BY <2>1, <2>2 DEF LeasedStaysOpen
  <1>2. QED
    BY <1>1, PoolAlways, PTL

\* A batch calculates its points itself only when no process calculates or will
\* calculate one of them (_drain_points before the sequential fallback).
THEOREM FallbackIsDrained == Spec => []DrainedBeforeFallback
  <1>1. PoolInv => DrainedBeforeFallback
    <2> SUFFICES ASSUME PoolInv, NEW b \in Batches,
                        batch[b].pc \in {"retire", "lingering", "closing", "sequential", "ended"}
                 PROVE  \A i \in DOMAIN point[b] : point[b][i] \notin Unstopped
      BY DEF DrainedBeforeFallback
    <2>1. DOMAIN point[b] = Points
      BY DEF PoolInv, Types
    <2>2. QED
      BY <2>1 DEF PoolInv, PointsStopped, Stopped, Quiet, Busy
  <1>2. QED
    BY <1>1, PoolAlways, PTL

\* Old and new worker processes never overlap, no point is left on a closed
\* executor, and closing one never waits for a point with the condition held
\* (_pool, _retire_cpu_pool).
THEOREM WorkersNeverOverlap == Spec => [](OneExecutor /\ ClosingIsQuick)
  <1>1. PoolInv => OneExecutor
    <2> SUFFICES ASSUME PoolInv PROVE OneExecutor
      OBVIOUS
    <2> DEFINE live == {e \in Executors : executor[e].state \in {"open", "broken"}}
    <2>1. live \subseteq {pool.now}
      BY DEF PoolInv, Current, Live
    <2>2. IsFiniteSet({pool.now}) /\ Cardinality({pool.now}) = 1
      BY FS_Singleton
    <2>3. Cardinality(live) <= 1
      BY <2>1, <2>2, FS_Subset
    <2>4. ASSUME NEW e \in Executors, executor[e].state = "closed", UnstoppedOn(e) # {} PROVE FALSE
      <3>1. PICK b \in Batches, i \in Points : batch[b].lease = e /\ point[b][i] \in Unstopped
        BY <2>4 DEF UnstoppedOn, PointsOn
      <3>2. e = pool.now
        BY <3>1, UnstoppedHasLease DEF PoolInv, Leases
      <3>3. QED
        BY <2>4, <3>2 DEF PoolInv, Current, Live
    <2>5. QED
      BY <2>3, <2>4 DEF OneExecutor
  <1>2. PoolInv => ClosingIsQuick
    <2> SUFFICES ASSUME PoolInv, NEW t \in Threads, batch[t].pc \in {"replace", "closing"},
                        UnstoppedOn(pool.now) # {}
                 PROVE  FALSE
      BY DEF ClosingIsQuick
    <2>1. Holders = {}
      BY Names, NobodyHolds DEF PoolInv, Exclusive, Closing
    <2>2. PICK b \in Batches, i \in Points : point[b][i] \in Unstopped
      BY DEF UnstoppedOn, PointsOn
    <2>3. QED
      BY <2>1, <2>2, UnstoppedHasLease
  <1>3. QED
    BY <1>1, <1>2, PoolAlways, PTL

-----------------------------------------------------------------------------
(* The page.  The inductive invariant, PageInv, says of every call what it  *)
(* may still find on the page when its answer comes.  The steps of the     *)
(* module are first reduced to kinds of steps (Steps, Stops, Clears), then *)
(* every kind is shown to keep the parts of the invariant.                 *)

Fields == {"generation", "growthToken", "owner", "stage", "mainController", "growthController", "aborted",
           "result", "rebalance", "comparison", "growth", "comparisonGrowth",
           "error", "comparisonError", "growthError", "comparisonGrowthError", "busy", "growthBusy", "snapshot",
           "sweepKey", "rebalanceKey", "growthKey", "runs", "done"}
Owners == [kind : {"none", "main", "growth"}, id : Nat]
IsPage(s) == /\ DOMAIN s = Fields
             /\ s.generation \in Nat /\ s.growthToken \in Nat /\ s.owner \in Owners
             /\ s.busy \in BOOLEAN /\ s.growthBusy \in BOOLEAN

Call == [mode : Modes \cup {"none"}, cmp : BOOLEAN,
         at : {"main", "comparison", "growth", "growthComparison", "ended"},
         generation : Nat, token : Nat, mine : Owners, failed : SUBSET {"comparison"}]
PageTypes == IsPage(page) /\ call \in [Calls -> Call]

Used(w) == call[w].mode # "none"
AtMain(w) == call[w].at \in {"main", "comparison"}
IsLatest(w) == call[w].token = page.growthToken

\* Calls are numbered in the order in which they began; every workflow has a
\* generation of its own, and every growth a token.
Bounded == \A w \in Calls : call[w].generation <= page.generation /\ call[w].token <= page.growthToken
Shaped ==
    \A w \in Calls :
       /\ ~Used(w) => call[w].at = "ended" /\ call[w].token = 0
       /\ AtMain(w) => IsWorkflow(w) /\ call[w].token = 0
       /\ Growing(w) => call[w].token # 0
       /\ call[w].mode = "sweep" => call[w].at \in {"main", "ended"}
Ordered ==
    \A u, w \in Calls : (u < w /\ Used(w)) =>
       /\ Used(u) /\ call[u].generation <= call[w].generation
       /\ IsWorkflow(w) => call[u].generation < call[w].generation
Distinct == \A u, w \in Calls : (u # w /\ call[u].token = call[w].token) => call[u].token = 0
CallsInOrder == Bounded /\ Shaped /\ Ordered /\ Distinct

\* The controllers are those of the calls that began last, and were aborted when
\* their calls were overtaken.
Known ==
    \A w \in Calls :
       /\ (<<w, "main">> \in page.aborted \/ page.mainController = w) => Used(w)
       /\ (<<w, "growth">> \in page.aborted \/ page.growthController = w) => call[w].token # 0
MainControlled ==
    \A w \in Calls : AtMain(w) => /\ IsCurrent(w) <=> <<w, "main">> \notin page.aborted
                                  /\ IsCurrent(w) => page.mainController = w
GrowthControlled ==
    \A w \in Calls : Growing(w) => /\ IsLive(w) <=> <<w, "growth">> \notin page.aborted
                                   /\ IsLive(w) => page.growthController = w
Controllers == Known /\ MainControlled /\ GrowthControlled

\* Flags and progress are about what is in flight and was not overtaken.
WorkflowReports ==
    \A w \in Calls : (CallInFlight(w) /\ IsWorkflow(w) /\ IsCurrent(w)) =>
        page.busy = TRUE /\ page.owner = Main(page.generation) /\ page.stage = call[w].at
GrowthFlagged == \A w \in Calls : (Growing(w) /\ IsLatest(w)) => page.growthBusy = TRUE
Reporters ==
    \A w \in Calls : /\ call[w].mode = "growth" => call[w].mine \in {Nobody, Standalone(call[w].token)}
                     /\ (IsWorkflow(w) /\ Growing(w)) => call[w].mine = Main(call[w].generation)
StandaloneReports ==
    \A w \in Calls : (call[w].mode = "growth" /\ Growing(w) /\ IsLive(w) /\ call[w].mine # Nobody) =>
        page.owner = call[w].mine /\ page.stage = call[w].at
FlagsStand ==
    /\ page.busy = TRUE => \E w \in Calls : CallInFlight(w) /\ IsWorkflow(w) /\ IsCurrent(w)
    /\ page.growthBusy = TRUE => \E w \in Calls : Growing(w) /\ IsLatest(w)
OwnerStands ==
    /\ page.owner.kind = "main" => page.busy = TRUE
    /\ page.owner.kind = "none" => page.owner = Nobody
    /\ page.owner.kind = "growth" =>
          \E w \in Calls : call[w].mode = "growth" /\ Growing(w) /\ IsLive(w) /\ call[w].mine = page.owner
Progress == WorkflowReports /\ GrowthFlagged /\ Reporters /\ StandaloneReports /\ FlagsStand /\ OwnerStands

Together(s) ==
    /\ s.sweepKey = s.result /\ s.rebalanceKey = s.rebalance /\ s.growthKey \in {0, s.growth}
    /\ s.rebalance # 0 => /\ s.comparison \in {0, s.rebalance}
                          /\ s.comparisonError \in {0, s.rebalance}
    /\ s.comparison = 0 \/ s.comparisonError = 0
    /\ s.comparisonGrowth \in {0, s.growth} /\ s.comparisonGrowthError \in {0, s.growth}
    /\ s.snapshot \in {0, s.growth}
    /\ s.growthError = 0 \/ s.growth = 0

\* What a call in flight finds on the page when its answer comes.
ComparisonAwaited ==
    \A w \in Calls : (call[w].at = "comparison" /\ IsCurrent(w)) =>
        page.rebalance = w /\ page.comparison = 0 /\ page.comparisonError = 0
GrowthAwaited ==
    \A w \in Calls : (call[w].at = "growth" /\ IsLive(w)) =>
        page.snapshot = 0 /\ page.comparisonGrowth = 0 /\ page.comparisonGrowthError = 0 /\ page.growthError = 0
GrowthCompared == \A w \in Calls : (call[w].at = "growthComparison" /\ IsLive(w)) => page.growth = w
WorkflowShown ==
    \A w \in Calls : (Growing(w) /\ IsWorkflow(w) /\ IsCurrent(w)) =>
        /\ page.rebalance = w
        /\ call[w].cmp => IF "comparison" \in call[w].failed THEN page.comparisonError = w ELSE page.comparison = w
Results == Together(page) /\ ComparisonAwaited /\ GrowthAwaited /\ GrowthCompared /\ WorkflowShown

PageInv == PageTypes /\ CallsInOrder /\ Controllers /\ Progress /\ Results

\* Nothing but the fields of X changes.
Keeps(t, s, X) == \A x \in Fields \ X : t[x] = s[x]

-----------------------------------------------------------------------------
(* What the operators that change the page do to it: each ...From relates  *)
(* the page they return to the one they were given.                        *)

LEMMA AbortedMeans ==
  ASSUME NEW s, IsPage(s), NEW part \in {"main", "growth"}
  PROVE  /\ IsPage(Aborted(s, part))
         /\ Keeps(Aborted(s, part), s, {"aborted"})
         /\ Aborted(s, part).aborted = s.aborted \cup {<<IF part = "main" THEN s.mainController ELSE s.growthController, part>>}
  BY DEF Aborted, IsPage, Keeps, Fields

BothAborted(s) == s.aborted \cup {<<s.mainController, "main">>, <<s.growthController, "growth">>}

LEMMA BothMean ==
  ASSUME NEW s, IsPage(s), NEW t, t = Aborted(Aborted(s, "main"), "growth")
  PROVE  IsPage(t) /\ Keeps(t, s, {"aborted"}) /\ t.aborted = BothAborted(s)
<1> DEFINE a == Aborted(s, "main")
<1>1. IsPage(a) /\ Keeps(a, s, {"aborted"}) /\ a.aborted = s.aborted \cup {<<s.mainController, "main">>}
  BY AbortedMeans
<1> HIDE DEF a
<1>2. IsPage(t) /\ Keeps(t, a, {"aborted"}) /\ t.aborted = a.aborted \cup {<<a.growthController, "growth">>}
  BY <1>1, AbortedMeans DEF a
<1>3. QED
  BY <1>1, <1>2 DEF Keeps, Fields, BothAborted

CancelledFrom(t, s) ==
    /\ IsPage(t)
    /\ Keeps(t, s, {"aborted", "generation", "growthToken", "owner", "stage"})
    /\ t.aborted = BothAborted(s) /\ t.generation = s.generation + 1
    /\ t.growthToken = s.growthToken + 1 /\ t.owner = Nobody /\ t.stage = "main"

LEMMA CancelledMeans ==
  ASSUME NEW s, IsPage(s), NEW t, t = CancelledPage(s)
  PROVE  CancelledFrom(t, s)
<1> DEFINE b == Aborted(Aborted(s, "main"), "growth")
<1>1. IsPage(b) /\ Keeps(b, s, {"aborted"}) /\ b.aborted = BothAborted(s)
  BY BothMean
<1>2. t = [b EXCEPT !.generation = @ + 1, !.growthToken = @ + 1, !.owner = Nobody, !.stage = "main"]
  BY DEF CancelledPage
<1> HIDE DEF b
<1>3. Nobody \in Owners
  BY DEF Nobody, Owners
<1>4. IsPage(t)
  BY <1>1, <1>2, <1>3 DEF IsPage, Fields
<1>5. /\ t.generation = b.generation + 1 /\ t.growthToken = b.growthToken + 1 /\ t.owner = Nobody /\ t.stage = "main"
      /\ Keeps(t, b, {"generation", "growthToken", "owner", "stage"})
  BY <1>1, <1>2 DEF IsPage, Keeps, Fields
<1>6. b.generation = s.generation /\ b.growthToken = s.growthToken /\ t.aborted = b.aborted
  BY <1>1, <1>5 DEF Keeps, Fields
<1>7. QED
  BY <1>1, <1>4, <1>5, <1>6 DEF Keeps, CancelledFrom

StartedFrom(t, s, w, mode) ==
    /\ IsPage(t)
    /\ Keeps(t, s, {"generation", "mainController", "owner", "stage", "busy", "error", "aborted"}
                   \cup IF mode = "sweep" THEN {} ELSE {"growthToken", "growthBusy", "snapshot", "comparisonGrowth", "comparisonGrowthError"})
    /\ t.generation = s.generation + 1 /\ t.mainController = w /\ t.owner = Main(t.generation) /\ t.stage = "main"
    /\ t.busy = TRUE /\ t.error = 0 /\ t.aborted = BothAborted(s)
    /\ mode # "sweep" => /\ t.growthToken = s.growthToken + 1 /\ t.growthBusy = FALSE
                         /\ t.snapshot = 0 /\ t.comparisonGrowth = 0 /\ t.comparisonGrowthError = 0

LEMMA StartedMeans ==
  ASSUME NEW s, IsPage(s), NEW w, NEW mode, NEW t, t = Started(s, w, mode)
  PROVE  StartedFrom(t, s, w, mode)
<1> DEFINE b == Aborted(Aborted(s, "main"), "growth")
           u == [b EXCEPT !.generation = @ + 1, !.mainController = w, !.owner = Main(s.generation + 1), !.stage = "main",
                          !.busy = TRUE, !.error = 0]
           v == [u EXCEPT !.growthToken = @ + 1, !.growthBusy = FALSE, !.snapshot = 0,
                          !.comparisonGrowth = 0, !.comparisonGrowthError = 0]
           X == {"generation", "mainController", "owner", "stage", "busy", "error"}
           Y == {"growthToken", "growthBusy", "snapshot", "comparisonGrowth", "comparisonGrowthError"}
<1>1. IsPage(b) /\ Keeps(b, s, {"aborted"}) /\ b.aborted = BothAborted(s)
  BY BothMean
<1>2. t = IF mode = "sweep" THEN u ELSE v
  BY DEF Started
<1> HIDE DEF b
<1>3. Main(s.generation + 1) \in Owners
  BY DEF Main, Owners, IsPage
<1>4. /\ IsPage(u)
      /\ u.generation = b.generation + 1 /\ u.mainController = w /\ u.owner = Main(s.generation + 1) /\ u.stage = "main"
      /\ u.busy = TRUE /\ u.error = 0
  BY <1>1, <1>3 DEF IsPage, Fields
<1>5. Keeps(u, b, X)
  BY <1>1 DEF IsPage, Keeps, Fields
<1> HIDE DEF u
<1>6. /\ IsPage(v)
      /\ v.growthToken = u.growthToken + 1 /\ v.growthBusy = FALSE /\ v.snapshot = 0
      /\ v.comparisonGrowth = 0 /\ v.comparisonGrowthError = 0
  BY <1>4 DEF IsPage, Fields
<1>7. Keeps(v, u, Y)
  BY <1>4 DEF IsPage, Keeps, Fields
<1> HIDE DEF v
<1>8. b.generation = s.generation /\ b.growthToken = s.growthToken
  BY <1>1 DEF Keeps, Fields
<1>9. u.aborted = b.aborted /\ u.growthToken = b.growthToken
  BY <1>5 DEF Keeps, Fields
<1>10. /\ v.aborted = u.aborted /\ v.generation = u.generation /\ v.mainController = u.mainController /\ v.owner = u.owner
       /\ v.stage = u.stage /\ v.busy = u.busy /\ v.error = u.error
  BY <1>7 DEF Keeps, Fields
<1>11. Keeps(u, s, X \cup {"aborted"}) /\ Keeps(v, s, X \cup {"aborted"} \cup Y)
  BY <1>1, <1>5, <1>7 DEF Keeps
<1>12. CASE mode = "sweep"
  BY <1>1, <1>2, <1>4, <1>8, <1>9, <1>11, <1>12 DEF Keeps, StartedFrom
<1>13. CASE mode # "sweep"
  <2>1. t = v
    BY <1>2, <1>13
  <2>2. Keeps(t, s, {"generation", "mainController", "owner", "stage", "busy", "error", "aborted"}
                    \cup {"growthToken", "growthBusy", "snapshot", "comparisonGrowth", "comparisonGrowthError"})
    BY <1>11, <2>1 DEF Keeps
  <2>3. QED
    BY <1>1, <1>4, <1>6, <1>8, <1>9, <1>10, <1>13, <2>1, <2>2 DEF StartedFrom
<1>14. QED
  BY <1>12, <1>13 DEF CancelledFrom, StartedFrom

BegunFrom(t, s, w, owner) ==
    /\ IsPage(t) /\ Reporter(s, owner) \in Owners
    /\ Keeps(t, s, {"aborted", "growthToken", "growthController", "stage", "owner", "growthBusy", "growthError", "snapshot",
                    "comparisonGrowth", "comparisonGrowthError"})
    /\ t.aborted = s.aborted \cup {<<s.growthController, "growth">>}
    /\ t.growthToken = s.growthToken + 1 /\ t.growthController = w /\ t.growthBusy = TRUE
    /\ t.growthError = 0 /\ t.snapshot = 0 /\ t.comparisonGrowth = 0 /\ t.comparisonGrowthError = 0
    /\ IF Reporter(s, owner) = Nobody THEN t.owner = s.owner /\ t.stage = s.stage
       ELSE t.owner = Reporter(s, owner) /\ t.stage = "growth"

LEMMA GrowthBegunMeans ==
  ASSUME NEW s, IsPage(s), NEW w, NEW owner \in Owners, NEW t, t = GrowthBegun(s, w, owner)
  PROVE  BegunFrom(t, s, w, owner)
<1> DEFINE b == Aborted(s, "growth")
           mine == Reporter(s, owner)
<1>1. IsPage(b) /\ Keeps(b, s, {"aborted"}) /\ b.aborted = s.aborted \cup {<<s.growthController, "growth">>}
  BY AbortedMeans
<1> DEFINE stage == IF mine = Nobody THEN b.stage ELSE "growth"
           reporter == IF mine = Nobody THEN b.owner ELSE mine
           c == [b EXCEPT !.growthToken = @ + 1, !.growthController = w, !.stage = stage, !.owner = reporter]
<1>2. t = [c EXCEPT !.growthBusy = TRUE, !.growthError = 0, !.snapshot = 0,
                    !.comparisonGrowth = 0, !.comparisonGrowthError = 0]
  BY DEF GrowthBegun
<1>3. mine \in Owners
  BY DEF Reporter, Nobody, Standalone, Owners, IsPage
<1> HIDE DEF b, mine
<1>4. reporter \in Owners
  BY <1>1, <1>3 DEF IsPage
<1> HIDE DEF stage, reporter
<1>5. /\ IsPage(c)
      /\ c.growthToken = b.growthToken + 1 /\ c.growthController = w /\ c.owner = reporter /\ c.stage = stage
  BY <1>1, <1>4 DEF IsPage, Fields
<1>6. Keeps(c, b, {"growthToken", "growthController", "stage", "owner"})
  BY <1>1 DEF IsPage, Keeps, Fields
<1> HIDE DEF c
<1>7. /\ IsPage(t) /\ t.growthBusy = TRUE
      /\ t.growthError = 0 /\ t.snapshot = 0 /\ t.comparisonGrowth = 0 /\ t.comparisonGrowthError = 0
  BY <1>2, <1>5 DEF IsPage, Fields
<1>8. Keeps(t, c, {"growthBusy", "growthError", "snapshot", "comparisonGrowth", "comparisonGrowthError"})
  BY <1>2, <1>5 DEF IsPage, Keeps, Fields
<1>9. /\ b.growthToken = s.growthToken /\ b.owner = s.owner /\ b.stage = s.stage
      /\ c.aborted = b.aborted /\ t.aborted = c.aborted
      /\ t.growthToken = c.growthToken /\ t.growthController = c.growthController /\ t.owner = c.owner /\ t.stage = c.stage
  BY <1>1, <1>6, <1>8 DEF Keeps, Fields
<1>10. Keeps(t, s, {"aborted", "growthToken", "growthController", "stage", "owner", "growthBusy", "growthError", "snapshot",
                    "comparisonGrowth", "comparisonGrowthError"})
  BY <1>1, <1>6, <1>8 DEF Keeps
<1>11. QED
  BY <1>1, <1>3, <1>5, <1>7, <1>9, <1>10 DEF mine, stage, reporter, BegunFrom

ResetFields == {"aborted", "growthToken", "owner", "stage", "result", "growthBusy", "growthError", "snapshot", "comparisonGrowth",
                "comparisonGrowthError", "sweepKey", "growthKey", "rebalanceKey", "rebalance", "growth"}

ResetFrom(t, s, keep) ==
    /\ IsPage(t) /\ Keeps(t, s, ResetFields)
    /\ t.aborted = s.aborted \cup {<<s.growthController, "growth">>} /\ t.growthToken = s.growthToken + 1
    /\ t.result = 0 /\ t.growthBusy = FALSE /\ t.growthError = 0 /\ t.snapshot = 0
    /\ t.comparisonGrowth = 0 /\ t.comparisonGrowthError = 0 /\ t.sweepKey = 0 /\ t.growthKey = 0
    /\ IF keep THEN t.rebalanceKey = s.rebalanceKey /\ t.rebalance = s.rebalance /\ t.growth = s.growth
       ELSE t.rebalanceKey = 0 /\ t.rebalance = 0 /\ t.growth = 0

LEMMA WasResetMeans ==
  ASSUME NEW s, IsPage(s), NEW keep \in BOOLEAN, NEW t, t = WasReset(s, keep)
  PROVE  ResetFrom(t, s, keep)
<1> DEFINE b == Aborted(s, "growth")
<1>1. IsPage(b) /\ Keeps(b, s, {"aborted"}) /\ b.aborted = s.aborted \cup {<<s.growthController, "growth">>}
  BY AbortedMeans
<1> DEFINE stage == IF b.owner.kind = "growth" THEN "main" ELSE b.stage
           reporter == IF b.owner.kind = "growth" THEN Nobody ELSE b.owner
           Kept(value) == IF keep THEN value ELSE 0
           key == Kept(b.rebalanceKey)
           rebalance == Kept(b.rebalance)
           growth == Kept(b.growth)
           c == [b EXCEPT !.growthToken = @ + 1, !.owner = reporter, !.stage = stage,
                          !.result = 0, !.growthBusy = FALSE, !.growthError = 0, !.snapshot = 0]
           X == {"growthToken", "owner", "stage", "result", "growthBusy", "growthError", "snapshot"}
           Y == {"comparisonGrowth", "comparisonGrowthError", "sweepKey", "growthKey", "rebalanceKey", "rebalance", "growth"}
<1>2. t = [c EXCEPT !.comparisonGrowth = 0, !.comparisonGrowthError = 0,
                    !.sweepKey = 0, !.growthKey = 0, !.rebalanceKey = key, !.rebalance = rebalance, !.growth = growth]
  BY DEF WasReset
<1> HIDE DEF b
<1>3. reporter \in Owners
  BY <1>1 DEF IsPage, Nobody, Owners
<1> HIDE DEF stage, reporter, key, rebalance, growth
<1>4. /\ IsPage(c) /\ c.growthToken = b.growthToken + 1
      /\ c.result = 0 /\ c.growthBusy = FALSE /\ c.growthError = 0 /\ c.snapshot = 0
  BY <1>1, <1>3 DEF IsPage, Fields
<1>5. Keeps(c, b, X)
  BY <1>1 DEF IsPage, Keeps, Fields
<1> HIDE DEF c
<1>6. /\ IsPage(t)
      /\ t.comparisonGrowth = 0 /\ t.comparisonGrowthError = 0 /\ t.sweepKey = 0 /\ t.growthKey = 0
      /\ t.rebalanceKey = key /\ t.rebalance = rebalance /\ t.growth = growth
  BY <1>2, <1>4 DEF IsPage, Fields
<1>7. Keeps(t, c, Y)
  BY <1>2, <1>4 DEF IsPage, Keeps, Fields
<1>8. /\ b.growthToken = s.growthToken /\ c.aborted = b.aborted /\ t.aborted = c.aborted
      /\ b.rebalanceKey = s.rebalanceKey /\ b.rebalance = s.rebalance /\ b.growth = s.growth
      /\ t.growthToken = c.growthToken /\ t.result = c.result /\ t.growthBusy = c.growthBusy
      /\ t.growthError = c.growthError /\ t.snapshot = c.snapshot
  BY <1>1, <1>5, <1>7 DEF Keeps, Fields
<1>9. Keeps(t, s, ResetFields)
  BY <1>1, <1>5, <1>7 DEF Keeps, ResetFields
<1>10. QED
  BY <1>1, <1>4, <1>6, <1>8, <1>9 DEF key, rebalance, growth, ResetFrom

FinishedFrom(t, s, owner, w, outcome, failed) ==
    /\ IsPage(t) /\ Keeps(t, s, {"owner", "stage", "done"})
    /\ s.owner # owner => t = s
    /\ s.owner = owner => /\ t.owner = Nobody /\ t.stage = "main"
                          /\ t.done = [call |-> w, failed |-> failed,
                                       outcome |-> IF outcome = "ok" /\ failed # {} THEN "partial" ELSE outcome]

LEMMA FinishMeans ==
  ASSUME NEW s, IsPage(s), NEW owner, NEW w, NEW outcome, NEW failed, NEW t, t = FinishProgress(s, owner, w, outcome, failed)
  PROVE  FinishedFrom(t, s, owner, w, outcome, failed)
<1>1. CASE s.owner # owner
  BY <1>1 DEF FinishProgress, Keeps, FinishedFrom
<1>2. CASE s.owner = owner
  <2> DEFINE d == [call |-> w, failed |-> failed, outcome |-> IF outcome = "ok" /\ failed # {} THEN "partial" ELSE outcome]
  <2>1. t = [s EXCEPT !.owner = Nobody, !.stage = "main", !.done = d]
    BY <1>2 DEF FinishProgress
  <2> HIDE DEF d
  <2>2. Nobody \in Owners
    BY DEF Nobody, Owners
  <2>3. IsPage(t) /\ t.owner = Nobody /\ t.stage = "main" /\ t.done = d
    BY <2>1, <2>2 DEF IsPage, Fields
  <2>4. Keeps(t, s, {"owner", "stage", "done"})
    BY <2>1 DEF IsPage, Keeps, Fields
  <2>5. QED
    BY <1>2, <2>3, <2>4 DEF d, FinishedFrom
<1>3. QED
  BY <1>1, <1>2 DEF FinishedFrom

ConcludedFrom(t, s, w, outcome, failed) ==
    /\ IsPage(t) /\ Keeps(t, s, {"busy", "owner", "stage", "done"})
    /\ call[w].generation # s.generation => t = s
    /\ call[w].generation = s.generation => t.busy = FALSE
    /\ (call[w].generation = s.generation /\ s.owner # Main(s.generation)) => (t.owner = s.owner /\ t.done = s.done)
    /\ (call[w].generation = s.generation /\ s.owner = Main(s.generation)) =>
          /\ t.owner = Nobody /\ t.stage = "main"
          /\ t.done = [call |-> w, failed |-> failed,
                       outcome |-> IF outcome = "ok" /\ failed # {} THEN "partial" ELSE outcome]

LEMMA ConcludedMeans ==
  ASSUME NEW s, IsPage(s), NEW w \in Calls, NEW outcome, NEW failed, NEW t, t = Concluded(s, w, outcome, failed)
  PROVE  ConcludedFrom(t, s, w, outcome, failed)
<1>1. CASE call[w].generation # s.generation
  BY <1>1 DEF Concluded, Keeps, ConcludedFrom
<1>2. CASE call[w].generation = s.generation
  <2> DEFINE b == [s EXCEPT !.busy = FALSE]
  <2>1. IsPage(b) /\ b.busy = FALSE
    BY DEF IsPage, Fields
  <2>2. Keeps(b, s, {"busy"})
    BY DEF IsPage, Keeps, Fields
  <2>3. t = FinishProgress(b, Main(s.generation), w, outcome, failed)
    BY <1>2 DEF Concluded
  <2> HIDE DEF b
  <2>4. /\ IsPage(t) /\ Keeps(t, b, {"owner", "stage", "done"})
        /\ b.owner # Main(s.generation) => t = b
        /\ b.owner = Main(s.generation) =>
              /\ t.owner = Nobody /\ t.stage = "main"
              /\ t.done = [call |-> w, failed |-> failed,
                           outcome |-> IF outcome = "ok" /\ failed # {} THEN "partial" ELSE outcome]
    BY <2>1, <2>3, FinishMeans DEF FinishedFrom
  <2>5. b.owner = s.owner /\ b.done = s.done /\ t.busy = b.busy
    BY <2>2, <2>4 DEF Keeps, Fields
  <2>6. Keeps(t, s, {"busy", "owner", "stage", "done"})
    BY <2>2, <2>4 DEF Keeps
  <2>7. QED
    BY <1>2, <2>1, <2>4, <2>5, <2>6 DEF ConcludedFrom
<1>3. QED
  BY <1>1, <1>2 DEF ConcludedFrom

SteppedFrom(t, s, owner, stage) ==
    /\ IsPage(t) /\ Keeps(t, s, {"stage"})
    /\ s.owner = owner => t.stage = stage
    /\ s.owner # owner => t = s

LEMMA StepMeans ==
  ASSUME NEW s, IsPage(s), NEW owner, NEW stage, NEW t, t = Step(s, owner, stage)
  PROVE  SteppedFrom(t, s, owner, stage)
<1>1. CASE s.owner # owner
  BY <1>1 DEF Step, Keeps, SteppedFrom
<1>2. CASE s.owner = owner
  <2>1. t = [s EXCEPT !.stage = stage]
    BY <1>2 DEF Step
  <2>2. IsPage(t) /\ t.stage = stage
    BY <2>1 DEF IsPage, Fields
  <2>3. Keeps(t, s, {"stage"})
    BY <2>1 DEF IsPage, Keeps, Fields
  <2>4. QED
    BY <1>2, <2>2, <2>3 DEF SteppedFrom
<1>3. QED
  BY <1>1, <1>2 DEF SteppedFrom

\* A calculation that starts, a reset and a growth that begins take away together
\* what is shown together.
LEMMA StartedTogether ==
  ASSUME NEW s, IsPage(s), Together(s), NEW w, NEW mode, NEW t, t = Started(s, w, mode)
  PROVE  Together(t)
<1>1. StartedFrom(t, s, w, mode)
  BY StartedMeans
<1>2. /\ t.sweepKey = s.sweepKey /\ t.result = s.result /\ t.rebalanceKey = s.rebalanceKey /\ t.rebalance = s.rebalance
      /\ t.growthKey = s.growthKey /\ t.growth = s.growth /\ t.comparison = s.comparison
      /\ t.comparisonError = s.comparisonError /\ t.growthError = s.growthError
  BY <1>1 DEF StartedFrom, Keeps, Fields
<1>3. t.comparisonGrowth \in {0, s.comparisonGrowth} /\ t.comparisonGrowthError \in {0, s.comparisonGrowthError} /\ t.snapshot \in {0, s.snapshot}
  BY <1>1 DEF StartedFrom, Keeps, Fields
<1>4. QED
  BY <1>2, <1>3 DEF Together

LEMMA ResetTogether ==
  ASSUME NEW s, IsPage(s), Together(s), NEW keep \in BOOLEAN, NEW t, t = WasReset(CancelledPage(s), keep)
  PROVE  Together(t)
<1> DEFINE c == CancelledPage(s)
<1>1. IsPage(c) /\ Keeps(c, s, {"aborted", "generation", "growthToken", "owner", "stage"})
  BY CancelledMeans DEF CancelledFrom
<1> HIDE DEF c
<1>2. t = WasReset(c, keep)
  BY DEF c
<1>3. ResetFrom(t, c, keep)
  BY <1>1, <1>2, WasResetMeans
<1>4. t.comparison = c.comparison /\ t.comparisonError = c.comparisonError
  BY <1>3 DEF ResetFrom, Keeps, Fields, ResetFields
<1>5. /\ c.comparison = s.comparison /\ c.comparisonError = s.comparisonError
      /\ c.rebalanceKey = s.rebalanceKey /\ c.rebalance = s.rebalance
  BY <1>1 DEF Keeps, Fields
<1>6. QED
  BY <1>3, <1>4, <1>5 DEF ResetFrom, Together

LEMMA BegunTogether ==
  ASSUME NEW s, IsPage(s), Together(s), NEW w, NEW owner \in Owners, NEW t, t = GrowthBegun(s, w, owner)
  PROVE  Together(t)
<1>1. BegunFrom(t, s, w, owner)
  BY GrowthBegunMeans
<1>2. /\ t.sweepKey = s.sweepKey /\ t.result = s.result /\ t.rebalanceKey = s.rebalanceKey /\ t.rebalance = s.rebalance
      /\ t.growthKey = s.growthKey /\ t.growth = s.growth /\ t.comparison = s.comparison /\ t.comparisonError = s.comparisonError
  BY <1>1 DEF BegunFrom, Keeps, Fields
<1>3. QED
  BY <1>1, <1>2 DEF BegunFrom, Together

-----------------------------------------------------------------------------
-----------------------------------------------------------------------------
(* The kinds of steps: what a step does to its call and to the page.       *)

OnlyCall(w) == call' \in [Calls -> Call] /\ \A u \in Calls : u # w => call'[u] = call[u]
\* What appears on the page is of call w, which was not overtaken.
Publishes(w) ==
    LET Fresh(x) == page'[x] \in {page[x], 0}
        Main4(x) == Fresh(x) \/ (page'[x] = w /\ IsCurrent(w))
        Growth3(x) == Fresh(x) \/ (page'[x] = w /\ IsLive(w))
    IN  /\ Main4("result") /\ Main4("rebalance") /\ Main4("comparison") /\ Main4("error")
        /\ Growth3("growth") /\ Growth3("comparisonGrowth") /\ Growth3("growthError")

WorkflowBegins(w) ==
    /\ IsNextCall(w) /\ OnlyCall(w) /\ IsPage(page')
    /\ call'[w].mode \in {"sweep", "rebalance"} /\ call'[w].at = "main"
    /\ call'[w].generation = page'.generation /\ call'[w].token = call[w].token
    /\ page'.generation > page.generation
    /\ page'.mainController = w /\ page'.growthController = page.growthController /\ page'.aborted = BothAborted(page)
    /\ page'.owner = Main(page'.generation) /\ page'.stage = "main" /\ page'.busy = TRUE
    /\ \/ page'.growthToken = page.growthToken /\ page'.growthBusy = page.growthBusy
       \/ page'.growthToken > page.growthToken /\ page'.growthBusy = FALSE
    /\ page'.done = page.done

LEMMA CalledWorkflow ==
  ASSUME PageTypes, NEW s, IsPage(s), NEW w \in Calls, IsNextCall(w), NEW mode \in {"sweep", "rebalance"}, NEW cmp \in BOOLEAN,
         Called(s, w, mode, cmp)
  PROVE  /\ StartedFrom(page', s, w, mode) /\ OnlyCall(w)
         /\ call'[w].mode = mode /\ call'[w].at = "main"
         /\ call'[w].generation = s.generation + 1 /\ call'[w].token = call[w].token
<1> DEFINE new == [call[w] EXCEPT !.mode = mode, !.cmp = cmp /\ mode # "sweep", !.at = "main"]
           c == [new EXCEPT !.generation = s.generation + 1]
<1>1. page' = Started(s, w, mode) /\ call' = [call EXCEPT ![w] = c]
  BY DEF Called
<1>2. StartedFrom(page', s, w, mode)
  BY <1>1, StartedMeans
<1>3. call[w] \in Call
  BY DEF PageTypes
<1>4. new \in Call /\ new.mode = mode /\ new.at = "main" /\ new.token = call[w].token
  BY <1>3 DEF Call, Modes
<1> HIDE DEF new
<1>5. c \in Call /\ c.mode = mode /\ c.at = "main" /\ c.token = call[w].token /\ c.generation = s.generation + 1
  BY <1>4 DEF Call, IsPage
<1> HIDE DEF c
<1>6. QED
  BY <1>1, <1>2, <1>5 DEF PageTypes, OnlyCall

LEMMA ExecuteBegins ==
  ASSUME PageTypes, NEW w \in Calls, IsNextCall(w), NEW mode \in {"sweep", "rebalance"}, NEW cmp \in BOOLEAN, Called(page, w, mode, cmp)
  PROVE  WorkflowBegins(w) /\ Publishes(w) /\ (Together(page) => Together(page'))
<1>1. /\ StartedFrom(page', page, w, mode) /\ OnlyCall(w)
      /\ call'[w].mode = mode /\ call'[w].at = "main"
      /\ call'[w].generation = page.generation + 1 /\ call'[w].token = call[w].token
  BY CalledWorkflow DEF PageTypes
<1>2. Together(page) => Together(page')
  BY StartedTogether DEF Called, PageTypes
<1>3. /\ page'.growthController = page.growthController /\ page'.done = page.done
      /\ mode = "sweep" => (page'.growthToken = page.growthToken /\ page'.growthBusy = page.growthBusy)
  BY <1>1 DEF StartedFrom, Keeps, Fields
<1>4. Publishes(w)
  <2>1. /\ page'.result = page.result /\ page'.rebalance = page.rebalance /\ page'.comparison = page.comparison
        /\ page'.growth = page.growth /\ page'.growthError = page.growthError
        /\ page'.error = 0 /\ page'.comparisonGrowth \in {page.comparisonGrowth, 0}
    BY <1>1 DEF StartedFrom, Keeps, Fields
  <2>2. QED
    BY <2>1 DEF Publishes
<1>5. WorkflowBegins(w)
  BY <1>1, <1>3 DEF StartedFrom, WorkflowBegins, PageTypes, IsPage
<1>6. QED
  BY <1>2, <1>4, <1>5

LEMMA SelectBegins ==
  ASSUME PageTypes, NEW w \in Calls, IsNextCall(w), NEW mode \in {"sweep", "rebalance"}, NEW cmp \in BOOLEAN, NEW keep \in BOOLEAN,
         Called(WasReset(CancelledPage(page), keep), w, mode, cmp)
  PROVE  WorkflowBegins(w) /\ Publishes(w) /\ (Together(page) => Together(page'))
<1> DEFINE c == CancelledPage(page)
           s == WasReset(c, keep)
<1>1. CancelledFrom(c, page)
  BY CancelledMeans DEF PageTypes
<1>2. ResetFrom(s, c, keep)
  BY <1>1, WasResetMeans DEF CancelledFrom
<1>3. Together(page) => Together(s)
  BY ResetTogether DEF PageTypes
<1>4. Called(s, w, mode, cmp)
  OBVIOUS
<1> HIDE DEF c, s
<1>5. IsPage(s)
  BY <1>2 DEF ResetFrom
<1>6. /\ StartedFrom(page', s, w, mode) /\ OnlyCall(w)
      /\ call'[w].mode = mode /\ call'[w].at = "main"
      /\ call'[w].generation = s.generation + 1 /\ call'[w].token = call[w].token
  BY <1>4, <1>5, CalledWorkflow
<1>7. Together(page) => Together(page')
  BY <1>3, <1>4, <1>5, StartedTogether DEF Called
<1>8. /\ c.mainController = page.mainController /\ c.growthController = page.growthController
      /\ c.result = page.result /\ c.rebalance = page.rebalance /\ c.comparison = page.comparison
      /\ c.growth = page.growth /\ c.done = page.done
  BY <1>1 DEF CancelledFrom, Keeps, Fields
<1>9. /\ s.generation = c.generation /\ s.mainController = c.mainController /\ s.growthController = c.growthController
      /\ s.comparison = c.comparison /\ s.done = c.done
  BY <1>2 DEF ResetFrom, Keeps, Fields, ResetFields
<1>10. /\ page'.growthController = s.growthController /\ page'.done = s.done
       /\ page'.result = s.result /\ page'.rebalance = s.rebalance /\ page'.comparison = s.comparison
       /\ page'.growth = s.growth /\ page'.growthError = s.growthError
       /\ page'.error = 0 /\ page'.comparisonGrowth \in {s.comparisonGrowth, 0}
       /\ mode = "sweep" => (page'.growthToken = s.growthToken /\ page'.growthBusy = s.growthBusy)
  BY <1>6 DEF StartedFrom, Keeps, Fields
<1>11. s.aborted = BothAborted(page) /\ page'.aborted = BothAborted(page)
  BY <1>1, <1>2, <1>6, <1>8, <1>9 DEF CancelledFrom, ResetFrom, StartedFrom, BothAborted
<1>12. Publishes(w)
  BY <1>2, <1>8, <1>9, <1>10 DEF ResetFrom, Publishes
<1>13. page'.growthToken > page.growthToken /\ page'.growthBusy = FALSE
  <2>1. c.growthToken = page.growthToken + 1 /\ s.growthToken = c.growthToken + 1 /\ s.growthBusy = FALSE /\ page.growthToken \in Nat
    BY <1>1, <1>2 DEF CancelledFrom, ResetFrom, PageTypes, IsPage
  <2>2. mode # "sweep" => (page'.growthToken = s.growthToken + 1 /\ page'.growthBusy = FALSE)
    BY <1>6 DEF StartedFrom
  <2>3. QED
    BY <2>1, <2>2, <1>10
<1>14. page'.generation > page.generation
  BY <1>1, <1>6, <1>9 DEF CancelledFrom, StartedFrom, PageTypes, IsPage
<1>15. WorkflowBegins(w)
  BY <1>6, <1>8, <1>9, <1>10, <1>11, <1>13, <1>14 DEF StartedFrom, WorkflowBegins
<1>16. QED
  BY <1>7, <1>12, <1>15

\* What a growth that begins does, of its own or within a workflow.
GrowthBegins(w) ==
    /\ OnlyCall(w) /\ IsPage(page')
    /\ page'.generation = page.generation /\ page'.growthToken = page.growthToken + 1
    /\ page'.mainController = page.mainController /\ page'.growthController = w
    /\ page'.aborted = page.aborted \cup {<<page.growthController, "growth">>}
    /\ page'.growthBusy = TRUE /\ page'.busy = page.busy /\ page'.done = page.done
    /\ page'.snapshot = 0 /\ page'.comparisonGrowth = 0 /\ page'.comparisonGrowthError = 0 /\ page'.growthError = 0
    /\ call'[w].at = "growth" /\ call'[w].token = page'.growthToken /\ call'[w].generation = page.generation
    /\ IF call'[w].mine = Nobody THEN page'.owner = page.owner /\ page'.stage = page.stage
       ELSE page'.owner = call'[w].mine /\ page'.stage = "growth"
StandaloneBegins(w) ==
    /\ GrowthBegins(w) /\ IsNextCall(w)
    /\ call'[w].mode = "growth"
    /\ call'[w].mine = IF page.owner.kind = "main" THEN Nobody ELSE Standalone(page'.growthToken)
    /\ page'.rebalance = page.rebalance /\ page'.comparison = page.comparison /\ page'.comparisonError = page.comparisonError
WorkflowGrows(w) ==
    /\ GrowthBegins(w) /\ AtMain(w) /\ IsCurrent(w)
    /\ call[w].mode = "rebalance" /\ call'[w].mode = "rebalance" /\ call'[w].cmp = call[w].cmp
    /\ call'[w].mine = Main(page.generation)
    /\ page'.rebalance = w
    /\ call[w].cmp => IF "comparison" \in call'[w].failed THEN page'.comparisonError = w ELSE page'.comparison = w

LEMMA InGrowthMeans ==
  ASSUME NEW s, IsPage(s), NEW c \in Call, NEW owner \in Owners, NEW d, d = InGrowth(s, c, owner)
  PROVE  /\ d \in Call /\ d.at = "growth" /\ d.token = s.growthToken + 1 /\ d.mine = Reporter(s, owner)
         /\ d.mode = c.mode /\ d.cmp = c.cmp /\ d.generation = c.generation /\ d.failed = c.failed
<1>1. Reporter(s, owner) \in Owners
  BY DEF Reporter, Nobody, Standalone, Owners, IsPage
<1>2. s.growthToken + 1 \in Nat
  BY DEF IsPage
<1>3. d = [c EXCEPT !.at = "growth", !.token = s.growthToken + 1, !.mine = Reporter(s, owner)]
  BY DEF InGrowth
<1>4. QED
  BY <1>1, <1>2, <1>3 DEF Call

LEMMA CalledGrowth ==
  ASSUME PageTypes, NEW w \in Calls, IsNextCall(w), NEW cmp \in BOOLEAN, Called(page, w, "growth", cmp)
  PROVE  StandaloneBegins(w) /\ Publishes(w) /\ (Together(page) => Together(page'))
<1> DEFINE new == [call[w] EXCEPT !.mode = "growth", !.cmp = cmp /\ "growth" # "sweep", !.at = "main"]
           c == [new EXCEPT !.generation = page.generation]
           d == InGrowth(page, c, Nobody)
<1>1. page' = GrowthBegun(page, w, Nobody) /\ call' = [call EXCEPT ![w] = d]
  BY DEF Called
<1>2. Nobody \in Owners
  BY DEF Nobody, Owners
<1>3. BegunFrom(page', page, w, Nobody)
  BY <1>1, <1>2, GrowthBegunMeans DEF PageTypes
<1>4. call[w] \in Call
  BY DEF PageTypes
<1>5. new \in Call /\ new.mode = "growth"
  BY <1>4 DEF Call, Modes
<1> HIDE DEF new
<1>6. c \in Call /\ c.mode = "growth" /\ c.generation = page.generation
  BY <1>5 DEF Call, PageTypes, IsPage
<1> HIDE DEF c
<1>7. /\ d \in Call /\ d.at = "growth" /\ d.token = page.growthToken + 1 /\ d.mine = Reporter(page, Nobody)
      /\ d.mode = c.mode /\ d.generation = c.generation
  BY <1>2, <1>6, InGrowthMeans DEF PageTypes
<1> HIDE DEF d
<1>8. OnlyCall(w) /\ call'[w] = d
  BY <1>1, <1>7 DEF PageTypes, OnlyCall
<1>9. /\ page'.generation = page.generation /\ page'.mainController = page.mainController /\ page'.busy = page.busy
      /\ page'.done = page.done /\ page'.result = page.result /\ page'.rebalance = page.rebalance
      /\ page'.comparison = page.comparison /\ page'.comparisonError = page.comparisonError /\ page'.error = page.error
      /\ page'.growth = page.growth
  BY <1>3 DEF BegunFrom, Keeps, Fields
<1>10. d.mine = IF page.owner.kind = "main" THEN Nobody ELSE Standalone(page'.growthToken)
  BY <1>3, <1>7 DEF BegunFrom, Reporter
<1>11. GrowthBegins(w)
  BY <1>3, <1>6, <1>7, <1>8, <1>9 DEF BegunFrom, GrowthBegins
<1>12. StandaloneBegins(w)
  BY <1>6, <1>7, <1>8, <1>9, <1>10, <1>11 DEF StandaloneBegins
<1>13. Publishes(w)
  BY <1>3, <1>9 DEF BegunFrom, Publishes
<1>14. QED
  BY <1>1, <1>2, <1>12, <1>13, BegunTogether DEF PageTypes

\* Of the pages that GoesOn starts from.
LEMMA GoesOnBegins ==
  ASSUME PageTypes, NEW s, IsPage(s), Keeps(s, page, {"rebalance", "comparison", "comparisonError", "rebalanceKey"}),
         NEW w \in Calls, AtMain(w), IsCurrent(w), call[w].mode = "rebalance", page.owner = Main(page.generation),
         s.rebalance = w, s.comparison \in {page.comparison, 0, w}, NEW failed \in SUBSET {"comparison"}, NEW compared,
         call[w].cmp => IF "comparison" \in failed THEN s.comparisonError = w ELSE s.comparison = w,
         GoesOn(s, w, compared, failed)
  PROVE  WorkflowGrows(w) /\ Publishes(w) /\ (Together(s) => Together(page'))
<1> DEFINE t == [s EXCEPT !.runs = Appended(@, w, compared)]
           d == InGrowth(t, call[w], Main(s.generation))
           e == [d EXCEPT !.failed = failed]
<1>1. page' = GrowthBegun(t, w, Main(s.generation)) /\ call' = [call EXCEPT ![w] = e]
  BY DEF GoesOn
<1>2. IsPage(t)
  BY DEF IsPage, Fields
<1>3. Keeps(t, s, {"runs"})
  BY DEF IsPage, Keeps, Fields
<1> HIDE DEF t
<1>4. /\ t.generation = s.generation /\ s.generation = page.generation /\ t.growthToken = page.growthToken
      /\ t.mainController = page.mainController /\ t.growthController = page.growthController /\ t.aborted = page.aborted
      /\ t.busy = page.busy /\ t.done = page.done /\ t.result = page.result /\ t.error = page.error /\ t.growth = page.growth
      /\ t.rebalance = s.rebalance /\ t.comparison = s.comparison /\ t.comparisonError = s.comparisonError
  BY <1>3 DEF Keeps, Fields
<1>5. Main(s.generation) \in Owners /\ Main(s.generation) # Nobody
  BY DEF Main, Owners, Nobody, IsPage
<1>6. BegunFrom(page', t, w, Main(s.generation))
  BY <1>1, <1>2, <1>5, GrowthBegunMeans
<1>7. Reporter(t, Main(s.generation)) = Main(page.generation)
  BY <1>4, <1>5 DEF Reporter
<1>8. call[w] \in Call
  BY DEF PageTypes
<1>9. /\ d \in Call /\ d.at = "growth" /\ d.token = t.growthToken + 1 /\ d.mine = Main(page.generation)
      /\ d.mode = call[w].mode /\ d.cmp = call[w].cmp /\ d.generation = call[w].generation
  BY <1>2, <1>5, <1>7, <1>8, InGrowthMeans
<1> HIDE DEF d
<1>10. /\ e \in Call /\ e.at = "growth" /\ e.token = t.growthToken + 1 /\ e.mine = Main(page.generation)
       /\ e.mode = call[w].mode /\ e.cmp = call[w].cmp /\ e.generation = call[w].generation /\ e.failed = failed
  BY <1>9 DEF Call
<1> HIDE DEF e
<1>11. OnlyCall(w) /\ call'[w] = e
  BY <1>1, <1>10 DEF PageTypes, OnlyCall
<1>12. /\ page'.generation = t.generation /\ page'.mainController = t.mainController /\ page'.busy = t.busy
       /\ page'.done = t.done /\ page'.result = t.result /\ page'.rebalance = t.rebalance
       /\ page'.comparison = t.comparison /\ page'.comparisonError = t.comparisonError /\ page'.error = t.error
       /\ page'.growth = t.growth
  BY <1>6 DEF BegunFrom, Keeps, Fields
<1>13. Main(page.generation) # Nobody
  BY <1>4, <1>5
<1>14. GrowthBegins(w)
  BY <1>4, <1>6, <1>7, <1>10, <1>11, <1>12, <1>13 DEF BegunFrom, GrowthBegins, IsCurrent
<1>15. WorkflowGrows(w)
  BY <1>4, <1>10, <1>11, <1>12, <1>14 DEF WorkflowGrows
<1>16. Publishes(w)
  BY <1>4, <1>6, <1>12 DEF BegunFrom, Publishes
<1>17. Together(s) => Together(page')
  <2>1. Together(s) => Together(t)
    <3>1. /\ t.sweepKey = s.sweepKey /\ t.result = s.result /\ t.rebalanceKey = s.rebalanceKey /\ t.rebalance = s.rebalance
          /\ t.growthKey = s.growthKey /\ t.growth = s.growth /\ t.comparison = s.comparison /\ t.comparisonError = s.comparisonError
          /\ t.comparisonGrowth = s.comparisonGrowth /\ t.comparisonGrowthError = s.comparisonGrowthError
          /\ t.snapshot = s.snapshot /\ t.growthError = s.growthError
      BY <1>3 DEF Keeps, Fields
    <3>2. QED
      BY <3>1 DEF Together
  <2>2. QED
    BY <1>1, <1>2, <1>5, <2>1, BegunTogether
<1>18. QED
  BY <1>15, <1>16, <1>17

-----------------------------------------------------------------------------
\* A call goes on or ends, and begins nothing.
Proceeds(w) ==
    /\ OnlyCall(w) /\ IsPage(page')
    /\ page'.generation = page.generation /\ page'.growthToken = page.growthToken
    /\ page'.mainController = page.mainController /\ page'.growthController = page.growthController
    /\ page'.aborted = page.aborted
    /\ CallInFlight(w)
    /\ call'[w].mode = call[w].mode /\ call'[w].cmp = call[w].cmp /\ call'[w].generation = call[w].generation
    /\ call'[w].token = call[w].token /\ call'[w].mine = call[w].mine /\ call'[w].failed = call[w].failed
    /\ \/ call'[w].at = "ended"
       \/ call[w].at = "main" /\ call[w].mode = "rebalance" /\ call'[w].at = "comparison"
       \/ call[w].at = "growth" /\ call'[w].at = "growthComparison"
Compares(w) ==
    /\ Proceeds(w) /\ call[w].at = "main" /\ call'[w].at = "comparison" /\ call[w].mode = "rebalance" /\ IsCurrent(w)
    /\ page'.busy = page.busy /\ page'.growthBusy = page.growthBusy /\ page'.owner = page.owner /\ page'.done = page.done
    /\ page'.stage = "comparison"
    /\ page'.rebalance = w /\ page'.comparison = 0 /\ page'.comparisonError = 0
    /\ page'.growth = page.growth /\ page'.snapshot = page.snapshot /\ page'.growthError = page.growthError
    /\ page'.comparisonGrowth = page.comparisonGrowth /\ page'.comparisonGrowthError = page.comparisonGrowthError
GrowthCompares(w) ==
    /\ Proceeds(w) /\ call[w].at = "growth" /\ call'[w].at = "growthComparison" /\ IsLive(w)
    /\ page'.busy = page.busy /\ page'.growthBusy = page.growthBusy /\ page'.owner = page.owner /\ page'.done = page.done
    /\ page'.stage = IF page.owner = call[w].mine THEN "growthComparison" ELSE page.stage
    /\ page'.rebalance = page.rebalance /\ page'.comparison = page.comparison /\ page'.comparisonError = page.comparisonError
    /\ page'.growth = w

\* What a growth that ends shows, when it names failed stages.
GrowthShown(s, w, failed) ==
    IsLive(w) => /\ IF "growth" \in failed THEN s.growthError = w ELSE s.growth = w
                 /\ (call[w].cmp /\ "growth" \notin failed) =>
                       IF "growthComparison" \in failed THEN s.comparisonGrowthError = w ELSE s.comparisonGrowth = w
GrowthStages == {"growth", "growthComparison"}
EndsShown(w, failed) ==
    \/ call[w].mode = "sweep" /\ page'.result = w
    \/ /\ Growing(w)
       /\ \E F \in SUBSET GrowthStages : GrowthShown(page', w, F) /\ failed = IF IsWorkflow(w) THEN F \cup call[w].failed ELSE F
CallEnds(w) ==
    /\ Proceeds(w) /\ call'[w].at = "ended"
    /\ page'.rebalance = page.rebalance /\ page'.comparison = page.comparison /\ page'.comparisonError = page.comparisonError
    /\ ~(Growing(w) /\ IsLive(w)) =>
          /\ page'.growth = page.growth /\ page'.snapshot = page.snapshot /\ page'.growthError = page.growthError
          /\ page'.comparisonGrowth = page.comparisonGrowth /\ page'.comparisonGrowthError = page.comparisonGrowthError
    /\ page'.growthBusy = IF Growing(w) /\ IsLatest(w) THEN FALSE ELSE page.growthBusy
    /\ page'.done # page.done =>
          /\ page'.done.call = w
          /\ page'.done.outcome \in {"ok", "partial"} => EndsShown(w, page'.done.failed)
WorkflowEnds(w) ==
    /\ CallEnds(w) /\ IsWorkflow(w)
    /\ IF IsCurrent(w) THEN page'.busy = FALSE /\ page'.owner = Nobody
       ELSE /\ page'.busy = page.busy /\ page'.owner = page.owner /\ page'.stage = page.stage
            /\ page'.done = page.done
StandaloneEnds(w) ==
    /\ CallEnds(w) /\ call[w].mode = "growth" /\ Growing(w)
    /\ page'.busy = page.busy
    /\ IF IsLatest(w) /\ call[w].mine # Nobody /\ page.owner = call[w].mine THEN page'.owner = Nobody
       ELSE page'.owner = page.owner /\ page'.stage = page.stage /\ page'.done = page.done

LEMMA CallMoves ==
  ASSUME PageTypes, NEW w \in Calls, NEW at \in {"ended", "comparison", "growthComparison"}, call' = [call EXCEPT ![w].at = at]
  PROVE  /\ OnlyCall(w) /\ call'[w].at = at
         /\ call'[w].mode = call[w].mode /\ call'[w].cmp = call[w].cmp /\ call'[w].generation = call[w].generation
         /\ call'[w].token = call[w].token /\ call'[w].mine = call[w].mine /\ call'[w].failed = call[w].failed
<1> DEFINE c == [call[w] EXCEPT !.at = at]
<1>1. call[w] \in Call
  BY DEF PageTypes
<1>2. /\ c \in Call /\ c.at = at /\ c.mode = call[w].mode /\ c.cmp = call[w].cmp /\ c.generation = call[w].generation
      /\ c.token = call[w].token /\ c.mine = call[w].mine /\ c.failed = call[w].failed
  BY <1>1 DEF Call
<1>3. call' = [call EXCEPT ![w] = c]
  OBVIOUS
<1> HIDE DEF c
<1>4. QED
  BY <1>2, <1>3 DEF PageTypes, OnlyCall

GrowthFields == {"growth", "snapshot", "growthKey", "growthError", "comparisonGrowth", "comparisonGrowthError"}

LEMMA GrowthEndsMeans ==
  ASSUME PageTypes, NEW w \in Calls, Growing(w), call[w].mode \in {"rebalance", "growth"},
         call[w].mode = "rebalance" /\ IsCurrent(w) => page.owner = Main(page.generation),
         NEW s, IsPage(s), Keeps(s, page, GrowthFields), ~IsLive(w) => s = page,
         NEW outcome \in {"ok", "error"}, NEW failed \in SUBSET GrowthStages, GrowthShown(s, w, failed),
         s.growth \in {page.growth, 0, w} /\ s.comparisonGrowth \in {page.comparisonGrowth, 0, w} /\ s.growthError \in {page.growthError, 0, w},
         GrowthEnds(s, w, outcome, failed)
  PROVE  (WorkflowEnds(w) \/ StandaloneEnds(w)) /\ Publishes(w) /\ (Together(s) => Together(page'))
<1> DEFINE quiet == IF IsLast(s, w) THEN [s EXCEPT !.growthBusy = FALSE] ELSE s
<1>1. IsPage(quiet) /\ quiet.growthBusy = IF call[w].token = s.growthToken THEN FALSE ELSE s.growthBusy
  BY DEF IsPage, Fields, IsLast
<1>2. Keeps(quiet, s, {"growthBusy"})
  BY DEF IsPage, Keeps, Fields
<1>3. /\ page' = IF call[w].mode = "growth"
                 THEN IF IsLast(s, w) /\ call[w].mine # Nobody
                      THEN FinishProgress(quiet, call[w].mine, w, outcome, IF outcome = "ok" THEN failed ELSE {}) ELSE quiet
                 ELSE Concluded(quiet, w, "ok", failed \cup call[w].failed)
      /\ call' = [call EXCEPT ![w].at = "ended"]
  BY DEF GrowthEnds, Ends
<1> HIDE DEF quiet
<1>4. /\ OnlyCall(w) /\ call'[w].at = "ended"
      /\ call'[w].mode = call[w].mode /\ call'[w].cmp = call[w].cmp /\ call'[w].generation = call[w].generation
      /\ call'[w].token = call[w].token /\ call'[w].mine = call[w].mine /\ call'[w].failed = call[w].failed
  BY <1>3, CallMoves
<1>5. IsPage(page') /\ Keeps(page', quiet, {"busy", "owner", "stage", "done"})
  <2>1. CASE call[w].mode = "growth" /\ IsLast(s, w) /\ call[w].mine # Nobody
    <3>1. FinishedFrom(page', quiet, call[w].mine, w, outcome, IF outcome = "ok" THEN failed ELSE {})
      BY <1>1, <1>3, <2>1, FinishMeans
    <3>2. QED
      BY <3>1 DEF FinishedFrom, Keeps
  <2>2. CASE call[w].mode = "growth" /\ ~(IsLast(s, w) /\ call[w].mine # Nobody)
    BY <1>1, <1>3, <2>2 DEF Keeps
  <2>3. CASE call[w].mode # "growth"
    <3>1. ConcludedFrom(page', quiet, w, "ok", failed \cup call[w].failed)
      BY <1>1, <1>3, <2>3, ConcludedMeans
    <3>2. QED
      BY <3>1 DEF ConcludedFrom
  <2>4. QED
    BY <2>1, <2>2, <2>3
<1>6. Keeps(page', s, {"busy", "owner", "stage", "done", "growthBusy"})
  BY <1>2, <1>5 DEF Keeps
<1>19. ~IsLive(w) => s.growthError = page.growthError
  OBVIOUS
<1>7. /\ s.generation = page.generation /\ s.growthToken = page.growthToken /\ s.mainController = page.mainController
      /\ s.growthController = page.growthController /\ s.aborted = page.aborted /\ s.rebalance = page.rebalance
      /\ s.comparison = page.comparison /\ s.comparisonError = page.comparisonError /\ s.result = page.result /\ s.error = page.error
      /\ s.busy = page.busy /\ s.owner = page.owner /\ s.stage = page.stage /\ s.done = page.done /\ s.growthBusy = page.growthBusy
  BY DEF Keeps, Fields, GrowthFields
<1>8. /\ page'.generation = s.generation /\ page'.growthToken = s.growthToken /\ page'.mainController = s.mainController
      /\ page'.growthController = s.growthController /\ page'.aborted = s.aborted /\ page'.rebalance = s.rebalance
      /\ page'.comparison = s.comparison /\ page'.comparisonError = s.comparisonError /\ page'.result = s.result /\ page'.error = s.error
      /\ page'.growth = s.growth /\ page'.growthError = s.growthError /\ page'.snapshot = s.snapshot
      /\ page'.comparisonGrowth = s.comparisonGrowth /\ page'.comparisonGrowthError = s.comparisonGrowthError
      /\ page'.sweepKey = s.sweepKey /\ page'.rebalanceKey = s.rebalanceKey /\ page'.growthKey = s.growthKey
  BY <1>6 DEF Keeps, Fields
<1>9. page'.growthBusy = IF Growing(w) /\ IsLatest(w) THEN FALSE ELSE page.growthBusy
  <2>1. page'.growthBusy = quiet.growthBusy
    BY <1>5 DEF Keeps, Fields
  <2>2. QED
    BY <1>1, <1>7, <2>1 DEF IsLatest
<1>10. /\ quiet.busy = page.busy /\ quiet.owner = page.owner /\ quiet.stage = page.stage /\ quiet.done = page.done
       /\ quiet.generation = page.generation
  <2>1. quiet.busy = s.busy /\ quiet.owner = s.owner /\ quiet.stage = s.stage /\ quiet.done = s.done /\ quiet.generation = s.generation
    BY <1>2 DEF Keeps, Fields
  <2>2. QED
    BY <1>7, <2>1
<1>11. Proceeds(w)
  BY <1>4, <1>5, <1>7, <1>8 DEF Proceeds, CallInFlight, Growing
<1>12. Publishes(w)
  BY <1>7, <1>8 DEF Publishes, IsLive
<1>13. Together(s) => Together(page')
  BY <1>8 DEF Together
<1>14. GrowthShown(page', w, failed)
  BY <1>8 DEF GrowthShown
<1>15. /\ page'.rebalance = page.rebalance /\ page'.comparison = page.comparison /\ page'.comparisonError = page.comparisonError
       /\ ~(Growing(w) /\ IsLive(w)) =>
             /\ page'.growth = page.growth /\ page'.snapshot = page.snapshot /\ page'.growthError = page.growthError
             /\ page'.comparisonGrowth = page.comparisonGrowth /\ page'.comparisonGrowthError = page.comparisonGrowthError
  BY <1>7, <1>8
<1>16. CASE call[w].mode = "rebalance"
  <2>1. ConcludedFrom(page', quiet, w, "ok", failed \cup call[w].failed)
    BY <1>1, <1>3, <1>16, ConcludedMeans
  <2>2. IsWorkflow(w)
    BY <1>16 DEF IsWorkflow
  <2>3. page'.done # page.done => page'.done.call = w /\ page'.done.failed = failed \cup call[w].failed
    BY <1>10, <1>16, <2>1 DEF ConcludedFrom, IsCurrent
  <2>4. EndsShown(w, failed \cup call[w].failed)
    BY <1>14, <2>2 DEF EndsShown
  <2>5. CallEnds(w)
    BY <1>4, <1>9, <1>11, <1>15, <2>3, <2>4 DEF CallEnds
  <2>6. IF IsCurrent(w) THEN page'.busy = FALSE /\ page'.owner = Nobody
        ELSE page'.busy = page.busy /\ page'.owner = page.owner /\ page'.stage = page.stage /\ page'.done = page.done
    BY <1>10, <1>16, <2>1 DEF ConcludedFrom, IsCurrent
  <2>7. WorkflowEnds(w)
    BY <2>2, <2>5, <2>6 DEF WorkflowEnds
  <2>8. QED
    BY <1>12, <1>13, <2>7
<1>17. CASE call[w].mode = "growth"
  <2>1. ~IsWorkflow(w)
    BY <1>17 DEF IsWorkflow
  <2>2. EndsShown(w, failed)
    BY <1>14, <2>1 DEF EndsShown
  <2>3. CASE ~(IsLatest(w) /\ call[w].mine # Nobody /\ page.owner = call[w].mine)
    <3>1. page' = quiet
      <4>1. CASE IsLast(s, w) /\ call[w].mine # Nobody
        <5>1. FinishedFrom(page', quiet, call[w].mine, w, outcome, IF outcome = "ok" THEN failed ELSE {})
          BY <1>1, <1>3, <1>17, <4>1, FinishMeans
        <5>2. QED
          BY <1>7, <1>10, <2>3, <4>1, <5>1 DEF FinishedFrom, IsLast, IsLatest
      <4>2. CASE ~(IsLast(s, w) /\ call[w].mine # Nobody)
        BY <1>3, <1>17, <4>2
      <4>3. QED
        BY <4>1, <4>2
    <3>2. page'.done = page.done /\ page'.busy = page.busy /\ page'.owner = page.owner /\ page'.stage = page.stage
      BY <1>10, <3>1
    <3>3. CallEnds(w)
      BY <1>4, <1>9, <1>11, <1>15, <3>2 DEF CallEnds
    <3>4. StandaloneEnds(w)
      BY <1>17, <2>3, <3>2, <3>3 DEF StandaloneEnds
    <3>5. QED
      BY <1>12, <1>13, <3>4
  <2>4. CASE IsLatest(w) /\ call[w].mine # Nobody /\ page.owner = call[w].mine
    <3>1. IsLast(s, w)
      BY <1>7, <2>4 DEF IsLast, IsLatest
    <3>2. FinishedFrom(page', quiet, call[w].mine, w, outcome, IF outcome = "ok" THEN failed ELSE {})
      BY <1>1, <1>3, <1>17, <2>4, <3>1, FinishMeans
    <3>3. /\ page'.owner = Nobody
          /\ page'.done = [call |-> w, failed |-> IF outcome = "ok" THEN failed ELSE {},
                           outcome |-> IF outcome = "ok" /\ (IF outcome = "ok" THEN failed ELSE {}) # {} THEN "partial" ELSE outcome]
      BY <1>10, <2>4, <3>2 DEF FinishedFrom
    <3>4. page'.done.call = w /\ (page'.done.outcome \in {"ok", "partial"} => page'.done.failed = failed)
      BY <3>3
    <3>5. page'.busy = page.busy
      <4>1. page'.busy = quiet.busy
        BY <3>2 DEF FinishedFrom, Keeps, Fields
      <4>2. QED
        BY <1>10, <4>1
    <3>6. CallEnds(w)
      BY <1>4, <1>9, <1>11, <1>15, <2>2, <3>4 DEF CallEnds
    <3>7. StandaloneEnds(w)
      BY <1>17, <2>4, <3>3, <3>5, <3>6 DEF StandaloneEnds
    <3>8. QED
      BY <1>12, <1>13, <3>7
  <2>5. QED
    BY <2>3, <2>4
<1>18. QED
  BY <1>16, <1>17

\* What the invariant says of the page before an answer.
\* The part of the invariant that says what an answer finds.
Expected ==
    /\ PageTypes
    /\ \A w \in Calls :
         /\ call[w].mode = "none" => call[w].at = "ended"
         /\ AtMain(w) => IsWorkflow(w)
         /\ call[w].mode = "sweep" => call[w].at \in {"main", "ended"}
         /\ (IsWorkflow(w) /\ CallInFlight(w) /\ IsCurrent(w)) => page.owner = Main(page.generation)
         /\ (call[w].at = "comparison" /\ IsCurrent(w)) => page.rebalance = w /\ page.comparison = 0 /\ page.comparisonError = 0
         /\ (call[w].at = "growth" /\ IsLive(w)) =>
               page.snapshot = 0 /\ page.comparisonGrowth = 0 /\ page.comparisonGrowthError = 0 /\ page.growthError = 0
         /\ (call[w].at = "growthComparison" /\ IsLive(w)) => page.growth = w
         /\ (Growing(w) /\ IsWorkflow(w) /\ IsCurrent(w)) => page.rebalance = w

LEMMA MainAnswersMeans ==
  ASSUME Expected, NEW w \in Calls, NEW ok \in BOOLEAN, MainAnswers(w, ok)
  PROVE  WorkflowEnds(w) /\ Publishes(w) /\ (Together(page) => Together(page'))
<1> DEFINE s == IF ~IsCurrent(w) THEN page ELSE IF ok THEN [page EXCEPT !.result = w, !.sweepKey = w] ELSE [page EXCEPT !.error = w]
           outcome == IF ok THEN "ok" ELSE "error"
<1>1. /\ call[w].at = "main" /\ IsWorkflow(w) /\ (call[w].mode = "sweep" \/ ~ok)
      /\ page' = Concluded(s, w, outcome, {})
      /\ call' = [call EXCEPT ![w].at = "ended"]
  BY DEF MainAnswers, Expected, AtMain, Ends
<1>2. IsPage(s) /\ s.generation = page.generation
  BY DEF Expected, PageTypes, IsPage, Fields
<1>3. Keeps(s, page, {"result", "sweepKey", "error"})
  BY DEF Expected, PageTypes, IsPage, Keeps, Fields
<1>4. /\ IsCurrent(w) /\ ok => s.result = w /\ s.sweepKey = w /\ s.error = page.error
      /\ IsCurrent(w) /\ ~ok => s.result = page.result /\ s.sweepKey = page.sweepKey /\ s.error = w
      /\ ~IsCurrent(w) => s = page
  BY DEF Expected, PageTypes, IsPage, Fields
<1> HIDE DEF s
<1>5. ConcludedFrom(page', s, w, outcome, {})
  BY <1>1, <1>2, ConcludedMeans
<1>6. /\ OnlyCall(w) /\ call'[w].at = "ended"
      /\ call'[w].mode = call[w].mode /\ call'[w].cmp = call[w].cmp /\ call'[w].generation = call[w].generation
      /\ call'[w].token = call[w].token /\ call'[w].mine = call[w].mine /\ call'[w].failed = call[w].failed
  BY <1>1, CallMoves DEF Expected
<1>7. /\ s.growthToken = page.growthToken /\ s.mainController = page.mainController
      /\ s.growthController = page.growthController /\ s.aborted = page.aborted /\ s.rebalance = page.rebalance
      /\ s.comparison = page.comparison /\ s.comparisonError = page.comparisonError
      /\ s.busy = page.busy /\ s.owner = page.owner /\ s.stage = page.stage /\ s.done = page.done /\ s.growthBusy = page.growthBusy
      /\ s.growth = page.growth /\ s.growthError = page.growthError /\ s.snapshot = page.snapshot
      /\ s.comparisonGrowth = page.comparisonGrowth /\ s.comparisonGrowthError = page.comparisonGrowthError
      /\ s.rebalanceKey = page.rebalanceKey /\ s.growthKey = page.growthKey
  BY <1>3 DEF Keeps, Fields
<1>8. /\ page'.generation = s.generation /\ page'.growthToken = s.growthToken /\ page'.mainController = s.mainController
      /\ page'.growthController = s.growthController /\ page'.aborted = s.aborted /\ page'.rebalance = s.rebalance
      /\ page'.comparison = s.comparison /\ page'.comparisonError = s.comparisonError /\ page'.result = s.result /\ page'.error = s.error
      /\ page'.growth = s.growth /\ page'.growthError = s.growthError /\ page'.snapshot = s.snapshot
      /\ page'.comparisonGrowth = s.comparisonGrowth /\ page'.comparisonGrowthError = s.comparisonGrowthError
      /\ page'.sweepKey = s.sweepKey /\ page'.rebalanceKey = s.rebalanceKey /\ page'.growthKey = s.growthKey
      /\ page'.growthBusy = s.growthBusy
  BY <1>5 DEF ConcludedFrom, Keeps, Fields
<1>9. IsPage(page') /\ CallInFlight(w) /\ ~Growing(w)
  BY <1>1, <1>5 DEF ConcludedFrom, CallInFlight, Growing
<1>10. Proceeds(w)
  BY <1>2, <1>6, <1>7, <1>8, <1>9 DEF Proceeds
<1>11. Publishes(w)
  BY <1>4, <1>7, <1>8 DEF Publishes
<1>12. Together(page) => Together(page')
  <2>1. page'.sweepKey = page'.result \/ page.sweepKey # page.result
    BY <1>4, <1>8
  <2>2. QED
    BY <1>7, <1>8, <2>1 DEF Together
<1>13. page'.done # page.done => /\ page'.done.call = w
                                 /\ page'.done.outcome \in {"ok", "partial"} => EndsShown(w, page'.done.failed)
  <2>1. SUFFICES ASSUME page'.done # page.done
                 PROVE  page'.done.call = w /\ (page'.done.outcome \in {"ok", "partial"} => EndsShown(w, page'.done.failed))
    OBVIOUS
  <2>2. IsCurrent(w) /\ page'.done = [call |-> w, failed |-> {}, outcome |-> IF outcome = "ok" /\ {} # {} THEN "partial" ELSE outcome]
    BY <1>2, <1>5, <1>7, <2>1 DEF ConcludedFrom, IsCurrent
  <2>3. page'.done.call = w /\ page'.done.outcome = outcome
    BY <2>2
  <2>4. ok => EndsShown(w, page'.done.failed)
    BY <1>1, <1>4, <1>8, <2>2 DEF EndsShown
  <2>5. QED
    BY <2>3, <2>4
<1>14. CallEnds(w)
  BY <1>6, <1>7, <1>8, <1>9, <1>10, <1>13 DEF CallEnds
<1>15. IF IsCurrent(w) THEN page'.busy = FALSE /\ page'.owner = Nobody
       ELSE page'.busy = page.busy /\ page'.owner = page.owner /\ page'.stage = page.stage /\ page'.done = page.done
  <2>1. IsCurrent(w) => page.owner = Main(page.generation)
    BY <1>1, <1>9 DEF Expected
  <2>2. QED
    BY <1>2, <1>4, <1>5, <1>7, <2>1 DEF ConcludedFrom, IsCurrent
<1>16. QED
  BY <1>1, <1>11, <1>12, <1>14, <1>15 DEF WorkflowEnds

\* A workflow that was overtaken ends without a trace.
LEMMA OvertakenMeans ==
  ASSUME Expected, NEW w \in Calls, AtMain(w), ~IsCurrent(w), UNCHANGED page, call' = [call EXCEPT ![w] = Ends(@)]
  PROVE  WorkflowEnds(w) /\ Publishes(w) /\ (Together(page) => Together(page'))
<1>1. call' = [call EXCEPT ![w].at = "ended"]
  BY DEF Ends
<1>2. /\ OnlyCall(w) /\ call'[w].at = "ended"
      /\ call'[w].mode = call[w].mode /\ call'[w].cmp = call[w].cmp /\ call'[w].generation = call[w].generation
      /\ call'[w].token = call[w].token /\ call'[w].mine = call[w].mine /\ call'[w].failed = call[w].failed
  BY <1>1, CallMoves DEF Expected
<1>3. CallInFlight(w) /\ ~Growing(w) /\ IsWorkflow(w) /\ IsPage(page')
  BY DEF AtMain, CallInFlight, Growing, Expected, PageTypes
<1>4. Proceeds(w)
  BY <1>2, <1>3 DEF Proceeds
<1>5. CallEnds(w)
  BY <1>2, <1>3, <1>4 DEF CallEnds
<1>6. QED
  BY <1>3, <1>5 DEF WorkflowEnds, Publishes

LEMMA WithRebalanceMeans ==
  ASSUME PageTypes, NEW w, NEW s, s = WithRebalance(w)
  PROVE  /\ IsPage(s) /\ Keeps(s, page, {"rebalance", "comparison", "comparisonError", "rebalanceKey"})
         /\ s.rebalance = w /\ s.rebalanceKey = w /\ s.comparison = 0 /\ s.comparisonError = 0
         /\ Together(page) => Together(s)
<1>1. s = [page EXCEPT !.rebalance = w, !.comparison = 0, !.comparisonError = 0, !.rebalanceKey = w]
  BY DEF WithRebalance
<1>2. IsPage(s) /\ s.rebalance = w /\ s.rebalanceKey = w /\ s.comparison = 0 /\ s.comparisonError = 0
  BY <1>1 DEF PageTypes, IsPage, Fields
<1>3. Keeps(s, page, {"rebalance", "comparison", "comparisonError", "rebalanceKey"})
  BY <1>1 DEF PageTypes, IsPage, Keeps, Fields
<1>4. /\ s.sweepKey = page.sweepKey /\ s.result = page.result /\ s.growthKey = page.growthKey /\ s.growth = page.growth
      /\ s.comparisonGrowth = page.comparisonGrowth /\ s.comparisonGrowthError = page.comparisonGrowthError
      /\ s.snapshot = page.snapshot /\ s.growthError = page.growthError
  BY <1>3 DEF Keeps, Fields
<1>5. Together(page) => Together(s)
  BY <1>2, <1>4 DEF Together
<1>6. QED
  BY <1>2, <1>3, <1>5

LEMMA RebalanceMeans ==
  ASSUME Expected, NEW w \in Calls, RebalanceAnswers(w)
  PROVE  /\ WorkflowEnds(w) \/ WorkflowGrows(w) \/ Compares(w)
         /\ Publishes(w) /\ (Together(page) => Together(page'))
<1> DEFINE s == WithRebalance(w)
<1>1. /\ IsPage(s) /\ Keeps(s, page, {"rebalance", "comparison", "comparisonError", "rebalanceKey"})
      /\ s.rebalance = w /\ s.rebalanceKey = w /\ s.comparison = 0 /\ s.comparisonError = 0
      /\ Together(page) => Together(s)
  BY WithRebalanceMeans DEF Expected
<1>2. call[w].at = "main" /\ call[w].mode = "rebalance" /\ PageTypes /\ AtMain(w)
      /\ (IsCurrent(w) => page.owner = Main(page.generation))
  BY DEF RebalanceAnswers, Expected, IsWorkflow, CallInFlight, AtMain
<1>3. CASE ~IsCurrent(w)
  BY <1>2, <1>3, OvertakenMeans DEF RebalanceAnswers
<1>4. CASE IsCurrent(w) /\ ~call[w].cmp
  <2>1. GoesOn(s, w, FALSE, {})
    BY <1>4 DEF RebalanceAnswers
  <2> HIDE DEF s
  <2>2. WorkflowGrows(w) /\ Publishes(w) /\ (Together(s) => Together(page'))
    BY <1>1, <1>2, <1>4, <2>1, GoesOnBegins
  <2>3. QED
    BY <1>1, <2>2
<1>5. CASE IsCurrent(w) /\ call[w].cmp
  <2>1. page' = Step(s, Main(page.generation), "comparison") /\ call' = [call EXCEPT ![w].at = "comparison"]
    BY <1>5 DEF RebalanceAnswers
  <2> HIDE DEF s
  <2>2. SteppedFrom(page', s, Main(page.generation), "comparison")
    BY <1>1, <2>1, StepMeans
  <2>3. /\ OnlyCall(w) /\ call'[w].at = "comparison"
        /\ call'[w].mode = call[w].mode /\ call'[w].cmp = call[w].cmp /\ call'[w].generation = call[w].generation
        /\ call'[w].token = call[w].token /\ call'[w].mine = call[w].mine /\ call'[w].failed = call[w].failed
    BY <1>2, <2>1, CallMoves
  <2>4. /\ s.generation = page.generation /\ s.growthToken = page.growthToken /\ s.mainController = page.mainController
        /\ s.growthController = page.growthController /\ s.aborted = page.aborted
        /\ s.busy = page.busy /\ s.owner = page.owner /\ s.done = page.done /\ s.growthBusy = page.growthBusy
        /\ s.growth = page.growth /\ s.growthError = page.growthError /\ s.snapshot = page.snapshot
        /\ s.comparisonGrowth = page.comparisonGrowth /\ s.comparisonGrowthError = page.comparisonGrowthError
        /\ s.result = page.result /\ s.error = page.error
    BY <1>1 DEF Keeps, Fields
  <2>5. /\ page'.generation = s.generation /\ page'.growthToken = s.growthToken /\ page'.mainController = s.mainController
        /\ page'.growthController = s.growthController /\ page'.aborted = s.aborted /\ page'.rebalance = s.rebalance
        /\ page'.comparison = s.comparison /\ page'.comparisonError = s.comparisonError /\ page'.result = s.result /\ page'.error = s.error
        /\ page'.growth = s.growth /\ page'.growthError = s.growthError /\ page'.snapshot = s.snapshot
        /\ page'.comparisonGrowth = s.comparisonGrowth /\ page'.comparisonGrowthError = s.comparisonGrowthError
        /\ page'.sweepKey = s.sweepKey /\ page'.rebalanceKey = s.rebalanceKey /\ page'.growthKey = s.growthKey
        /\ page'.growthBusy = s.growthBusy /\ page'.busy = s.busy /\ page'.owner = s.owner /\ page'.done = s.done
    BY <2>2 DEF SteppedFrom, Keeps, Fields
  <2>6. page'.stage = "comparison"
    BY <1>2, <1>5, <2>2, <2>4 DEF SteppedFrom
  <2>7. Proceeds(w)
    BY <1>2, <2>2, <2>3, <2>4, <2>5 DEF SteppedFrom, Proceeds, CallInFlight
  <2>8. Compares(w)
    BY <1>1, <1>2, <1>5, <2>3, <2>4, <2>5, <2>6, <2>7 DEF Compares
  <2>9. Publishes(w)
    BY <1>1, <1>5, <2>4, <2>5 DEF Publishes
  <2>10. Together(s) => Together(page')
    BY <2>5 DEF Together
  <2>11. QED
    BY <1>1, <2>8, <2>9, <2>10
<1>6. QED
  BY <1>3, <1>4, <1>5

LEMMA ComparisonMeans ==
  ASSUME Expected, NEW w \in Calls, NEW ok \in BOOLEAN, ComparisonAnswers(w, ok)
  PROVE  /\ WorkflowEnds(w) \/ WorkflowGrows(w)
         /\ Publishes(w) /\ (Together(page) => Together(page'))
<1>1. call[w].at = "comparison" /\ call[w].mode = "rebalance" /\ PageTypes /\ AtMain(w)
      /\ (IsCurrent(w) => /\ page.owner = Main(page.generation)
                          /\ page.rebalance = w /\ page.comparison = 0 /\ page.comparisonError = 0)
  BY DEF ComparisonAnswers, Expected, IsWorkflow, CallInFlight, AtMain
<1>2. CASE ~IsCurrent(w)
  BY <1>1, <1>2, OvertakenMeans DEF ComparisonAnswers
<1>3. CASE IsCurrent(w)
  <2> DEFINE s == IF ok THEN [page EXCEPT !.comparison = w] ELSE [page EXCEPT !.comparisonError = w]
             failed == IF ok THEN {} ELSE {"comparison"}
  <2>1. GoesOn(s, w, ok, failed)
    BY <1>3 DEF ComparisonAnswers
  <2>2. /\ IsPage(s)
        /\ s.comparison = IF ok THEN w ELSE page.comparison
        /\ s.comparisonError = IF ok THEN page.comparisonError ELSE w
    BY <1>1 DEF PageTypes, IsPage, Fields
  <2>3. Keeps(s, page, {"comparison", "comparisonError"})
    BY <1>1 DEF PageTypes, IsPage, Keeps, Fields
  <2> HIDE DEF s
  <2>4. Keeps(s, page, {"rebalance", "comparison", "comparisonError", "rebalanceKey"})
    BY <2>3 DEF Keeps
  <2>5. s.rebalance = w
    BY <1>1, <1>3, <2>3 DEF Keeps, Fields
  <2>6. failed \in SUBSET {"comparison"} /\ (IF "comparison" \in failed THEN s.comparisonError = w ELSE s.comparison = w)
    BY <2>2
  <2> HIDE DEF failed
  <2>7. WorkflowGrows(w) /\ Publishes(w) /\ (Together(s) => Together(page'))
    BY <1>1, <1>3, <2>1, <2>2, <2>4, <2>5, <2>6, GoesOnBegins
  <2>8. Together(page) => Together(s)
    <3>1. /\ s.sweepKey = page.sweepKey /\ s.result = page.result /\ s.growthKey = page.growthKey /\ s.growth = page.growth
          /\ s.comparisonGrowth = page.comparisonGrowth /\ s.comparisonGrowthError = page.comparisonGrowthError
          /\ s.snapshot = page.snapshot /\ s.growthError = page.growthError
          /\ s.rebalance = page.rebalance /\ s.rebalanceKey = page.rebalanceKey
      BY <2>3 DEF Keeps, Fields
    <3>2. QED
      BY <1>1, <1>3, <2>2, <3>1 DEF Together
  <2>9. QED
    BY <2>7, <2>8
<1>4. QED
  BY <1>2, <1>3

LEMMA GrowthMeans ==
  ASSUME Expected, NEW w \in Calls, NEW ok \in BOOLEAN, GrowthAnswers(w, ok)
  PROVE  /\ WorkflowEnds(w) \/ StandaloneEnds(w) \/ GrowthCompares(w)
         /\ Publishes(w) /\ (Together(page) => Together(page'))
<1>1. /\ call[w].at = "growth" /\ Growing(w) /\ PageTypes /\ call[w].mode \in {"rebalance", "growth"}
      /\ (call[w].mode = "rebalance" /\ IsCurrent(w)) => page.owner = Main(page.generation)
      /\ IsLive(w) => page.snapshot = 0 /\ page.comparisonGrowth = 0 /\ page.comparisonGrowthError = 0 /\ page.growthError = 0
  <2>1. call[w].at = "growth"
    BY DEF GrowthAnswers
  <2>2. call[w] \in Call
    BY DEF Expected, PageTypes
  <2>3. call[w].mode \in {"rebalance", "growth"}
    BY <2>1, <2>2 DEF Expected, Call, Modes
  <2>4. QED
    BY <2>1, <2>3 DEF Expected, Growing, IsWorkflow, CallInFlight
<1> DEFINE shown == [page EXCEPT !.growth = w, !.snapshot = w, !.growthKey = w]
           fails == [page EXCEPT !.growthError = w, !.growth = 0, !.growthKey = 0]
<1>2. IsPage(shown) /\ shown.growth = w /\ shown.snapshot = w /\ shown.growthKey = w
  BY <1>1 DEF PageTypes, IsPage, Fields
<1>3. Keeps(shown, page, {"growth", "snapshot", "growthKey"})
  BY <1>1 DEF PageTypes, IsPage, Keeps, Fields
<1>4. IsPage(fails) /\ fails.growthError = w /\ fails.growth = 0 /\ fails.growthKey = 0
  BY <1>1 DEF PageTypes, IsPage, Fields
<1>5. Keeps(fails, page, {"growth", "growthError", "growthKey"})
  BY <1>1 DEF PageTypes, IsPage, Keeps, Fields
<1>6. /\ ok /\ IsLive(w) /\ call[w].cmp =>
            page' = Step(shown, call[w].mine, "growthComparison") /\ call' = [call EXCEPT ![w].at = "growthComparison"]
      /\ ok /\ ~(IsLive(w) /\ call[w].cmp) => GrowthEnds(IF IsLive(w) THEN shown ELSE page, w, "ok", {})
      /\ ~ok => GrowthEnds(IF IsLive(w) THEN fails ELSE page, w, "error", {"growth"})
  BY DEF GrowthAnswers
<1> HIDE DEF shown, fails
<1>7. /\ shown.generation = page.generation /\ shown.growthToken = page.growthToken /\ shown.mainController = page.mainController
      /\ shown.growthController = page.growthController /\ shown.aborted = page.aborted
      /\ shown.busy = page.busy /\ shown.owner = page.owner /\ shown.stage = page.stage /\ shown.done = page.done
      /\ shown.growthBusy = page.growthBusy /\ shown.growthError = page.growthError
      /\ shown.comparisonGrowth = page.comparisonGrowth /\ shown.comparisonGrowthError = page.comparisonGrowthError
      /\ shown.result = page.result /\ shown.error = page.error /\ shown.rebalance = page.rebalance
      /\ shown.comparison = page.comparison /\ shown.comparisonError = page.comparisonError
      /\ shown.sweepKey = page.sweepKey /\ shown.rebalanceKey = page.rebalanceKey
  BY <1>3 DEF Keeps, Fields
<1>8. (IsLive(w) /\ Together(page)) => Together(shown)
  BY <1>1, <1>2, <1>7 DEF Together
<1>9. /\ fails.result = page.result /\ fails.rebalance = page.rebalance /\ fails.comparison = page.comparison
      /\ fails.comparisonError = page.comparisonError /\ fails.sweepKey = page.sweepKey /\ fails.rebalanceKey = page.rebalanceKey
      /\ fails.snapshot = page.snapshot /\ fails.comparisonGrowth = page.comparisonGrowth
      /\ fails.comparisonGrowthError = page.comparisonGrowthError
  BY <1>5 DEF Keeps, Fields
<1>10. (IsLive(w) /\ Together(page)) => Together(fails)
  BY <1>1, <1>4, <1>9 DEF Together
<1>11. CASE ok /\ IsLive(w) /\ call[w].cmp
  <2>1. page' = Step(shown, call[w].mine, "growthComparison") /\ call' = [call EXCEPT ![w].at = "growthComparison"]
    BY <1>6, <1>11
  <2>2. SteppedFrom(page', shown, call[w].mine, "growthComparison")
    BY <1>2, <2>1, StepMeans
  <2>3. /\ OnlyCall(w) /\ call'[w].at = "growthComparison"
        /\ call'[w].mode = call[w].mode /\ call'[w].cmp = call[w].cmp /\ call'[w].generation = call[w].generation
        /\ call'[w].token = call[w].token /\ call'[w].mine = call[w].mine /\ call'[w].failed = call[w].failed
    BY <1>1, <2>1, CallMoves
  <2>4. /\ page'.generation = shown.generation /\ page'.growthToken = shown.growthToken /\ page'.mainController = shown.mainController
        /\ page'.growthController = shown.growthController /\ page'.aborted = shown.aborted /\ page'.rebalance = shown.rebalance
        /\ page'.comparison = shown.comparison /\ page'.comparisonError = shown.comparisonError
        /\ page'.result = shown.result /\ page'.error = shown.error
        /\ page'.growth = shown.growth /\ page'.growthError = shown.growthError /\ page'.snapshot = shown.snapshot
        /\ page'.comparisonGrowth = shown.comparisonGrowth /\ page'.comparisonGrowthError = shown.comparisonGrowthError
        /\ page'.sweepKey = shown.sweepKey /\ page'.rebalanceKey = shown.rebalanceKey /\ page'.growthKey = shown.growthKey
        /\ page'.growthBusy = shown.growthBusy /\ page'.busy = shown.busy /\ page'.owner = shown.owner /\ page'.done = shown.done
    BY <2>2 DEF SteppedFrom, Keeps, Fields
  <2>5. page'.stage = IF page.owner = call[w].mine THEN "growthComparison" ELSE page.stage
    BY <1>7, <2>2 DEF SteppedFrom
  <2>6. Proceeds(w)
    BY <1>1, <1>7, <2>2, <2>3, <2>4 DEF SteppedFrom, Proceeds, CallInFlight
  <2>7. GrowthCompares(w)
    BY <1>1, <1>2, <1>7, <1>11, <2>3, <2>4, <2>5, <2>6 DEF GrowthCompares
  <2>8. Publishes(w)
    BY <1>2, <1>7, <1>11, <2>4 DEF Publishes
  <2>9. Together(shown) => Together(page')
    BY <2>4 DEF Together
  <2>10. QED
    BY <1>8, <1>11, <2>7, <2>8, <2>9
<1>12. CASE ok /\ ~(IsLive(w) /\ call[w].cmp)
  <2> DEFINE s == IF IsLive(w) THEN shown ELSE page
  <2>1. GrowthEnds(s, w, "ok", {})
    BY <1>6, <1>12
  <2>2. IsPage(s) /\ (~IsLive(w) => s = page) /\ (Together(page) => Together(s))
    BY <1>1, <1>2, <1>8 DEF PageTypes
  <2>3. Keeps(s, page, GrowthFields)
    BY <1>3 DEF Keeps, GrowthFields
  <2>4. GrowthShown(s, w, {})
    BY <1>2, <1>12 DEF GrowthShown
  <2>5. s.growth \in {page.growth, 0, w} /\ s.comparisonGrowth \in {page.comparisonGrowth, 0, w} /\ s.growthError \in {page.growthError, 0, w}
    BY <1>2, <1>7
  <2> HIDE DEF s
  <2>6. (WorkflowEnds(w) \/ StandaloneEnds(w)) /\ Publishes(w) /\ (Together(s) => Together(page'))
    BY <1>1, <2>1, <2>2, <2>3, <2>4, <2>5, GrowthEndsMeans
  <2>7. QED
    BY <2>2, <2>6
<1>13. CASE ~ok
  <2> DEFINE s == IF IsLive(w) THEN fails ELSE page
  <2>1. GrowthEnds(s, w, "error", {"growth"})
    BY <1>6, <1>13
  <2>2. IsPage(s) /\ (~IsLive(w) => s = page) /\ (Together(page) => Together(s))
    BY <1>1, <1>4, <1>10 DEF PageTypes
  <2>3. Keeps(s, page, GrowthFields)
    BY <1>5 DEF Keeps, GrowthFields
  <2>4. GrowthShown(s, w, {"growth"})
    BY <1>4 DEF GrowthShown
  <2>5. s.growth \in {page.growth, 0, w} /\ s.comparisonGrowth \in {page.comparisonGrowth, 0, w} /\ s.growthError \in {page.growthError, 0, w}
    BY <1>4, <1>9
  <2>6. {"growth"} \in SUBSET GrowthStages
    BY DEF GrowthStages
  <2> HIDE DEF s
  <2>7. (WorkflowEnds(w) \/ StandaloneEnds(w)) /\ Publishes(w) /\ (Together(s) => Together(page'))
    BY <1>1, <2>1, <2>2, <2>3, <2>4, <2>5, <2>6, GrowthEndsMeans
  <2>8. QED
    BY <2>2, <2>7
<1>14. QED
  BY <1>11, <1>12, <1>13

LEMMA GrowthComparisonMeans ==
  ASSUME Expected, NEW w \in Calls, NEW ok \in BOOLEAN, GrowthComparisonAnswers(w, ok)
  PROVE  /\ WorkflowEnds(w) \/ StandaloneEnds(w)
         /\ Publishes(w) /\ (Together(page) => Together(page'))
<1> DEFINE answer == IF ok THEN [page EXCEPT !.comparisonGrowth = w] ELSE [page EXCEPT !.comparisonGrowthError = w]
           s == IF IsLive(w) THEN answer ELSE page
           failed == IF ok THEN {} ELSE {"growthComparison"}
<1>1. /\ call[w].at = "growthComparison" /\ Growing(w) /\ PageTypes /\ call[w].mode \in {"rebalance", "growth"}
      /\ (call[w].mode = "rebalance" /\ IsCurrent(w)) => page.owner = Main(page.generation)
      /\ IsLive(w) => page.growth = w
  <2>1. call[w].at = "growthComparison"
    BY DEF GrowthComparisonAnswers
  <2>2. call[w] \in Call
    BY DEF Expected, PageTypes
  <2>3. call[w].mode \in {"rebalance", "growth"}
    BY <2>1, <2>2 DEF Expected, Call, Modes
  <2>4. QED
    BY <2>1, <2>3 DEF Expected, Growing, IsWorkflow, CallInFlight
<1>2. GrowthEnds(s, w, "ok", failed)
  BY DEF GrowthComparisonAnswers
<1>3. /\ IsPage(answer)
      /\ answer.comparisonGrowth = IF ok THEN w ELSE page.comparisonGrowth
      /\ answer.comparisonGrowthError = IF ok THEN page.comparisonGrowthError ELSE w
  BY <1>1 DEF PageTypes, IsPage, Fields
<1>4. Keeps(answer, page, {"comparisonGrowth", "comparisonGrowthError"})
  BY <1>1 DEF PageTypes, IsPage, Keeps, Fields
<1> HIDE DEF answer
<1>5. /\ answer.result = page.result /\ answer.rebalance = page.rebalance /\ answer.comparison = page.comparison
      /\ answer.comparisonError = page.comparisonError /\ answer.sweepKey = page.sweepKey /\ answer.rebalanceKey = page.rebalanceKey
      /\ answer.growthKey = page.growthKey /\ answer.growth = page.growth
      /\ answer.snapshot = page.snapshot /\ answer.growthError = page.growthError
  BY <1>4 DEF Keeps, Fields
<1>6. IsPage(s) /\ (~IsLive(w) => s = page)
  BY <1>1, <1>3 DEF PageTypes
<1>7. Together(page) => Together(s)
  BY <1>1, <1>3, <1>5 DEF Together
<1>8. Keeps(s, page, GrowthFields)
  BY <1>4 DEF Keeps, GrowthFields
<1>9. failed \in SUBSET GrowthStages /\ GrowthShown(s, w, failed)
  BY <1>1, <1>3, <1>5 DEF GrowthShown, GrowthStages
<1>10. s.growth \in {page.growth, 0, w} /\ s.comparisonGrowth \in {page.comparisonGrowth, 0, w} /\ s.growthError \in {page.growthError, 0, w}
  BY <1>3, <1>5
<1> HIDE DEF s, failed
<1>11. (WorkflowEnds(w) \/ StandaloneEnds(w)) /\ Publishes(w) /\ (Together(s) => Together(page'))
  BY <1>1, <1>2, <1>6, <1>8, <1>9, <1>10, GrowthEndsMeans
<1>12. QED
  BY <1>7, <1>11

\* Whatever was in flight is overtaken.
Stops ==
    /\ UNCHANGED call /\ IsPage(page')
    /\ page'.generation = page.generation + 1 /\ page'.growthToken = page.growthToken + 1
    /\ page'.mainController = page.mainController /\ page'.growthController = page.growthController
    /\ page'.aborted = BothAborted(page)
    /\ page'.owner = Nobody /\ page'.busy = FALSE /\ page'.growthBusy = FALSE
    /\ page'.done # page.done => page'.done.outcome = "cancelled"
Clears ==
    /\ UNCHANGED call /\ IsPage(page')
    /\ \A x \in Fields : x # "runs" => page'[x] = page[x]

LEMMA StopMeans ==
  ASSUME PageTypes, StopPage
  PROVE  Stops /\ (\A w \in Calls : Publishes(w)) /\ (Together(page) => Together(page'))
<1> DEFINE c == CancelledPage(page)
           done == IF page.owner = Nobody THEN c.done
                   ELSE [call |-> CHOOSE w \in Calls : Reports(w), outcome |-> "cancelled", failed |-> {}]
<1>1. page' = [c EXCEPT !.busy = FALSE, !.growthBusy = FALSE, !.done = done] /\ UNCHANGED call
  BY DEF StopPage
<1>2. CancelledFrom(c, page)
  BY CancelledMeans DEF PageTypes
<1>3. page.owner # Nobody => done.outcome = "cancelled"
  OBVIOUS
<1>4. page.owner = Nobody => done = c.done
  OBVIOUS
<1> HIDE DEF c, done
<1>5. IsPage(page') /\ page'.busy = FALSE /\ page'.growthBusy = FALSE /\ page'.done = done
  BY <1>1, <1>2 DEF CancelledFrom, IsPage, Fields
<1>6. Keeps(page', c, {"busy", "growthBusy", "done"})
  BY <1>1, <1>2 DEF CancelledFrom, IsPage, Keeps, Fields
<1>7. /\ page'.generation = c.generation /\ page'.growthToken = c.growthToken /\ page'.mainController = c.mainController
      /\ page'.growthController = c.growthController /\ page'.aborted = c.aborted /\ page'.owner = c.owner /\ page'.rebalance = c.rebalance
      /\ page'.comparison = c.comparison /\ page'.comparisonError = c.comparisonError /\ page'.result = c.result /\ page'.error = c.error
      /\ page'.growth = c.growth /\ page'.growthError = c.growthError /\ page'.snapshot = c.snapshot
      /\ page'.comparisonGrowth = c.comparisonGrowth /\ page'.comparisonGrowthError = c.comparisonGrowthError
      /\ page'.sweepKey = c.sweepKey /\ page'.rebalanceKey = c.rebalanceKey /\ page'.growthKey = c.growthKey
  BY <1>6 DEF Keeps, Fields
<1>8. /\ c.mainController = page.mainController /\ c.growthController = page.growthController
      /\ c.rebalance = page.rebalance /\ c.comparison = page.comparison /\ c.comparisonError = page.comparisonError
      /\ c.result = page.result /\ c.error = page.error
      /\ c.growth = page.growth /\ c.growthError = page.growthError /\ c.snapshot = page.snapshot
      /\ c.comparisonGrowth = page.comparisonGrowth /\ c.comparisonGrowthError = page.comparisonGrowthError
      /\ c.sweepKey = page.sweepKey /\ c.rebalanceKey = page.rebalanceKey /\ c.growthKey = page.growthKey /\ c.done = page.done
  BY <1>2 DEF CancelledFrom, Keeps, Fields
<1>9. Stops
  BY <1>1, <1>2, <1>3, <1>4, <1>5, <1>7, <1>8 DEF CancelledFrom, Stops
<1>10. \A w \in Calls : Publishes(w)
  BY <1>7, <1>8 DEF Publishes
<1>11. Together(page) => Together(page')
  BY <1>7, <1>8 DEF Together
<1>12. QED
  BY <1>9, <1>10, <1>11

LEMMA ClearMeans ==
  ASSUME PageTypes, ClearHistory
  PROVE  Clears /\ (\A w \in Calls : Publishes(w)) /\ (Together(page) => Together(page'))
<1>1. page' = [page EXCEPT !.runs = <<>>] /\ UNCHANGED call
  BY DEF ClearHistory
<1>2. IsPage(page')
  BY <1>1 DEF PageTypes, IsPage, Fields
<1>3. Keeps(page', page, {"runs"})
  BY <1>1 DEF PageTypes, IsPage, Keeps, Fields
<1>4. /\ page'.rebalance = page.rebalance
      /\ page'.comparison = page.comparison /\ page'.comparisonError = page.comparisonError /\ page'.result = page.result /\ page'.error = page.error
      /\ page'.growth = page.growth /\ page'.growthError = page.growthError /\ page'.snapshot = page.snapshot
      /\ page'.comparisonGrowth = page.comparisonGrowth /\ page'.comparisonGrowthError = page.comparisonGrowthError
      /\ page'.sweepKey = page.sweepKey /\ page'.rebalanceKey = page.rebalanceKey /\ page'.growthKey = page.growthKey
  BY <1>3 DEF Keeps, Fields
<1>5. Clears
  BY <1>1, <1>2, <1>3 DEF Clears, Keeps
<1>6. QED
  BY <1>4, <1>5 DEF Publishes, Together

-----------------------------------------------------------------------------
(* The order of the calls and their controllers.                           *)

-----------------------------------------------------------------------------
(* Every kind of step keeps the parts of the invariant.                    *)

LEMMA Numbers == /\ \A w \in Calls : w \in Nat \ {0}
                 /\ PageTypes => \A w \in Calls : call[w] \in Call /\ call[w].generation \in Nat /\ call[w].token \in Nat
                 /\ PageTypes => page.generation \in Nat /\ page.growthToken \in Nat
  BY PageAssumption DEF Calls, PageTypes, IsPage, Call

LEMMA BeginKeepsOrder ==
  ASSUME PageTypes, CallsInOrder, Controllers, NEW w \in Calls, WorkflowBegins(w)
  PROVE  CallsInOrder' /\ Controllers'
<1> USE DEF IsNextCall, OnlyCall, Used, IsCurrent, IsLive, IsWorkflow, AtMain, Growing
<1>1. /\ \A x \in Calls : x \in Nat
      /\ \A x \in Calls : call[x].generation \in Nat /\ call[x].token \in Nat
      /\ page.generation \in Nat /\ page.growthToken \in Nat
      /\ page'.generation \in Nat /\ page'.growthToken \in Nat
  BY Numbers DEF WorkflowBegins, IsPage
<1>2. /\ call[w].mode = "none" /\ \A u \in Calls : u < w => call[u].mode # "none"
      /\ \A u \in Calls : u # w => call'[u] = call[u]
      /\ call'[w].mode \in {"sweep", "rebalance"} /\ call'[w].at = "main"
      /\ call'[w].generation = page'.generation /\ call'[w].token = call[w].token
      /\ page'.generation > page.generation /\ page'.growthToken >= page.growthToken
      /\ page'.mainController = w /\ page'.growthController = page.growthController
      /\ page'.aborted = page.aborted \cup {<<page.mainController, "main">>, <<page.growthController, "growth">>}
  BY <1>1 DEF WorkflowBegins, BothAborted
<1>3. call[w].token = 0 /\ \A u \in Calls : w < u => call[u].mode = "none"
  BY <1>2 DEF CallsInOrder, Shaped, Ordered
<1>4. Bounded'
  BY <1>1, <1>2 DEF CallsInOrder, Bounded
<1>5. Shaped'
  BY <1>2, <1>3 DEF CallsInOrder, Shaped
<1>6. Ordered'
  <2> SUFFICES ASSUME NEW u \in Calls, NEW x \in Calls, u < x, Used(x)'
               PROVE  (Used(u) /\ call[u].generation <= call[x].generation /\ (IsWorkflow(x) => call[u].generation < call[x].generation))'
    BY DEF Ordered
  <2>1. CASE x = w
    <3>1. call[u].generation <= page.generation /\ call'[u] = call[u] /\ call[u].mode # "none"
      BY <1>1, <1>2, <2>1 DEF CallsInOrder, Bounded
    <3>2. QED
      BY <1>1, <1>2, <2>1, <3>1
  <2>2. CASE x # w
    <3>1. u # w /\ call'[u] = call[u] /\ call'[x] = call[x]
      BY <1>2, <1>3, <2>2
    <3>2. QED
      BY <3>1 DEF CallsInOrder, Ordered
  <2>3. QED
    BY <2>1, <2>2
<1>7. Distinct'
  BY <1>2 DEF CallsInOrder, Distinct
<1>8. Known'
  BY <1>2, <1>3 DEF Controllers, Known
<1>9. <<w, "main">> \notin page'.aborted
  BY <1>2, <1>3 DEF Controllers, Known
<1>10. \A x \in Calls : x # w => call'[x].generation # page'.generation
  BY <1>1, <1>2 DEF CallsInOrder, Bounded
<1>11. MainControlled'
  BY <1>2, <1>9, <1>10 DEF Controllers, MainControlled
<1>12. GrowthControlled'
  BY <1>2, <1>10 DEF Controllers, GrowthControlled
<1>13. QED
  BY <1>4, <1>5, <1>6, <1>7, <1>8, <1>11, <1>12 DEF CallsInOrder, Controllers

LEMMA GrowthKeepsOrder ==
  ASSUME PageTypes, CallsInOrder, Controllers, NEW w \in Calls, StandaloneBegins(w) \/ WorkflowGrows(w)
  PROVE  CallsInOrder' /\ Controllers'
<1> USE DEF IsNextCall, OnlyCall, Used, IsCurrent, IsLive, IsWorkflow, AtMain, Growing
<1>1. /\ \A x \in Calls : x \in Nat
      /\ \A x \in Calls : call[x].generation \in Nat /\ call[x].token \in Nat
      /\ page.generation \in Nat /\ page.growthToken \in Nat
  BY Numbers
<1>2. /\ \A u \in Calls : u # w => call'[u] = call[u]
      /\ page'.generation = page.generation /\ page'.growthToken = page.growthToken + 1
      /\ page'.mainController = page.mainController /\ page'.growthController = w
      /\ page'.aborted = page.aborted \cup {<<page.growthController, "growth">>}
      /\ call'[w].at = "growth" /\ call'[w].token = page'.growthToken /\ call'[w].generation = page.generation
      /\ call'[w].mode \in {"growth", "rebalance"}
  BY DEF StandaloneBegins, WorkflowGrows, GrowthBegins
<1>3. call[w].token = 0
  BY DEF CallsInOrder, Shaped, StandaloneBegins, WorkflowGrows
<1>4. Bounded'
  BY <1>1, <1>2 DEF CallsInOrder, Bounded
<1>5. Shaped'
  BY <1>1, <1>2 DEF CallsInOrder, Shaped
<1>6. Ordered'
  <2>1. CASE StandaloneBegins(w)
    <3>1. /\ call[w].mode = "none" /\ \A u \in Calls : u < w => call[u].mode # "none"
          /\ call'[w].mode = "growth"
      BY <2>1 DEF StandaloneBegins
    <3>2. \A u \in Calls : w < u => call[u].mode = "none"
      BY <3>1 DEF CallsInOrder, Ordered
    <3> SUFFICES ASSUME NEW u \in Calls, NEW x \in Calls, u < x, Used(x)'
                 PROVE  (Used(u) /\ call[u].generation <= call[x].generation /\ (IsWorkflow(x) => call[u].generation < call[x].generation))'
      BY DEF Ordered
    <3>3. CASE x = w
      <4>1. call[u].generation <= page.generation /\ call'[u] = call[u] /\ call[u].mode # "none"
        BY <1>1, <1>2, <3>1, <3>3 DEF CallsInOrder, Bounded
      <4>2. QED
        BY <1>2, <3>1, <3>3, <4>1
    <3>4. CASE x # w
      <4>1. u # w /\ call'[u] = call[u] /\ call'[x] = call[x]
        BY <1>2, <3>2, <3>4
      <4>2. QED
        BY <4>1 DEF CallsInOrder, Ordered
    <3>5. QED
      BY <3>3, <3>4
  <2>2. CASE WorkflowGrows(w)
    <3>1. call[w].generation = page.generation /\ call[w].mode = "rebalance" /\ call'[w].mode = "rebalance"
      BY <2>2 DEF WorkflowGrows
    <3>2. \A x \in Calls : call'[x].generation = call[x].generation /\ call'[x].mode = call[x].mode
      BY <1>2, <3>1
    <3>3. QED
      BY <3>2 DEF CallsInOrder, Ordered
  <2>3. QED
    BY <2>1, <2>2
<1>7. \A x \in Calls : x # w => call'[x].token # page'.growthToken
  BY <1>1, <1>2 DEF CallsInOrder, Bounded
<1>8. Distinct'
  BY <1>2, <1>7 DEF CallsInOrder, Distinct
<1>9. Known'
  <2>1. Used(w)' /\ call'[w].token # 0
    BY <1>1, <1>2
  <2>2. QED
    BY <1>2, <2>1 DEF Controllers, Known
<1>10. <<w, "growth">> \notin page'.aborted
  BY <1>2, <1>3 DEF Controllers, Known
<1>11. MainControlled'
  BY <1>2 DEF Controllers, MainControlled
<1>12. GrowthControlled'
  BY <1>2, <1>7, <1>10 DEF Controllers, GrowthControlled
<1>13. QED
  BY <1>4, <1>5, <1>6, <1>8, <1>9, <1>11, <1>12 DEF CallsInOrder, Controllers

LEMMA ProceedKeepsOrder ==
  ASSUME PageTypes, CallsInOrder, Controllers, NEW w \in Calls, Proceeds(w)
  PROVE  CallsInOrder' /\ Controllers'
<1> USE DEF OnlyCall, Used, IsCurrent, IsLive, IsWorkflow, AtMain, Growing
<1>1. /\ page'.generation = page.generation /\ page'.growthToken = page.growthToken
      /\ page'.mainController = page.mainController /\ page'.growthController = page.growthController
      /\ page'.aborted = page.aborted
      /\ \A x \in Calls : /\ call'[x].mode = call[x].mode /\ call'[x].generation = call[x].generation
                          /\ call'[x].token = call[x].token
                          /\ \/ call'[x].at = call[x].at \/ call'[x].at = "ended"
                             \/ call[x].at = "main" /\ call[x].mode = "rebalance" /\ call'[x].at = "comparison"
                             \/ call[x].at = "growth" /\ call'[x].at = "growthComparison"
  BY DEF Proceeds
<1>2. Bounded' /\ Ordered' /\ Distinct' /\ Known'
  BY <1>1 DEF CallsInOrder, Bounded, Ordered, Distinct, Controllers, Known
<1>3. Shaped'
  BY <1>1 DEF CallsInOrder, Shaped
<1>4. MainControlled' /\ GrowthControlled'
  BY <1>1 DEF Controllers, MainControlled, GrowthControlled
<1>5. QED
  BY <1>2, <1>3, <1>4 DEF CallsInOrder, Controllers

LEMMA StopKeepsOrder ==
  ASSUME PageTypes, CallsInOrder, Controllers, Stops
  PROVE  CallsInOrder' /\ Controllers'
<1> USE DEF Used, IsCurrent, IsLive, IsWorkflow, AtMain, Growing
<1>1. /\ \A x \in Calls : call[x].generation \in Nat /\ call[x].token \in Nat
      /\ page.generation \in Nat /\ page.growthToken \in Nat
  BY Numbers
<1>2. /\ call' = call /\ page'.generation = page.generation + 1 /\ page'.growthToken = page.growthToken + 1
      /\ page'.mainController = page.mainController /\ page'.growthController = page.growthController
      /\ page'.aborted = page.aborted \cup {<<page.mainController, "main">>, <<page.growthController, "growth">>}
  BY DEF Stops, BothAborted
<1>3. Bounded'
  BY <1>1, <1>2 DEF CallsInOrder, Bounded
<1>4. Shaped' /\ Ordered' /\ Distinct'
  BY <1>2 DEF CallsInOrder, Shaped, Ordered, Distinct
<1>5. Known'
  BY <1>2 DEF Controllers, Known
<1>6. \A x \in Calls : call[x].generation # page'.generation
  BY <1>1, <1>2 DEF CallsInOrder, Bounded
<1>7. MainControlled' /\ GrowthControlled'
  BY <1>2, <1>6 DEF Controllers, MainControlled, GrowthControlled
<1>8. QED
  BY <1>3, <1>4, <1>5, <1>7 DEF CallsInOrder, Controllers

LEMMA ClearKeepsOrder ==
  ASSUME PageTypes, CallsInOrder, Controllers, Clears
  PROVE  CallsInOrder' /\ Controllers'
<1>1. /\ call' = call /\ page'.generation = page.generation /\ page'.growthToken = page.growthToken
      /\ page'.mainController = page.mainController /\ page'.growthController = page.growthController
      /\ page'.aborted = page.aborted
  BY DEF Clears, Fields
<1>2. CallsInOrder'
  BY <1>1 DEF CallsInOrder, Bounded, Shaped, Ordered, Distinct, Used, IsWorkflow, AtMain, Growing
<1>3. Controllers'
  BY <1>1 DEF Controllers, Known, MainControlled, GrowthControlled, Used, IsCurrent, IsLive, AtMain, Growing
<1>4. QED
  BY <1>2, <1>3

-----------------------------------------------------------------------------
(* Flags and progress.                                                     *)

\* One workflow is current, and one growth.
LEMMA OneCurrent ==
  ASSUME PageTypes, CallsInOrder, NEW u \in Calls, NEW w \in Calls, IsWorkflow(u), IsWorkflow(w), IsCurrent(u), IsCurrent(w)
  PROVE  u = w
<1>1. u \in Nat /\ w \in Nat /\ call[u].generation \in Nat /\ call[w].generation \in Nat
  BY Numbers
<1>2. Used(u) /\ Used(w) /\ call[u].generation = call[w].generation
  BY DEF Used, IsWorkflow, IsCurrent
<1>3. ~(u < w) /\ ~(w < u)
  BY <1>1, <1>2 DEF CallsInOrder, Ordered
<1>4. QED
  BY <1>1, <1>3

LEMMA OneGrowth ==
  ASSUME CallsInOrder, NEW u \in Calls, NEW w \in Calls, Growing(u), Growing(w), IsLatest(u), IsLatest(w)
  PROVE  u = w
  BY DEF CallsInOrder, Shaped, Distinct, IsLatest

LEMMA OwnersDiffer == \A g, h : /\ Main(g) # Nobody /\ Main(g) # Standalone(h) /\ Standalone(h) # Nobody
                                /\ Main(g).kind = "main" /\ Standalone(g).kind = "growth" /\ Nobody.kind = "none"
                                /\ Main(g) = Main(h) => g = h
                                /\ Standalone(g) = Standalone(h) => g = h
  BY DEF Main, Nobody, Standalone

LEMMA BeginKeepsProgress ==
  ASSUME PageTypes, CallsInOrder, Progress, NEW w \in Calls, WorkflowBegins(w)
  PROVE  Progress'
<1> USE DEF IsNextCall, OnlyCall, IsCurrent, IsLive, IsLatest, IsWorkflow, Growing, CallInFlight
<1>1. /\ \A x \in Calls : call[x].generation \in Nat /\ call[x].token \in Nat
      /\ page.generation \in Nat /\ page.growthToken \in Nat
      /\ page'.generation \in Nat /\ page'.growthToken \in Nat
  BY Numbers DEF WorkflowBegins, IsPage
<1>2. /\ call[w].mode = "none"
      /\ \A u \in Calls : u # w => call'[u] = call[u]
      /\ call'[w].mode \in {"sweep", "rebalance"} /\ call'[w].at = "main"
      /\ call'[w].generation = page'.generation
      /\ page'.generation > page.generation
      /\ page'.owner = Main(page'.generation) /\ page'.stage = "main" /\ page'.busy = TRUE
  BY DEF WorkflowBegins
<1>3. call[w].at = "ended"
  BY <1>2 DEF CallsInOrder, Shaped, Used
<1>4. \A x \in Calls : x # w => call'[x].generation # page'.generation
  BY <1>1, <1>2 DEF CallsInOrder, Bounded
<1>5. WorkflowReports'
  BY <1>2, <1>4 DEF WorkflowReports
<1>6. Reporters'
  BY <1>2 DEF Progress, Reporters
<1>7. StandaloneReports'
  BY <1>2, <1>4 DEF StandaloneReports
<1>8. OwnerStands'
  BY <1>2, OwnersDiffer DEF OwnerStands
<1>9. GrowthFlagged' /\ (page'.growthBusy = TRUE => \E x \in Calls : Growing(x)' /\ IsLatest(x)')
  <2>1. CASE page'.growthToken = page.growthToken /\ page'.growthBusy = page.growthBusy
    <3>1. \A x \in Calls : Growing(x)' => x # w /\ call'[x] = call[x]
      BY <1>2
    <3>2. GrowthFlagged'
      BY <2>1, <3>1 DEF Progress, GrowthFlagged
    <3>3. ASSUME page'.growthBusy = TRUE PROVE \E x \in Calls : Growing(x)' /\ IsLatest(x)'
      <4>1. PICK x \in Calls : Growing(x) /\ IsLatest(x)
        BY <2>1, <3>3 DEF Progress, FlagsStand
      <4>2. x # w
        BY <1>3, <4>1
      <4>3. QED
        BY <1>2, <2>1, <4>1, <4>2
    <3>4. QED
      BY <3>2, <3>3
  <2>2. CASE page'.growthToken > page.growthToken /\ page'.growthBusy = FALSE
    <3>1. \A x \in Calls : Growing(x)' => call'[x].token # page'.growthToken
      BY <1>1, <1>2, <2>2 DEF CallsInOrder, Bounded
    <3>2. QED
      BY <2>2, <3>1 DEF GrowthFlagged
  <2>3. QED
    BY <2>1, <2>2 DEF WorkflowBegins
<1>10. FlagsStand'
  BY <1>2, <1>9 DEF FlagsStand
<1>11. QED
  BY <1>5, <1>6, <1>7, <1>8, <1>9, <1>10 DEF Progress

LEMMA GrowthKeepsProgress ==
  ASSUME PageTypes, CallsInOrder, Progress, NEW w \in Calls, StandaloneBegins(w) \/ WorkflowGrows(w)
  PROVE  Progress'
<1> USE DEF IsNextCall, OnlyCall, IsCurrent, IsLive, IsLatest, IsWorkflow, Growing, CallInFlight, AtMain
<1>1. /\ \A x \in Calls : call[x].generation \in Nat /\ call[x].token \in Nat
      /\ page.generation \in Nat /\ page.growthToken \in Nat
      /\ page'.generation \in Nat /\ page'.growthToken \in Nat
  BY Numbers DEF StandaloneBegins, WorkflowGrows, GrowthBegins, IsPage
<1>2. /\ \A u \in Calls : u # w => call'[u] = call[u]
      /\ page'.generation = page.generation /\ page'.growthToken = page.growthToken + 1
      /\ page'.growthBusy = TRUE /\ page'.busy = page.busy
      /\ call'[w].at = "growth" /\ call'[w].token = page'.growthToken /\ call'[w].generation = page.generation
      /\ IF call'[w].mine = Nobody THEN page'.owner = page.owner /\ page'.stage = page.stage
         ELSE page'.owner = call'[w].mine /\ page'.stage = "growth"
  BY DEF StandaloneBegins, WorkflowGrows, GrowthBegins
<1>3. \A x \in Calls : x # w => call'[x].token # page'.growthToken
  BY <1>1, <1>2 DEF CallsInOrder, Bounded
<1>4. GrowthFlagged'
  BY <1>2 DEF GrowthFlagged
<1>5. CASE StandaloneBegins(w)
  <2>1. /\ call[w].mode = "none" /\ call'[w].mode = "growth"
        /\ call'[w].mine = IF page.owner.kind = "main" THEN Nobody ELSE Standalone(page'.growthToken)
    BY <1>5 DEF StandaloneBegins
  <2>2. call[w].at = "ended"
    BY <2>1 DEF CallsInOrder, Shaped, Used
  <2>3. WorkflowReports'
    <3> SUFFICES ASSUME NEW x \in Calls, (CallInFlight(x) /\ IsWorkflow(x) /\ IsCurrent(x))'
                 PROVE  page'.busy = TRUE /\ page'.owner = Main(page'.generation) /\ page'.stage = call'[x].at
      BY DEF WorkflowReports
    <3>1. x # w /\ call'[x] = call[x]
      BY <1>2, <2>1
    <3>2. page.busy = TRUE /\ page.owner = Main(page.generation) /\ page.stage = call[x].at
      BY <1>2, <3>1 DEF Progress, WorkflowReports
    <3>3. call'[w].mine = Nobody
      BY <2>1, <3>2, OwnersDiffer
    <3>4. QED
      BY <1>2, <3>1, <3>2, <3>3
  <2>4. Reporters'
    BY <1>2, <2>1 DEF Progress, Reporters
  <2>5. StandaloneReports'
    BY <1>2, <1>3 DEF StandaloneReports
  <2>6. OwnerStands'
    <3>1. CASE page.owner.kind = "main"
      BY <1>2, <2>1, <3>1 DEF Progress, OwnerStands
    <3>2. CASE page.owner.kind # "main"
      <4>1. call'[w].mine = Standalone(page'.growthToken) /\ page'.owner = Standalone(page'.growthToken)
        BY <1>2, <2>1, <3>2, OwnersDiffer
      <4>2. QED
        BY <1>2, <2>1, <4>1, OwnersDiffer DEF OwnerStands
    <3>3. QED
      BY <3>1, <3>2
  <2>7. FlagsStand'
    <3>1. ASSUME page'.busy = TRUE PROVE \E x \in Calls : (CallInFlight(x) /\ IsWorkflow(x) /\ IsCurrent(x))'
      <4>1. PICK x \in Calls : CallInFlight(x) /\ IsWorkflow(x) /\ IsCurrent(x)
        BY <1>2, <3>1 DEF Progress, FlagsStand
      <4>2. x # w
        BY <2>2, <4>1
      <4>3. QED
        BY <1>2, <4>1, <4>2
    <3>2. QED
      BY <1>2, <3>1 DEF FlagsStand
  <2>8. QED
    BY <1>4, <2>3, <2>4, <2>5, <2>6, <2>7 DEF Progress
<1>6. CASE WorkflowGrows(w)
  <2>1. /\ call[w].mode = "rebalance" /\ call'[w].mode = "rebalance" /\ call'[w].mine = Main(page.generation)
        /\ call[w].generation = page.generation /\ call[w].at # "ended"
    BY <1>6 DEF WorkflowGrows
  <2>2. page.busy = TRUE /\ page'.owner = Main(page.generation) /\ page'.stage = "growth"
    BY <1>2, <2>1, OwnersDiffer DEF Progress, WorkflowReports
  <2>3. WorkflowReports'
    <3> SUFFICES ASSUME NEW x \in Calls, (CallInFlight(x) /\ IsWorkflow(x) /\ IsCurrent(x))'
                 PROVE  page'.busy = TRUE /\ page'.owner = Main(page'.generation) /\ page'.stage = call'[x].at
      BY DEF WorkflowReports
    <3>1. x = w
      BY <1>2, <2>1, OneCurrent
    <3>2. QED
      BY <1>2, <2>2, <3>1
  <2>4. Reporters'
    BY <1>2, <2>1 DEF Progress, Reporters
  <2>5. StandaloneReports'
    BY <1>2, <1>3, <2>1 DEF StandaloneReports
  <2>6. OwnerStands'
    BY <1>2, <2>2, OwnersDiffer DEF OwnerStands
  <2>7. FlagsStand'
    BY <1>2, <2>1 DEF FlagsStand
  <2>8. QED
    BY <1>4, <2>3, <2>4, <2>5, <2>6, <2>7 DEF Progress
<1>7. QED
  BY <1>5, <1>6

\* The other calls, and what a call keeps when it goes on.
LEMMA ProceedsMeans ==
  ASSUME NEW w \in Calls, Proceeds(w)
  PROVE  /\ page'.generation = page.generation /\ page'.growthToken = page.growthToken
         /\ \A x \in Calls : /\ call'[x].mode = call[x].mode /\ call'[x].generation = call[x].generation /\ call'[x].cmp = call[x].cmp
                             /\ call'[x].token = call[x].token /\ call'[x].mine = call[x].mine /\ call'[x].failed = call[x].failed
                             /\ x # w => call'[x].at = call[x].at
         /\ call[w].at # "ended"
         /\ call'[w].at \in {"growth", "growthComparison"} => call[w].at = "growth"
  BY DEF Proceeds, OnlyCall, CallInFlight

LEMMA CompareKeepsProgress ==
  ASSUME PageTypes, CallsInOrder, Progress, NEW w \in Calls, Compares(w) \/ GrowthCompares(w)
  PROVE  Progress'
<1> USE DEF IsCurrent, IsLive, IsLatest, IsWorkflow, Growing, CallInFlight
<1> DEFINE at == IF Compares(w) THEN "comparison" ELSE "growthComparison"
<1>1. Proceeds(w) /\ IsCurrent(w)
  BY DEF Compares, GrowthCompares
<1>2. /\ page'.generation = page.generation /\ page'.growthToken = page.growthToken
      /\ \A x \in Calls : /\ call'[x].mode = call[x].mode /\ call'[x].generation = call[x].generation
                          /\ call'[x].token = call[x].token /\ call'[x].mine = call[x].mine
                          /\ x # w => call'[x].at = call[x].at
      /\ call[w].at # "ended"
  BY <1>1, ProceedsMeans
<1>3. /\ page'.busy = page.busy /\ page'.growthBusy = page.growthBusy /\ page'.owner = page.owner
      /\ call'[w].at \in {"comparison", "growthComparison"}
      /\ Growing(w)' <=> Growing(w)
  BY DEF Compares, GrowthCompares
<1>4. \A x \in Calls : (Growing(x)' <=> Growing(x)) /\ (CallInFlight(x)' <=> CallInFlight(x))
  BY <1>2, <1>3
<1>5. GrowthFlagged' /\ Reporters'
  BY <1>2, <1>3, <1>4 DEF Progress, GrowthFlagged, Reporters
<1>6. FlagsStand'
  BY <1>2, <1>3, <1>4 DEF Progress, FlagsStand
<1>7. OwnerStands'
  BY <1>2, <1>3, <1>4 DEF Progress, OwnerStands
<1>8. CASE IsWorkflow(w)
  <2>1. page.owner = Main(page.generation)
    BY <1>1, <1>2, <1>8 DEF Progress, WorkflowReports
  <2>2. page'.stage = call'[w].at
    BY <1>1, <1>8, <2>1 DEF Progress, Reporters, Compares, GrowthCompares
  <2>3. \A x \in Calls : (IsWorkflow(x) /\ IsCurrent(x)) => x = w
    BY <1>1, <1>8, OneCurrent
  <2>4. WorkflowReports'
    BY <1>2, <1>3, <1>4, <2>2, <2>3 DEF Progress, WorkflowReports
  <2>5. StandaloneReports'
    <3> SUFFICES ASSUME NEW x \in Calls, call[x].mode = "growth", Growing(x), IsLive(x), call[x].mine # Nobody
                 PROVE  FALSE
      BY <1>2, <1>4 DEF StandaloneReports
    <3>1. Main(page.generation) = Standalone(call[x].token)
      BY <2>1 DEF Progress, StandaloneReports, Reporters
    <3>2. QED
      BY <3>1, OwnersDiffer
  <2>6. QED
    BY <1>5, <1>6, <1>7, <2>4, <2>5 DEF Progress
<1>9. CASE ~IsWorkflow(w)
  <2>1. GrowthCompares(w) /\ Growing(w) /\ IsLive(w) /\ call'[w].at = "growthComparison"
        /\ page'.stage = IF page.owner = call[w].mine THEN "growthComparison" ELSE page.stage
    BY <1>9 DEF Compares, GrowthCompares
  <2>2. call[w] \in Call /\ call[w].mode = "growth"
    <3>1. call[w] \in Call /\ Used(w)
      BY <2>1 DEF PageTypes, CallsInOrder, Shaped
    <3>2. QED
      BY <1>9, <3>1 DEF Call, Modes, Used
  <2>3. call[w].mine \in {Nobody, Standalone(call[w].token)}
    BY <2>2 DEF Progress, Reporters
  <2>4. WorkflowReports'
    <3> SUFFICES ASSUME NEW x \in Calls, (CallInFlight(x) /\ IsWorkflow(x) /\ IsCurrent(x))'
                 PROVE  page'.busy = TRUE /\ page'.owner = Main(page'.generation) /\ page'.stage = call'[x].at
      BY DEF WorkflowReports
    <3>1. x # w /\ CallInFlight(x) /\ IsWorkflow(x) /\ IsCurrent(x)
      BY <1>2, <1>4, <1>9
    <3>2. page.busy = TRUE /\ page.owner = Main(page.generation) /\ page.stage = call[x].at
      BY <3>1 DEF Progress, WorkflowReports
    <3>3. page.owner # call[w].mine
      BY <2>3, <3>2, OwnersDiffer
    <3>4. QED
      BY <1>2, <1>3, <2>1, <3>1, <3>2, <3>3
  <2>5. StandaloneReports'
    <3> SUFFICES ASSUME NEW x \in Calls, (call[x].mode = "growth" /\ Growing(x) /\ IsLive(x) /\ call[x].mine # Nobody)'
                 PROVE  page'.owner = call'[x].mine /\ page'.stage = call'[x].at
      BY DEF StandaloneReports
    <3>1. Growing(x) /\ IsLatest(x) /\ IsLatest(w)
      BY <1>2, <1>4, <2>1
    <3>2. x = w
      BY <2>1, <3>1, OneGrowth
    <3>3. page.owner = call[w].mine
      BY <1>2, <2>1, <2>2, <3>2 DEF Progress, StandaloneReports
    <3>4. QED
      BY <1>2, <1>3, <2>1, <3>2, <3>3
  <2>6. QED
    BY <1>5, <1>6, <1>7, <2>4, <2>5 DEF Progress
<1>10. QED
  BY <1>8, <1>9

LEMMA EndKeepsProgress ==
  ASSUME PageTypes, CallsInOrder, Progress, NEW w \in Calls, WorkflowEnds(w) \/ StandaloneEnds(w)
  PROVE  Progress'
<1> USE DEF IsCurrent, IsLive, IsLatest, IsWorkflow, Growing, CallInFlight
<1>1. /\ CallEnds(w) /\ Proceeds(w) /\ call'[w].at = "ended"
      /\ page'.growthBusy = IF Growing(w) /\ IsLatest(w) THEN FALSE ELSE page.growthBusy
  BY DEF WorkflowEnds, StandaloneEnds, CallEnds
<1>2. /\ page'.generation = page.generation /\ page'.growthToken = page.growthToken
      /\ \A x \in Calls : /\ call'[x].mode = call[x].mode /\ call'[x].generation = call[x].generation
                          /\ call'[x].token = call[x].token /\ call'[x].mine = call[x].mine
                          /\ x # w => call'[x].at = call[x].at
      /\ call[w].at # "ended"
  BY <1>1, ProceedsMeans
<1>3. \A x \in Calls : CallInFlight(x)' => x # w
  BY <1>1
<1>4. GrowthFlagged'
  <2> SUFFICES ASSUME NEW x \in Calls, (Growing(x) /\ IsLatest(x))' PROVE page'.growthBusy = TRUE
    BY DEF GrowthFlagged
  <2>1. x # w /\ Growing(x) /\ IsLatest(x)
    BY <1>1, <1>2
  <2>2. ~(Growing(w) /\ IsLatest(w))
    BY <2>1, OneGrowth
  <2>3. QED
    BY <1>1, <2>1, <2>2 DEF Progress, GrowthFlagged
<1>5. Reporters'
  BY <1>1, <1>2 DEF Progress, Reporters
<1>6. page'.growthBusy = TRUE => \E x \in Calls : (Growing(x) /\ IsLatest(x))'
  <2> SUFFICES ASSUME page'.growthBusy = TRUE PROVE \E x \in Calls : (Growing(x) /\ IsLatest(x))'
    OBVIOUS
  <2>1. page.growthBusy = TRUE /\ ~(Growing(w) /\ IsLatest(w))
    BY <1>1
  <2>2. PICK x \in Calls : Growing(x) /\ IsLatest(x)
    BY <2>1 DEF Progress, FlagsStand
  <2>3. x # w
    BY <2>1, <2>2
  <2>4. QED
    BY <1>2, <2>2, <2>3
<1>7. CASE WorkflowEnds(w) /\ IsCurrent(w)
  <2>1. page'.busy = FALSE /\ page'.owner = Nobody /\ IsWorkflow(w) /\ page.owner = Main(page.generation)
    BY <1>2, <1>7 DEF WorkflowEnds, Progress, WorkflowReports
  <2>2. \A x \in Calls : (IsWorkflow(x) /\ IsCurrent(x)) => x = w
    BY <1>7, <2>1, OneCurrent
  <2>3. WorkflowReports'
    BY <1>2, <1>3, <2>2 DEF WorkflowReports
  <2>4. StandaloneReports'
    <3> SUFFICES ASSUME NEW x \in Calls, (call[x].mode = "growth" /\ Growing(x) /\ IsLive(x) /\ call[x].mine # Nobody)'
                 PROVE  FALSE
      BY DEF StandaloneReports
    <3>1. x # w /\ call[x].mode = "growth" /\ Growing(x) /\ IsLive(x) /\ call[x].mine # Nobody
      BY <1>2, <1>3
    <3>2. Main(page.generation) = Standalone(call[x].token)
      BY <2>1, <3>1 DEF Progress, StandaloneReports, Reporters
    <3>3. QED
      BY <3>2, OwnersDiffer
  <2>5. FlagsStand'
    BY <1>6, <2>1 DEF FlagsStand
  <2>6. OwnerStands'
    BY <2>1, OwnersDiffer DEF OwnerStands
  <2>7. QED
    BY <1>4, <1>5, <2>3, <2>4, <2>5, <2>6 DEF Progress
<1>8. CASE ~(WorkflowEnds(w) /\ IsCurrent(w))
  <2>1. page'.busy = page.busy /\ ~(IsWorkflow(w) /\ IsCurrent(w))
    BY <1>8 DEF WorkflowEnds, StandaloneEnds
  <2>2. FlagsStand'
    <3>1. ASSUME page'.busy = TRUE PROVE \E x \in Calls : (CallInFlight(x) /\ IsWorkflow(x) /\ IsCurrent(x))'
      <4>1. PICK x \in Calls : CallInFlight(x) /\ IsWorkflow(x) /\ IsCurrent(x)
        BY <2>1, <3>1 DEF Progress, FlagsStand
      <4>2. x # w
        BY <2>1, <4>1
      <4>3. QED
        BY <1>2, <4>1, <4>2
    <3>2. QED
      BY <1>6, <3>1 DEF FlagsStand
  <2>3. CASE StandaloneEnds(w) /\ IsLatest(w) /\ call[w].mine # Nobody /\ page.owner = call[w].mine
    <3>1. page'.owner = Nobody /\ page.owner = Standalone(call[w].token) /\ Growing(w)
      BY <2>3 DEF StandaloneEnds, Progress, Reporters
    <3>2. WorkflowReports'
      <4> SUFFICES ASSUME NEW x \in Calls, (CallInFlight(x) /\ IsWorkflow(x) /\ IsCurrent(x))' PROVE FALSE
        BY DEF WorkflowReports
      <4>1. x # w /\ CallInFlight(x) /\ IsWorkflow(x) /\ IsCurrent(x)
        BY <1>2, <1>3
      <4>2. page.owner = Main(page.generation)
        BY <4>1 DEF Progress, WorkflowReports
      <4>3. QED
        BY <3>1, <4>2, OwnersDiffer
    <3>3. StandaloneReports'
      <4> SUFFICES ASSUME NEW x \in Calls, (call[x].mode = "growth" /\ Growing(x) /\ IsLive(x) /\ call[x].mine # Nobody)' PROVE FALSE
        BY DEF StandaloneReports
      <4>1. x # w /\ Growing(x) /\ IsLatest(x)
        BY <1>2, <1>3
      <4>2. QED
        BY <2>3, <3>1, <4>1, OneGrowth
    <3>4. OwnerStands'
      BY <3>1, OwnersDiffer DEF OwnerStands
    <3>5. QED
      BY <1>4, <1>5, <2>2, <3>2, <3>3, <3>4 DEF Progress
  <2>4. CASE ~(StandaloneEnds(w) /\ IsLatest(w) /\ call[w].mine # Nobody /\ page.owner = call[w].mine)
    <3>1. page'.owner = page.owner /\ page'.stage = page.stage
      BY <1>8, <2>4 DEF WorkflowEnds, StandaloneEnds
    <3>2. WorkflowReports'
      BY <1>2, <1>3, <2>1, <3>1 DEF Progress, WorkflowReports
    <3>3. StandaloneReports'
      BY <1>2, <1>3, <3>1 DEF Progress, StandaloneReports
    <3>4. OwnerStands'
      <4>1. ASSUME page.owner.kind = "growth"
            PROVE  \E x \in Calls : (call[x].mode = "growth" /\ Growing(x) /\ IsLive(x) /\ call[x].mine = page.owner)'
        <5>1. PICK x \in Calls : call[x].mode = "growth" /\ Growing(x) /\ IsLive(x) /\ call[x].mine = page.owner
          BY <4>1 DEF Progress, OwnerStands
        <5>2. x # w
          <6>1. SUFFICES ASSUME x = w PROVE FALSE
            OBVIOUS
          <6>2. call[w].mine # Nobody /\ StandaloneEnds(w)
            BY <4>1, <5>1, <6>1, OwnersDiffer DEF WorkflowEnds
          <6>3. QED
            BY <2>4, <5>1, <6>1, <6>2
        <5>3. QED
          BY <1>2, <3>1, <5>1, <5>2
      <4>2. QED
        BY <2>1, <3>1, <4>1 DEF Progress, OwnerStands
    <3>5. QED
      BY <1>4, <1>5, <2>2, <3>2, <3>3, <3>4 DEF Progress
  <2>5. QED
    BY <2>3, <2>4
<1>9. QED
  BY <1>7, <1>8

LEMMA StopKeepsProgress ==
  ASSUME PageTypes, CallsInOrder, Progress, Stops
  PROVE  Progress'
<1> USE DEF IsCurrent, IsLive, IsLatest, IsWorkflow, Growing, CallInFlight
<1>1. /\ \A x \in Calls : call[x].generation \in Nat /\ call[x].token \in Nat
      /\ page.generation \in Nat /\ page.growthToken \in Nat
  BY Numbers
<1>2. /\ call' = call /\ page'.generation = page.generation + 1 /\ page'.growthToken = page.growthToken + 1
      /\ page'.owner = Nobody /\ page'.busy = FALSE /\ page'.growthBusy = FALSE
  BY DEF Stops
<1>3. \A x \in Calls : call'[x].generation # page'.generation /\ call'[x].token # page'.growthToken
  BY <1>1, <1>2 DEF CallsInOrder, Bounded
<1>4. WorkflowReports' /\ GrowthFlagged' /\ StandaloneReports'
  BY <1>3 DEF WorkflowReports, GrowthFlagged, StandaloneReports
<1>5. Reporters'
  BY <1>2 DEF Progress, Reporters
<1>6. FlagsStand' /\ OwnerStands'
  BY <1>2, OwnersDiffer DEF FlagsStand, OwnerStands
<1>7. QED
  BY <1>4, <1>5, <1>6 DEF Progress

LEMMA ClearKeepsProgress ==
  ASSUME Progress, Clears
  PROVE  Progress'
<1>1. /\ call' = call /\ page'.generation = page.generation /\ page'.growthToken = page.growthToken
      /\ page'.owner = page.owner /\ page'.stage = page.stage /\ page'.busy = page.busy /\ page'.growthBusy = page.growthBusy
  BY DEF Clears, Fields
<1>2. WorkflowReports' /\ GrowthFlagged' /\ Reporters' /\ StandaloneReports'
  BY <1>1 DEF Progress, WorkflowReports, GrowthFlagged, Reporters, StandaloneReports,
              IsCurrent, IsLive, IsLatest, IsWorkflow, Growing, CallInFlight
<1>3. FlagsStand' /\ OwnerStands'
  BY <1>1 DEF Progress, FlagsStand, OwnerStands, IsCurrent, IsLive, IsLatest, IsWorkflow, Growing, CallInFlight
<1>4. QED
  BY <1>2, <1>3 DEF Progress

-----------------------------------------------------------------------------
(* What is shown.                                                          *)

LEMMA BeginKeepsAwaited ==
  ASSUME PageTypes, CallsInOrder, NEW w \in Calls, WorkflowBegins(w)
  PROVE  ComparisonAwaited' /\ GrowthAwaited' /\ GrowthCompared' /\ WorkflowShown'
<1> USE DEF IsCurrent, IsLive, IsWorkflow, Growing
<1>1. /\ \A x \in Calls : call[x].generation \in Nat
      /\ page.generation \in Nat /\ page'.generation \in Nat
  BY Numbers DEF WorkflowBegins, IsPage
<1>2. /\ \A u \in Calls : u # w => call'[u] = call[u]
      /\ call'[w].at = "main"
      /\ page'.generation > page.generation
  BY DEF WorkflowBegins, OnlyCall
<1>3. \A x \in Calls : x # w => call'[x].generation # page'.generation
  BY <1>1, <1>2 DEF CallsInOrder, Bounded
<1>4. QED
  BY <1>2, <1>3 DEF ComparisonAwaited, GrowthAwaited, GrowthCompared, WorkflowShown

LEMMA GrowthKeepsAwaited ==
  ASSUME PageTypes, CallsInOrder, Results, NEW w \in Calls, StandaloneBegins(w) \/ WorkflowGrows(w)
  PROVE  ComparisonAwaited' /\ GrowthAwaited' /\ GrowthCompared' /\ WorkflowShown'
<1> USE DEF IsCurrent, IsLive, IsWorkflow, Growing
<1>1. /\ \A x \in Calls : call[x].token \in Nat
      /\ page.growthToken \in Nat /\ page'.growthToken \in Nat
  BY Numbers DEF StandaloneBegins, WorkflowGrows, GrowthBegins, IsPage
<1>2. /\ \A u \in Calls : u # w => call'[u] = call[u]
      /\ page'.generation = page.generation /\ page'.growthToken = page.growthToken + 1
      /\ call'[w].at = "growth" /\ call'[w].generation = page.generation
      /\ page'.snapshot = 0 /\ page'.comparisonGrowth = 0 /\ page'.comparisonGrowthError = 0 /\ page'.growthError = 0
  BY DEF StandaloneBegins, WorkflowGrows, GrowthBegins, OnlyCall
<1>3. \A x \in Calls : x # w => call'[x].token # page'.growthToken
  BY <1>1, <1>2 DEF CallsInOrder, Bounded
<1>4. GrowthAwaited' /\ GrowthCompared'
  BY <1>2, <1>3 DEF GrowthAwaited, GrowthCompared
<1>5. CASE StandaloneBegins(w)
  <2>1. /\ page'.rebalance = page.rebalance /\ page'.comparison = page.comparison /\ page'.comparisonError = page.comparisonError
        /\ call'[w].mode = "growth"
    BY <1>5 DEF StandaloneBegins
  <2>2. ComparisonAwaited'
    BY <1>2, <2>1 DEF Results, ComparisonAwaited
  <2>3. WorkflowShown'
    BY <1>2, <2>1 DEF Results, WorkflowShown
  <2>4. QED
    BY <1>4, <2>2, <2>3
<1>6. CASE WorkflowGrows(w)
  <2>1. /\ call[w].mode = "rebalance" /\ call[w].generation = page.generation
        /\ page'.rebalance = w /\ call'[w].cmp = call[w].cmp
        /\ call[w].cmp => IF "comparison" \in call'[w].failed THEN page'.comparisonError = w ELSE page'.comparison = w
    BY <1>6 DEF WorkflowGrows
  <2>2. \A x \in Calls : (IsWorkflow(x) /\ IsCurrent(x)) => x = w
    BY <2>1, OneCurrent
  <2>3. ComparisonAwaited'
    <3> SUFFICES ASSUME NEW x \in Calls, (call[x].at = "comparison" /\ IsCurrent(x))' PROVE FALSE
      BY DEF ComparisonAwaited
    <3>1. x # w /\ call[x].at = "comparison" /\ IsCurrent(x)
      BY <1>2
    <3>2. IsWorkflow(x)
      BY <3>1 DEF CallsInOrder, Shaped, AtMain
    <3>3. QED
      BY <2>2, <3>1, <3>2
  <2>4. WorkflowShown'
    <3> SUFFICES ASSUME NEW x \in Calls, (Growing(x) /\ IsWorkflow(x) /\ IsCurrent(x))'
                 PROVE  page'.rebalance = x
                        /\ (call'[x].cmp => IF "comparison" \in call'[x].failed THEN page'.comparisonError = x ELSE page'.comparison = x)
      BY DEF WorkflowShown
    <3>1. x = w
      BY <1>2, <2>2
    <3>2. QED
      BY <2>1, <3>1
  <2>5. QED
    BY <1>4, <2>3, <2>4
<1>7. QED
  BY <1>5, <1>6

LEMMA ProceedKeepsAwaited ==
  ASSUME PageTypes, CallsInOrder, Results, NEW w \in Calls, Compares(w) \/ GrowthCompares(w) \/ CallEnds(w)
  PROVE  ComparisonAwaited' /\ GrowthAwaited' /\ GrowthCompared' /\ WorkflowShown'
<1> USE DEF IsCurrent, IsLive, IsLatest, IsWorkflow, Growing
<1>1. Proceeds(w)
  BY DEF Compares, GrowthCompares, CallEnds
<1>2. /\ page'.generation = page.generation /\ page'.growthToken = page.growthToken
      /\ \A x \in Calls : /\ call'[x].mode = call[x].mode /\ call'[x].generation = call[x].generation /\ call'[x].cmp = call[x].cmp
                          /\ call'[x].token = call[x].token /\ call'[x].failed = call[x].failed
                          /\ x # w => call'[x].at = call[x].at
      /\ call'[w].at \in {"growth", "growthComparison"} => call[w].at = "growth"
  BY <1>1, ProceedsMeans
<1>3. CASE Compares(w)
  <2>1. /\ call'[w].at = "comparison" /\ call[w].mode = "rebalance" /\ IsCurrent(w)
        /\ page'.rebalance = w /\ page'.comparison = 0 /\ page'.comparisonError = 0
        /\ page'.growth = page.growth /\ page'.snapshot = page.snapshot /\ page'.growthError = page.growthError
        /\ page'.comparisonGrowth = page.comparisonGrowth /\ page'.comparisonGrowthError = page.comparisonGrowthError
    BY <1>3 DEF Compares
  <2>2. \A x \in Calls : (IsWorkflow(x) /\ IsCurrent(x)) => x = w
    BY <2>1, OneCurrent
  <2>3. ComparisonAwaited'
    <3> SUFFICES ASSUME NEW x \in Calls, (call[x].at = "comparison" /\ IsCurrent(x))' PROVE x = w
      BY <2>1 DEF ComparisonAwaited
    <3>1. ASSUME x # w PROVE FALSE
      <4>1. call[x].at = "comparison" /\ IsCurrent(x)
        BY <1>2, <3>1
      <4>2. IsWorkflow(x)
        BY <4>1 DEF CallsInOrder, Shaped, AtMain
      <4>3. QED
        BY <2>2, <3>1, <4>1, <4>2
    <3>2. QED
      BY <3>1
  <2>4. GrowthAwaited' /\ GrowthCompared'
    BY <1>2, <2>1 DEF Results, GrowthAwaited, GrowthCompared
  <2>5. WorkflowShown'
    <3> SUFFICES ASSUME NEW x \in Calls, (Growing(x) /\ IsWorkflow(x) /\ IsCurrent(x))' PROVE FALSE
      BY DEF WorkflowShown
    <3>1. x # w /\ IsWorkflow(x) /\ IsCurrent(x)
      BY <1>2, <2>1
    <3>2. QED
      BY <2>2, <3>1
  <2>6. QED
    BY <2>3, <2>4, <2>5
<1>4. CASE GrowthCompares(w)
  <2>1. /\ call'[w].at = "growthComparison" /\ call[w].at = "growth" /\ IsLive(w) /\ page'.growth = w
        /\ page'.rebalance = page.rebalance /\ page'.comparison = page.comparison /\ page'.comparisonError = page.comparisonError
    BY <1>4 DEF GrowthCompares
  <2>2. ComparisonAwaited'
    BY <1>2, <2>1 DEF Results, ComparisonAwaited
  <2>3. \A x \in Calls : (Growing(x)' /\ IsLive(x)') => x = w
    <3> SUFFICES ASSUME NEW x \in Calls, Growing(x)', IsLive(x)' PROVE x = w
      OBVIOUS
    <3>1. Growing(x) /\ IsLatest(x) /\ Growing(w) /\ IsLatest(w)
      BY <1>2, <2>1
    <3>2. QED
      BY <3>1, OneGrowth
  <2>4. GrowthAwaited' /\ GrowthCompared'
    BY <2>1, <2>3 DEF GrowthAwaited, GrowthCompared
  <2>5. WorkflowShown'
    BY <1>2, <2>1 DEF Results, WorkflowShown
  <2>6. QED
    BY <2>2, <2>4, <2>5
<1>5. CASE CallEnds(w)
  <2>1. /\ call'[w].at = "ended"
        /\ page'.rebalance = page.rebalance /\ page'.comparison = page.comparison /\ page'.comparisonError = page.comparisonError
    BY <1>5 DEF CallEnds
  <2>2. ComparisonAwaited'
    BY <1>2, <2>1 DEF Results, ComparisonAwaited
  <2>3. WorkflowShown'
    BY <1>2, <2>1 DEF Results, WorkflowShown
  <2>4. GrowthAwaited' /\ GrowthCompared'
    <3>1. CASE Growing(w) /\ IsLive(w)
      <4>1. \A x \in Calls : ~(Growing(x)' /\ IsLive(x)')
        <5> SUFFICES ASSUME NEW x \in Calls, Growing(x)', IsLive(x)' PROVE FALSE
          OBVIOUS
        <5>1. x # w /\ Growing(x) /\ IsLatest(x) /\ IsLatest(w)
          BY <1>2, <2>1, <3>1
        <5>2. QED
          BY <3>1, <5>1, OneGrowth
      <4>2. QED
        BY <4>1 DEF GrowthAwaited, GrowthCompared
    <3>2. CASE ~(Growing(w) /\ IsLive(w))
      <4>1. /\ page'.growth = page.growth /\ page'.snapshot = page.snapshot /\ page'.growthError = page.growthError
            /\ page'.comparisonGrowth = page.comparisonGrowth /\ page'.comparisonGrowthError = page.comparisonGrowthError
        BY <1>5, <3>2 DEF CallEnds
      <4>2. QED
        BY <1>2, <2>1, <4>1 DEF Results, GrowthAwaited, GrowthCompared
    <3>3. QED
      BY <3>1, <3>2
  <2>5. QED
    BY <2>2, <2>3, <2>4
<1>6. QED
  BY <1>3, <1>4, <1>5

LEMMA OthersKeepAwaited ==
  ASSUME PageTypes, CallsInOrder, Results, Stops \/ Clears
  PROVE  ComparisonAwaited' /\ GrowthAwaited' /\ GrowthCompared' /\ WorkflowShown'
<1> USE DEF IsCurrent, IsLive, IsWorkflow, Growing
<1>1. CASE Stops
  <2>1. /\ \A x \in Calls : call[x].generation \in Nat
        /\ page.generation \in Nat
    BY Numbers
  <2>2. call' = call /\ page'.generation = page.generation + 1
    BY <1>1 DEF Stops
  <2>3. \A x \in Calls : call'[x].generation # page'.generation
    BY <2>1, <2>2 DEF CallsInOrder, Bounded
  <2>4. QED
    BY <2>3 DEF ComparisonAwaited, GrowthAwaited, GrowthCompared, WorkflowShown
<1>2. CASE Clears
  <2>1. /\ call' = call /\ page'.generation = page.generation /\ page'.growthToken = page.growthToken
        /\ page'.rebalance = page.rebalance /\ page'.comparison = page.comparison /\ page'.comparisonError = page.comparisonError
        /\ page'.growth = page.growth /\ page'.snapshot = page.snapshot /\ page'.growthError = page.growthError
        /\ page'.comparisonGrowth = page.comparisonGrowth /\ page'.comparisonGrowthError = page.comparisonGrowthError
    BY <1>2 DEF Clears, Fields
  <2>2. QED
    BY <2>1 DEF Results, ComparisonAwaited, GrowthAwaited, GrowthCompared, WorkflowShown
<1>3. QED
  BY <1>1, <1>2

-----------------------------------------------------------------------------
(* The invariant holds, and the properties with it.                        *)

LEMMA InvExpects == PageInv => Expected
<1> SUFFICES ASSUME PageInv PROVE Expected
  OBVIOUS
<1>1. PageTypes
  BY DEF PageInv
<1>2. ASSUME NEW w \in Calls
      PROVE  /\ call[w].mode = "none" => call[w].at = "ended"
             /\ AtMain(w) => IsWorkflow(w)
             /\ call[w].mode = "sweep" => call[w].at \in {"main", "ended"}
  BY DEF PageInv, CallsInOrder, Shaped, Used
<1>3. ASSUME NEW w \in Calls
      PROVE  (IsWorkflow(w) /\ CallInFlight(w) /\ IsCurrent(w)) => page.owner = Main(page.generation)
  BY DEF PageInv, Progress, WorkflowReports
<1>4. ASSUME NEW w \in Calls
      PROVE  /\ (call[w].at = "comparison" /\ IsCurrent(w)) => page.rebalance = w /\ page.comparison = 0 /\ page.comparisonError = 0
             /\ (call[w].at = "growth" /\ IsLive(w)) =>
                   page.snapshot = 0 /\ page.comparisonGrowth = 0 /\ page.comparisonGrowthError = 0 /\ page.growthError = 0
             /\ (call[w].at = "growthComparison" /\ IsLive(w)) => page.growth = w
             /\ (Growing(w) /\ IsWorkflow(w) /\ IsCurrent(w)) => page.rebalance = w
  BY DEF PageInv, Results, ComparisonAwaited, GrowthAwaited, GrowthCompared, WorkflowShown
<1>5. QED
  BY <1>1, <1>2, <1>3, <1>4 DEF Expected

\* The kinds of the steps in which a call takes part.
Steps(w) == \/ WorkflowBegins(w) \/ StandaloneBegins(w) \/ WorkflowGrows(w)
            \/ Compares(w) \/ GrowthCompares(w) \/ WorkflowEnds(w) \/ StandaloneEnds(w)

LEMMA StepKinds ==
  ASSUME PageInv, PageNext
  PROVE  /\ (\E w \in Calls : Steps(w) /\ Publishes(w)) \/ (Stops /\ \A w \in Calls : Publishes(w))
            \/ (Clears /\ \A w \in Calls : Publishes(w))
         /\ Together(page) => Together(page')
<1>1. PageTypes /\ Expected
  BY InvExpects DEF PageInv
<1>2. CASE Execute
  <2>1. PICK w \in Calls, mode \in Modes, cmp \in Comparisons : IsNextCall(w) /\ Called(page, w, mode, cmp)
    BY <1>2 DEF Execute
  <2>2. cmp \in BOOLEAN
    BY <2>1, PageAssumption
  <2>3. CASE mode = "growth"
    <3>1. StandaloneBegins(w) /\ Publishes(w) /\ (Together(page) => Together(page'))
      BY <1>1, <2>1, <2>2, <2>3, CalledGrowth
    <3>2. QED
      BY <3>1 DEF Steps
  <2>4. CASE mode \in {"sweep", "rebalance"}
    <3>1. WorkflowBegins(w) /\ Publishes(w) /\ (Together(page) => Together(page'))
      BY <1>1, <2>1, <2>2, <2>4, ExecuteBegins
    <3>2. QED
      BY <3>1 DEF Steps
  <2>5. QED
    BY <2>1, <2>3, <2>4 DEF Modes
<1>3. CASE Select
  <2>1. PICK w \in Calls, keep \in BOOLEAN, cmp \in Comparisons, mode \in {"sweep", "rebalance"} :
           IsNextCall(w) /\ Called(WasReset(CancelledPage(page), keep), w, mode, cmp)
    BY <1>3 DEF Select
  <2>2. cmp \in BOOLEAN
    BY <2>1, PageAssumption
  <2>3. WorkflowBegins(w) /\ Publishes(w) /\ (Together(page) => Together(page'))
    BY <1>1, <2>1, <2>2, SelectBegins
  <2>4. QED
    BY <2>3 DEF Steps
<1>4. CASE ClearHistory
  BY <1>1, <1>4, ClearMeans
<1>5. CASE StopPage
  BY <1>1, <1>5, StopMeans
<1>6. ASSUME NEW w \in Calls, Answer(w)
      PROVE  Steps(w) /\ Publishes(w) /\ (Together(page) => Together(page'))
  <2>1. CASE RebalanceAnswers(w)
    BY <1>1, <2>1, RebalanceMeans DEF Steps
  <2>2. ASSUME NEW ok \in BOOLEAN, MainAnswers(w, ok)
        PROVE  Steps(w) /\ Publishes(w) /\ (Together(page) => Together(page'))
    BY <1>1, <2>2, MainAnswersMeans DEF Steps
  <2>3. ASSUME NEW ok \in BOOLEAN, ComparisonAnswers(w, ok)
        PROVE  Steps(w) /\ Publishes(w) /\ (Together(page) => Together(page'))
    BY <1>1, <2>3, ComparisonMeans DEF Steps
  <2>4. ASSUME NEW ok \in BOOLEAN, GrowthAnswers(w, ok)
        PROVE  Steps(w) /\ Publishes(w) /\ (Together(page) => Together(page'))
    BY <1>1, <2>4, GrowthMeans DEF Steps
  <2>5. ASSUME NEW ok \in BOOLEAN, GrowthComparisonAnswers(w, ok)
        PROVE  Steps(w) /\ Publishes(w) /\ (Together(page) => Together(page'))
    BY <1>1, <2>5, GrowthComparisonMeans DEF Steps
  <2>6. QED
    BY <1>6, <2>1, <2>2, <2>3, <2>4, <2>5 DEF Answer
<1>7. QED
  BY <1>2, <1>3, <1>4, <1>5, <1>6 DEF PageNext

LEMMA StepKeepsInv ==
  ASSUME PageInv, NEW w \in Calls, Steps(w), Together(page')
  PROVE  PageInv'
<1>1. PageTypes /\ CallsInOrder /\ Controllers /\ Progress /\ Results
  BY DEF PageInv
<1>2. OnlyCall(w) /\ IsPage(page')
  BY DEF Steps, WorkflowBegins, StandaloneBegins, WorkflowGrows, GrowthBegins, Compares, GrowthCompares,
         WorkflowEnds, StandaloneEnds, CallEnds, Proceeds
<1>3. PageTypes'
  BY <1>2 DEF PageTypes, OnlyCall
<1>4. CASE WorkflowBegins(w)
  BY <1>1, <1>3, <1>4, BeginKeepsOrder, BeginKeepsProgress, BeginKeepsAwaited DEF PageInv, Results
<1>5. CASE StandaloneBegins(w) \/ WorkflowGrows(w)
  BY <1>1, <1>3, <1>5, GrowthKeepsOrder, GrowthKeepsProgress, GrowthKeepsAwaited DEF PageInv, Results
<1>6. CASE Compares(w) \/ GrowthCompares(w)
  <2>1. Proceeds(w)
    BY <1>6 DEF Compares, GrowthCompares
  <2>2. QED
    BY <1>1, <1>3, <1>6, <2>1, ProceedKeepsOrder, CompareKeepsProgress, ProceedKeepsAwaited DEF PageInv, Results
<1>7. CASE WorkflowEnds(w) \/ StandaloneEnds(w)
  <2>1. CallEnds(w) /\ Proceeds(w)
    BY <1>7 DEF WorkflowEnds, StandaloneEnds, CallEnds
  <2>2. QED
    BY <1>1, <1>3, <1>7, <2>1, ProceedKeepsOrder, EndKeepsProgress, ProceedKeepsAwaited DEF PageInv, Results
<1>8. QED
  BY <1>4, <1>5, <1>6, <1>7 DEF Steps

\* The inductive invariant.
LEMMA PageInvStarts == PageInit => PageInv
<1> SUFFICES ASSUME PageInit PROVE PageInv
  OBVIOUS
<1>1. /\ DOMAIN page = Fields
      /\ page.generation = 0 /\ page.growthToken = 0 /\ page.owner = Nobody /\ page.aborted = {}
      /\ page.mainController = 0 /\ page.growthController = 0 /\ page.busy = FALSE /\ page.growthBusy = FALSE
  BY DEF PageInit, Fields
<1>2. /\ page.result = 0 /\ page.rebalance = 0 /\ page.comparison = 0 /\ page.growth = 0 /\ page.comparisonGrowth = 0
      /\ page.comparisonError = 0 /\ page.growthError = 0 /\ page.comparisonGrowthError = 0 /\ page.snapshot = 0
      /\ page.sweepKey = 0 /\ page.rebalanceKey = 0 /\ page.growthKey = 0
  BY DEF PageInit
<1>3. call = [w \in Calls |-> [mode |-> "none", cmp |-> FALSE, at |-> "ended", generation |-> 0, token |-> 0,
                               mine |-> Nobody, failed |-> {}]]
  BY DEF PageInit
<1>4. \A w \in Calls : /\ w # 0 /\ call[w].mode = "none" /\ call[w].at = "ended" /\ call[w].generation = 0 /\ call[w].token = 0
  BY <1>3, Numbers
<1>5. Nobody \in Owners /\ Nobody.kind = "none"
  BY DEF Nobody, Owners
<1>6. PageTypes
  <2>1. IsPage(page)
    <3>1. page.busy \in BOOLEAN /\ page.growthBusy \in BOOLEAN
      BY <1>1, Zenon
    <3>2. DOMAIN page = Fields /\ page.generation \in Nat /\ page.growthToken \in Nat /\ page.owner \in Owners
      BY <1>1, <1>5
    <3>3. QED
      BY <3>1, <3>2 DEF IsPage
  <2>2. [mode |-> "none", cmp |-> FALSE, at |-> "ended", generation |-> 0, token |-> 0, mine |-> Nobody, failed |-> {}] \in Call
    BY <1>5 DEF Call
  <2>3. call \in [Calls -> Call]
    BY <1>3, <2>2
  <2>4. QED
    BY <2>1, <2>3 DEF PageTypes
<1>7. CallsInOrder
  BY <1>1, <1>4 DEF CallsInOrder, Bounded, Shaped, Ordered, Distinct, Used, AtMain, Growing
<1>8. Controllers
  BY <1>1, <1>4 DEF Controllers, Known, MainControlled, GrowthControlled, AtMain, Growing
<1>9. Progress
  BY <1>1, <1>4, <1>5 DEF Progress, WorkflowReports, GrowthFlagged, Reporters, StandaloneReports, FlagsStand, OwnerStands,
                          CallInFlight, Growing, IsWorkflow
<1>10. Results
  BY <1>2, <1>4 DEF Results, Together, ComparisonAwaited, GrowthAwaited, GrowthCompared, WorkflowShown, Growing
<1>11. QED
  BY <1>6, <1>7, <1>8, <1>9, <1>10 DEF PageInv

LEMMA PageInvStays == PageInv /\ [PageNext]_pageVars => PageInv'
<1> SUFFICES ASSUME PageInv, [PageNext]_pageVars PROVE PageInv'
  OBVIOUS
<1>1. PageTypes /\ CallsInOrder /\ Controllers /\ Progress /\ Results /\ Together(page)
  BY DEF PageInv, Results
<1>2. CASE PageNext
  <2>1. Together(page')
    BY <1>1, <1>2, StepKinds
  <2>2. CASE \E w \in Calls : Steps(w) /\ Publishes(w)
    BY <2>1, <2>2, StepKeepsInv
  <2>3. CASE Stops \/ Clears
    <3>1. UNCHANGED call /\ IsPage(page')
      BY <2>3 DEF Stops, Clears
    <3>2. PageTypes'
      BY <1>1, <3>1 DEF PageTypes
    <3>3. CallsInOrder' /\ Controllers' /\ Progress'
      BY <1>1, <2>3, StopKeepsOrder, ClearKeepsOrder, StopKeepsProgress, ClearKeepsProgress
    <3>4. ComparisonAwaited' /\ GrowthAwaited' /\ GrowthCompared' /\ WorkflowShown'
      BY <1>1, <2>3, OthersKeepAwaited
    <3>5. QED
      BY <2>1, <3>2, <3>3, <3>4 DEF PageInv, Results
  <2>4. QED
    BY <1>2, <2>2, <2>3, StepKinds
<1>3. CASE UNCHANGED pageVars
  <2>1. page' = page /\ call' = call
    BY <1>3 DEF pageVars
  <2>2. PageTypes' /\ Results'
    BY <1>1, <2>1 DEF PageTypes, Results, Together, ComparisonAwaited, GrowthAwaited, GrowthCompared, WorkflowShown,
                      IsCurrent, IsLive, Growing, IsWorkflow
  <2>3. CallsInOrder' /\ Controllers'
    BY <1>1, <2>1 DEF CallsInOrder, Bounded, Shaped, Ordered, Distinct, Used, AtMain, Growing, IsWorkflow,
                      Controllers, Known, MainControlled, GrowthControlled, IsCurrent, IsLive
  <2>4. Progress'
    BY <1>1, <2>1 DEF Progress, WorkflowReports, GrowthFlagged, Reporters, StandaloneReports, FlagsStand, OwnerStands,
                      CallInFlight, Growing, IsWorkflow, IsCurrent, IsLive, IsLatest
  <2>5. QED
    BY <2>2, <2>3, <2>4 DEF PageInv
<1>4. QED
  BY <1>2, <1>3

\* What the invariant says holds at every step.
THEOREM PageInvHolds == PageSpec => []PageInv
<1>1. PageInv /\ [PageNext]_pageVars => PageInv'
  BY PageInvStays
<1>2. QED
  BY <1>1, PageInvStarts, PTL DEF PageSpec

LEMMA InvIsHonest == PageInv => PagesAreHonest
<1> SUFFICES ASSUME PageInv PROVE PagesAreHonest
  OBVIOUS
<1>1. PageTypes /\ CallsInOrder /\ Controllers /\ Progress /\ Together(page)
  BY DEF PageInv, Results
<1>2. page.busy \in BOOLEAN /\ page.growthBusy \in BOOLEAN /\ page.owner.kind \in {"none", "main", "growth"}
  BY <1>1 DEF PageTypes, IsPage, Owners
<1>3. page.busy <=> \E w \in Calls : IsWorkflow(w) /\ CallInFlight(w) /\ IsCurrent(w)
  BY <1>1, <1>2 DEF Progress, FlagsStand, WorkflowReports
<1>4. page.growthBusy <=> \E w \in Calls : Growing(w) /\ call[w].token = page.growthToken
  BY <1>1, <1>2 DEF Progress, FlagsStand, GrowthFlagged, IsLatest
<1>5. page.busy <=> page.owner.kind = "main"
  <2>1. ASSUME page.busy PROVE page.owner.kind = "main"
    <3>1. page.owner = Main(page.generation)
      BY <1>1, <1>3, <2>1 DEF Progress, WorkflowReports
    <3>2. QED
      BY <3>1, OwnersDiffer
  <2>2. ASSUME page.owner.kind = "main" PROVE page.busy
    BY <1>1, <2>2 DEF Progress, OwnerStands
  <2>3. QED
    BY <1>2, <2>1, <2>2
<1>6. ASSUME page.owner # Nobody
      PROVE  \E w \in Calls : Reports(w) /\ CallInFlight(w) /\ page.stage =
                                  IF call[w].mode = "growth" /\ call[w].at = "main" THEN "growth" ELSE call[w].at
  <2>1. CASE page.owner.kind = "main"
    <3>1. PICK w \in Calls : IsWorkflow(w) /\ CallInFlight(w) /\ IsCurrent(w)
      BY <1>3, <1>5, <2>1
    <3>2. page.owner = Main(page.generation) /\ page.stage = call[w].at
      BY <1>1, <3>1 DEF Progress, WorkflowReports
    <3>3. call[w].mode # "growth" /\ Main(call[w].generation) = page.owner
      BY <3>1, <3>2 DEF IsWorkflow, IsCurrent
    <3>4. Reports(w)
      BY <1>6, <3>3 DEF Reports
    <3>5. QED
      BY <3>1, <3>2, <3>3, <3>4
  <2>2. CASE page.owner.kind = "growth"
    <3>1. PICK w \in Calls : call[w].mode = "growth" /\ Growing(w) /\ IsLive(w) /\ call[w].mine = page.owner
      BY <1>1, <2>2 DEF Progress, OwnerStands
    <3>2. page.stage = call[w].at
      BY <1>1, <1>6, <3>1 DEF Progress, StandaloneReports
    <3>3. Reports(w) /\ CallInFlight(w) /\ call[w].at # "main"
      BY <1>6, <3>1 DEF Reports, CallInFlight, Growing
    <3>4. QED
      BY <3>2, <3>3
  <2>3. CASE page.owner.kind = "none"
    BY <1>1, <1>6, <2>3 DEF Progress, OwnerStands
  <2>4. QED
    BY <1>2, <2>1, <2>2, <2>3
<1>7. FlagsAreHonest
  BY <1>3, <1>4, <1>5, <1>6 DEF FlagsAreHonest
<1>8. OvertakenIsAborted
  <2> SUFFICES ASSUME NEW w \in Calls, CallInFlight(w)
               PROVE  IF Growing(w) THEN IsLive(w) <=> <<w, "growth">> \notin page.aborted
                      ELSE IsCurrent(w) <=> <<w, "main">> \notin page.aborted
    BY DEF OvertakenIsAborted
  <2>1. call[w] \in Call
    BY <1>1, Numbers
  <2>2. ~Growing(w) => AtMain(w)
    BY <2>1 DEF Call, Growing, AtMain, CallInFlight
  <2>3. QED
    BY <1>1, <2>2 DEF Controllers, MainControlled, GrowthControlled
<1>9. ShownTogether
  BY <1>1 DEF Together, ShownTogether
<1>10. QED
  BY <1>7, <1>8, <1>9 DEF PagesAreHonest

\* Flags, progress and aborted requests of the page agree with what is in
\* flight, and each result is shown with its own fingerprint, comparison and error.
THEOREM PagesHonest == PageSpec => []PagesAreHonest
<1>1. PageSpec => []PageInv
  BY PageInvHolds
<1>2. QED
  BY <1>1, InvIsHonest, PTL

\* Whoever is current is the newest workflow; a growth that publishes started last.
LEMMA NoneLater ==
  ASSUME PageTypes, CallsInOrder, NEW w \in Calls, IsCurrent(w)
  PROVE  NoLaterWorkflow(w)
<1> SUFFICES ASSUME NEW u \in Calls, u > w, IsWorkflow(u) PROVE FALSE
  BY DEF NoLaterWorkflow
<1>1. w < u /\ Used(u)
  BY Numbers DEF Used, IsWorkflow
<1>2. call[w].generation < call[u].generation
  BY <1>1 DEF CallsInOrder, Ordered
<1>3. call[u].generation <= page.generation /\ call[w].generation = page.generation
  BY DEF CallsInOrder, Bounded, IsCurrent
<1>4. QED
  BY <1>2, <1>3, Numbers

LEMMA OfTheNewest ==
  ASSUME PageInv, NEW w \in Calls, Publishes(w)
  PROVE  NewestPublishes
<1>1. PageTypes /\ CallsInOrder
  BY DEF PageInv
<1>2. ASSUME NEW x \in {"result", "rebalance", "comparison", "error"}, Published(x)
      PROVE  NoLaterWorkflow(page'[x])
  <2>1. page'[x] \notin {page[x], 0}
    BY <1>2 DEF Published
  <2>2. page'[x] = w /\ IsCurrent(w)
    BY <2>1 DEF Publishes
  <2>3. QED
    BY <1>1, <2>2, NoneLater
<1>3. ASSUME NEW x \in {"growth", "comparisonGrowth", "growthError"}, Published(x)
      PROVE  NoLaterWorkflow(page'[x]) /\ \A u \in Calls : call[u].token <= call[page'[x]].token
  <2>1. page'[x] \notin {page[x], 0}
    BY <1>3 DEF Published
  <2>2. page'[x] = w /\ IsLive(w)
    BY <2>1 DEF Publishes
  <2>3. IsCurrent(w) /\ \A u \in Calls : call[u].token <= call[w].token
    BY <1>1, <2>2 DEF IsLive, CallsInOrder, Bounded
  <2>4. QED
    BY <1>1, <2>2, <2>3, NoneLater
<1>4. QED
  BY <1>2, <1>3 DEF NewestPublishes

\* A growth of its own that reports its end was not overtaken.
LEMMA EndIsLive ==
  ASSUME PageInv, NEW w \in Calls, StandaloneEnds(w), page'.done # page.done
  PROVE  IsLive(w)
<1>1. /\ IsLatest(w) /\ call[w].mine # Nobody /\ page.owner = call[w].mine
      /\ call[w].mode = "growth" /\ Growing(w)
  BY DEF StandaloneEnds
<1>2. page.owner = Standalone(call[w].token)
  BY <1>1 DEF PageInv, Progress, Reporters
<1>3. page.owner.kind = "growth"
  BY <1>2, OwnersDiffer
<1>4. PICK v \in Calls : Growing(v) /\ IsLive(v)
  BY <1>3 DEF PageInv, Progress, OwnerStands
<1>5. IsLatest(v)
  BY <1>4 DEF IsLive, IsLatest
<1>6. v = w
  BY <1>1, <1>4, <1>5, OneGrowth DEF PageInv
<1>7. QED
  BY <1>4, <1>6

LEMMA EndIsHonest ==
  ASSUME PageInv, NEW w \in Calls, WorkflowEnds(w) \/ StandaloneEnds(w), page'.done # page.done,
         page'.done.outcome \in {"ok", "partial"}, NEW failed, failed = page'.done.failed
  PROVE  /\ call[w].mode = "sweep" => page'.result = w
         /\ call[w].mode = "rebalance" =>
               /\ page'.rebalance = w
               /\ call[w].cmp => IF "comparison" \in failed THEN page'.comparisonError = w ELSE page'.comparison = w
         /\ (call[w].mode # "sweep" /\ IsLatest(w)) => GrowthShown(page', w, failed) /\ IsLive(w)
<1>1. /\ EndsShown(w, failed)
      /\ page'.rebalance = page.rebalance /\ page'.comparison = page.comparison /\ page'.comparisonError = page.comparisonError
  BY DEF WorkflowEnds, StandaloneEnds, CallEnds
<1>2. call[w] \in Call
  BY Numbers DEF PageInv
<1>3. IsWorkflow(w) => IsCurrent(w)
  BY DEF WorkflowEnds, StandaloneEnds, IsWorkflow
<1>4. CASE call[w].mode = "sweep"
  <2>1. ~Growing(w)
    BY <1>4 DEF PageInv, CallsInOrder, Shaped, Growing
  <2>2. QED
    BY <1>1, <1>4, <2>1 DEF EndsShown
<1>5. CASE call[w].mode # "sweep"
  <2>1. PICK F \in SUBSET GrowthStages : /\ Growing(w) /\ GrowthShown(page', w, F)
                                         /\ failed = IF IsWorkflow(w) THEN F \cup call[w].failed ELSE F
    BY <1>1, <1>5 DEF EndsShown
  <2>2. call[w].failed \subseteq {"comparison"}
    BY <1>2 DEF Call
  <2>3. "comparison" \notin F
    BY DEF GrowthStages
  <2>4. "growth" \in failed <=> "growth" \in F
    BY <2>1, <2>2
  <2>5. "growthComparison" \in failed <=> "growthComparison" \in F
    BY <2>1, <2>2
  <2>6. GrowthShown(page', w, failed)
    BY <2>1, <2>4, <2>5 DEF GrowthShown
  <2>7. ASSUME call[w].mode = "rebalance"
        PROVE  /\ page'.rebalance = w
               /\ call[w].cmp => IF "comparison" \in failed THEN page'.comparisonError = w ELSE page'.comparison = w
    <3>1. IsWorkflow(w)
      BY <2>7 DEF IsWorkflow
    <3>2. "comparison" \in failed <=> "comparison" \in call[w].failed
      BY <2>1, <2>3, <3>1
    <3>3. /\ page.rebalance = w
          /\ call[w].cmp => IF "comparison" \in call[w].failed THEN page.comparisonError = w ELSE page.comparison = w
      BY <1>3, <2>1, <3>1 DEF PageInv, Results, WorkflowShown
    <3>4. QED
      BY <1>1, <3>2, <3>3
  <2>8. ASSUME IsLatest(w) PROVE IsLive(w)
    <3>1. CASE IsWorkflow(w)
      BY <1>3, <2>8, <3>1 DEF IsLive, IsLatest
    <3>2. CASE ~IsWorkflow(w)
      BY <3>2, EndIsLive DEF WorkflowEnds
    <3>3. QED
      BY <3>1, <3>2
  <2>9. QED
    BY <1>5, <2>6, <2>7, <2>8
<1>6. QED
  BY <1>4, <1>5

LEMMA StepEndsHonestly ==
  ASSUME PageInv, NEW w \in Calls, Steps(w)
  PROVE  EndsHonestly
<1>1. CASE WorkflowEnds(w) \/ StandaloneEnds(w)
  <2> SUFFICES ASSUME NEW u \in Calls, Ended(u), page'.done.outcome \in {"ok", "partial"}, NEW failed, failed = page'.done.failed
               PROVE  LET Honest(stage, value, error) == IF stage \in failed THEN Shows(error, u) ELSE Shows(value, u)
                      IN  /\ call[u].mode = "sweep" => Shows("result", u)
                          /\ call[u].mode = "rebalance" =>
                                Shows("rebalance", u) /\ (call[u].cmp => Honest("comparison", "comparison", "comparisonError"))
                          /\ call[u].mode # "sweep" =>
                                Overtaken(u) \/ /\ Honest("growth", "growth", "growthError")
                                                /\ (call[u].cmp /\ "growth" \notin failed) =>
                                                      Honest("growthComparison", "comparisonGrowth", "comparisonGrowthError")
    BY DEF EndsHonestly
  <2>1. page'.done # page.done /\ u = w
    BY <1>1 DEF Ended, WorkflowEnds, StandaloneEnds, CallEnds
  <2>2. /\ call[u].mode = "sweep" => page'.result = u
        /\ call[u].mode = "rebalance" =>
              /\ page'.rebalance = u
              /\ call[u].cmp => IF "comparison" \in failed THEN page'.comparisonError = u ELSE page'.comparison = u
        /\ (call[u].mode # "sweep" /\ IsLatest(u)) => GrowthShown(page', u, failed) /\ IsLive(u)
    BY <1>1, <2>1, EndIsHonest
  <2>3. Overtaken(u) \/ IsLatest(u)
    BY DEF Overtaken, IsLatest
  <2>4. QED
    BY <2>2, <2>3 DEF Shows, GrowthShown
<1>2. CASE ~(WorkflowEnds(w) \/ StandaloneEnds(w))
  <2>1. page'.done = page.done
    BY <1>2 DEF Steps, WorkflowBegins, StandaloneBegins, WorkflowGrows, GrowthBegins, Compares, GrowthCompares
  <2>2. QED
    BY <2>1 DEF EndsHonestly, Ended
<1>3. QED
  BY <1>1, <1>2

LEMMA StepIsHonest == PageInv /\ [PageNext]_pageVars => [NewestPublishes /\ EndsHonestly]_pageVars
<1> SUFFICES ASSUME PageInv, PageNext, pageVars' # pageVars PROVE NewestPublishes /\ EndsHonestly
  OBVIOUS
<1>1. CASE \E w \in Calls : Steps(w) /\ Publishes(w)
  BY <1>1, OfTheNewest, StepEndsHonestly
<1>2. CASE (Stops \/ Clears) /\ \A w \in Calls : Publishes(w)
  <2>1. EndsHonestly
    BY <1>2 DEF EndsHonestly, Ended, Stops, Clears, Fields
  <2>2. NewestPublishes
    <3>1. CASE Calls # {}
      BY <1>2, <3>1, OfTheNewest
    <3>2. CASE Calls = {}
      BY <1>2, <3>2 DEF NewestPublishes, NoLaterWorkflow
    <3>3. QED
      BY <3>1, <3>2
  <2>3. QED
    BY <2>1, <2>2
<1>3. QED
  BY <1>1, <1>2, StepKinds

\* No answer that was overtaken is published, and whatever is reported as done was
\* published before: every stage that did not fail, and the errors of the others.
THEOREM PagePublishesHonestly == PageSpec => PublishesHonestly
<1>1. PageInv /\ [PageNext]_pageVars => [NewestPublishes /\ EndsHonestly]_pageVars
  BY StepIsHonest
<1>2. QED
  BY <1>1, PageInvHolds, PTL DEF PageSpec, PublishesHonestly
=============================================================================
