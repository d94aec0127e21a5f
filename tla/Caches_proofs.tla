--------------------------- MODULE Caches_proofs ---------------------------
(***************************************************************************)
(* Proofs about ServingCaches for any threads and any number of commits,   *)
(* and about ResultCache for any threads, cases and capacity.              *)
(***************************************************************************)
EXTENDS ServingCaches, ResultCache, FiniteSetTheorems, TLAPS

Types == /\ db \in Versions /\ answered \in Versions /\ answered <= db
         /\ rules \in [issues : Versions, gates : Versions, loaded : BOOLEAN, young : BOOLEAN]
         /\ rules.issues <= db /\ rules.gates <= db
         /\ facets \in [value : Versions \cup {NoValue}, young : BOOLEAN]
         /\ thread \in [RequestThreads -> Thread]

\* The phases of a request belong to its kind; who loads or publishes has the lock.
Loading(t) == thread[t].pc \in {"gates", "publish", "published"}
Kind(t) == /\ thread[t].pc \in {"refresh", "gates", "publish", "published", "read"} => thread[t].kind \in {"apply", "rules"}
           /\ thread[t].pc \in {"mark", "dropped", "expire"} => thread[t].kind = "apply"
           /\ thread[t].pc = "read" => thread[t].kind = "rules"
           /\ thread[t].pc \in {"build", "store", "extend", "return"} => thread[t].kind = "facets"
           /\ thread[t].own <= db /\ thread[t].floor <= answered
Locked == \A t \in RequestThreads : Loading(t) <=> lock = t

\* A list that was loaded under the lock is no older than the one of the cache.
NotOlder(t) == /\ Loading(t) => rules.issues <= thread[t].got /\ thread[t].got <= db
               /\ thread[t].pc \in {"publish", "published"} =>
                     rules.gates <= thread[t].gotGates /\ thread[t].gotGates <= db
               /\ thread[t].pc = "published" => rules.issues = thread[t].got

\* Loads that go on see the commit n, and the cache has it or must be loaded.
Sees(t, n) == /\ Loading(t) => n <= thread[t].got
              /\ thread[t].pc \in {"publish", "published"} => n <= thread[t].gotGates
LoadsSee(n) == \A t \in RequestThreads : Sees(t, n)
CacheSees(n) == rules.loaded => n <= rules.issues /\ n <= rules.gates

\* That holds of the commit of an application once it has refreshed the cache.
Settled(t) == /\ thread[t].kind = "apply" /\ thread[t].pc \in {"gates", "publish", "published", "mark", "dropped", "expire"} =>
                    LoadsSee(thread[t].own)
              /\ thread[t].pc \in {"dropped", "expire"} => CacheSees(thread[t].own)

\* A reader finds its floor in the lists and in what it took from them.
Reads(t) == /\ thread[t].pc = "read" => thread[t].floor <= rules.issues /\ thread[t].floor <= rules.gates
            /\ thread[t].pc = "serve" /\ thread[t].kind = "rules" =>
                  thread[t].floor <= thread[t].got /\ thread[t].floor <= thread[t].gotGates

CacheInv == /\ Types /\ Locked
            /\ \A t \in RequestThreads : Kind(t) /\ NotOlder(t) /\ Settled(t) /\ Reads(t)
            /\ LoadsSee(answered) /\ CacheSees(answered)

-----------------------------------------------------------------------------
LEMMA Numbers ==
    /\ \A n \in Versions : n \in Nat
    /\ NoValue \in Nat /\ 0 \in Versions
    /\ \A n \in Versions : n < MaxCommits => n + 1 \in Versions
  BY CachesAssumption DEF Versions, NoValue

LEMMA Fields ==
    ASSUME Types, NEW t \in RequestThreads
    PROVE  /\ thread[t] \in Thread /\ thread[t].got \in Nat /\ thread[t].gotGates \in Versions
           /\ thread[t].gotGates \in Nat /\ thread[t].own \in Nat /\ thread[t].floor \in Nat
           /\ thread[t].own \in Versions /\ thread[t].floor \in Versions
           /\ thread[t].got \in Versions \cup {NoValue}
           /\ db \in Nat /\ answered \in Nat /\ rules.issues \in Nat /\ rules.gates \in Nat
           /\ rules.issues \in Versions /\ rules.gates \in Versions
           /\ rules.loaded \in BOOLEAN /\ rules.young \in BOOLEAN
  <1>1. /\ thread[t] \in Thread /\ db \in Versions /\ answered \in Versions
        /\ rules \in [issues : Versions, gates : Versions, loaded : BOOLEAN, young : BOOLEAN]
    BY DEF Types
  <1>2. /\ thread[t].got \in Versions \cup {NoValue} /\ thread[t].gotGates \in Versions
        /\ thread[t].own \in Versions /\ thread[t].floor \in Versions
    BY <1>1 DEF Thread
  <1>3. rules.issues \in Versions /\ rules.gates \in Versions /\ rules.loaded \in BOOLEAN /\ rules.young \in BOOLEAN
    BY <1>1
  <1>4. QED
    BY <1>1, <1>2, <1>3, Numbers

\* A step of one thread that keeps what the others rely on.
LEMMA OneThread ==
    ASSUME CacheInv, Types', Locked',
           NEW t \in RequestThreads,
           \A u \in RequestThreads \ {t} : thread'[u] = thread[u],
           db <= db', answered <= answered',
           rules.issues <= rules'.issues, rules.gates <= rules'.gates,
           \/ rules'.issues = rules.issues /\ rules'.gates = rules.gates
           \/ \A u \in RequestThreads \ {t} : ~Loading(u),
           \A n \in Versions : n <= db /\ Sees(t, n) => Sees(t, n)',
           \A n \in Versions : CacheSees(n) /\ LoadsSee(n) => CacheSees(n)',
           LoadsSee(answered)', CacheSees(answered)',
           Kind(t)', NotOlder(t)', Settled(t)', Reads(t)'
    PROVE  CacheInv'
  <1>0. Types /\ \A u \in RequestThreads : u # t => thread'[u] = thread[u]
    BY DEF CacheInv
  <1>1. \A n \in Versions : n <= db /\ LoadsSee(n) => LoadsSee(n)'
    BY <1>0 DEF LoadsSee, Sees, Loading
  <1>2. ASSUME NEW u \in RequestThreads, u # t PROVE Kind(u)'
    <2>1. thread'[u] = thread[u] /\ Kind(u)
      BY <1>0, <1>2 DEF CacheInv
    <2>2. thread[u].own \in Nat /\ thread[u].floor \in Nat /\ db \in Nat /\ answered \in Nat
      BY <1>0, Fields
    <2>3. db' \in Nat /\ answered' \in Nat
      BY Numbers DEF Types
    <2>4. QED
      BY <2>1, <2>2, <2>3 DEF Kind
  <1>3. ASSUME NEW u \in RequestThreads, u # t PROVE NotOlder(u)'
    <2>1. thread'[u] = thread[u] /\ NotOlder(u)
      BY <1>0, <1>3 DEF CacheInv
    <2>2. thread[u].got \in Nat /\ thread[u].gotGates \in Nat /\ db \in Nat /\ db' \in Nat
      BY <1>0, Fields, Numbers DEF Types
    <2>3. CASE Loading(u)
      <3>1. rules'.issues = rules.issues /\ rules'.gates = rules.gates
        BY <1>3, <2>3
      <3>2. QED
        BY <2>1, <2>2, <3>1 DEF NotOlder, Loading
    <2>4. CASE ~Loading(u)
      BY <2>1, <2>4 DEF NotOlder, Loading
    <2>5. QED
      BY <2>3, <2>4
  <1>4. ASSUME NEW u \in RequestThreads, u # t PROVE Settled(u)'
    <2>1. thread'[u] = thread[u] /\ Settled(u) /\ thread[u].own <= db /\ thread[u].own \in Versions
          /\ (thread[u].pc \in {"dropped", "expire"} => thread[u].kind = "apply")
      BY <1>0, <1>4, Fields DEF CacheInv, Kind
    <2>2. PICK n \in Versions : n = thread[u].own
      BY <2>1
    <2>3. LoadsSee(n) => LoadsSee(n)'
      BY <1>1, <2>1, <2>2
    <2>4. CacheSees(n) /\ LoadsSee(n) => CacheSees(n)'
      OBVIOUS
    <2>5. LoadsSee(thread[u].own)' <=> LoadsSee(n)'
      BY <2>1, <2>2 DEF LoadsSee, Sees, Loading
    <2>6. CacheSees(thread[u].own)' <=> CacheSees(n)'
      BY <2>1, <2>2 DEF CacheSees
    <2>7. QED
      BY <2>1, <2>2, <2>3, <2>4, <2>5, <2>6 DEF Settled
  <1>5. ASSUME NEW u \in RequestThreads, u # t PROVE Reads(u)'
    <2>1. thread'[u] = thread[u] /\ Reads(u)
      BY <1>0, <1>5 DEF CacheInv
    <2>2. thread[u].floor \in Nat /\ rules.issues \in Nat /\ rules.gates \in Nat
      BY <1>0, Fields
    <2>3. rules'.issues \in Nat /\ rules'.gates \in Nat
      BY Numbers DEF Types
    <2>4. QED
      BY <2>1, <2>2, <2>3 DEF Reads
  <1>6. QED
    BY <1>2, <1>3, <1>4, <1>5 DEF CacheInv

\* What every load in progress will see stays so.
LEMMA Carried ==
    ASSUME Types, NEW t \in RequestThreads,
           \A u \in RequestThreads \ {t} : thread'[u] = thread[u],
           \A n \in Versions : n <= db /\ Sees(t, n) => Sees(t, n)'
    PROVE  \A n \in Versions : n <= db /\ LoadsSee(n) => LoadsSee(n)'
  <1>1. \A u \in RequestThreads : u # t => thread'[u] = thread[u]
    OBVIOUS
  <1>2. QED
    BY <1>1 DEF LoadsSee, Sees, Loading

\* Nobody else loads while the lock is free or one's own.
LEMMA OthersAway ==
    ASSUME CacheInv, NEW t \in RequestThreads, lock = NoThread \/ Loading(t)
    PROVE  \A u \in RequestThreads \ {t} : ~Loading(u)
  <1>1. Locked /\ \A u \in RequestThreads : u # NoThread
    BY CachesAssumption DEF CacheInv
  <1>2. QED
    BY <1>1 DEF Locked

\* How the steps write what a thread becomes.
Moves(t, pc, got, gotGates) ==
    \/ Enter(t, pc) /\ got = thread[t].got /\ gotGates = thread[t].gotGates
    \/ thread' = [thread EXCEPT ![t].pc = pc, ![t].got = got] /\ gotGates = thread[t].gotGates
    \/ thread' = [thread EXCEPT ![t].pc = pc, ![t].gotGates = gotGates] /\ got = thread[t].got
    \/ thread' = [thread EXCEPT ![t].pc = pc, ![t].got = got, ![t].gotGates = gotGates]
    \/ thread' = [thread EXCEPT ![t] = [@ EXCEPT !.pc = pc, !.got = got, !.gotGates = gotGates]]

\* The record of a thread after its step.
LEMMA Moved ==
    ASSUME Types, NEW t \in RequestThreads, NEW pc \in Phases,
           NEW got \in Versions \cup {NoValue}, NEW gotGates \in Versions,
           Moves(t, pc, got, gotGates)
    PROVE  /\ thread' \in [RequestThreads -> Thread]
           /\ \A u \in RequestThreads \ {t} : thread'[u] = thread[u]
           /\ thread'[t].pc = pc /\ thread'[t].got = got /\ thread'[t].gotGates = gotGates
           /\ thread'[t].kind = thread[t].kind /\ thread'[t].own = thread[t].own
           /\ thread'[t].floor = thread[t].floor
  <1>1. PICK r \in Thread : r = thread[t]
    BY DEF Types
  <1>2. PICK n \in Thread : n = [r EXCEPT !.pc = pc, !.got = got, !.gotGates = gotGates]
    BY DEF Thread
  <1>3. /\ n.pc = pc /\ n.got = got /\ n.gotGates = gotGates
        /\ n.kind = r.kind /\ n.own = r.own /\ n.floor = r.floor
    BY <1>2 DEF Thread
  <1>4. thread' = [thread EXCEPT ![t] = n]
    <2>1. CASE Enter(t, pc) /\ got = r.got /\ gotGates = r.gotGates
      <3>1. n = [r EXCEPT !.pc = pc]
        BY <1>2, <2>1 DEF Thread
      <3>2. QED
        BY <1>1, <2>1, <3>1 DEF Enter, Types
    <2>2. CASE thread' = [thread EXCEPT ![t].pc = pc, ![t].got = got] /\ gotGates = r.gotGates
      <3>1. n = [r EXCEPT !.pc = pc, !.got = got]
        BY <1>2, <2>2 DEF Thread
      <3>2. QED
        BY <1>1, <2>2, <3>1 DEF Types
    <2>3. CASE thread' = [thread EXCEPT ![t].pc = pc, ![t].gotGates = gotGates] /\ got = r.got
      <3>1. n = [r EXCEPT !.pc = pc, !.gotGates = gotGates]
        BY <1>2, <2>3 DEF Thread
      <3>2. QED
        BY <1>1, <2>3, <3>1 DEF Types
    <2>4. CASE thread' = [thread EXCEPT ![t].pc = pc, ![t].got = got, ![t].gotGates = gotGates]
      BY <1>1, <1>2, <2>4 DEF Types
    <2>5. CASE thread' = [thread EXCEPT ![t] = [@ EXCEPT !.pc = pc, !.got = got, !.gotGates = gotGates]]
      BY <1>1, <1>2, <2>5 DEF Types
    <2>6. QED
      BY <1>1, <2>1, <2>2, <2>3, <2>4, <2>5 DEF Moves
  <1>5. QED
    BY <1>1, <1>3, <1>4 DEF Types

\* The record of a request that begins.
LEMMA IdleRecord == /\ Idle \in Thread /\ Idle.own = 0 /\ Idle.floor = 0
                                        /\ Idle.pc = "idle" /\ Idle.kind = "none"
  <1>1. 0 \in Versions /\ "idle" \in Phases /\ 0 \in Versions \cup {NoValue}
    BY Numbers DEF Phases
  <1>2. Idle \in Thread
    BY <1>1 DEF Idle, Thread
  <1>3. Idle.own = 0 /\ Idle.floor = 0 /\ Idle.pc = "idle" /\ Idle.kind = "none"
    BY DEF Idle
  <1>4. QED
    BY <1>2, <1>3

WriterIdle(pc, kind, v) == [Idle EXCEPT !.pc = pc, !.kind = kind, !.own = v]
AskerIdle(pc, kind, v) == [Idle EXCEPT !.kind = kind, !.floor = v, !.pc = pc]

LEMMA Writer ==
    ASSUME NEW pc \in Phases, NEW kind \in {"apply", "rules", "facets"}, NEW v \in Versions
    PROVE  \E n \in Thread : /\ n = WriterIdle(pc, kind, v)
                             /\ n.pc = pc /\ n.kind = kind /\ n.own = v /\ n.floor = 0
  <1>1. PICK r \in Thread : r = Idle /\ r.own = 0 /\ r.floor = 0
    BY IdleRecord
  <1>2. PICK n \in Thread : n = [r EXCEPT !.pc = pc, !.kind = kind, !.own = v]
    BY DEF Thread
  <1>3. n.pc = pc /\ n.kind = kind /\ n.own = v /\ n.floor = r.floor
    BY <1>2 DEF Thread
  <1>4. QED
    BY <1>1, <1>2, <1>3 DEF WriterIdle

LEMMA Asker ==
    ASSUME NEW pc \in Phases, NEW kind \in {"apply", "rules", "facets"}, NEW v \in Versions
    PROVE  \E n \in Thread : /\ n = AskerIdle(pc, kind, v)
                             /\ n.pc = pc /\ n.kind = kind /\ n.own = 0 /\ n.floor = v
  <1>1. PICK r \in Thread : r = Idle /\ r.own = 0 /\ r.floor = 0
    BY IdleRecord
  <1>2. PICK n \in Thread : n = [r EXCEPT !.kind = kind, !.floor = v, !.pc = pc]
    BY DEF Thread
  <1>3. n.pc = pc /\ n.kind = kind /\ n.own = r.own /\ n.floor = v
    BY <1>2 DEF Thread
  <1>4. QED
    BY <1>1, <1>2, <1>3 DEF AskerIdle

-----------------------------------------------------------------------------
(* The steps of the rule cache.                                            *)

LEMMA ApplyStep == ASSUME CacheInv, NEW t \in RequestThreads, Apply(t) PROVE CacheInv'
  <1>1. Types /\ Locked /\ thread[t].pc = "idle" /\ db < MaxCommits /\ db' = db + 1
        /\ answered' = answered /\ rules' = rules /\ lock' = lock /\ facets' = facets
    BY DEF CacheInv, Apply, InPhase
  <1>2. db \in Nat /\ db + 1 \in Versions /\ 0 \in Versions /\ answered \in Nat /\ rules.issues \in Nat /\ rules.gates \in Nat
    BY <1>1, Numbers, Fields DEF Types
  <1>3. PICK n \in Thread : /\ thread' = [thread EXCEPT ![t] = n]
                            /\ n.pc = "refresh" /\ n.kind = "apply" /\ n.own = db + 1 /\ n.floor = 0
    <2>1. PICK m \in Versions : m = db + 1
      BY <1>2
    <2>2. "refresh" \in Phases /\ "apply" \in {"apply", "rules", "facets"}
      BY DEF Phases
    <2>3. PICK n \in Thread : /\ n = WriterIdle("refresh", "apply", m)
                              /\ n.pc = "refresh" /\ n.kind = "apply" /\ n.own = m /\ n.floor = 0
      BY <2>2, Writer
    <2>4. thread' = [thread EXCEPT ![t] = n]
      BY <2>1, <2>3 DEF Apply, WriterIdle
    <2>5. QED
      BY <2>1, <2>3, <2>4
  <1>4. /\ thread' \in [RequestThreads -> Thread]
        /\ \A u \in RequestThreads \ {t} : thread'[u] = thread[u]
        /\ thread'[t] = n
    BY <1>1, <1>3 DEF Types
  <1>5. Types'
    BY <1>1, <1>2, <1>4 DEF Types
  <1>6. Locked'
    BY <1>1, <1>3, <1>4 DEF Locked, Loading
  <1>7. LoadsSee(answered)' /\ CacheSees(answered)'
    BY <1>1, <1>3, <1>4 DEF CacheInv, LoadsSee, Sees, Loading, CacheSees
  <1>8. \A v \in Versions : Sees(t, v)'
    BY <1>3, <1>4 DEF Sees, Loading
  <1>9. Kind(t)' /\ NotOlder(t)' /\ Settled(t)' /\ Reads(t)'
    BY <1>1, <1>2, <1>3, <1>4 DEF Kind, NotOlder, Settled, Reads, Loading
  <1>10. QED
    BY <1>1, <1>2, <1>4, <1>5, <1>6, <1>7, <1>8, <1>9, OneThread DEF CacheSees

\* What begins without a commit.
LEMMA AskSteps == ASSUME CacheInv, NEW t \in RequestThreads, AskRules(t) \/ AskFacets(t) PROVE CacheInv'
  <1>1. Types /\ Locked /\ thread[t].pc = "idle"
        /\ db' = db /\ answered' = answered /\ rules' = rules /\ lock' = lock /\ facets' = facets
    BY DEF CacheInv, AskRules, AskFacets, InPhase
  <1>2. db \in Nat /\ 0 \in Versions /\ answered \in Versions /\ answered \in Nat /\ rules.issues \in Nat /\ rules.gates \in Nat
    BY <1>1, Numbers, Fields DEF Types
  <1>3. PICK pc \in {"refresh", "read", "return", "build"}, kind \in {"rules", "facets"}, floor \in Versions :
           /\ floor = answered
           /\ thread' = [thread EXCEPT ![t] = AskerIdle(pc, kind, floor)]
           /\ pc = "read" => rules.loaded
           /\ pc \in {"refresh", "read"} <=> kind = "rules"
    <2>1. PICK v \in Versions : v = answered
      BY <1>2
    <2>2. CASE AskRules(t)
      <3>1. PICK pc \in {"refresh", "read"} : /\ pc = IF NeedsRefresh THEN "refresh" ELSE "read"
                                              /\ pc = "read" => rules.loaded
        BY DEF NeedsRefresh
      <3>2. thread' = [thread EXCEPT ![t] = AskerIdle(pc, "rules", v)]
        BY <2>1, <2>2, <3>1 DEF AskRules, AskerIdle
      <3>3. QED
        BY <2>1, <3>1, <3>2
    <2>3. CASE AskFacets(t)
      <3>1. PICK pc \in {"return", "build"} : pc = IF facets.value # NoValue /\ facets.young THEN "return" ELSE "build"
        OBVIOUS
      <3>2. thread' = [thread EXCEPT ![t] = AskerIdle(pc, "facets", v)]
        BY <2>1, <2>3, <3>1 DEF AskFacets, AskerIdle
      <3>3. QED
        BY <2>1, <3>1, <3>2
    <2>4. QED
      BY <2>2, <2>3
  <1>4. /\ thread' \in [RequestThreads -> Thread]
        /\ \A u \in RequestThreads \ {t} : thread'[u] = thread[u]
        /\ thread'[t].pc = pc /\ thread'[t].kind = kind /\ thread'[t].own = 0 /\ thread'[t].floor = answered
    <2>1. pc \in Phases /\ kind \in {"apply", "rules", "facets"}
      BY DEF Phases
    <2>2. PICK n \in Thread : /\ n = AskerIdle(pc, kind, floor)
                              /\ n.pc = pc /\ n.kind = kind /\ n.own = 0 /\ n.floor = floor
      BY <2>1, Asker
    <2>3. thread' = [thread EXCEPT ![t] = n]
      BY <1>3, <2>2
    <2>4. QED
      BY <1>1, <1>3, <2>2, <2>3 DEF Types
  <1>5. Types'
    BY <1>1, <1>4 DEF Types
  <1>6. Locked'
    BY <1>1, <1>4 DEF Locked, Loading
  <1>7. LoadsSee(answered)' /\ CacheSees(answered)'
    BY <1>1, <1>4 DEF CacheInv, LoadsSee, Sees, Loading, CacheSees
  <1>8. \A n \in Versions : Sees(t, n)'
    BY <1>4 DEF Sees, Loading
  <1>9. Kind(t)' /\ NotOlder(t)' /\ Settled(t)' /\ Reads(t)'
    BY <1>1, <1>2, <1>3, <1>4 DEF Kind, NotOlder, Settled, Reads, Loading, CacheInv, CacheSees
  <1>10. QED
    BY <1>1, <1>2, <1>4, <1>5, <1>6, <1>7, <1>8, <1>9, OneThread DEF CacheSees

LEMMA TakeLockStep == ASSUME CacheInv, NEW t \in RequestThreads, TakeLock(t) PROVE CacheInv'
  <1>1. /\ Types /\ Locked /\ Kind(t) /\ LoadsSee(answered) /\ CacheSees(answered)
        /\ thread[t].pc = "refresh" /\ lock = NoThread
        /\ db' = db /\ answered' = answered /\ rules' = rules /\ facets' = facets
    BY DEF CacheInv, TakeLock, InPhase, LockFree
  <1>2. /\ \A u \in RequestThreads \ {t} : ~Loading(u)
        /\ \A u \in RequestThreads : u # NoThread
    BY <1>1, OthersAway, CachesAssumption
  <1>3. /\ db \in Nat /\ answered \in Nat /\ rules.issues \in Nat /\ rules.gates \in Nat /\ answered <= db
        /\ thread[t].own \in Nat /\ thread[t].floor \in Nat /\ rules.issues <= db /\ rules.gates <= db
        /\ answered \in Versions /\ thread[t].own \in Versions
    BY <1>1, Fields DEF Types
  <1>4. CASE thread[t].kind = "rules" /\ ~NeedsRefresh
    <2>1. Enter(t, "read") /\ lock' = lock /\ rules.loaded
      BY <1>1, <1>4 DEF TakeLock, NeedsRefresh
    <2>2. "read" \in Phases /\ thread[t].got \in Versions \cup {NoValue} /\ thread[t].gotGates \in Versions
          /\ Moves(t, "read", thread[t].got, thread[t].gotGates)
      BY <1>1, <2>1, Fields DEF Phases, Moves
    <2>3. /\ thread' \in [RequestThreads -> Thread]
          /\ \A u \in RequestThreads \ {t} : thread'[u] = thread[u]
          /\ thread'[t].pc = "read" /\ thread'[t].kind = "rules" /\ thread'[t].own = thread[t].own
          /\ thread'[t].floor = thread[t].floor
      BY <1>1, <1>4, <2>1, <2>2, Moved
    <2>4. Types'
      BY <1>1, <2>3 DEF Types
    <2>5. Locked'
      BY <1>1, <2>1, <2>3 DEF Locked, Loading
    <2>6. \A n \in Versions : Sees(t, n)'
      BY <2>3 DEF Sees, Loading
    <2>7. LoadsSee(answered)' /\ CacheSees(answered)'
      <3>1. LoadsSee(answered)'
        BY <1>1, <1>2, <2>3, <2>6 DEF LoadsSee, Sees, Loading
      <3>2. QED
        BY <1>1, <3>1 DEF CacheSees
    <2>8. Kind(t)' /\ NotOlder(t)' /\ Settled(t)'
      <3>1. Kind(t)'
        BY <1>1, <1>4, <2>3 DEF Kind
      <3>2. NotOlder(t)' /\ Settled(t)'
        BY <2>3 DEF NotOlder, Settled, Loading
      <3>3. QED
        BY <3>1, <3>2
    <2>9. Reads(t)'
      <3>1. thread[t].floor <= rules.issues /\ thread[t].floor <= rules.gates
        BY <1>1, <1>3, <2>1 DEF Kind, CacheSees
      <3>2. QED
        BY <1>1, <2>3, <3>1 DEF Reads
    <2>10. /\ db <= db' /\ answered <= answered'
           /\ rules.issues <= rules'.issues /\ rules.gates <= rules'.gates
           /\ rules'.issues = rules.issues /\ rules'.gates = rules.gates
           /\ \A n \in Versions : CacheSees(n) => CacheSees(n)'
      BY <1>1, <1>3 DEF CacheSees
    <2>11. QED
      BY <2>3, <2>4, <2>5, <2>6, <2>7, <2>8, <2>9, <2>10, OneThread
  <1>5. CASE ~(thread[t].kind = "rules" /\ ~NeedsRefresh)
    <2>1. lock' = t /\ thread' = [thread EXCEPT ![t].pc = "gates", ![t].got = db]
      BY <1>5 DEF TakeLock
    <2>2. PICK v \in Versions : v = db
      BY <1>1 DEF Types
    <2>3. "gates" \in Phases /\ v \in Versions \cup {NoValue} /\ thread[t].gotGates \in Versions
          /\ Moves(t, "gates", v, thread[t].gotGates)
      BY <1>1, <2>1, <2>2, Fields DEF Phases, Moves
    <2>4. /\ thread' \in [RequestThreads -> Thread]
          /\ \A u \in RequestThreads \ {t} : thread'[u] = thread[u]
          /\ thread'[t].pc = "gates" /\ thread'[t].kind = thread[t].kind /\ thread'[t].own = thread[t].own
          /\ thread'[t].floor = thread[t].floor /\ thread'[t].got = v
      BY <1>1, <2>3, Moved
    <2>5. Types'
      BY <1>1, <2>4 DEF Types
    <2>6. Locked'
      BY <1>1, <1>2, <2>1, <2>4 DEF Locked, Loading
    <2>7. \A n \in Versions : n <= db => Sees(t, n)'
      BY <2>2, <2>4 DEF Sees, Loading
    <2>8. \A n \in Versions : n <= db => LoadsSee(n)'
      BY <1>2, <2>4, <2>7 DEF LoadsSee, Sees, Loading
    <2>9. LoadsSee(answered)' /\ CacheSees(answered)'
      <3>1. LoadsSee(answered)'
        BY <1>1, <1>3, <2>8 DEF LoadsSee, Sees, Loading
      <3>2. QED
        BY <1>1, <3>1 DEF CacheSees
    <2>10. Kind(t)' /\ NotOlder(t)' /\ Reads(t)'
      BY <1>1, <1>3, <2>2, <2>4 DEF Kind, NotOlder, Reads, Loading
    <2>11. Settled(t)'
      <3>1. PICK m \in Versions : m = thread[t].own
        BY <1>3
      <3>2. LoadsSee(m)'
        BY <1>1, <2>8, <3>1 DEF Kind
      <3>3. LoadsSee(thread[t].own)' <=> LoadsSee(m)'
        BY <2>4, <3>1 DEF LoadsSee, Sees, Loading
      <3>4. QED
        BY <2>4, <3>2, <3>3 DEF Settled
    <2>12. QED
      BY <1>1, <1>3, <2>4, <2>5, <2>6, <2>7, <2>9, <2>10, <2>11, OneThread DEF CacheSees
  <1>6. QED
    BY <1>4, <1>5

LEMMA LoadGatesStep == ASSUME CacheInv, NEW t \in RequestThreads, LoadGates(t) PROVE CacheInv'
  <1>1. /\ Types /\ Locked /\ Kind(t) /\ NotOlder(t) /\ Settled(t) /\ LoadsSee(answered) /\ CacheSees(answered)
        /\ thread[t].pc = "gates" /\ thread' = [thread EXCEPT ![t].pc = "publish", ![t].gotGates = db]
        /\ db' = db /\ answered' = answered /\ rules' = rules /\ lock' = lock /\ facets' = facets
    BY DEF CacheInv, LoadGates, InPhase
  <1>2. /\ db \in Nat /\ answered \in Nat /\ rules.issues \in Nat /\ rules.gates \in Nat /\ answered <= db
        /\ thread[t].own \in Nat /\ thread[t].floor \in Nat /\ rules.issues <= db /\ rules.gates <= db
        /\ answered \in Versions /\ thread[t].own \in Versions /\ thread[t].got \in Nat
    BY <1>1, Fields DEF Types
  <1>3. PICK v \in Versions : v = db
    BY <1>1 DEF Types
  <1>4. "publish" \in Phases /\ thread[t].got \in Versions \cup {NoValue}
        /\ Moves(t, "publish", thread[t].got, v)
    BY <1>1, <1>3, Fields DEF Phases, Moves
  <1>5. /\ thread' \in [RequestThreads -> Thread]
        /\ \A u \in RequestThreads \ {t} : thread'[u] = thread[u]
        /\ thread'[t].pc = "publish" /\ thread'[t].kind = thread[t].kind /\ thread'[t].own = thread[t].own
        /\ thread'[t].floor = thread[t].floor /\ thread'[t].got = thread[t].got /\ thread'[t].gotGates = v
    BY <1>1, <1>4, Moved
  <1>6. Types'
    BY <1>1, <1>5 DEF Types
  <1>7. Locked'
    BY <1>1, <1>5 DEF Locked, Loading
  <1>8. \A n \in Versions : n <= db /\ Sees(t, n) => Sees(t, n)'
    BY <1>1, <1>3, <1>5 DEF Sees, Loading
  <1>9. \A n \in Versions : n <= db /\ LoadsSee(n) => LoadsSee(n)'
    BY <1>1, <1>5, <1>8, Carried
  <1>10. LoadsSee(answered)' /\ CacheSees(answered)'
    <2>1. LoadsSee(answered)'
      BY <1>1, <1>2, <1>9 DEF LoadsSee, Sees, Loading
    <2>2. QED
      BY <1>1, <2>1 DEF CacheSees
  <1>11. Kind(t)' /\ NotOlder(t)' /\ Reads(t)'
    BY <1>1, <1>2, <1>3, <1>5 DEF Kind, NotOlder, Reads, Loading
  <1>12. Settled(t)'
    <2>1. PICK m \in Versions : m = thread[t].own
      BY <1>2
    <2>2. thread[t].kind = "apply" => LoadsSee(m)
      BY <1>1, <2>1 DEF Settled
    <2>3. thread[t].kind = "apply" => LoadsSee(m)'
      BY <1>1, <1>9, <2>1, <2>2 DEF Kind
    <2>4. LoadsSee(thread[t].own)' <=> LoadsSee(m)'
      BY <1>5, <2>1 DEF LoadsSee, Sees, Loading
    <2>5. QED
      BY <1>5, <2>3, <2>4 DEF Settled
  <1>13. QED
    BY <1>1, <1>2, <1>5, <1>6, <1>7, <1>8, <1>10, <1>11, <1>12, OneThread DEF CacheSees

LEMMA LoadFailsStep == ASSUME CacheInv, NEW t \in RequestThreads, LoadFails(t) PROVE CacheInv'
  <1>1. /\ Types /\ Locked /\ Kind(t) /\ LoadsSee(answered) /\ CacheSees(answered)
        /\ thread[t].pc \in {"gates", "publish"} /\ lock' = NoThread
        /\ thread' = [thread EXCEPT ![t] = [@ EXCEPT !.pc = AfterFailure(t), !.got = 0, !.gotGates = 0]]
        /\ db' = db /\ answered' = answered /\ rules' = rules /\ facets' = facets
    BY DEF CacheInv, LoadFails, Unlocked
  <1>2. /\ Loading(t) /\ \A u \in RequestThreads \ {t} : ~Loading(u)
        /\ \A u \in RequestThreads : u # NoThread
    BY <1>1, OthersAway, CachesAssumption DEF Loading
  <1>3. /\ db \in Nat /\ answered \in Nat /\ rules.issues \in Nat /\ rules.gates \in Nat
        /\ thread[t].own \in Nat /\ thread[t].floor \in Nat
    BY <1>1, Fields
  <1>4. PICK pc \in {"mark", "idle"} : /\ pc = AfterFailure(t)
                                       /\ pc = "mark" => thread[t].kind = "apply"
    BY DEF AfterFailure
  <1>5. pc \in Phases /\ 0 \in Versions /\ 0 \in Versions \cup {NoValue} /\ Moves(t, pc, 0, 0)
    BY <1>1, <1>4, Numbers DEF Phases, Moves
  <1>6. /\ thread' \in [RequestThreads -> Thread]
        /\ \A u \in RequestThreads \ {t} : thread'[u] = thread[u]
        /\ thread'[t].pc = pc /\ thread'[t].kind = thread[t].kind /\ thread'[t].own = thread[t].own
        /\ thread'[t].floor = thread[t].floor
    BY <1>1, <1>5, Moved
  <1>7. Types'
    BY <1>1, <1>6 DEF Types
  <1>8. \A u \in RequestThreads : ~Loading(u)'
    BY <1>2, <1>6 DEF Loading
  <1>9. Locked' /\ \A n \in Versions : LoadsSee(n)'
    BY <1>1, <1>2, <1>8 DEF Locked, LoadsSee, Sees, Loading
  <1>10. \A n \in Versions : Sees(t, n)'
    BY <1>6 DEF Sees, Loading
  <1>11. LoadsSee(answered)' /\ CacheSees(answered)'
    <2>1. LoadsSee(answered)'
      BY <1>8 DEF LoadsSee, Sees, Loading
    <2>2. QED
      BY <1>1, <2>1 DEF CacheSees
  <1>12. Kind(t)' /\ NotOlder(t)' /\ Reads(t)'
    BY <1>1, <1>4, <1>6 DEF Kind, NotOlder, Reads, Loading
  <1>13. Settled(t)'
    <2>1. LoadsSee(thread[t].own)'
      BY <1>8 DEF LoadsSee, Sees, Loading
    <2>2. QED
      BY <1>6, <2>1 DEF Settled
  <1>14. QED
    BY <1>1, <1>3, <1>6, <1>7, <1>9, <1>10, <1>11, <1>12, <1>13, OneThread DEF CacheSees

LEMMA MarkStaleStep == ASSUME CacheInv, NEW t \in RequestThreads, MarkStale(t) PROVE CacheInv'
  <1>1. /\ Types /\ Locked /\ Kind(t) /\ LoadsSee(answered)
        /\ thread[t].pc = "mark" /\ lock = NoThread /\ Enter(t, "dropped")
        /\ rules' = [rules EXCEPT !.loaded = FALSE]
        /\ db' = db /\ answered' = answered /\ lock' = lock /\ facets' = facets
    BY DEF CacheInv, MarkStale, InPhase, LockFree
  <1>2. /\ \A u \in RequestThreads \ {t} : ~Loading(u)
        /\ \A u \in RequestThreads : u # NoThread
    BY <1>1, OthersAway, CachesAssumption
  <1>3. /\ db \in Nat /\ answered \in Nat /\ rules.issues \in Nat /\ rules.gates \in Nat
        /\ thread[t].own \in Nat /\ thread[t].floor \in Nat
    BY <1>1, Fields
  <1>4. /\ rules' \in [issues : Versions, gates : Versions, loaded : BOOLEAN, young : BOOLEAN]
        /\ rules'.issues = rules.issues /\ rules'.gates = rules.gates /\ rules'.loaded = FALSE
    BY <1>1 DEF Types
  <1>5. "dropped" \in Phases /\ thread[t].got \in Versions \cup {NoValue} /\ thread[t].gotGates \in Versions
        /\ Moves(t, "dropped", thread[t].got, thread[t].gotGates)
    BY <1>1, Fields DEF Phases, Moves
  <1>6. /\ thread' \in [RequestThreads -> Thread]
        /\ \A u \in RequestThreads \ {t} : thread'[u] = thread[u]
        /\ thread'[t].pc = "dropped" /\ thread'[t].kind = thread[t].kind /\ thread'[t].own = thread[t].own
        /\ thread'[t].floor = thread[t].floor
    BY <1>1, <1>5, Moved
  <1>7. Types'
    BY <1>1, <1>4, <1>6 DEF Types
  <1>8. \A u \in RequestThreads : ~Loading(u)'
    BY <1>2, <1>6 DEF Loading
  <1>9. Locked'
    BY <1>1, <1>2, <1>8 DEF Locked
  <1>10. \A n \in Versions : Sees(t, n)' /\ CacheSees(n)'
    BY <1>4, <1>6 DEF Sees, Loading, CacheSees
  <1>11. LoadsSee(answered)' /\ CacheSees(answered)'
    BY <1>4, <1>8 DEF LoadsSee, Sees, Loading, CacheSees
  <1>12. Kind(t)' /\ NotOlder(t)' /\ Reads(t)'
    BY <1>1, <1>6 DEF Kind, NotOlder, Reads, Loading
  <1>13. Settled(t)'
    <2>1. LoadsSee(thread[t].own)' /\ CacheSees(thread[t].own)'
      BY <1>4, <1>8 DEF LoadsSee, Sees, Loading, CacheSees
    <2>2. QED
      BY <2>1 DEF Settled
  <1>14. QED
    BY <1>1, <1>3, <1>4, <1>6, <1>7, <1>9, <1>10, <1>11, <1>12, <1>13, OneThread

LEMMA PublishIssuesStep == ASSUME CacheInv, NEW t \in RequestThreads, PublishIssues(t) PROVE CacheInv'
  <1>1. /\ Types /\ Locked /\ Kind(t) /\ NotOlder(t) /\ Settled(t) /\ LoadsSee(answered) /\ CacheSees(answered)
        /\ thread[t].pc = "publish" /\ Enter(t, "published")
        /\ rules' = [rules EXCEPT !.issues = thread[t].got]
        /\ db' = db /\ answered' = answered /\ lock' = lock /\ facets' = facets
    BY DEF CacheInv, PublishIssues, InPhase
  <1>2. Loading(t) /\ \A u \in RequestThreads \ {t} : ~Loading(u)
    BY <1>1, OthersAway DEF Loading
  <1>3. /\ db \in Nat /\ answered \in Nat /\ rules.issues \in Nat /\ rules.gates \in Nat /\ answered <= db
        /\ thread[t].own \in Nat /\ thread[t].floor \in Nat /\ rules.issues <= db /\ rules.gates <= db
        /\ answered \in Versions /\ thread[t].own \in Versions /\ thread[t].got \in Nat
        /\ thread[t].gotGates \in Nat
    BY <1>1, Fields DEF Types
  <1>4. PICK v \in Versions : v = thread[t].got /\ rules.issues <= v /\ v <= db
    <2>1. thread[t].got <= db /\ rules.issues <= thread[t].got
      BY <1>1, <1>2 DEF NotOlder
    <2>2. thread[t].got \in Versions
      BY <1>1, <1>3, <2>1, Numbers, CachesAssumption DEF Types, Versions
    <2>3. QED
      BY <2>1, <2>2
  <1>5. /\ rules' \in [issues : Versions, gates : Versions, loaded : BOOLEAN, young : BOOLEAN]
        /\ rules'.issues = v /\ rules'.gates = rules.gates /\ rules'.loaded = rules.loaded
    BY <1>1, <1>4 DEF Types
  <1>6. "published" \in Phases /\ thread[t].got \in Versions \cup {NoValue} /\ thread[t].gotGates \in Versions
        /\ Moves(t, "published", thread[t].got, thread[t].gotGates)
    BY <1>1, Fields DEF Phases, Moves
  <1>7. /\ thread' \in [RequestThreads -> Thread]
        /\ \A u \in RequestThreads \ {t} : thread'[u] = thread[u]
        /\ thread'[t].pc = "published" /\ thread'[t].kind = thread[t].kind /\ thread'[t].own = thread[t].own
        /\ thread'[t].floor = thread[t].floor /\ thread'[t].got = thread[t].got
        /\ thread'[t].gotGates = thread[t].gotGates
    <2>1. Types
      BY <1>1
    <2>2. QED
      BY <1>6, <2>1, Moved
  <1>8. Types'
    BY <1>1, <1>4, <1>5, <1>7 DEF Types
  <1>9. Locked'
    BY <1>1, <1>7 DEF Locked, Loading
  <1>10. \A n \in Versions : n <= db /\ Sees(t, n) => Sees(t, n)'
    BY <1>1, <1>7 DEF Sees, Loading
  <1>11. \A n \in Versions : n <= db /\ LoadsSee(n) => LoadsSee(n)'
    BY <1>1, <1>7, <1>10, Carried
  <1>12. \A n \in Versions : CacheSees(n) /\ LoadsSee(n) => CacheSees(n)'
    BY <1>2, <1>4, <1>5 DEF CacheSees, LoadsSee, Sees
  <1>13. LoadsSee(answered)' /\ CacheSees(answered)'
    <2>1. PICK n \in Versions : n = answered
      BY <1>3
    <2>2. LoadsSee(n)' /\ CacheSees(n)'
      BY <1>1, <1>3, <1>11, <1>12, <2>1
    <2>3. QED
      BY <1>1, <2>1, <2>2 DEF LoadsSee, Sees, Loading, CacheSees
  <1>14. Kind(t)' /\ Reads(t)'
    BY <1>1, <1>7 DEF Kind, Reads
  <1>15. NotOlder(t)'
    BY <1>1, <1>2, <1>3, <1>4, <1>5, <1>7 DEF NotOlder, Loading
  <1>16. Settled(t)'
    <2>1. PICK m \in Versions : m = thread[t].own
      BY <1>3
    <2>2. thread[t].kind = "apply" => LoadsSee(m)
      BY <1>1, <2>1 DEF Settled
    <2>3. thread[t].kind = "apply" => LoadsSee(m)'
      BY <1>1, <1>11, <2>1, <2>2 DEF Kind
    <2>4. LoadsSee(thread[t].own)' <=> LoadsSee(m)'
      BY <1>7, <2>1 DEF LoadsSee, Sees, Loading
    <2>5. QED
      BY <1>7, <2>3, <2>4 DEF Settled
  <1>17. QED
    BY <1>1, <1>2, <1>3, <1>4, <1>5, <1>7, <1>8, <1>9, <1>10, <1>12, <1>13, <1>14, <1>15, <1>16, OneThread

LEMMA PublishGatesStep == ASSUME CacheInv, NEW t \in RequestThreads, PublishGates(t) PROVE CacheInv'
  <1>1. /\ Types /\ Locked /\ Kind(t) /\ NotOlder(t) /\ Settled(t) /\ LoadsSee(answered)
        /\ thread[t].pc = "published" /\ lock' = NoThread
        /\ rules' = [rules EXCEPT !.gates = thread[t].gotGates, !.loaded = TRUE, !.young = TRUE]
        /\ db' = db /\ answered' = answered /\ facets' = facets
    BY DEF CacheInv, PublishGates, InPhase, Refreshed, Unlocked
  <1>2. /\ Loading(t) /\ \A u \in RequestThreads \ {t} : ~Loading(u)
        /\ \A u \in RequestThreads : u # NoThread
    BY <1>1, OthersAway, CachesAssumption DEF Loading
  <1>3. /\ db \in Nat /\ answered \in Nat /\ rules.issues \in Nat /\ rules.gates \in Nat
        /\ thread[t].own \in Nat /\ thread[t].floor \in Nat
        /\ answered \in Versions /\ thread[t].own \in Versions /\ thread[t].got \in Nat
        /\ thread[t].gotGates \in Nat /\ thread[t].gotGates \in Versions
    BY <1>1, Fields DEF Types
  <1>4. /\ rules.issues = thread[t].got /\ rules.gates <= thread[t].gotGates /\ thread[t].gotGates <= db
        /\ rules.issues <= db /\ thread[t].floor <= answered /\ thread[t].own <= db
    BY <1>1 DEF NotOlder, Kind, Types
  <1>5. /\ rules' \in [issues : Versions, gates : Versions, loaded : BOOLEAN, young : BOOLEAN]
        /\ rules'.issues = rules.issues /\ rules'.gates = thread[t].gotGates
    BY <1>1, <1>3 DEF Types
  <1>6. PICK pc \in {"dropped", "read"} : /\ Enter(t, pc)
                                          /\ pc = "dropped" <=> thread[t].kind = "apply"
    BY DEF PublishGates
  <1>7. pc \in Phases /\ thread[t].got \in Versions \cup {NoValue} /\ thread[t].gotGates \in Versions
        /\ Moves(t, pc, thread[t].got, thread[t].gotGates)
    BY <1>1, <1>6, Fields DEF Phases, Moves
  <1>8. /\ thread' \in [RequestThreads -> Thread]
        /\ \A u \in RequestThreads \ {t} : thread'[u] = thread[u]
        /\ thread'[t].pc = pc /\ thread'[t].kind = thread[t].kind /\ thread'[t].own = thread[t].own
        /\ thread'[t].floor = thread[t].floor
    BY <1>1, <1>7, Moved
  <1>9. Types'
    BY <1>1, <1>4, <1>5, <1>8 DEF Types
  <1>10. \A u \in RequestThreads : ~Loading(u)'
    BY <1>2, <1>6, <1>8 DEF Loading
  <1>11. Locked'
    BY <1>1, <1>2, <1>10 DEF Locked
  <1>12. \A n \in Versions : LoadsSee(n) => CacheSees(n)'
    BY <1>1, <1>2, <1>4, <1>5 DEF CacheSees, LoadsSee, Sees
  <1>13. LoadsSee(answered)' /\ CacheSees(answered)'
    <2>1. PICK n \in Versions : n = answered
      BY <1>3
    <2>2. CacheSees(n)'
      BY <1>1, <1>12, <2>1
    <2>3. QED
      BY <1>1, <1>10, <2>1, <2>2 DEF LoadsSee, Sees, Loading, CacheSees
  <1>14. Kind(t)' /\ NotOlder(t)'
    BY <1>1, <1>6, <1>8 DEF Kind, NotOlder, Loading
  <1>15. Reads(t)'
    <2>1. thread[t].floor <= rules.issues /\ thread[t].floor <= thread[t].gotGates
      <3>1. answered <= thread[t].got /\ answered <= thread[t].gotGates
        BY <1>1, <1>2 DEF LoadsSee, Sees
      <3>2. QED
        BY <1>3, <1>4, <3>1
    <2>2. QED
      BY <1>5, <1>6, <1>8, <2>1 DEF Reads
  <1>16. Settled(t)'
    <2>1. PICK m \in Versions : m = thread[t].own
      BY <1>3
    <2>2. thread[t].kind = "apply" => LoadsSee(m)
      BY <1>1, <2>1 DEF Settled
    <2>3. thread[t].kind = "apply" => CacheSees(m)'
      BY <1>12, <2>2
    <2>4. CacheSees(thread[t].own)' <=> CacheSees(m)'
      BY <1>8, <2>1 DEF CacheSees
    <2>5. LoadsSee(thread[t].own)'
      BY <1>10 DEF LoadsSee, Sees, Loading
    <2>6. QED
      BY <1>6, <1>8, <2>3, <2>4, <2>5 DEF Settled
  <1>17. \A n \in Versions : Sees(t, n)'
    BY <1>6, <1>8 DEF Sees, Loading
  <1>18. QED
    BY <1>1, <1>2, <1>3, <1>4, <1>5, <1>8, <1>9, <1>11, <1>12, <1>13, <1>14, <1>15, <1>16, <1>17, OneThread

-----------------------------------------------------------------------------
(* Steps that touch neither the rules nor the lock.                        *)

LEMMA Quiet ==
    ASSUME CacheInv, Types', NEW t \in RequestThreads,
           \A u \in RequestThreads \ {t} : thread'[u] = thread[u],
           db' = db, answered' = answered, rules' = rules, lock' = lock,
           ~Loading(t), ~Loading(t)',
           Kind(t)', Settled(t)', Reads(t)'
    PROVE  CacheInv'
  <1>1. Types /\ Locked /\ LoadsSee(answered) /\ CacheSees(answered)
        /\ \A u \in RequestThreads : u # t => thread'[u] = thread[u]
    BY DEF CacheInv
  <1>2. db \in Nat /\ answered \in Nat /\ rules.issues \in Nat /\ rules.gates \in Nat
    BY <1>1, Fields
  <1>3. Locked'
    BY <1>1 DEF Locked, Loading
  <1>4. \A n \in Versions : Sees(t, n)'
    BY DEF Sees, Loading
  <1>5. LoadsSee(answered)' /\ CacheSees(answered)'
    BY <1>1 DEF LoadsSee, Sees, Loading, CacheSees
  <1>6. NotOlder(t)'
    BY DEF NotOlder, Loading
  <1>7. QED
    BY <1>2, <1>3, <1>4, <1>5, <1>6, OneThread DEF CacheSees

LEMMA ReadRulesStep == ASSUME CacheInv, NEW t \in RequestThreads, ReadRules(t) PROVE CacheInv'
  <1>0. Types
    BY DEF CacheInv
  <1>1. /\ Types /\ Kind(t) /\ Reads(t) /\ thread[t].pc = "read"
        /\ thread' = [thread EXCEPT ![t].pc = "serve", ![t].got = rules.issues, ![t].gotGates = rules.gates]
        /\ db' = db /\ answered' = answered /\ rules' = rules /\ lock' = lock /\ facets' = facets
    BY DEF CacheInv, ReadRules, InPhase
  <1>2. PICK v \in Versions, w \in Versions : v = rules.issues /\ w = rules.gates
    BY <1>1, Fields
  <1>3. "serve" \in Phases /\ v \in Versions \cup {NoValue} /\ Moves(t, "serve", v, w)
    BY <1>1, <1>2 DEF Phases, Moves
  <1>4. /\ thread' \in [RequestThreads -> Thread]
        /\ \A u \in RequestThreads \ {t} : thread'[u] = thread[u]
        /\ thread'[t].pc = "serve" /\ thread'[t].kind = thread[t].kind /\ thread'[t].own = thread[t].own
        /\ thread'[t].floor = thread[t].floor /\ thread'[t].got = v /\ thread'[t].gotGates = w
    BY <1>0, <1>3, Moved
  <1>5. Types' /\ ~Loading(t) /\ ~Loading(t)'
    <2>1. Types'
      BY <1>1, <1>4 DEF Types
    <2>2. ~Loading(t) /\ ~Loading(t)'
      BY <1>1, <1>4 DEF Loading
    <2>3. QED
      BY <2>1, <2>2
  <1>6. Kind(t)' /\ Settled(t)'
    BY <1>1, <1>4 DEF Kind, Settled
  <1>7. Reads(t)'
    BY <1>1, <1>2, <1>4 DEF Reads
  <1>8. QED
    BY <1>1, <1>4, <1>5, <1>6, <1>7, Quiet

\* A thread in the facets cache, which goes on there or answers.
LEMMA FacetsStep ==
    ASSUME CacheInv, NEW t \in RequestThreads,
           ReturnFacets(t) \/ BuildFacets(t) \/ StoreFacets(t) \/ ExtendFacets(t)
    PROVE  CacheInv'
  <1>1. /\ Types /\ Kind(t) /\ thread[t].pc \in {"return", "build", "store", "extend"} /\ thread[t].kind = "facets"
        /\ db' = db /\ answered' = answered /\ rules' = rules /\ lock' = lock
    BY DEF CacheInv, Kind, ReturnFacets, BuildFacets, StoreFacets, ExtendFacets, InPhase
  <1>2. /\ db \in Versions \cup {NoValue} /\ facets \in [value : Versions \cup {NoValue}, young : BOOLEAN]
        /\ facets.value \in Versions \cup {NoValue}
        /\ thread[t].got \in Versions \cup {NoValue} /\ thread[t].gotGates \in Versions
    BY <1>1, Fields DEF Types
  <1>3. PICK pc \in {"serve", "store", "extend"}, v \in Versions \cup {NoValue} :
           Moves(t, pc, v, thread[t].gotGates)
    <2>1. PICK d \in Versions \cup {NoValue}, f \in Versions \cup {NoValue} : d = db /\ f = facets.value
      BY <1>2
    <2>2. CASE ReturnFacets(t)
      BY <2>1, <2>2 DEF ReturnFacets, Moves
    <2>3. CASE BuildFacets(t)
      BY <2>1, <2>3 DEF BuildFacets, Moves
    <2>4. CASE StoreFacets(t)
      BY <1>2, <2>4 DEF StoreFacets, Moves
    <2>5. CASE ExtendFacets(t)
      BY <1>2, <2>5 DEF ExtendFacets, Moves
    <2>6. QED
      BY <2>2, <2>3, <2>4, <2>5
  <1>4. pc \in Phases
    BY DEF Phases
  <1>5. /\ thread' \in [RequestThreads -> Thread]
        /\ \A u \in RequestThreads \ {t} : thread'[u] = thread[u]
        /\ thread'[t].pc = pc /\ thread'[t].kind = thread[t].kind /\ thread'[t].own = thread[t].own
        /\ thread'[t].floor = thread[t].floor
    BY <1>1, <1>2, <1>3, <1>4, Moved
  <1>6. facets' \in [value : Versions \cup {NoValue}, young : BOOLEAN]
    <2>1. CASE StoreFacets(t)
      <3>1. facets' = [facets EXCEPT !.value = thread[t].got]
        BY <2>1 DEF StoreFacets
      <3>2. QED
        BY <1>2, <3>1 DEF Types
    <2>2. CASE ExtendFacets(t)
      <3>1. facets' = [facets EXCEPT !.young = TRUE]
        BY <2>2 DEF ExtendFacets
      <3>2. QED
        BY <1>2, <3>1
    <2>3. CASE facets' = facets
      BY <1>2, <2>3
    <2>4. QED
      BY <2>1, <2>2, <2>3 DEF ReturnFacets, BuildFacets
  <1>7. Types' /\ ~Loading(t) /\ ~Loading(t)'
    BY <1>1, <1>5, <1>6 DEF Types, Loading
  <1>8. Kind(t)' /\ Settled(t)' /\ Reads(t)'
    BY <1>1, <1>5 DEF Kind, Settled, Reads
  <1>9. QED
    BY <1>1, <1>5, <1>7, <1>8, Quiet

LEMMA ServeStep == ASSUME CacheInv, NEW t \in RequestThreads, Serve(t) PROVE CacheInv'
  <1>1. /\ Types /\ thread[t].pc = "serve" /\ thread' = [thread EXCEPT ![t] = Idle]
        /\ db' = db /\ answered' = answered /\ rules' = rules /\ lock' = lock /\ facets' = facets
    BY DEF CacheInv, Serve, InPhase
  <1>2. Idle \in Thread /\ Idle.own = 0 /\ Idle.floor = 0 /\ Idle.pc = "idle" /\ Idle.kind = "none"
    BY IdleRecord
  <1>3. /\ thread' \in [RequestThreads -> Thread] /\ thread'[t] = Idle
        /\ \A u \in RequestThreads \ {t} : thread'[u] = thread[u]
    BY <1>1, <1>2 DEF Types
  <1>4. db \in Nat /\ answered \in Nat
    BY <1>1, Fields
  <1>5. Types' /\ ~Loading(t) /\ ~Loading(t)'
    BY <1>1, <1>2, <1>3 DEF Types, Loading
  <1>6. Kind(t)' /\ Settled(t)' /\ Reads(t)'
    BY <1>1, <1>2, <1>3, <1>4 DEF Kind, Settled, Reads
  <1>7. QED
    BY <1>1, <1>3, <1>5, <1>6, Quiet

LEMMA DropFacetsStep == ASSUME CacheInv, NEW t \in RequestThreads, DropFacets(t) PROVE CacheInv'
  <1>1. /\ Types /\ Kind(t) /\ Settled(t) /\ thread[t].pc = "dropped" /\ Enter(t, "expire")
        /\ facets' = [facets EXCEPT !.value = NoValue]
        /\ db' = db /\ answered' = answered /\ rules' = rules /\ lock' = lock
    BY DEF CacheInv, DropFacets, InPhase
  <1>2. "expire" \in Phases /\ thread[t].got \in Versions \cup {NoValue} /\ thread[t].gotGates \in Versions
        /\ Moves(t, "expire", thread[t].got, thread[t].gotGates)
    BY <1>1, Fields DEF Phases, Moves
  <1>3. /\ thread' \in [RequestThreads -> Thread]
        /\ \A u \in RequestThreads \ {t} : thread'[u] = thread[u]
        /\ thread'[t].pc = "expire" /\ thread'[t].kind = thread[t].kind /\ thread'[t].own = thread[t].own
        /\ thread'[t].floor = thread[t].floor
    BY <1>1, <1>2, Moved
  <1>4. facets' \in [value : Versions \cup {NoValue}, young : BOOLEAN]
    BY <1>1 DEF Types
  <1>5. Types' /\ ~Loading(t) /\ ~Loading(t)'
    BY <1>1, <1>3, <1>4 DEF Types, Loading
  <1>6. Kind(t)' /\ Reads(t)'
    BY <1>1, <1>3 DEF Kind, Reads
  <1>7. Settled(t)'
    <2>1. LoadsSee(thread[t].own) /\ CacheSees(thread[t].own)
      BY <1>1 DEF Settled, Kind
    <2>2. PICK m \in Versions : m = thread[t].own
      BY <1>1, Fields
    <2>3. LoadsSee(m)' /\ CacheSees(m)'
      <3>1. \A n \in Versions : n <= db /\ Sees(t, n) => Sees(t, n)'
        BY <1>5 DEF Sees, Loading
      <3>2. LoadsSee(m)'
        BY <1>1, <1>3, <2>1, <2>2, <3>1, Carried DEF Kind
      <3>3. QED
        BY <1>1, <2>1, <2>2, <3>2 DEF CacheSees
    <2>4. (LoadsSee(thread[t].own)' <=> LoadsSee(m)') /\ (CacheSees(thread[t].own)' <=> CacheSees(m)')
      BY <1>3, <2>2 DEF LoadsSee, Sees, Loading, CacheSees
    <2>5. QED
      BY <2>3, <2>4 DEF Settled
  <1>8. QED
    BY <1>1, <1>3, <1>5, <1>6, <1>7, Quiet

\* The application answers: its own commit is now one that later requests ask for.
LEMMA ExpireFacetsStep == ASSUME CacheInv, NEW t \in RequestThreads, ExpireFacets(t) PROVE CacheInv'
  <1>1. /\ Types /\ Locked /\ Kind(t) /\ Settled(t) /\ LoadsSee(answered) /\ CacheSees(answered)
        /\ thread[t].pc = "expire" /\ thread' = [thread EXCEPT ![t] = Idle]
        /\ facets' = [facets EXCEPT !.young = FALSE]
        /\ answered' = Bigger(answered, thread[t].own)
        /\ db' = db /\ rules' = rules /\ lock' = lock
    BY DEF CacheInv, ExpireFacets, InPhase
  <1>2. Idle \in Thread /\ Idle.own = 0 /\ Idle.floor = 0 /\ Idle.pc = "idle" /\ Idle.kind = "none"
    BY IdleRecord
  <1>3. /\ thread' \in [RequestThreads -> Thread] /\ thread'[t] = Idle
        /\ \A u \in RequestThreads \ {t} : thread'[u] = thread[u]
    BY <1>1, <1>2 DEF Types
  <1>4. /\ db \in Nat /\ answered \in Nat /\ answered <= db /\ rules.issues \in Nat /\ rules.gates \in Nat
        /\ thread[t].own \in Nat /\ thread[t].own \in Versions /\ answered \in Versions /\ thread[t].own <= db
    BY <1>1, Fields DEF Types, Kind
  <1>5. PICK n \in Versions : n = answered' /\ n <= db /\ answered <= n /\ LoadsSee(n) /\ CacheSees(n)
    <2>1. LoadsSee(thread[t].own) /\ CacheSees(thread[t].own)
      BY <1>1 DEF Settled, Kind
    <2>2. CASE answered > thread[t].own
      BY <1>1, <1>4, <2>2 DEF Bigger
    <2>3. CASE ~(answered > thread[t].own)
      BY <1>1, <1>4, <2>1, <2>3 DEF Bigger
    <2>4. QED
      BY <2>2, <2>3
  <1>6. facets' \in [value : Versions \cup {NoValue}, young : BOOLEAN]
    BY <1>1 DEF Types
  <1>7. Types' /\ Locked' /\ \A m \in Versions : Sees(t, m)'
    <2>1. Types'
      BY <1>1, <1>3, <1>5, <1>6 DEF Types
    <2>2. Locked' /\ \A m \in Versions : Sees(t, m)'
      BY <1>1, <1>2, <1>3 DEF Locked, Loading, Sees
    <2>3. QED
      BY <2>1, <2>2
  <1>8. LoadsSee(answered)' /\ CacheSees(answered)'
    <2>1. LoadsSee(n)' /\ CacheSees(n)'
      BY <1>1, <1>3, <1>5, <1>7, Carried DEF CacheSees
    <2>2. QED
      BY <1>5, <2>1 DEF LoadsSee, Sees, Loading, CacheSees
  <1>9. Kind(t)' /\ NotOlder(t)' /\ Settled(t)' /\ Reads(t)'
    <2>1. thread'[t].pc = "idle" /\ thread'[t].kind = "none" /\ thread'[t].own = 0 /\ thread'[t].floor = 0
      BY <1>2, <1>3
    <2>2. answered' \in Nat
      BY <1>5, Numbers
    <2>3. Kind(t)'
      BY <1>1, <1>4, <2>1, <2>2 DEF Kind
    <2>4. NotOlder(t)' /\ Settled(t)' /\ Reads(t)'
      BY <2>1 DEF NotOlder, Settled, Reads, Loading
    <2>5. QED
      BY <2>3, <2>4
  <1>10. QED
    BY <1>1, <1>3, <1>4, <1>5, <1>7, <1>8, <1>9, OneThread DEF CacheSees

-----------------------------------------------------------------------------
(* Steps of no thread.                                                     *)

LEMMA CommitElsewhereStep == ASSUME CacheInv, CommitElsewhere PROVE CacheInv'
  <1>1. /\ Types /\ Locked /\ LoadsSee(answered) /\ CacheSees(answered) /\ db < MaxCommits /\ db' = db + 1
        /\ answered' = answered /\ rules' = rules /\ lock' = lock /\ facets' = facets /\ thread' = thread
    BY DEF CacheInv, CommitElsewhere
  <1>2. /\ db \in Nat /\ answered \in Nat /\ rules.issues \in Nat /\ rules.gates \in Nat
        /\ db + 1 \in Versions
    BY <1>1, Numbers DEF Types
  <1>3. Types' /\ Locked' /\ LoadsSee(answered)' /\ CacheSees(answered)'
    <2>1. Types'
      BY <1>1, <1>2 DEF Types
    <2>2. QED
      BY <1>1, <2>1 DEF Locked, LoadsSee, Sees, Loading, CacheSees
  <1>4. ASSUME NEW t \in RequestThreads PROVE Kind(t)' /\ NotOlder(t)' /\ Settled(t)' /\ Reads(t)'
    <2>1. Kind(t) /\ NotOlder(t) /\ Settled(t) /\ Reads(t)
      BY DEF CacheInv
    <2>2. thread[t].own \in Nat /\ thread[t].got \in Nat /\ thread[t].gotGates \in Nat
      BY <1>1, Fields
    <2>3. Kind(t)' /\ NotOlder(t)'
      BY <1>1, <1>2, <2>1, <2>2 DEF Kind, NotOlder, Loading
    <2>4. Settled(t)' /\ Reads(t)'
      BY <1>1, <2>1 DEF Settled, Reads, LoadsSee, Sees, Loading, CacheSees
    <2>5. QED
      BY <2>3, <2>4
  <1>5. QED
    BY <1>3, <1>4 DEF CacheInv

\* Time, and nothing at all.
LEMMA AgeSteps == ASSUME CacheInv, RulesAge \/ FacetsAge \/ UNCHANGED cacheVars PROVE CacheInv'
  <1>1. /\ Types /\ Locked /\ LoadsSee(answered) /\ CacheSees(answered)
        /\ db' = db /\ answered' = answered /\ lock' = lock /\ thread' = thread
    BY DEF CacheInv, RulesAge, FacetsAge, cacheVars
  <1>2. /\ rules' \in [issues : Versions, gates : Versions, loaded : BOOLEAN, young : BOOLEAN]
        /\ rules'.issues = rules.issues /\ rules'.gates = rules.gates /\ rules'.loaded = rules.loaded
    <2>1. rules' = rules \/ rules' = [rules EXCEPT !.young = FALSE]
      BY DEF RulesAge, FacetsAge, cacheVars
    <2>2. QED
      BY <1>1, <2>1 DEF Types
  <1>3. facets' \in [value : Versions \cup {NoValue}, young : BOOLEAN]
    <2>1. facets' = facets \/ facets' = [facets EXCEPT !.young = FALSE]
      BY DEF RulesAge, FacetsAge, cacheVars
    <2>2. QED
      BY <1>1, <2>1 DEF Types
  <1>4. Types'
    BY <1>1, <1>2, <1>3 DEF Types
  <1>5. Locked' /\ LoadsSee(answered)' /\ CacheSees(answered)'
    BY <1>1, <1>2 DEF Locked, LoadsSee, Sees, Loading, CacheSees
  <1>6. ASSUME NEW t \in RequestThreads PROVE Kind(t)' /\ NotOlder(t)' /\ Settled(t)' /\ Reads(t)'
    <2>1. Kind(t) /\ NotOlder(t) /\ Settled(t) /\ Reads(t)
      BY DEF CacheInv
    <2>2. Kind(t)' /\ NotOlder(t)' /\ Reads(t)'
      BY <1>1, <1>2, <2>1 DEF Kind, NotOlder, Reads, Loading
    <2>3. Settled(t)'
      BY <1>1, <1>2, <2>1 DEF Settled, LoadsSee, Sees, Loading, CacheSees
    <2>4. QED
      BY <2>2, <2>3
  <1>7. QED
    BY <1>4, <1>5, <1>6 DEF CacheInv

-----------------------------------------------------------------------------
LEMMA CacheInit == ASSUME CachesInit PROVE CacheInv
  <1>1. /\ db = 0 /\ answered = 0 /\ lock = NoThread /\ 0 \in Versions /\ 0 \in Nat /\ NoThread \notin RequestThreads
        /\ rules \in [issues : Versions, gates : Versions, loaded : BOOLEAN, young : BOOLEAN]
        /\ rules.issues = 0 /\ rules.gates = 0
        /\ facets \in [value : Versions \cup {NoValue}, young : BOOLEAN]
    <2>1. 0 \in Versions /\ NoThread \notin RequestThreads
      BY Numbers, CachesAssumption
    <2>2. PICK ok \in BOOLEAN : rules = [issues |-> 0, gates |-> 0, loaded |-> ok, young |-> TRUE]
      BY DEF CachesInit
    <2>3. facets = [value |-> NoValue, young |-> FALSE]
      BY DEF CachesInit
    <2>4. QED
      BY <2>1, <2>2, <2>3 DEF CachesInit
  <1>2. Idle \in Thread /\ Idle.own = 0 /\ Idle.floor = 0 /\ Idle.pc = "idle" /\ Idle.kind = "none"
    BY IdleRecord
  <1>3. thread \in [RequestThreads -> Thread] /\ \A t \in RequestThreads : thread[t] = Idle
    BY <1>2 DEF CachesInit
  <1>4. Types
    BY <1>1, <1>3 DEF Types
  <1>5. Locked /\ LoadsSee(answered) /\ CacheSees(answered)
    BY <1>1, <1>2, <1>3 DEF Locked, LoadsSee, Sees, Loading, CacheSees
  <1>6. \A t \in RequestThreads : Kind(t) /\ NotOlder(t) /\ Settled(t) /\ Reads(t)
    <2> SUFFICES ASSUME NEW t \in RequestThreads PROVE Kind(t) /\ NotOlder(t) /\ Settled(t) /\ Reads(t)
      OBVIOUS
    <2>1. thread[t].pc = "idle" /\ thread[t].kind = "none" /\ thread[t].own = 0 /\ thread[t].floor = 0
      BY <1>2, <1>3
    <2>2. Kind(t)
      BY <1>1, <2>1 DEF Kind
    <2>3. NotOlder(t) /\ Settled(t) /\ Reads(t)
      BY <2>1 DEF NotOlder, Settled, Reads, Loading
    <2>4. QED
      BY <2>2, <2>3
  <1>7. QED
    BY <1>4, <1>5, <1>6 DEF CacheInv

LEMMA CacheNext == ASSUME CacheInv, [CachesNext]_cacheVars PROVE CacheInv'
  <1>1. CASE CommitElsewhere
    BY <1>1, CommitElsewhereStep
  <1>2. CASE RulesAge \/ FacetsAge \/ UNCHANGED cacheVars
    BY <1>2, AgeSteps
  <1>3. ASSUME NEW t \in RequestThreads,
               \/ Apply(t) \/ AskRules(t) \/ AskFacets(t)
               \/ RuleLockStep(t) \/ RuleStep(t) \/ FacetStep(t) \/ Serve(t)
        PROVE  CacheInv'
    <2>1. CASE Apply(t) \/ AskRules(t) \/ AskFacets(t) \/ Serve(t)
      BY <2>1, ApplyStep, AskSteps, ServeStep
    <2>2. CASE RuleLockStep(t)
      BY <2>2, TakeLockStep, MarkStaleStep DEF RuleLockStep
    <2>3. CASE RuleStep(t)
      BY <2>3, LoadGatesStep, LoadFailsStep, PublishIssuesStep, PublishGatesStep, ReadRulesStep DEF RuleStep
    <2>4. CASE FacetStep(t)
      BY <2>4, DropFacetsStep, ExpireFacetsStep, FacetsStep DEF FacetStep
    <2>5. QED
      BY <1>3, <2>1, <2>2, <2>3, <2>4
  <1>4. QED
    BY <1>1, <1>2, <1>3 DEF CachesNext

LEMMA CacheAlways == CachesSpec => []CacheInv
  <1>1. CachesInit => CacheInv
    BY CacheInit
  <1>2. CacheInv /\ [CachesNext]_cacheVars => CacheInv'
    BY CacheNext
  <1>3. QED
    BY <1>1, <1>2, PTL DEF CachesSpec

-----------------------------------------------------------------------------
\* No request is answered from rules older than a write that had been answered
\* when it began, however loads, failures and publications interleave (RuleCache).
THEOREM WritesReachTheRules == CachesSpec => []AnsweredWritesRuleEvaluations
  <1>1. CacheInv => AnsweredWritesRuleEvaluations
    <2>1. ASSUME CacheInv, NEW t \in RequestThreads, InPhase(t, "serve"), thread[t].kind = "rules"
          PROVE  thread[t].got >= thread[t].floor /\ thread[t].gotGates >= thread[t].floor
      <3>1. Types /\ Reads(t)
        BY <2>1 DEF CacheInv
      <3>2. thread[t].got \in Nat /\ thread[t].gotGates \in Nat /\ thread[t].floor \in Nat
        BY <3>1, Fields
      <3>3. thread[t].floor <= thread[t].got /\ thread[t].floor <= thread[t].gotGates
        BY <2>1, <3>1 DEF Reads, InPhase
      <3>4. QED
        BY <3>2, <3>3
    <2>2. QED
      BY <2>1 DEF AnsweredWritesRuleEvaluations
  <1>2. QED
    BY <1>1, CacheAlways, PTL

\* The rules of a worker only get newer: who publishes loaded under the lock, after
\* the last one who did (RuleCache.refresh).
THEOREM RulesOnlyGetNewer == CachesSpec => RulesNeverGoBack
  <1>1. CacheInv /\ [CachesNext]_cacheVars => [rules'.issues >= rules.issues /\ rules'.gates >= rules.gates]_cacheVars
    <2> SUFFICES ASSUME CacheInv, [CachesNext]_cacheVars
                 PROVE  rules'.issues >= rules.issues /\ rules'.gates >= rules.gates
      OBVIOUS
    <2>1. Types /\ \A t \in RequestThreads : NotOlder(t)
      BY DEF CacheInv
    <2>2. rules.issues \in Nat /\ rules.gates \in Nat
      BY <2>1, Numbers DEF Types
    <2>3. CASE rules' = rules
      BY <2>2, <2>3
    <2>4. CASE RulesAge
      <3>1. rules' = [rules EXCEPT !.young = FALSE]
        BY <2>4 DEF RulesAge
      <3>2. QED
        BY <2>1, <2>2, <3>1 DEF Types
    <2>5. ASSUME NEW t \in RequestThreads, MarkStale(t)
          PROVE  rules'.issues >= rules.issues /\ rules'.gates >= rules.gates
      <3>1. rules' = [rules EXCEPT !.loaded = FALSE]
        BY <2>5 DEF MarkStale
      <3>2. QED
        BY <2>1, <2>2, <3>1 DEF Types
    <2>6. ASSUME NEW t \in RequestThreads, PublishIssues(t)
          PROVE  rules'.issues >= rules.issues /\ rules'.gates >= rules.gates
      <3>1. rules' = [rules EXCEPT !.issues = thread[t].got] /\ thread[t].pc = "publish"
        BY <2>6 DEF PublishIssues, InPhase
      <3>2. thread[t].got \in Nat /\ rules.issues <= thread[t].got
        BY <2>1, <3>1, Fields DEF NotOlder, Loading
      <3>3. rules'.issues = thread[t].got /\ rules'.gates = rules.gates
        BY <2>1, <3>1 DEF Types
      <3>4. QED
        BY <2>2, <3>2, <3>3
    <2>7. ASSUME NEW t \in RequestThreads, PublishGates(t)
          PROVE  rules'.issues >= rules.issues /\ rules'.gates >= rules.gates
      <3>1. rules' = [rules EXCEPT !.gates = thread[t].gotGates, !.loaded = TRUE, !.young = TRUE]
            /\ thread[t].pc = "published"
        BY <2>7 DEF PublishGates, Refreshed, InPhase
      <3>2. thread[t].gotGates \in Nat /\ rules.gates <= thread[t].gotGates
        BY <2>1, <3>1, Fields DEF NotOlder, Loading
      <3>3. rules'.issues = rules.issues /\ rules'.gates = thread[t].gotGates
        BY <2>1, <3>1 DEF Types
      <3>4. QED
        BY <2>2, <3>2, <3>3
    <2>8. QED
      BY <2>3, <2>4, <2>5, <2>6, <2>7
         DEF CachesNext, cacheVars, CommitElsewhere, FacetsAge, Apply, AskRules, AskFacets, RuleLockStep, TakeLock, RuleStep,
             LoadGates, LoadFails, ReadRules, FacetStep, DropFacets, ExpireFacets, ReturnFacets, BuildFacets,
             StoreFacets, ExtendFacets, Serve
  <1>2. QED
    BY <1>1, CacheAlways, PTL DEF CachesSpec, RulesNeverGoBack, NeverGoBack

-----------------------------------------------------------------------------
(* The result cache.                                                       *)

Futures == {"unset", "set", "failed"}
CallRecord == [pc : {"idle", "asking", "waiting", "computing", "stored", "ending", "answered"},
          key : Cases \cup {NoCaller}, waitsFor : Callers \cup {NoCaller},
          answer : {"none", "hit", "miss", "shared", "failed"}]
CallTypes == /\ caller \in [Callers -> CallRecord]
             /\ pending \in [Cases -> Callers \cup {NoCaller}]
             /\ future \in [Callers -> Futures]

\* An owner is on record, and its future is set when it has the result.
Owning(c) == /\ caller[c].pc # "idle" => caller[c].key \in Cases
             /\ Owns(c) => pending[caller[c].key] = c
             /\ caller[c].pc \in {"computing", "stored"} => future[c] = "unset"
             /\ CallerAt(c, "ending") => future[c] # "unset"
Owned(k) == pending[k] # NoCaller => Owns(pending[k]) /\ caller[pending[k]].key = k

\* Who waits has somebody to wait for, who still has the name of the future.
Awaits(c, o) == /\ o \in Callers
                /\ caller[o].key = caller[c].key
                /\ Owns(o) \/ (CallerAt(o, "answered") /\ future[o] # "unset")
Waiting(c) == IF CallerAt(c, "waiting") THEN Awaits(c, caller[c].waitsFor) ELSE caller[c].waitsFor = NoCaller

\* A sequence, of whatever it holds, that is short enough.
ItemsOf(s) == {s[i] : i \in DOMAIN s}
IsSequence(s) == s \in Seq(ItemsOf(s))
Bounded == IsSequence(values) /\ Len(values) <= Capacity

Flights == /\ CallTypes
           /\ \A c \in Callers : Owning(c) /\ Waiting(c)
           /\ \A k \in Cases : Owned(k)
FlightInv == Flights /\ Bounded

-----------------------------------------------------------------------------
\* A sequence is one of its own items.
LEMMA OwnItems == ASSUME NEW S, NEW s \in Seq(S) PROVE IsSequence(s) /\ Len(s) \in Nat
  <1>1. Len(s) \in Nat /\ DOMAIN s = 1..Len(s) /\ \A i \in 1..Len(s) : s[i] \in ItemsOf(s)
    BY DEF ItemsOf
  <1>2. s = [i \in 1..Len(s) |-> s[i]]
    OBVIOUS
  <1>3. QED
    BY <1>1, <1>2 DEF IsSequence

LEMMA KeptItems ==
    ASSUME NEW s, IsSequence(s), NEW I \in SUBSET (DOMAIN s)
    PROVE  /\ IsSequence(Kept(s, I)) /\ Len(Kept(s, I)) \in Nat /\ Len(s) \in Nat
           /\ Len(Kept(s, I)) <= Len(s)
           /\ I # DOMAIN s => Len(Kept(s, I)) < Len(s)
  <1>1. Len(s) \in Nat /\ DOMAIN s = 1..Len(s)
    BY DEF IsSequence
  <1>2. IsFiniteSet(1..Len(s)) /\ Cardinality(1..Len(s)) = Len(s)
    <2>1. PICK n \in Nat : n = Len(s)
      BY <1>1
    <2>2. IsFiniteSet(1..n) /\ Cardinality(1..n) = IF 1 > n THEN 0 ELSE n - 1 + 1
      BY FS_Interval
    <2>3. QED
      BY <2>1, <2>2
  <1>3. /\ IsFiniteSet(I) /\ Cardinality(I) <= Len(s)
        /\ Cardinality(I) = Len(s) => I = DOMAIN s
    BY <1>1, <1>2, FS_Subset
  <1>4. Cardinality(I) \in Nat
    BY <1>3, FS_CardinalityType
  <1>5. PICK S : S = {Kept(s, I)[n] : n \in 1..Cardinality(I)}
    OBVIOUS
  <1>6. Kept(s, I) = [n \in 1..Cardinality(I) |-> Kept(s, I)[n]]
    BY DEF Kept
  <1>7. Kept(s, I) \in Seq(S) /\ Len(Kept(s, I)) = Cardinality(I)
    BY <1>4, <1>5, <1>6
  <1>8. IsSequence(Kept(s, I))
    BY <1>7, OwnItems
  <1>9. QED
    BY <1>1, <1>3, <1>4, <1>7, <1>8

LEMMA FreshItems ==
    ASSUME Bounded
    PROVE  IsSequence(Fresh(values)) /\ Len(Fresh(values)) \in Nat /\ Len(Fresh(values)) <= Capacity
  <1>1. Capacity \in Nat /\ IsSequence(values) /\ Len(values) <= Capacity
    BY ResultAssumption DEF Bounded
  <1>2. PICK I \in SUBSET (DOMAIN values) : I = {i \in DOMAIN values : ~values[i].expired}
    OBVIOUS
  <1>3. Fresh(values) = Kept(values, I)
    BY <1>2 DEF Fresh
  <1>4. QED
    BY <1>1, <1>3, KeptItems

\* One more item.
LEMMA OneMore ==
    ASSUME NEW s, IsSequence(s), NEW e
    PROVE  IsSequence(Append(s, e)) /\ Len(Append(s, e)) = Len(s) + 1 /\ Len(s) \in Nat
  <1>1. PICK S : S = ItemsOf(s) \cup {e}
    OBVIOUS
  <1>2. s \in Seq(ItemsOf(s)) /\ Len(s) \in Nat /\ DOMAIN s = 1..Len(s)
    BY DEF IsSequence
  <1>3. \A i \in 1..Len(s) : s[i] \in S
    BY <1>1, <1>2 DEF ItemsOf
  <1>4. s \in Seq(S)
    <2>1. s = [i \in 1..Len(s) |-> s[i]]
      BY <1>2
    <2>2. QED
      BY <1>2, <1>3, <2>1
  <1>5. Append(s, e) \in Seq(S) /\ Len(Append(s, e)) = Len(s) + 1
    BY <1>1, <1>4
  <1>6. QED
    BY <1>2, <1>5, OwnItems

\* A hit goes to the end, a stored value makes room.
LEMMA HitItems ==
    ASSUME Bounded, NEW k, NEW i \in DOMAIN Fresh(values), Fresh(values)[i].key = k, NEW e,
           values' = Append(Without(Fresh(values), k), e)
    PROVE  Bounded'
  <1>1. PICK f : f = Fresh(values)
    OBVIOUS
  <1>2. IsSequence(f) /\ Len(f) \in Nat /\ Len(f) <= Capacity
    BY <1>1, FreshItems
  <1>3. PICK I \in SUBSET (DOMAIN f) : I = {j \in DOMAIN f : f[j].key # k}
    OBVIOUS
  <1>4. I # DOMAIN f /\ Without(f, k) = Kept(f, I)
    BY <1>1, <1>3 DEF Without
  <1>5. IsSequence(Without(f, k)) /\ Len(Without(f, k)) < Len(f) /\ Len(Without(f, k)) \in Nat
    BY <1>2, <1>4, KeptItems
  <1>6. IsSequence(values') /\ Len(values') = Len(Without(f, k)) + 1
    BY <1>1, <1>5, OneMore
  <1>7. Capacity \in Nat
    BY ResultAssumption
  <1>8. Len(values') <= Capacity
    BY <1>2, <1>5, <1>6, <1>7
  <1>9. QED
    BY <1>6, <1>8 DEF Bounded, IsSequence, ItemsOf

LEMMA StoredItems ==
    ASSUME Bounded, NEW e, values' = Evicted(Append(values, e))
    PROVE  Bounded'
  <1>1. Capacity \in Nat /\ IsSequence(values) /\ Len(values) <= Capacity
    BY ResultAssumption DEF Bounded
  <1>2. PICK s : s = Append(values, e)
    OBVIOUS
  <1>3. s \in Seq(ItemsOf(s)) /\ Len(s) \in Nat
    BY <1>1, <1>2, OneMore DEF IsSequence
  <1>4. CASE Len(s) > Capacity
    <2>1. values' = SubSeq(s, Len(s) - Capacity + 1, Len(s))
      BY <1>2, <1>4 DEF Evicted
    <2>2. values' \in Seq(ItemsOf(s)) /\ Len(values') = Capacity
      BY <1>1, <1>3, <1>4, <2>1
    <2>3. IsSequence(values')
      BY <2>2, OwnItems
    <2>4. QED
      BY <1>1, <2>2, <2>3 DEF Bounded, IsSequence, ItemsOf
  <1>5. CASE ~(Len(s) > Capacity)
    <2>1. values' = s /\ Len(s) <= Capacity
      BY <1>1, <1>2, <1>3, <1>5 DEF Evicted
    <2>2. QED
      BY <1>3, <2>1 DEF Bounded, IsSequence, ItemsOf
  <1>6. QED
    BY <1>4, <1>5

LEMMA FreshBounded == ASSUME Bounded, values' = Fresh(values) PROVE Bounded'
  BY FreshItems DEF Bounded, IsSequence, ItemsOf

LEMMA ExpireStep == ASSUME FlightInv, Expire PROVE FlightInv'
  <1>1. Bounded /\ values \in Seq(ItemsOf(values)) /\ UNCHANGED <<pending, future, caller>>
    BY DEF FlightInv, Bounded, IsSequence, Expire
  <1>2. PICK i \in DOMAIN values : values' = [values EXCEPT ![i].expired = TRUE]
    BY DEF Expire
  <1>3. PICK v : values' = [values EXCEPT ![i] = v]
    BY <1>2
  <1>4. PICK S : S = ItemsOf(values) \cup {v}
    OBVIOUS
  <1>5. Len(values) \in Nat /\ DOMAIN values = 1..Len(values) /\ \A j \in 1..Len(values) : values[j] \in S
    BY <1>1, <1>4 DEF ItemsOf
  <1>6. values' = [j \in 1..Len(values) |-> IF j = i THEN v ELSE values[j]]
    BY <1>1, <1>3, <1>5
  <1>7. values' \in Seq(S) /\ Len(values') = Len(values)
    BY <1>4, <1>5, <1>6
  <1>8. IsSequence(values')
    BY <1>7, OwnItems
  <1>9. Bounded'
    BY <1>1, <1>7, <1>8 DEF Bounded, IsSequence, ItemsOf
  <1>10. QED
    BY <1>1, <1>9 DEF FlightInv, Flights, CallTypes, Owning, Owns, Owned, Waiting, Awaits, CallerAt

-----------------------------------------------------------------------------
\* What one thread does, with the future of its name, keeps what the others rely on.
LEMMA OneCaller ==
    ASSUME Flights, NEW c \in Callers, NEW r \in CallRecord, NEW f \in Futures,
           caller' = [caller EXCEPT ![c] = r], future' = [future EXCEPT ![c] = f],
           pending' \in [Cases -> Callers \cup {NoCaller}],
           Owning(c)', Waiting(c)',
           \A k \in Cases : Owned(k)',
           \A k \in Cases : pending[k] \notin {c, NoCaller} => pending'[k] = pending[k],
           \A d \in Callers : d # c /\ caller[d].waitsFor = c /\ Awaits(d, c) => Awaits(d, c)'
    PROVE  Flights'
  <1>1. /\ caller \in [Callers -> CallRecord] /\ future \in [Callers -> Futures]
        /\ \A d \in Callers : Owning(d) /\ Waiting(d)
    BY DEF Flights, CallTypes
  <1>2. CallTypes'
    BY <1>1 DEF CallTypes
  <1>3. NoCaller \notin Callers
    BY ResultAssumption
  <1>4. ASSUME NEW d \in Callers, d # c PROVE Owning(d)' /\ Waiting(d)'
    <2>1. caller'[d] = caller[d] /\ future'[d] = future[d] /\ Owning(d) /\ Waiting(d)
      BY <1>1, <1>4
    <2>2. Owning(d)'
      BY <1>3, <1>4, <2>1 DEF Owning, Owns, CallerAt
    <2>3. CASE CallerAt(d, "waiting")
      <3>1. PICK o : o = caller[d].waitsFor
        OBVIOUS
      <3>2. Awaits(d, o) /\ o \in Callers
        BY <2>1, <2>3, <3>1 DEF Waiting, Awaits
      <3>3. Awaits(d, o)'
        <4>1. CASE o = c
          BY <1>4, <3>1, <3>2, <4>1
        <4>2. CASE o # c
          BY <1>1, <2>1, <3>2, <4>2 DEF Awaits, Owns, CallerAt
        <4>3. QED
          BY <4>1, <4>2
      <3>4. QED
        BY <2>1, <2>2, <2>3, <3>1, <3>3 DEF Waiting, CallerAt
    <2>4. CASE ~CallerAt(d, "waiting")
      BY <2>1, <2>2, <2>4 DEF Waiting, CallerAt
    <2>5. QED
      BY <2>3, <2>4
  <1>5. QED
    BY <1>2, <1>4 DEF Flights

LEMMA CallFields ==
    ASSUME Flights, NEW c \in Callers
    PROVE  /\ caller[c] \in CallRecord /\ future[c] \in Futures /\ future = [future EXCEPT ![c] = future[c]]
           /\ caller \in [Callers -> CallRecord] /\ pending \in [Cases -> Callers \cup {NoCaller}]
           /\ future \in [Callers -> Futures]
           /\ Owning(c) /\ Waiting(c)
           /\ \A k \in Cases : Owned(k)
           /\ \A k \in Cases : pending[k] \in Callers \cup {NoCaller}
           /\ NoCaller \notin Callers
  BY ResultAssumption DEF Flights, CallTypes

\* A thread that owns nothing before or after leaves every owner on record.
LEMMA OwnersStay ==
    ASSUME Flights, NEW c \in Callers, NEW r \in CallRecord, caller' = [caller EXCEPT ![c] = r], pending' = pending,
           ~Owns(c)
    PROVE  \A k \in Cases : Owned(k)'
  <1>1. SUFFICES ASSUME NEW k \in Cases, pending[k] # NoCaller PROVE Owns(pending[k])' /\ caller'[pending[k]].key = k
    BY DEF Owned
  <1>2. PICK o \in Callers : o = pending[k]
    BY <1>1, CallFields
  <1>3. Owns(o) /\ caller[o].key = k
    BY <1>1, <1>2, CallFields DEF Owned
  <1>4. o # c /\ caller'[o] = caller[o]
    BY <1>3, CallFields
  <1>5. QED
    BY <1>2, <1>3, <1>4 DEF Owns

LEMMA CallStep == ASSUME FlightInv, NEW c \in Callers, Call(c) PROVE FlightInv'
  <1>1. Flights /\ Bounded /\ UNCHANGED <<values, pending, future>> /\ caller[c].pc = "idle"
    BY DEF FlightInv, Call, CallerAt
  <1>2. PICK k \in Cases : caller' = [caller EXCEPT ![c] = [caller[c] EXCEPT !.pc = "asking", !.key = k]]
    BY DEF Call
  <1>3. PICK r : r = [caller[c] EXCEPT !.pc = "asking", !.key = k]
    OBVIOUS
  <1>4. r \in CallRecord /\ r.pc = "asking" /\ r.key = k /\ r.waitsFor = caller[c].waitsFor
    BY <1>1, <1>3, CallFields DEF CallRecord
  <1>5. caller' = [caller EXCEPT ![c] = r] /\ caller'[c] = r
    BY <1>1, <1>2, <1>3, CallFields
  <1>6. Owning(c)' /\ Waiting(c)'
    BY <1>1, <1>4, <1>5, CallFields DEF Owning, Owns, Waiting, CallerAt
  <1>7. \A d \in Callers : ~Awaits(d, c)
    BY <1>1 DEF Awaits, Owns, CallerAt
  <1>8. \A j \in Cases : Owned(j)'
    BY <1>1, <1>4, <1>5, OwnersStay DEF Owns
  <1>9. Flights'
    BY <1>1, <1>4, <1>5, <1>6, <1>7, <1>8, CallFields, OneCaller
  <1>10. QED
    BY <1>1, <1>9 DEF FlightInv, Bounded, IsSequence, ItemsOf

\* A step of a thread that owns its case and goes on owning it.
LEMMA OwnerGoesOn ==
    ASSUME Flights, NEW c \in Callers, NEW r \in CallRecord, NEW f \in Futures, Owns(c),
           caller' = [caller EXCEPT ![c] = r], future' = [future EXCEPT ![c] = f], pending' = pending,
           r.pc \in {"computing", "stored", "ending"}, r.key = caller[c].key, r.waitsFor = caller[c].waitsFor,
           f = "unset" <=> r.pc # "ending"
    PROVE  Flights'
  <1>1. caller'[c] = r /\ future'[c] = f /\ Owning(c) /\ Waiting(c)
    BY CallFields
  <1>2. Owning(c)' /\ Waiting(c)'
    BY <1>1 DEF Owning, Owns, Waiting, CallerAt
  <1>3. ASSUME NEW k \in Cases, pending[k] # NoCaller PROVE Owns(pending[k])' /\ caller'[pending[k]].key = k
    <2>1. PICK o \in Callers : o = pending[k]
      BY <1>3, CallFields
    <2>2. Owns(o) /\ caller[o].key = k
      BY <1>3, <2>1, CallFields DEF Owned
    <2>3. caller'[o] = IF o = c THEN r ELSE caller[o]
      BY CallFields
    <2>4. QED
      BY <2>1, <2>2, <2>3 DEF Owns
  <1>4. \A k \in Cases : Owned(k)'
    BY <1>3 DEF Owned
  <1>5. ASSUME NEW d \in Callers, d # c, Awaits(d, c) PROVE Awaits(d, c)'
    <2>1. caller'[d] = caller[d]
      BY <1>5, CallFields
    <2>2. QED
      BY <1>1, <1>5, <2>1 DEF Awaits, Owns
  <1>6. QED
    BY <1>2, <1>4, <1>5, CallFields, OneCaller

LEMMA StoreStep == ASSUME FlightInv, NEW c \in Callers, Store(c) PROVE FlightInv'
  <1>1. Flights /\ Bounded /\ UNCHANGED <<pending, future>> /\ caller[c].pc = "computing"
    BY DEF FlightInv, Store, CallerAt
  <1>2. PICK r : r = [caller[c] EXCEPT !.pc = "stored"]
    OBVIOUS
  <1>3. r \in CallRecord /\ r.pc = "stored" /\ r.key = caller[c].key /\ r.waitsFor = caller[c].waitsFor
    BY <1>1, <1>2, CallFields DEF CallRecord
  <1>4. caller' = [caller EXCEPT ![c] = r]
    BY <1>1, <1>2, CallFields DEF Store
  <1>5. future[c] = "unset" /\ future' = [future EXCEPT ![c] = "unset"]
    BY <1>1, CallFields DEF Owning
  <1>6. Flights'
    BY <1>1, <1>3, <1>4, <1>5, OwnerGoesOn DEF Owns, Futures
  <1>7. Bounded'
    BY <1>1, StoredItems DEF Store
  <1>8. QED
    BY <1>6, <1>7 DEF FlightInv

LEMMA SetSteps == ASSUME FlightInv, NEW c \in Callers, SetResult(c) \/ Fail(c) PROVE FlightInv'
  <1>1. Flights /\ Bounded /\ UNCHANGED <<values, pending>> /\ Owns(c)
    BY DEF FlightInv, SetResult, Fail, CallerAt, Owns
  <1>2. PICK f \in {"set", "failed"}, a \in {"miss", "failed"} :
           /\ future' = [future EXCEPT ![c] = f]
           /\ caller' = [caller EXCEPT ![c] = [caller[c] EXCEPT !.pc = "ending", !.answer = a]]
    <2>1. CASE SetResult(c)
      BY <1>1, <2>1, CallFields DEF SetResult
    <2>2. CASE Fail(c)
      BY <1>1, <2>2, CallFields DEF Fail, SetException
    <2>3. QED
      BY <2>1, <2>2
  <1>3. PICK r : r = [caller[c] EXCEPT !.pc = "ending", !.answer = a]
    OBVIOUS
  <1>4. r \in CallRecord /\ r.pc = "ending" /\ r.key = caller[c].key /\ r.waitsFor = caller[c].waitsFor
    BY <1>1, <1>3, CallFields DEF CallRecord
  <1>5. caller' = [caller EXCEPT ![c] = r] /\ f \in Futures /\ f # "unset"
    BY <1>2, <1>3 DEF Futures
  <1>6. Flights'
    BY <1>1, <1>2, <1>4, <1>5, OwnerGoesOn
  <1>7. QED
    BY <1>1, <1>6 DEF FlightInv, Bounded, IsSequence, ItemsOf

\* The owner leaves the record; the future keeps its name until nobody waits for it.
LEMMA DisownStep == ASSUME FlightInv, NEW c \in Callers, Disown(c) PROVE FlightInv'
  <1>1. Flights /\ Bounded /\ UNCHANGED <<values, future>> /\ caller[c].pc = "ending"
    BY DEF FlightInv, Disown, CallerAt
  <1>2. PICK k \in Cases : k = caller[c].key
    BY <1>1, CallFields DEF Owning
  <1>3. pending[k] = c /\ future[c] # "unset" /\ caller[c].waitsFor = NoCaller
    BY <1>1, <1>2, CallFields DEF Owning, Owns, Waiting, CallerAt
  <1>4. PICK r : r = [caller[c] EXCEPT !.pc = "answered"]
    OBVIOUS
  <1>5. r \in CallRecord /\ r.pc = "answered" /\ r.key = k /\ r.waitsFor = NoCaller
    BY <1>1, <1>2, <1>3, <1>4, CallFields DEF CallRecord
  <1>6. caller' = [caller EXCEPT ![c] = r] /\ caller'[c] = r /\ future' = [future EXCEPT ![c] = future[c]]
    BY <1>1, <1>4, CallFields DEF Disown
  <1>7. /\ pending' = [pending EXCEPT ![k] = NoCaller] /\ pending' \in [Cases -> Callers \cup {NoCaller}]
        /\ \A j \in Cases : pending'[j] = IF j = k THEN NoCaller ELSE pending[j]
    BY <1>1, <1>2, CallFields DEF Disown
  <1>8. Owning(c)' /\ Waiting(c)'
    BY <1>5, <1>6, CallFields DEF Owning, Owns, Waiting, CallerAt
  <1>9. ASSUME NEW j \in Cases, pending'[j] # NoCaller
        PROVE  \E o \in Callers : o = pending'[j] /\ Owns(o)' /\ caller'[o].key = j
    <2>1. j # k /\ pending'[j] = pending[j]
      BY <1>7, <1>9
    <2>2. PICK o \in Callers : o = pending[j]
      BY <1>1, <1>9, <2>1, CallFields
    <2>3. Owns(o) /\ caller[o].key = j
      BY <1>1, <1>9, <2>1, <2>2, CallFields DEF Owned
    <2>4. o # c /\ caller'[o] = caller[o]
      BY <1>1, <1>2, <1>6, <2>1, <2>3, CallFields
    <2>5. QED
      BY <2>1, <2>2, <2>3, <2>4 DEF Owns
  <1>10. \A j \in Cases : Owned(j)'
    BY <1>9 DEF Owned
  <1>11. ASSUME NEW d \in Callers, d # c, Awaits(d, c) PROVE Awaits(d, c)'
    <2>1. caller'[d] = caller[d] /\ future'[c] = future[c]
      BY <1>1, <1>6, <1>11, CallFields
    <2>2. QED
      BY <1>2, <1>3, <1>5, <1>6, <1>11, <2>1 DEF Awaits, Owns, CallerAt
  <1>12. \A j \in Cases : pending[j] \notin {c, NoCaller} => pending'[j] = pending[j]
    BY <1>3, <1>7
  <1>13. Flights'
    BY <1>1, <1>5, <1>6, <1>7, <1>8, <1>10, <1>11, <1>12, CallFields, OneCaller
  <1>14. QED
    BY <1>1, <1>13 DEF FlightInv, Bounded, IsSequence, ItemsOf

LEMMA ShareStep == ASSUME FlightInv, NEW c \in Callers, Share(c) PROVE FlightInv'
  <1>1. Flights /\ Bounded /\ UNCHANGED <<values, pending, future>> /\ caller[c].pc = "waiting"
    BY DEF FlightInv, Share, CallerAt
  <1>2. PICK a \in {"shared", "failed"} :
           caller' = [caller EXCEPT ![c] = [caller[c] EXCEPT !.pc = "answered", !.waitsFor = NoCaller, !.answer = a]]
    <2>1. PICK a : a = IF future[caller[c].waitsFor] = "set" THEN "shared" ELSE "failed"
      OBVIOUS
    <2>2. QED
      BY <1>1, <2>1, CallFields DEF Share
  <1>3. PICK r : r = [caller[c] EXCEPT !.pc = "answered", !.waitsFor = NoCaller, !.answer = a]
    OBVIOUS
  <1>4. r \in CallRecord /\ r.pc = "answered" /\ r.key = caller[c].key /\ r.waitsFor = NoCaller
    BY <1>1, <1>3, CallFields DEF CallRecord
  <1>5. caller' = [caller EXCEPT ![c] = r] /\ caller'[c] = r /\ future' = [future EXCEPT ![c] = future[c]]
    BY <1>1, <1>2, <1>3, CallFields
  <1>6. Owning(c)' /\ Waiting(c)'
    BY <1>1, <1>4, <1>5, CallFields DEF Owning, Owns, Waiting, CallerAt
  <1>7. \A d \in Callers : ~Awaits(d, c)
    BY <1>1 DEF Awaits, Owns, CallerAt
  <1>8. \A j \in Cases : Owned(j)'
    BY <1>1, <1>4, <1>5, OwnersStay DEF Owns
  <1>9. Flights'
    BY <1>1, <1>4, <1>5, <1>6, <1>7, <1>8, CallFields, OneCaller
  <1>10. QED
    BY <1>1, <1>9 DEF FlightInv, Bounded, IsSequence, ItemsOf

LEMMA ReturnStep == ASSUME FlightInv, NEW c \in Callers, Return(c) PROVE FlightInv'
  <1>1. Flights /\ Bounded /\ UNCHANGED <<values, pending, future>> /\ caller[c].pc = "answered"
        /\ \A d \in Callers : caller[d].waitsFor # c
    BY DEF FlightInv, Return, CallerAt
  <1>2. PICK r : r = IdleCaller
    OBVIOUS
  <1>3. r \in CallRecord /\ r.pc = "idle" /\ r.waitsFor = NoCaller
    BY <1>2 DEF CallRecord, IdleCaller
  <1>4. caller' = [caller EXCEPT ![c] = r] /\ caller'[c] = r /\ future' = [future EXCEPT ![c] = future[c]]
    BY <1>1, <1>2, CallFields DEF Return
  <1>5. Owning(c)' /\ Waiting(c)'
    BY <1>3, <1>4 DEF Owning, Owns, Waiting, CallerAt
  <1>6. \A j \in Cases : Owned(j)'
    BY <1>1, <1>3, <1>4, OwnersStay DEF Owns
  <1>7. Flights'
    BY <1>1, <1>3, <1>4, <1>5, <1>6, CallFields, OneCaller
  <1>8. QED
    BY <1>1, <1>7 DEF FlightInv, Bounded, IsSequence, ItemsOf

LEMMA LookStep == ASSUME FlightInv, NEW c \in Callers, Look(c) PROVE FlightInv'
  <1>1. Flights /\ Bounded /\ caller[c].pc = "asking" /\ ~Owns(c)
    BY DEF FlightInv, Look, CallerAt, Owns
  <1>2. PICK k \in Cases : k = caller[c].key
    BY <1>1, CallFields DEF Owning
  <1>3. caller[c].waitsFor = NoCaller /\ \A d \in Callers : ~Awaits(d, c)
    BY <1>1, CallFields DEF Awaits, Waiting, Owns, CallerAt
  <1>4. CASE /\ UNCHANGED <<pending, future>>
             /\ \E i \in DOMAIN Fresh(values) : Fresh(values)[i].key = k
             /\ values' = Append(Without(Fresh(values), k), [key |-> k, expired |-> FALSE])
             /\ caller' = [caller EXCEPT ![c] = [caller[c] EXCEPT !.pc = "answered", !.answer = "hit"]]
    <2>1. PICK r : r = [caller[c] EXCEPT !.pc = "answered", !.answer = "hit"]
      OBVIOUS
    <2>2. r \in CallRecord /\ r.pc = "answered" /\ r.key = k /\ r.waitsFor = NoCaller
      <3>1. caller[c] \in CallRecord
        BY <1>1, CallFields
      <3>2. QED
        BY <1>2, <1>3, <2>1, <3>1 DEF CallRecord
    <2>3. caller' = [caller EXCEPT ![c] = r] /\ caller'[c] = r /\ future' = [future EXCEPT ![c] = future[c]]
      BY <1>1, <1>4, <2>1, CallFields
    <2>4. Owning(c)' /\ Waiting(c)'
      BY <2>2, <2>3 DEF Owning, Owns, Waiting, CallerAt
    <2>5. \A j \in Cases : Owned(j)'
      BY <1>1, <1>4, <2>2, <2>3, OwnersStay
    <2>6. Flights'
      <3>1. pending' \in [Cases -> Callers \cup {NoCaller}] /\ future[c] \in Futures /\ pending' = pending
        BY <1>1, <1>4, CallFields
      <3>2. QED
        BY <1>1, <1>3, <2>2, <2>3, <2>4, <2>5, <3>1, OneCaller
    <2>7. Bounded'
      BY <1>1, <1>4, HitItems
    <2>8. QED
      BY <2>6, <2>7 DEF FlightInv
  <1>5. CASE /\ UNCHANGED <<pending, future>>
             /\ pending[k] # NoCaller
             /\ values' = Fresh(values)
             /\ caller' = [caller EXCEPT ![c] = [caller[c] EXCEPT !.pc = "waiting", !.waitsFor = pending[k]]]
    <2>1. PICK o \in Callers : o = pending[k]
      BY <1>1, <1>5, CallFields
    <2>2. PICK r : r = [caller[c] EXCEPT !.pc = "waiting", !.waitsFor = o]
      OBVIOUS
    <2>3. r \in CallRecord /\ r.pc = "waiting" /\ r.key = k /\ r.waitsFor = o
      BY <1>1, <1>2, <2>2, CallFields DEF CallRecord
    <2>4. caller' = [caller EXCEPT ![c] = r] /\ caller'[c] = r /\ future' = [future EXCEPT ![c] = future[c]]
      BY <1>1, <1>5, <2>1, <2>2, CallFields
    <2>5. Owns(o) /\ caller[o].key = k
      BY <1>1, <1>5, <2>1, CallFields DEF Owned
    <2>6. o # c /\ caller'[o] = caller[o]
      BY <1>1, <2>4, <2>5, CallFields
    <2>7. Owning(c)' /\ Waiting(c)'
      BY <2>3, <2>4, <2>5, <2>6 DEF Owning, Owns, Waiting, Awaits, CallerAt
    <2>8. \A j \in Cases : Owned(j)'
      BY <1>1, <1>5, <2>3, <2>4, OwnersStay
    <2>9. Flights'
      <3>1. pending' \in [Cases -> Callers \cup {NoCaller}] /\ future[c] \in Futures /\ pending' = pending
        BY <1>1, <1>5, CallFields
      <3>2. QED
        BY <1>1, <1>3, <2>3, <2>4, <2>7, <2>8, <3>1, OneCaller
    <2>10. Bounded'
      BY <1>1, <1>5, FreshBounded
    <2>11. QED
      BY <2>9, <2>10 DEF FlightInv
  <1>6. CASE /\ pending[k] = NoCaller
             /\ values' = Fresh(values)
             /\ pending' = [pending EXCEPT ![k] = c]
             /\ future' = [future EXCEPT ![c] = "unset"]
             /\ caller' = [caller EXCEPT ![c].pc = "computing"]
    <2>1. PICK r : r = [caller[c] EXCEPT !.pc = "computing"]
      OBVIOUS
    <2>2. r \in CallRecord /\ r.pc = "computing" /\ r.key = k /\ r.waitsFor = NoCaller
      BY <1>1, <1>2, <1>3, <2>1, CallFields DEF CallRecord
    <2>3. caller' = [caller EXCEPT ![c] = r] /\ caller'[c] = r /\ future'[c] = "unset" /\ "unset" \in Futures
      BY <1>1, <1>6, <2>1, CallFields DEF Futures
    <2>4. /\ pending' \in [Cases -> Callers \cup {NoCaller}]
          /\ \A j \in Cases : pending'[j] = IF j = k THEN c ELSE pending[j]
      BY <1>1, <1>6, CallFields
    <2>5. Owning(c)' /\ Waiting(c)'
      BY <2>2, <2>3, <2>4 DEF Owning, Owns, Waiting, CallerAt
    <2>6. ASSUME NEW j \in Cases, pending'[j] # NoCaller
          PROVE  \E o \in Callers : o = pending'[j] /\ Owns(o)' /\ caller'[o].key = j
      <3>1. CASE j = k
        BY <2>2, <2>3, <2>4, <3>1 DEF Owns
      <3>2. CASE j # k
        <4>1. PICK o \in Callers : o = pending[j] /\ o = pending'[j]
          BY <1>1, <2>4, <2>6, <3>2, CallFields
        <4>2. Owns(o) /\ caller[o].key = j
          BY <1>1, <2>6, <4>1, CallFields DEF Owned
        <4>3. o # c /\ caller'[o] = caller[o]
          BY <1>1, <2>3, <4>2, CallFields
        <4>4. QED
          BY <4>1, <4>2, <4>3 DEF Owns
      <3>3. QED
        BY <3>1, <3>2
    <2>7. \A j \in Cases : Owned(j)'
      BY <2>6 DEF Owned
    <2>8. \A j \in Cases : pending[j] \notin {c, NoCaller} => pending'[j] = pending[j]
      BY <1>6, <2>4
    <2>9. Flights'
      BY <1>1, <1>3, <1>6, <2>2, <2>3, <2>4, <2>5, <2>7, <2>8, OneCaller
    <2>10. Bounded'
      BY <1>1, <1>6, FreshBounded
    <2>11. QED
      BY <2>9, <2>10 DEF FlightInv
  <1>7. QED
    BY <1>1, <1>2, <1>4, <1>5, <1>6, CallFields DEF Look, IsOwned

-----------------------------------------------------------------------------
LEMMA FlightInit == ASSUME ResultInit PROVE FlightInv
  <1>1. /\ values = <<>> /\ pending = [k \in Cases |-> NoCaller]
        /\ future = [c \in Callers |-> "unset"] /\ caller = [c \in Callers |-> IdleCaller]
    BY DEF ResultInit
  <1>2. IdleCaller \in CallRecord /\ IdleCaller.pc = "idle" /\ IdleCaller.waitsFor = NoCaller
    BY DEF IdleCaller, CallRecord
  <1>3. CallTypes
    BY <1>1, <1>2 DEF CallTypes, Futures
  <1>4. ASSUME NEW c \in Callers PROVE Owning(c) /\ Waiting(c)
    BY <1>1, <1>2 DEF Owning, Waiting, Owns, CallerAt
  <1>5. \A k \in Cases : Owned(k)
    BY <1>1 DEF Owned
  <1>6. values \in Seq({}) /\ Len(values) = 0 /\ Capacity \in Nat
    BY <1>1, ResultAssumption
  <1>7. Bounded
    <2>1. IsSequence(values)
      BY <1>6, OwnItems
    <2>2. QED
      BY <1>6, <2>1 DEF Bounded
  <1>8. QED
    BY <1>3, <1>4, <1>5, <1>7 DEF FlightInv, Flights

LEMMA FlightNext == ASSUME FlightInv, [ResultNext]_resultVars PROVE FlightInv'
  <1>1. CASE ResultNext
    BY <1>1, CallStep, LookStep, StoreStep, SetSteps, DisownStep, ShareStep, ReturnStep, ExpireStep
       DEF ResultNext, CallerStep
  <1>2. CASE UNCHANGED resultVars
    BY <1>2 DEF resultVars, FlightInv, Flights, CallTypes, Owning, Owns, Owned, Waiting, Awaits, CallerAt,
                Bounded, IsSequence, ItemsOf
  <1>3. QED
    BY <1>1, <1>2

\* A case is calculated by one thread at a time, who waits for it waits for a
\* thread that is at work on it or has its result, and the cache never keeps
\* more than it may (analysis_cache.get_or_compute).
THEOREM SingleFlight == ResultSpec => []OneFlight
  <1>1. ASSUME FlightInv PROVE OneFlight
    <2>1. Flights /\ Bounded
      BY <1>1 DEF FlightInv
    <2>2. ASSUME NEW c \in Callers, NEW d \in Callers, Owns(c), Owns(d), caller[c].key = caller[d].key
          PROVE  c = d /\ pending[caller[c].key] = c
      BY <2>1, <2>2, CallFields DEF Owning
    <2>3. ASSUME NEW c \in Callers, CallerAt(c, "waiting")
          PROVE  LET o == caller[c].waitsFor
                 IN  caller[o].key = caller[c].key /\ (future[o] = "unset" => caller[o].pc \in {"computing", "stored"})
      <3>1. PICK o : o = caller[c].waitsFor
        OBVIOUS
      <3>2. Awaits(c, o)
        BY <2>1, <2>3, <3>1, CallFields DEF Waiting
      <3>3. o \in Callers /\ Owning(o)
        BY <2>1, <3>2, CallFields DEF Awaits
      <3>4. QED
        BY <3>1, <3>2, <3>3 DEF Awaits, Owning, Owns, CallerAt
    <2>4. QED
      BY <2>1, <2>2, <2>3 DEF OneFlight, Bounded
  <1>2. QED
    BY <1>1, FlightInit, FlightNext, PTL DEF ResultSpec
=============================================================================
