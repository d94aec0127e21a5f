-------------------------- MODULE Timeline_proofs --------------------------
(***************************************************************************)
(* Proofs about the timing engine (Timeline), for all task graphs, all     *)
(* resources and token queues and every capacity.                          *)
(***************************************************************************)
EXTENDS Timeline, FiniteSetTheorems, TLAPS

-----------------------------------------------------------------------------
(* The inductive invariant.                                                *)

Frames == 0..(work.frames - 1)
Hops == (DOMAIN work.edge) \X Frames
Streams == OtfGroups(work) \X Frames

RunRecord == [state : {"blocked", "queued", "running", "done"}, ready : Nat, start : Nat, end : Nat]
HopRecord == [state : {"idle", "queued", "moving", "arrived"}, since : Nat, until : Nat]
StreamRecord == [state : {"blocked", "reserving", "streaming", "over"}, base : Nat]

Waiting(s) == Range(server[s].queue)
Resource(x) == work.task[x[1]].resource
Token(h) == work.edge[h[1]].token
Delay(h) == work.edge[h[1]].delay
Rest(g) == GroupResources(g) \ Held(g)

ServerTypes ==
    /\ DOMAIN server = Servers
    /\ \A s \in Resources : server[s] \in [users : SUBSET (Runs(work) \cup Streams), queue : Seq(Runs(work) \cup Streams)]
    /\ \A s \in Tokens : server[s] \in [users : SUBSET Hops, queue : Seq(Hops)]

TimelineTypes ==
    /\ work \in Workloads /\ IsAccepted(work)
    /\ now \in Nat
    /\ run \in [Runs(work) -> RunRecord]
    /\ hop \in [Hops -> HopRecord]
    /\ stream \in [Streams -> StreamRecord]
    /\ ServerTypes

\* No server is used by more than it has room for, and nothing waits twice.
ServersKept == \A s \in Servers : /\ IsFiniteSet(server[s].users) /\ Cardinality(server[s].users) <= Places[s]
                                  /\ IsInjective(server[s].queue)

\* Who waits for a server, and who uses it.
RunsServed ==
    \A s \in Resources, x \in DOMAIN run :
        /\ x \in Waiting(s) <=> run[x].state = "queued" /\ Resource(x) = s
        /\ x \in server[s].users <=> run[x].state = "running" /\ ~InGroup(x) /\ Resource(x) = s
GroupsServed ==
    \A s \in Resources, g \in DOMAIN stream :
        /\ g \in Waiting(s) <=> stream[g].state = "reserving" /\ s = NextResource(g, Held(g))
        /\ g \in server[s].users => stream[g].state \in {"reserving", "streaming"} /\ s \in GroupResources(g)
        /\ s \in GroupResources(g) /\ stream[g].state = "streaming" => g \in server[s].users
HopsServed ==
    \A s \in Tokens, h \in DOMAIN hop :
        /\ h \in Waiting(s) <=> hop[h].state = "queued" /\ Token(h) = s
        /\ h \in server[s].users <=> hop[h].state = "moving" /\ Token(h) = s

\* A group reserves its resources in their order.
InOrder == \A g \in DOMAIN stream : stream[g].state = "reserving" =>
               Rest(g) # {} /\ \A held \in Held(g), other \in Rest(g) : held < other

MadeAt(h) == IF Streaming(h[1]) THEN run[Source(h)].start ELSE run[Source(h)].end

\* What travels has been made, and has taken its time when it arrives.
HopsFollow ==
    \A h \in DOMAIN hop :
        /\ hop[h].state # "idle" => Dependency(h)
        /\ hop[h].state = "queued" => Token(h) # Nothing
        /\ hop[h].state = "moving" => MadeAt(h) + Delay(h) <= hop[h].until
        /\ hop[h].state = "arrived" => MadeAt(h) + Delay(h) <= now

\* Runs and groups go through their stages when they may.
RunsFollow ==
    \A x \in DOMAIN run :
        /\ HasStarted(x) => run[x].start <= now
        /\ run[x].state = "done" => run[x].end <= now
        /\ run[x].state = "queued" => Resource(x) # Nothing
        /\ ~InGroup(x) /\ run[x].state # "blocked" => Arrived(Inputs(x))
        /\ \A g \in GroupsOf(x) : /\ run[x].state # "queued"
                                  /\ run[x].state # "blocked" => stream[g].state \in {"streaming", "over"}
GroupsFollow ==
    \A g \in DOMAIN stream : /\ stream[g].state # "blocked" => GroupIsFed(g)
                             /\ stream[g].state = "over" => IsOver(g)

\* A consumer starts after all that it consumes has arrived.
StartsFollow ==
    \A h \in DOMAIN hop : ~IsInternal(h) /\ HasStarted(Target(h)) =>
        hop[h].state = "arrived" /\ MadeAt(h) + Delay(h) <= run[Target(h)].start

TimelineInv == /\ TimelineTypes /\ ServersKept /\ RunsServed /\ GroupsServed /\ HopsServed /\ InOrder
               /\ HopsFollow /\ RunsFollow /\ GroupsFollow /\ StartsFollow

-----------------------------------------------------------------------------
(* What a workload is made of.                                             *)

LEMMA WorkFacts ==
    ASSUME TimelineTypes
    PROVE  IsWorkload(work)
  BY TimelineAssumption DEF TimelineTypes

LEMMA ServerFacts ==
    /\ Nothing \notin Servers
    /\ \A s \in Servers : s \in Nat /\ Places[s] \in Nat /\ Places[s] > 0
    /\ Servers = Resources \cup Tokens /\ Resources \cap Tokens = {}
  <1>1. Servers \subseteq Nat \ {0} /\ Tokens \subseteq Servers /\ \A s \in Servers : Places[s] \in Nat \ {0}
    BY TimelineAssumption DEF Nothing
  <1>2. \A s \in Servers : s \in Nat /\ Places[s] \in Nat /\ Places[s] > 0
    BY <1>1
  <1>3. Nothing \notin Servers
    BY <1>1 DEF Nothing
  <1> QED
    BY <1>1, <1>2, <1>3 DEF Resources

\* The tasks of a streaming group have no cadence of their own.
LEMMA GroupFacts ==
    ASSUME NEW w, IsWorkload(w), NEW group \in OtfGroups(w)
    PROVE  /\ group \in SUBSET DOMAIN w.task
           /\ \A t \in group : w.task[t].own = 0
  <1> DEFINE joined == UNION {{e[1], e[2]} : e \in Otf(w)}
  <1>1. PICK t \in joined : group = Component(w, t)
    BY DEF OtfGroups
  <1>2. Otf(w) \subseteq DOMAIN w.edge
    BY DEF Otf
  <1>3. \A u \in joined : u \in DOMAIN w.task /\ w.task[u].own = 0
    BY <1>2 DEF IsWorkload
  <1>4. IsClosed(w, joined)
    BY DEF IsClosed
  <1>5. joined \in SUBSET DOMAIN w.task
    BY <1>3
  <1>6. group \subseteq joined
    BY <1>1, <1>4, <1>5 DEF Component
  <1> QED
    BY <1>3, <1>5, <1>6

\* Being connected is symmetric: what is closed has a closed complement.
LEMMA ComponentOfMember ==
    ASSUME NEW w, IsWorkload(w), NEW t \in DOMAIN w.task, NEW u \in Component(w, t)
    PROVE  Component(w, u) = Component(w, t)
  <1>1. u \in DOMAIN w.task /\ \A S \in SUBSET DOMAIN w.task : IsClosed(w, S) /\ t \in S => u \in S
    BY DEF Component
  <1>2. ASSUME NEW S \in SUBSET DOMAIN w.task, IsClosed(w, S), u \in S
        PROVE  t \in S
    <2>1. SUFFICES ASSUME t \notin S PROVE FALSE
      OBVIOUS
    <2> DEFINE others == (DOMAIN w.task) \ S
    <2>2. \A e \in Otf(w) : e[1] \in DOMAIN w.task /\ e[2] \in DOMAIN w.task
      BY DEF Otf, IsWorkload
    <2>3. IsClosed(w, others)
      BY <1>2, <2>2 DEF IsClosed
    <2>4. u \in others
      BY <1>1, <2>1, <2>3
    <2> QED
      BY <1>2, <2>4
  <1>3. \A v \in DOMAIN w.task : v \in Component(w, u) <=> v \in Component(w, t)
    BY <1>1, <1>2 DEF Component
  <1> QED
    BY <1>3 DEF Component

\* So no task belongs to two groups.
LEMMA GroupsDisjoint ==
    ASSUME NEW w, IsWorkload(w), NEW g \in OtfGroups(w), NEW h \in OtfGroups(w), NEW v \in g, v \in h
    PROVE  g = h
  <1> DEFINE joined == UNION {{e[1], e[2]} : e \in Otf(w)}
  <1>1. \A u \in joined : u \in DOMAIN w.task
    BY DEF Otf, IsWorkload
  <1>2. \A k \in OtfGroups(w) : \E t \in DOMAIN w.task : k = Component(w, t)
    BY <1>1 DEF OtfGroups
  <1>3. g = Component(w, v) /\ h = Component(w, v)
    BY <1>2, ComponentOfMember
  <1> QED
    BY <1>3

LEMMA RunsOfNat ==
    ASSUME NEW w, IsWorkload(w), NEW t \in DOMAIN w.task
    PROVE  RunsOf(w, t) \in Int
  <1>1. w.frames \in Nat /\ w.period \in Nat /\ w.task[t].own \in Nat
    BY DEF IsWorkload
  <1>2. CASE ~Independent(w, t)
    BY <1>1, <1>2 DEF RunsOf
  <1>3. CASE Independent(w, t)
    <2> DEFINE own == w.task[t].own
               n == (w.frames * w.period + own - 1) \div own
    <2>1. own > 0
      BY <1>3 DEF Independent
    <2>a. w.frames * w.period \in Int
      BY <1>1
    <2>2. n \in Int
      BY <1>1, <2>1, <2>a
    <2>3. \E x \in {1, n} : \A y \in {1, n} : x >= y
      <3> HIDE DEF n
      <3> QED BY <2>2
    <2>4. Max({1, n}) \in {1, n}
      BY <2>3 DEF Max
    <2>5. CadenceRuns(w, t) \in Int
      BY <1>1, <2>2, <2>4 DEF CadenceRuns
    <2> QED
      BY <1>3, <2>5 DEF RunsOf
  <1> QED
    BY <1>2, <1>3

\* The runs of the tasks: those of the tasks with the frames are the pairs.
LEMMA RunFacts ==
    ASSUME TimelineTypes
    PROVE  /\ \A x \in DOMAIN run : /\ x = <<x[1], x[2]>> /\ x[1] \in DOMAIN work.task /\ x[2] \in Nat
                                    /\ Resource(x) \in Resources \cup {Nothing}
           /\ \A t \in DOMAIN work.task, k \in Frames : work.task[t].own = 0 => <<t, k>> \in DOMAIN run
           /\ \A x \in DOMAIN run : work.task[x[1]].own = 0 => x[2] \in Frames
  <1>1. IsWorkload(work)
    BY WorkFacts
  <1>2. DOMAIN run = Runs(work)
    BY DEF TimelineTypes
  <1>3. \A t \in DOMAIN work.task : work.task[t].own = 0 => RunsOf(work, t) = work.frames
    BY <1>1 DEF RunsOf, Independent, IsWorkload
  <1>4. ASSUME NEW x \in Runs(work)
        PROVE  /\ x = <<x[1], x[2]>> /\ x[1] \in DOMAIN work.task
               /\ x[2] \in 0..(RunsOf(work, x[1]) - 1)
    BY DEF Runs
  <1>5. \A t \in DOMAIN work.task, k \in Frames : work.task[t].own = 0 => <<t, k>> \in Runs(work)
    BY <1>3 DEF Runs, Frames
  <1>6. \A x \in Runs(work) : x[2] \in Nat
    BY <1>1, <1>4, RunsOfNat
  <1>7. \A x \in Runs(work) : Resource(x) \in Resources \cup {Nothing}
    BY <1>1, <1>4 DEF Resource, IsWorkload
  <1>8. \A x \in Runs(work) : work.task[x[1]].own = 0 => x[2] \in Frames
    BY <1>3, <1>4 DEF Frames
  <1> QED
    BY <1>2, <1>4, <1>5, <1>6, <1>7, <1>8

LEMMA HopFacts ==
    ASSUME TimelineTypes, NEW h \in DOMAIN hop
    PROVE  /\ h = <<h[1], h[2]>> /\ h[1] \in DOMAIN work.edge /\ h[1] = <<h[1][1], h[1][2]>> /\ h[2] \in Frames
           /\ Source(h) \in DOMAIN run /\ Target(h) \in DOMAIN run
           /\ h \in Inputs(Target(h))
           /\ Delay(h) \in Nat /\ Token(h) \in Tokens \cup {Nothing}
  <1>1. IsWorkload(work)
    BY WorkFacts
  <1>2. h \in Hops
    BY DEF TimelineTypes
  <1>3. h = <<h[1], h[2]>> /\ h[1] \in DOMAIN work.edge /\ h[2] \in Frames
    BY <1>2 DEF Hops
  <1>4. /\ h[1] \in (DOMAIN work.task) \X (DOMAIN work.task)
        /\ work.task[h[1][1]].own = 0 /\ work.task[h[1][2]].own = 0
        /\ Delay(h) \in Nat /\ Token(h) \in Tokens \cup {Nothing}
    BY <1>1, <1>3 DEF IsWorkload, Delay, Token
  <1>5. Source(h) \in DOMAIN run /\ Target(h) \in DOMAIN run
    BY <1>3, <1>4, RunFacts DEF Source, Target
  <1>6. h \in Inputs(Target(h))
    BY DEF Inputs, Target
  <1> QED
    BY <1>3, <1>4, <1>5, <1>6

LEMMA InputFacts ==
    ASSUME TimelineTypes, NEW x \in DOMAIN run, NEW h \in Inputs(x)
    PROVE  h \in DOMAIN hop /\ Target(h) = x
  BY RunFacts DEF Inputs, Target

\* The groups of a frame.
LEMMA StreamFacts ==
    ASSUME TimelineTypes, NEW g \in DOMAIN stream
    PROVE  /\ g = <<g[1], g[2]>> /\ g[1] \in OtfGroups(work) /\ g[2] \in Frames
           /\ g \notin DOMAIN run
           /\ Members(g) \subseteq DOMAIN run
           /\ GroupResources(g) \subseteq Resources
           /\ \A x \in DOMAIN run : x \in Members(g) <=> g \in GroupsOf(x)
           /\ \A x \in Members(g) : GroupsOf(x) = {g} /\ InGroup(x)
           /\ GroupInputs(g) \subseteq DOMAIN hop
           /\ \A h \in GroupInputs(g) : Target(h) \in Members(g)
  <1>1. IsWorkload(work)
    BY WorkFacts
  <1>2. \A k \in DOMAIN stream : k = <<k[1], k[2]>> /\ k[1] \in OtfGroups(work) /\ k[2] \in Frames
    BY DEF TimelineTypes, Streams
  <1>3. g[1] \in SUBSET DOMAIN work.task /\ \A t \in g[1] : work.task[t].own = 0
    BY <1>1, <1>2, GroupFacts
  <1>4. g \notin DOMAIN run
    BY <1>1, <1>2, <1>3, RunFacts DEF IsWorkload
  <1>5. Members(g) \subseteq DOMAIN run
    BY <1>2, <1>3, RunFacts DEF Members
  <1>6. GroupResources(g) \subseteq Resources
    BY <1>1, <1>3 DEF GroupResources, IsWorkload
  <1>7. \A k \in DOMAIN stream, x \in DOMAIN run : x \in Members(k) <=> k \in GroupsOf(x)
    BY <1>2, RunFacts DEF Members, GroupsOf
  <1>8. ASSUME NEW x \in Members(g)
        PROVE  GroupsOf(x) = {g} /\ InGroup(x)
    <2>1. x \in DOMAIN run
      BY <1>5
    <2>2. g \in GroupsOf(x)
      BY <1>7, <2>1
    <2>3. \A k \in GroupsOf(x) : k \in DOMAIN stream /\ x[1] \in k[1] /\ x[2] = k[2]
      BY DEF GroupsOf
    <2>4. ASSUME NEW k \in GroupsOf(x) PROVE k = g
      <3>1. k[1] = g[1]
        BY <1>1, <1>2, <2>2, <2>3, <2>4, GroupsDisjoint
      <3>2. k[2] = g[2]
        BY <2>2, <2>3
      <3> QED
        BY <1>2, <2>3, <3>1, <3>2
    <2> QED
      BY <2>2, <2>4 DEF InGroup
  <1>9. GroupInputs(g) \subseteq DOMAIN hop
    BY DEF GroupInputs, Inputs
  <1>10. ASSUME NEW h \in GroupInputs(g) PROVE Target(h) \in Members(g)
    <2>1. PICK x \in Members(g) : h \in Inputs(x)
      BY DEF GroupInputs
    <2> QED
      BY <1>5, <2>1, InputFacts
  <1> QED
    BY <1>2, <1>4, <1>5, <1>6, <1>7, <1>8, <1>9, <1>10

-----------------------------------------------------------------------------
(* Queues of different things, and what the calls of a server do.          *)

LEMMA Queued ==
    ASSUME NEW T, NEW q \in Seq(T), NEW v \in T, IsInjective(q), v \notin Range(q)
    PROVE  /\ Append(q, v) \in Seq(T)
           /\ Range(Append(q, v)) = Range(q) \cup {v}
           /\ IsInjective(Append(q, v))
  <1> DEFINE r == Append(q, v)
  <1>1. r \in Seq(T) /\ Len(r) = Len(q) + 1 /\ Len(q) \in Nat /\ DOMAIN q = 1..Len(q) /\ DOMAIN r = 1..Len(r)
    OBVIOUS
  <1>2. \A i \in 1..Len(q) : r[i] = q[i]
    OBVIOUS
  <1>3. r[Len(q) + 1] = v
    OBVIOUS
  <1>4. \A i \in 1..Len(q) : q[i] \in Range(q)
    BY <1>1 DEF Range
  <1> HIDE DEF r
  <1>5. Range(r) = Range(q) \cup {v}
    BY <1>1, <1>2, <1>3 DEF Range
  <1>6. IsInjective(r)
    <2>1. \A i, j \in 1..Len(q) : q[i] = q[j] => i = j
      BY <1>1 DEF IsInjective
    <2>2. \A i \in 1..Len(q) : r[i] # v
      BY <1>2, <1>4
    <2> QED
      BY <1>1, <1>2, <1>3, <2>1, <2>2 DEF IsInjective
  <1> QED
    BY <1>1, <1>5, <1>6 DEF r

LEMMA Unqueued ==
    ASSUME NEW T, NEW q \in Seq(T), IsInjective(q), q # <<>>
    PROVE  /\ Head(q) \in T /\ Head(q) \in Range(q)
           /\ Tail(q) \in Seq(T)
           /\ Range(Tail(q)) = Range(q) \ {Head(q)}
           /\ IsInjective(Tail(q))
  <1> DEFINE r == Tail(q)
  <1>1. r \in Seq(T) /\ Len(r) = Len(q) - 1 /\ Len(q) \in Nat /\ Len(q) > 0 /\ DOMAIN q = 1..Len(q) /\ DOMAIN r = 1..Len(r)
    OBVIOUS
  <1>2. \A i \in 1..Len(r) : r[i] = q[i + 1]
    OBVIOUS
  <1>3. Head(q) = q[1] /\ Head(q) \in T
    OBVIOUS
  <1>4. \A i, j \in 1..Len(q) : q[i] = q[j] => i = j
    BY <1>1 DEF IsInjective
  <1> HIDE DEF r
  <1>5. Range(r) = Range(q) \ {q[1]}
    <2>1. ASSUME NEW i \in 1..Len(r) PROVE r[i] \in Range(q) \ {q[1]}
      <3>1. i + 1 \in 1..Len(q) /\ 1 \in 1..Len(q) /\ i + 1 # 1
        BY <1>1
      <3> QED
        BY <1>1, <1>2, <1>4, <3>1 DEF Range
    <2>2. ASSUME NEW j \in 1..Len(q), q[j] # q[1] PROVE q[j] \in Range(r)
      <3>1. j - 1 \in 1..Len(r) /\ j = (j - 1) + 1
        BY <1>1, <2>2
      <3> QED
        BY <1>1, <1>2, <3>1 DEF Range
    <2> QED
      BY <1>1, <2>1, <2>2 DEF Range
  <1>6. IsInjective(r)
    <2>1. ASSUME NEW i \in 1..Len(r), NEW j \in 1..Len(r), r[i] = r[j] PROVE i = j
      <3>1. i + 1 \in 1..Len(q) /\ j + 1 \in 1..Len(q)
        BY <1>1
      <3>2. i + 1 = j + 1
        BY <1>2, <1>4, <2>1, <3>1
      <3> QED
        BY <3>2
    <2> QED
      BY <1>1, <2>1 DEF IsInjective
  <1> QED
    BY <1>1, <1>3, <1>5, <1>6, 1 \in DOMAIN q DEF Range, r

\* What may wait for a server.
Clients(s) == IF s \in Resources THEN Runs(work) \cup Streams ELSE Hops

LEMMA ServerTyped ==
    ASSUME ServerTypes, NEW s \in Servers
    PROVE  /\ server[s] = [users |-> server[s].users, queue |-> server[s].queue]
           /\ server[s].users \subseteq Clients(s) /\ server[s].queue \in Seq(Clients(s))
  BY ServerFacts DEF ServerTypes, Clients

LEMMA ServerTyping ==
    ASSUME work' = work, DOMAIN server' = Servers,
           \A s \in Servers : server'[s] \in [users : SUBSET Clients(s), queue : Seq(Clients(s))]
    PROVE  ServerTypes'
  <1>1. Hops' = Hops /\ Streams' = Streams
    BY DEF Hops, Streams, Frames
  <1>2. \A s \in Resources : s \in Servers /\ Clients(s) = Runs(work) \cup Streams
    BY ServerFacts DEF Clients
  <1>3. \A s \in Tokens : s \in Servers /\ Clients(s) = Hops
    BY ServerFacts DEF Clients
  <1> QED
    BY <1>1, <1>2, <1>3 DEF ServerTypes

LEMMA ServerRecord ==
    ASSUME NEW r, NEW u, NEW q, r = [users |-> u, queue |-> q]
    PROVE  /\ r.users = u /\ r.queue = q
           /\ \A U, T : u \in SUBSET U /\ q \in Seq(T) => r \in [users : SUBSET U, queue : Seq(T)]
           /\ \A v : [r EXCEPT !.queue = Append(@, v)] = [users |-> u, queue |-> Append(q, v)]
  OBVIOUS

LEMMA ServerStill ==
    ASSUME ServerTypes, NEW s \in Servers
    PROVE  server[s] \in [users : SUBSET Clients(s), queue : Seq(Clients(s))]
  BY ServerFacts DEF ServerTypes, Clients

LEMMA AskedEffect ==
    ASSUME ServerTypes, ServersKept, work' = work,
           NEW s \in Servers, NEW v \in Clients(s), v \notin Waiting(s), server' = Asked(s, v)
    PROVE  /\ ServerTypes' /\ ServersKept'
           /\ \A r \in Servers : server'[r].users = server[r].users
           /\ \A r \in Servers \ {s} : Waiting(r)' = Waiting(r)
           /\ Waiting(s)' = Waiting(s) \cup {v}
  <1> DEFINE q == server[s].queue
             users == server[s].users
  <1>1. q \in Seq(Clients(s)) /\ users \subseteq Clients(s) /\ IsInjective(q) /\ v \notin Range(q)
    BY ServerTyped DEF ServersKept, Waiting
  <1>2. Append(q, v) \in Seq(Clients(s)) /\ Range(Append(q, v)) = Range(q) \cup {v} /\ IsInjective(Append(q, v))
    BY <1>1, Queued
  <1>3. DOMAIN server' = Servers /\ \A r \in Servers \ {s} : server'[r] = server[r]
    BY DEF Asked, ServerTypes
  <1>4. server'[s] = [users |-> users, queue |-> Append(q, v)]
    <2>1. server[s] = [users |-> users, queue |-> q]
      BY ServerTyped
    <2>2. server'[s] = [server[s] EXCEPT !.queue = Append(q, v)]
      BY DEF Asked, ServerTypes
    <2> QED
      BY <2>1, <2>2
  <1> HIDE DEF q, users
  <1>5. ServerTypes'
    <2>1. server'[s] \in [users : SUBSET Clients(s), queue : Seq(Clients(s))]
      BY <1>1, <1>2, <1>4, ServerRecord
    <2>2. \A r \in Servers \ {s} : server'[r] \in [users : SUBSET Clients(r), queue : Seq(Clients(r))]
      BY <1>3, ServerStill
    <2>3. \A r \in Servers : server'[r] \in [users : SUBSET Clients(r), queue : Seq(Clients(r))]
      BY <2>1, <2>2
    <2> QED
      BY <1>3, <2>3, ServerTyping
  <1>6. ServersKept'
    <2>1. server'[s].users = users /\ server'[s].queue = Append(q, v)
      BY <1>4, ServerRecord
    <2>2. IsFiniteSet(users) /\ Cardinality(users) <= Places[s]
      BY DEF ServersKept, users
    <2> QED
      BY <1>2, <1>3, <2>1, <2>2 DEF ServersKept
  <1>7. \A r \in Servers : server'[r].users = server[r].users
    BY <1>3, <1>4, ServerRecord DEF users
  <1>8. \A r \in Servers \ {s} : Waiting(r)' = Waiting(r)
    BY <1>3 DEF Waiting
  <1>9. Waiting(s)' = Waiting(s) \cup {v}
    BY <1>2, <1>4 DEF Waiting, q
  <1> QED
    BY <1>5, <1>6, <1>7, <1>8, <1>9

LEMMA FreedEffect ==
    ASSUME ServerTypes, ServersKept, work' = work, NEW S, NEW v, server' = Freed(S, v)
    PROVE  /\ ServerTypes' /\ ServersKept'
           /\ \A r \in Servers : /\ Waiting(r)' = Waiting(r)
                                 /\ r \in S => server'[r].users = server[r].users \ {v}
                                 /\ r \notin S => server'[r].users = server[r].users
  <1>1. DOMAIN server' = Servers
    BY DEF Freed
  <1>2. ASSUME NEW r \in Servers
        PROVE  /\ server'[r] = [users |-> IF r \in S THEN server[r].users \ {v} ELSE server[r].users,
                                queue |-> server[r].queue]
               /\ server'[r] \in [users : SUBSET Clients(r), queue : Seq(Clients(r))]
    <2> DEFINE u == IF r \in S THEN server[r].users \ {v} ELSE server[r].users
    <2>1. server'[r] = [server[r] EXCEPT !.users = u]
      BY DEF Freed
    <2>2. u \subseteq server[r].users
      OBVIOUS
    <2> HIDE DEF u
    <2>3. server'[r] = [users |-> u, queue |-> server[r].queue]
      BY <2>1, ServerTyped
    <2>4. u \in SUBSET Clients(r) /\ server[r].queue \in Seq(Clients(r))
      BY <2>2, ServerTyped
    <2>5. server'[r] \in [users : SUBSET Clients(r), queue : Seq(Clients(r))]
      BY <2>3, <2>4
    <2> QED
      BY <2>3, <2>5 DEF u
  <1>3. ServerTypes'
    BY <1>1, <1>2, ServerTyping
  <1>a. \A r \in Servers : /\ server'[r].users = IF r \in S THEN server[r].users \ {v} ELSE server[r].users
                           /\ server'[r].queue = server[r].queue
    <2> TAKE r \in Servers
    <2> DEFINE u == IF r \in S THEN server[r].users \ {v} ELSE server[r].users
    <2>1. server'[r] = [users |-> u, queue |-> server[r].queue]
      BY <1>2
    <2> HIDE DEF u
    <2>2. server'[r].users = u /\ server'[r].queue = server[r].queue
      BY <2>1, ServerRecord
    <2> QED
      BY <2>2 DEF u
  <1>4. \A r \in Servers : /\ Waiting(r)' = Waiting(r)
                           /\ r \in S => server'[r].users = server[r].users \ {v}
                           /\ r \notin S => server'[r].users = server[r].users
    BY <1>a DEF Waiting
  <1>5. ASSUME NEW r \in Servers
        PROVE  /\ IsFiniteSet(server'[r].users) /\ Cardinality(server'[r].users) <= Places[r]
               /\ IsInjective(server'[r].queue)
    <2>1. IsFiniteSet(server[r].users) /\ Cardinality(server[r].users) <= Places[r] /\ IsInjective(server[r].queue)
      BY DEF ServersKept
    <2>2. server'[r].users \subseteq server[r].users /\ server'[r].queue = server[r].queue
      BY <1>a
    <2>3. IsFiniteSet(server'[r].users) /\ Cardinality(server'[r].users) <= Cardinality(server[r].users)
      BY <2>1, <2>2, FS_Subset
    <2>4. Cardinality(server'[r].users) \in Nat /\ Cardinality(server[r].users) \in Nat
      BY <2>1, <2>3, FS_CardinalityType
    <2> QED
      BY <2>1, <2>2, <2>3, <2>4, ServerFacts
  <1> QED
    BY <1>3, <1>4, <1>5 DEF ServersKept

\* Of the server itself, and then of the others and the queues.
LEMMA ServedServer ==
    ASSUME ServerTypes, ServersKept, NEW s \in Servers, CanServe(s)
    PROVE  LET q == server[s].queue
               u == server[s].users \cup {Head(q)}
           IN  /\ Granted(s)[s] = [users |-> u, queue |-> Tail(q)]
               /\ \A r \in Servers \ {s} : Granted(s)[r] = server[r]
               /\ DOMAIN Granted(s) = Servers
               /\ Head(q) \in Waiting(s) /\ Range(Tail(q)) = Waiting(s) \ {Head(q)}
               /\ u \in SUBSET Clients(s) /\ Tail(q) \in Seq(Clients(s)) /\ IsInjective(Tail(q))
               /\ IsFiniteSet(u) /\ Cardinality(u) <= Places[s]
  <1> DEFINE q == server[s].queue
             u == server[s].users \cup {Head(q)}
  <1>1. q \in Seq(Clients(s)) /\ server[s].users \subseteq Clients(s) /\ IsInjective(q) /\ q # <<>>
    BY ServerTyped DEF ServersKept, CanServe
  <1>2. /\ Head(q) \in Clients(s) /\ Head(q) \in Range(q) /\ Tail(q) \in Seq(Clients(s))
        /\ Range(Tail(q)) = Range(q) \ {Head(q)} /\ IsInjective(Tail(q))
    BY <1>1, Unqueued
  <1>3. /\ DOMAIN Granted(s) = Servers /\ \A r \in Servers \ {s} : Granted(s)[r] = server[r]
        /\ Granted(s)[s] = [users |-> u, queue |-> Tail(q)]
    BY DEF Granted, ServerTypes
  <1>4. IsFiniteSet(u) /\ Cardinality(u) <= Places[s]
    <2>1. IsFiniteSet(server[s].users) /\ Cardinality(server[s].users) < Places[s]
      BY DEF ServersKept, CanServe
    <2>2. Cardinality(server[s].users) \in Nat
      BY <2>1, FS_CardinalityType
    <2>3. IsFiniteSet(u) /\ (Cardinality(u) = Cardinality(server[s].users) \/ Cardinality(u) = Cardinality(server[s].users) + 1)
      BY <2>1, FS_AddElement
    <2> QED
      BY <2>1, <2>2, <2>3, ServerFacts
  <1> QED
    BY <1>1, <1>2, <1>3, <1>4 DEF Waiting

LEMMA GrantedEffect ==
    ASSUME ServerTypes, ServersKept, work' = work, NEW s \in Servers, CanServe(s), server' = Granted(s)
    PROVE  LET v == Head(server[s].queue)
           IN  /\ ServerTypes' /\ ServersKept' /\ v \in Waiting(s)
               /\ \A r \in Servers \ {s} : server'[r].users = server[r].users /\ Waiting(r)' = Waiting(r)
               /\ server'[s].users = server[s].users \cup {v}
               /\ Waiting(s)' = Waiting(s) \ {v}
  <1> DEFINE q == server[s].queue
             u == server[s].users \cup {Head(q)}
  <1>1. /\ server'[s] = [users |-> u, queue |-> Tail(q)]
        /\ \A r \in Servers \ {s} : server'[r] = server[r]
        /\ DOMAIN server' = Servers
        /\ Head(q) \in Waiting(s) /\ Range(Tail(q)) = Waiting(s) \ {Head(q)}
        /\ u \in SUBSET Clients(s) /\ Tail(q) \in Seq(Clients(s)) /\ IsInjective(Tail(q))
        /\ IsFiniteSet(u) /\ Cardinality(u) <= Places[s]
    BY ServedServer
  <1> HIDE DEF q, u
  <1>2. \A r \in Servers : server'[r] \in [users : SUBSET Clients(r), queue : Seq(Clients(r))]
    <2>1. server'[s] \in [users : SUBSET Clients(s), queue : Seq(Clients(s))]
      BY <1>1, ServerRecord
    <2> QED
      BY <1>1, <2>1, ServerStill
  <1>a. server'[s].users = u /\ server'[s].queue = Tail(q)
    BY <1>1, ServerRecord
  <1>3. ServerTypes'
    BY <1>1, <1>2, ServerTyping
  <1>4. ServersKept'
    BY <1>1, <1>a DEF ServersKept
  <1>5. Waiting(s)' = Waiting(s) \ {Head(q)} /\ server'[s].users = u
    BY <1>1, <1>a DEF Waiting
  <1>6. \A r \in Servers \ {s} : server'[r].users = server[r].users /\ Waiting(r)' = Waiting(r)
    BY <1>1 DEF Waiting
  <1> QED
    BY <1>1, <1>3, <1>4, <1>5, <1>6 DEF q, u

\* One request is served and the next one is made.
ServedAndAsked(s, n, g) == [Granted(s) EXCEPT ![n].queue = Append(@, g)]

LEMMA GrantedAskedEffect ==
    ASSUME ServerTypes, ServersKept, work' = work, NEW s \in Servers, CanServe(s),
           NEW n \in Servers \ {s}, NEW g \in Clients(n), g \notin Waiting(n),
           server' = ServedAndAsked(s, n, g)
    PROVE  LET v == Head(server[s].queue)
           IN  /\ ServerTypes' /\ ServersKept' /\ v \in Waiting(s)
               /\ \A r \in Servers \ {s} : server'[r].users = server[r].users
               /\ \A r \in Servers \ {s, n} : Waiting(r)' = Waiting(r)
               /\ server'[s].users = server[s].users \cup {v}
               /\ Waiting(s)' = Waiting(s) \ {v}
               /\ Waiting(n)' = Waiting(n) \cup {g}
  <1> DEFINE q == server[s].queue
             u == server[s].users \cup {Head(q)}
             p == server[n].queue
  <1>1. /\ Granted(s)[s] = [users |-> u, queue |-> Tail(q)]
        /\ \A r \in Servers \ {s} : Granted(s)[r] = server[r]
        /\ DOMAIN Granted(s) = Servers
        /\ Head(q) \in Waiting(s) /\ Range(Tail(q)) = Waiting(s) \ {Head(q)}
        /\ u \in SUBSET Clients(s) /\ Tail(q) \in Seq(Clients(s)) /\ IsInjective(Tail(q))
        /\ IsFiniteSet(u) /\ Cardinality(u) <= Places[s]
    BY ServedServer
  <1>2. p \in Seq(Clients(n)) /\ IsInjective(p) /\ g \notin Range(p) /\ server[n] = [users |-> server[n].users, queue |-> p]
        /\ server[n].users \subseteq Clients(n)
    BY ServerTyped DEF ServersKept, Waiting
  <1>3. Append(p, g) \in Seq(Clients(n)) /\ Range(Append(p, g)) = Range(p) \cup {g} /\ IsInjective(Append(p, g))
    BY <1>2, Queued
  <1>4. /\ DOMAIN server' = Servers
        /\ server'[s] = [users |-> u, queue |-> Tail(q)]
        /\ \A r \in Servers \ {s, n} : server'[r] = server[r]
        /\ server'[n] = [users |-> server[n].users, queue |-> Append(p, g)]
    <2> DEFINE S == Granted(s)
    <2> HIDE DEF u, q, S
    <2>1. S[n] = [users |-> server[n].users, queue |-> p] /\ DOMAIN S = Servers
      BY <1>1, <1>2 DEF S
    <2> DEFINE m == [S[n] EXCEPT !.queue = Append(@, g)]
    <2>2. m = [users |-> server[n].users, queue |-> Append(p, g)]
      BY <2>1, ServerRecord
    <2>3. server' = [S EXCEPT ![n] = m]
      BY DEF S, ServedAndAsked
    <2> HIDE DEF m
    <2>4. server'[n] = m /\ DOMAIN server' = Servers /\ \A r \in Servers \ {n} : server'[r] = S[r]
      BY <2>1, <2>3
    <2> QED
      BY <1>1, <2>2, <2>4 DEF S
  <1> HIDE DEF q, u, p
  <1>a. server'[s].users = u /\ server'[s].queue = Tail(q) /\ server'[n].users = server[n].users
        /\ server'[n].queue = Append(p, g)
    BY <1>4, ServerRecord
  <1>5. \A r \in Servers : server'[r] \in [users : SUBSET Clients(r), queue : Seq(Clients(r))]
    <2>1. server'[s] \in [users : SUBSET Clients(s), queue : Seq(Clients(s))]
      BY <1>1, <1>4, ServerRecord
    <2>2. server'[n] \in [users : SUBSET Clients(n), queue : Seq(Clients(n))]
      <3> DEFINE v == server[n].users
                 b == Append(p, g)
      <3>1. server'[n] = [users |-> v, queue |-> b] /\ v \in SUBSET Clients(n) /\ b \in Seq(Clients(n))
        BY <1>2, <1>3, <1>4
      <3> HIDE DEF v, b
      <3> QED
        BY <3>1, ServerRecord
    <2>3. \A r \in Servers \ {s, n} : server'[r] \in [users : SUBSET Clients(r), queue : Seq(Clients(r))]
      BY <1>4, ServerStill
    <2> QED
      BY <2>1, <2>2, <2>3
  <1>6. ServerTypes'
    BY <1>4, <1>5, ServerTyping
  <1>7. ServersKept'
    <2>1. \A r \in Servers \ {s, n} : server'[r] = server[r]
      BY <1>4
    <2> QED
      BY <1>1, <1>3, <1>a, <2>1 DEF ServersKept
  <1>8. Waiting(s)' = Waiting(s) \ {Head(q)} /\ server'[s].users = u /\ Waiting(n)' = Waiting(n) \cup {g}
        /\ server'[n].users = server[n].users
    BY <1>1, <1>3, <1>a DEF Waiting, p
  <1>9. \A r \in Servers \ {s, n} : server'[r].users = server[r].users /\ Waiting(r)' = Waiting(r)
    BY <1>4 DEF Waiting
  <1> QED
    BY <1>1, <1>6, <1>7, <1>8, <1>9 DEF q, u

-----------------------------------------------------------------------------
(* What a step does to runs, transfers and groups.                         *)

Still == work' = work /\ DOMAIN run' = DOMAIN run /\ DOMAIN hop' = DOMAIN hop /\ DOMAIN stream' = DOMAIN stream

\* What depends on the workload alone stays.
LEMMA SameWork ==
    ASSUME Still
    PROVE  /\ \A x : /\ Resource(x)' = Resource(x) /\ Token(x)' = Token(x) /\ Delay(x)' = Delay(x)
                     /\ Streaming(x)' = Streaming(x) /\ GroupsOf(x)' = GroupsOf(x) /\ InGroup(x)' = InGroup(x)
                     /\ Inputs(x)' = Inputs(x) /\ GroupInputs(x)' = GroupInputs(x)
                     /\ GroupResources(x)' = GroupResources(x) /\ IsInternal(x)' = IsInternal(x)
           /\ Frames' = Frames /\ Hops' = Hops /\ Streams' = Streams
  <1>1. work' = work /\ DOMAIN run' = DOMAIN run /\ DOMAIN hop' = DOMAIN hop /\ DOMAIN stream' = DOMAIN stream
    BY DEF Still
  <1>2. \A x : Resource(x)' = Resource(x) /\ Token(x)' = Token(x) /\ Delay(x)' = Delay(x) /\ Streaming(x)' = Streaming(x)
    BY <1>1 DEF Resource, Token, Delay, Streaming
  <1>3. \A x : GroupsOf(x)' = GroupsOf(x)
    BY <1>1 DEF GroupsOf
  <1>4. \A x : InGroup(x)' = InGroup(x)
    BY <1>3 DEF InGroup
  <1>5. \A x : Inputs(x)' = Inputs(x)
    BY <1>1 DEF Inputs
  <1>6. \A x : GroupInputs(x)' = GroupInputs(x)
    BY <1>5 DEF GroupInputs
  <1>7. \A x : GroupResources(x)' = GroupResources(x)
    BY <1>1 DEF GroupResources
  <1>8. \A x : IsInternal(x)' = IsInternal(x)
    BY <1>1 DEF IsInternal
  <1>9. Frames' = Frames /\ Hops' = Hops /\ Streams' = Streams
    BY <1>1 DEF Frames, Hops, Streams
  <1> QED
    BY <1>2, <1>3, <1>4, <1>5, <1>6, <1>7, <1>8, <1>9

RunMoves(x) ==
    \/ run'[x].state = run[x].state /\ run'[x].start = run[x].start /\ run'[x].end = run[x].end
    \/ /\ run[x].state = "blocked" /\ ~InGroup(x) /\ Arrived(Inputs(x)) /\ now' = now
       /\ \/ run'[x].state = "queued" /\ Resource(x) # Nothing
          \/ run'[x].state = "running" /\ run'[x].start = now
    \/ /\ run[x].state = "blocked" /\ now' = now /\ \E g \in GroupsOf(x) : stream[g].state = "streaming"
       /\ run'[x].state = "running" /\ run'[x].start = now
    \/ /\ run[x].state = "queued" /\ now' = now
       /\ run'[x].state = "running" /\ run'[x].start = now
    \/ /\ run[x].state = "running" /\ now' = now
       /\ run'[x].state = "done" /\ run'[x].start = run[x].start /\ run'[x].end = now

HopMoves(h) ==
    \/ hop'[h] = hop[h]
    \/ /\ hop[h].state = "idle" /\ Dependency(h) /\ now' = now
       /\ \/ hop'[h].state = "arrived" /\ Delay(h) = 0
          \/ hop'[h].state = "moving" /\ hop'[h].until = now + Delay(h)
          \/ hop'[h].state = "queued" /\ Token(h) # Nothing
    \/ /\ hop[h].state = "moving" /\ hop[h].until = now /\ now' = now
       /\ hop'[h].state = "arrived"
    \/ /\ hop[h].state = "queued" /\ now' = now
       /\ hop'[h].state = "moving" /\ hop'[h].until = now + Delay(h)

GroupMoves(g) ==
    \/ stream'[g].state = stream[g].state
    \/ stream[g].state = "blocked" /\ GroupIsFed(g) /\ stream'[g].state \in {"reserving", "streaming"}
    \/ stream[g].state = "reserving" /\ stream'[g].state = "streaming"
    \/ stream[g].state = "streaming" /\ IsOver(g) /\ stream'[g].state = "over"

Typed == /\ run \in [Runs(work) -> RunRecord]
         /\ hop \in [Hops -> HopRecord]
         /\ stream \in [Streams -> StreamRecord]

Moves == /\ Still /\ now' \in Nat /\ now <= now'
         /\ Typed'
         /\ \A x \in DOMAIN run : RunMoves(x)
         /\ \A h \in DOMAIN hop : HopMoves(h)
         /\ \A g \in DOMAIN stream : GroupMoves(g)

\* Records with some of their fields replaced.
LEMMA RunReady ==
    ASSUME NEW r \in RunRecord, NEW n \in Nat, NEW s \in {"queued", "running"}
    PROVE  LET q == [r EXCEPT !.ready = n, !.start = n, !.state = s]
           IN  q \in RunRecord /\ q.state = s /\ q.start = n
  BY DEF RunRecord

LEMMA RunDone ==
    ASSUME NEW r \in RunRecord, NEW n \in Nat
    PROVE  LET q == [r EXCEPT !.state = "done", !.end = n]
           IN  q \in RunRecord /\ q.state = "done" /\ q.start = r.start /\ q.end = n
  BY DEF RunRecord

LEMMA RunGathered ==
    ASSUME NEW r \in RunRecord, NEW n \in Nat
    PROVE  LET q == [r EXCEPT !.ready = n]
           IN  q \in RunRecord /\ q.state = r.state /\ q.start = r.start /\ q.end = r.end
  BY DEF RunRecord

LEMMA RunStarts ==
    ASSUME NEW r \in RunRecord, NEW n \in Nat
    PROVE  LET q == [r EXCEPT !.state = "running", !.start = n]
           IN  q \in RunRecord /\ q.state = "running" /\ q.start = n
  BY DEF RunRecord

LEMMA HopUpdates ==
    ASSUME NEW r \in HopRecord, NEW n \in Nat, NEW m \in Nat
    PROVE  /\ LET q == [r EXCEPT !.state = "arrived"] IN q \in HopRecord /\ q.state = "arrived"
           /\ \A s \in {"moving", "queued"} : LET q == [state |-> s, since |-> n, until |-> m]
                                              IN  q \in HopRecord /\ q.state = s /\ q.until = m
           /\ LET q == [r EXCEPT !.state = "moving", !.until = n]
              IN  q \in HopRecord /\ q.state = "moving" /\ q.until = n
  BY DEF HopRecord

LEMMA StreamUpdates ==
    ASSUME NEW r \in StreamRecord, NEW n \in Nat
    PROVE  /\ \A s \in {"reserving", "over"} : LET q == [r EXCEPT !.state = s] IN q \in StreamRecord /\ q.state = s
           /\ LET q == [r EXCEPT !.state = "streaming", !.base = n] IN q \in StreamRecord /\ q.state = "streaming"
  BY DEF StreamRecord

\* A step that replaces one run, one transfer or one group.
LEMMA OneRun ==
    ASSUME TimelineTypes, NEW x \in DOMAIN run, NEW r \in RunRecord, run' = [run EXCEPT ![x] = r],
           UNCHANGED <<work, now, hop>>,
           RunMoves(x), stream' \in [Streams -> StreamRecord], \A g \in DOMAIN stream : GroupMoves(g)
    PROVE  Moves
  <1>1. Still
    BY DEF Still, TimelineTypes
  <1>2. run' \in [Runs(work) -> RunRecord]
    BY DEF TimelineTypes
  <1>3. Typed'
    BY <1>1, <1>2, SameWork DEF Typed, TimelineTypes
  <1>4. \A y \in DOMAIN run : RunMoves(y)
    BY DEF RunMoves
  <1>5. \A h \in DOMAIN hop : HopMoves(h)
    BY DEF HopMoves
  <1>6. now' \in Nat /\ now <= now'
    BY DEF TimelineTypes
  <1> QED
    BY <1>1, <1>3, <1>4, <1>5, <1>6 DEF Moves

LEMMA OneHop ==
    ASSUME TimelineTypes, NEW h \in DOMAIN hop, NEW r \in HopRecord, hop' = [hop EXCEPT ![h] = r],
           UNCHANGED <<work, now, run, stream>>, HopMoves(h)
    PROVE  Moves
  <1>1. Still
    BY DEF Still, TimelineTypes
  <1>2. hop' \in [Hops -> HopRecord]
    BY DEF TimelineTypes
  <1>3. Typed'
    BY <1>1, <1>2, SameWork DEF Typed, TimelineTypes
  <1>4. \A y \in DOMAIN run : RunMoves(y)
    BY DEF RunMoves
  <1>5. \A k \in DOMAIN hop : HopMoves(k)
    BY DEF HopMoves
  <1>6. \A g \in DOMAIN stream : GroupMoves(g)
    BY DEF GroupMoves
  <1>7. now' \in Nat /\ now <= now'
    BY DEF TimelineTypes
  <1> QED
    BY <1>1, <1>3, <1>4, <1>5, <1>6, <1>7 DEF Moves

LEMMA OneGroup ==
    ASSUME TimelineTypes, NEW g \in DOMAIN stream, NEW r \in StreamRecord, stream' = [stream EXCEPT ![g] = r],
           UNCHANGED <<work, now, hop>>, GroupMoves(g),
           run' \in [Runs(work) -> RunRecord], \A x \in DOMAIN run : RunMoves(x)
    PROVE  Moves
  <1>1. Still
    BY DEF Still, TimelineTypes
  <1>2. stream' \in [Streams -> StreamRecord]
    BY DEF TimelineTypes
  <1>3. Typed'
    BY <1>1, <1>2, SameWork DEF Typed, TimelineTypes
  <1>5. \A h \in DOMAIN hop : HopMoves(h)
    BY DEF HopMoves
  <1>6. \A k \in DOMAIN stream : GroupMoves(k)
    BY DEF GroupMoves
  <1>7. now' \in Nat /\ now <= now'
    BY DEF TimelineTypes
  <1> QED
    BY <1>1, <1>3, <1>5, <1>6, <1>7 DEF Moves

LEMMA NothingMoves ==
    ASSUME TimelineTypes, UNCHANGED <<work, run, hop, stream>>, now' \in Nat, now <= now'
    PROVE  Moves
  <1>1. Still
    BY DEF Still
  <1>2. Typed'
    BY <1>1, SameWork DEF Typed, TimelineTypes
  <1>3. (\A y \in DOMAIN run : RunMoves(y)) /\ (\A k \in DOMAIN hop : HopMoves(k)) /\ \A g \in DOMAIN stream : GroupMoves(g)
    BY DEF RunMoves, HopMoves, GroupMoves
  <1> QED
    BY <1>1, <1>2, <1>3 DEF Moves

-----------------------------------------------------------------------------
(* What such a step keeps.                                                 *)

\* What has started or has ended stays so, at the same time; what has arrived stays.
LEMMA MovesKeep ==
    ASSUME TimelineTypes, Moves
    PROVE  /\ \A x \in DOMAIN run : HasStarted(x) => HasStarted(x)' /\ run'[x].start = run[x].start
           /\ \A x \in DOMAIN run : run[x].state = "done" => run'[x].state = "done" /\ run'[x].end = run[x].end
           /\ \A h \in DOMAIN hop : hop[h].state = "arrived" => hop'[h].state = "arrived"
           /\ \A x \in DOMAIN run : Arrived(Inputs(x)) => Arrived(Inputs(x))'
           /\ \A g \in DOMAIN stream : GroupIsFed(g) => GroupIsFed(g)'
           /\ \A g \in DOMAIN stream : IsOver(g) => IsOver(g)'
  <1>1. /\ \A x \in DOMAIN run : HasStarted(x) => HasStarted(x)' /\ run'[x].start = run[x].start
        /\ \A x \in DOMAIN run : run[x].state = "done" => run'[x].state = "done" /\ run'[x].end = run[x].end
    BY DEF Moves, RunMoves, HasStarted
  <1>2. \A h \in DOMAIN hop : hop[h].state = "arrived" => hop'[h].state = "arrived"
    BY DEF Moves, HopMoves
  <1>3. Still
    BY DEF Moves
  <1>4. \A x \in DOMAIN run : Inputs(x) \subseteq DOMAIN hop
    BY DEF Inputs
  <1>5. \A x \in DOMAIN run : Arrived(Inputs(x)) => Arrived(Inputs(x))'
    BY <1>2, <1>3, <1>4, SameWork DEF Arrived
  <1>6. \A g \in DOMAIN stream : GroupInputs(g) \subseteq DOMAIN hop /\ Members(g) \subseteq DOMAIN run
    BY StreamFacts
  <1>7. \A g \in DOMAIN stream : GroupIsFed(g) => GroupIsFed(g)'
    BY <1>2, <1>3, <1>6, SameWork DEF GroupIsFed, Arrived
  <1>8. \A g \in DOMAIN stream : IsOver(g) => IsOver(g)'
    BY <1>1, <1>6 DEF IsOver, Members
  <1> QED
    BY <1>1, <1>2, <1>5, <1>7, <1>8

LEMMA MadeKept ==
    ASSUME TimelineTypes, Moves, NEW h \in DOMAIN hop, Dependency(h)
    PROVE  Dependency(h)' /\ MadeAt(h)' = MadeAt(h)
  <1>1. Source(h) \in DOMAIN run
    BY HopFacts
  <1>2. Streaming(h[1])' = Streaming(h[1]) /\ Source(h)' = Source(h)
    BY SameWork DEF Moves, Source
  <1>3. CASE Streaming(h[1])
    <2>1. HasStarted(Source(h))
      BY <1>3 DEF Dependency, HasStarted
    <2>2. HasStarted(Source(h))' /\ run'[Source(h)].start = run[Source(h)].start
      BY <1>1, <2>1, MovesKeep DEF HasStarted, Source
    <2> QED
      BY <1>2, <1>3, <2>2 DEF Dependency, MadeAt, HasStarted
  <1>4. CASE ~Streaming(h[1])
    <2>1. run[Source(h)].state = "done"
      BY <1>4 DEF Dependency
    <2>2. run'[Source(h)].state = "done" /\ run'[Source(h)].end = run[Source(h)].end
      BY <1>1, <2>1, MovesKeep
    <2> QED
      BY <1>2, <1>4, <2>2 DEF Dependency, MadeAt
  <1> QED
    BY <1>3, <1>4

\* What has been made was made by now.
LEMMA MadeByNow ==
    ASSUME TimelineTypes, RunsFollow, NEW h \in DOMAIN hop, Dependency(h)
    PROVE  MadeAt(h) <= now
  <1>1. Source(h) \in DOMAIN run
    BY HopFacts
  <1> QED
    BY <1>1 DEF RunsFollow, Dependency, MadeAt, HasStarted

LEMMA MadeAtNat ==
    ASSUME TimelineTypes, NEW h \in DOMAIN hop
    PROVE  MadeAt(h) \in Nat /\ Delay(h) \in Nat
  <1>1. Source(h) \in DOMAIN run /\ Delay(h) \in Nat
    BY HopFacts
  <1>2. run[Source(h)] \in RunRecord
    BY <1>1 DEF TimelineTypes
  <1> QED
    BY <1>1, <1>2 DEF MadeAt, RunRecord

LEMMA HopsFollowKept ==
    ASSUME TimelineTypes, HopsFollow, RunsFollow, Moves
    PROVE  HopsFollow'
  <1>1. Still /\ now' \in Nat /\ now <= now' /\ now \in Nat
    BY DEF Moves, TimelineTypes
  <1>2. ASSUME NEW h \in DOMAIN hop
        PROVE  /\ hop'[h].state # "idle" => Dependency(h)'
               /\ hop'[h].state = "queued" => Token(h) # Nothing
               /\ hop'[h].state = "moving" => MadeAt(h)' + Delay(h) <= hop'[h].until
               /\ hop'[h].state = "arrived" => MadeAt(h)' + Delay(h) <= now'
    <2>1. /\ hop[h].state # "idle" => Dependency(h)
          /\ hop[h].state = "queued" => Token(h) # Nothing
          /\ hop[h].state = "moving" => MadeAt(h) + Delay(h) <= hop[h].until
          /\ hop[h].state = "arrived" => MadeAt(h) + Delay(h) <= now
      BY DEF HopsFollow
    <2>2. Dependency(h) => Dependency(h)' /\ MadeAt(h)' = MadeAt(h)
      BY MadeKept
    <2>3. Dependency(h) => MadeAt(h) <= now
      BY MadeByNow
    <2>4. MadeAt(h) \in Nat /\ Delay(h) \in Nat
      BY MadeAtNat
    <2>5. HopMoves(h)
      BY DEF Moves
    <2>6. CASE hop'[h] = hop[h]
      <3>1. CASE hop[h].state = "idle"
        BY <2>6, <3>1
      <3>2. CASE hop[h].state # "idle"
        <4>1. Dependency(h)' /\ MadeAt(h)' = MadeAt(h)
          BY <2>1, <2>2, <3>2
        <4> QED
          BY <1>1, <2>1, <2>4, <2>6, <4>1
      <3> QED
        BY <3>1, <3>2
    <2>7. CASE hop'[h] # hop[h]
      <3>1. Dependency(h) /\ now' = now
        BY <2>1, <2>5, <2>7 DEF HopMoves
      <3>2. Dependency(h)' /\ MadeAt(h)' = MadeAt(h) /\ MadeAt(h) <= now
        BY <2>2, <2>3, <3>1
      <3> QED
        BY <1>1, <2>1, <2>4, <2>5, <2>7, <3>1, <3>2 DEF HopMoves
    <2> QED
      BY <2>6, <2>7
  <1>3. \A h : Token(h)' = Token(h) /\ Delay(h)' = Delay(h)
    BY <1>1, SameWork
  <1> QED
    BY <1>1, <1>2, <1>3 DEF HopsFollow, Still

LEMMA RunsFollowKept ==
    ASSUME TimelineTypes, RunsFollow, GroupsFollow, Moves
    PROVE  RunsFollow'
  <1>1. Still /\ now' \in Nat /\ now <= now' /\ now \in Nat /\ Typed'
    BY DEF Moves, TimelineTypes
  <1>2. \A x \in DOMAIN run : RunMoves(x)
    BY DEF Moves
  <1>3. \A x \in DOMAIN run : run[x].start \in Nat /\ run[x].end \in Nat
    BY DEF TimelineTypes, RunRecord
  <1>4. ASSUME NEW x \in DOMAIN run
        PROVE  /\ HasStarted(x)' => run'[x].start <= now'
               /\ run'[x].state = "done" => run'[x].end <= now'
               /\ run'[x].state = "queued" => Resource(x) # Nothing
               /\ ~InGroup(x) /\ run'[x].state # "blocked" => Arrived(Inputs(x))'
               /\ \A g \in GroupsOf(x) : /\ run'[x].state # "queued"
                                         /\ run'[x].state # "blocked" => stream'[g].state \in {"streaming", "over"}
    <2>1. /\ HasStarted(x) => run[x].start <= now
          /\ run[x].state = "done" => run[x].end <= now
          /\ run[x].state = "queued" => Resource(x) # Nothing
          /\ ~InGroup(x) /\ run[x].state # "blocked" => Arrived(Inputs(x))
          /\ \A g \in GroupsOf(x) : /\ run[x].state # "queued"
                                    /\ run[x].state # "blocked" => stream[g].state \in {"streaming", "over"}
      BY DEF RunsFollow
    <2>2. HasStarted(x)' => run'[x].start <= now'
      BY <1>1, <1>2, <1>3, <2>1 DEF RunMoves, HasStarted
    <2>3. run'[x].state = "done" => run'[x].end <= now'
      BY <1>1, <1>2, <1>3, <2>1 DEF RunMoves
    <2>4. run'[x].state = "queued" => Resource(x) # Nothing
      BY <1>2, <2>1 DEF RunMoves
    <2>5. ~InGroup(x) /\ run'[x].state # "blocked" => Arrived(Inputs(x))
      BY <1>2, <2>1 DEF RunMoves, InGroup
    <2>6. ~InGroup(x) /\ run'[x].state # "blocked" => Arrived(Inputs(x))'
      BY <2>5, MovesKeep
    <2>7. ASSUME NEW g \in GroupsOf(x)
          PROVE  /\ run'[x].state # "queued"
                 /\ run'[x].state # "blocked" => stream'[g].state \in {"streaming", "over"}
      <3>1. g \in DOMAIN stream /\ InGroup(x)
        BY DEF GroupsOf, InGroup
      <3>2. GroupsOf(x) = {g}
        BY <2>7, <3>1, StreamFacts
      <3>3. run'[x].state # "queued"
        BY <1>2, <2>1, <3>1 DEF RunMoves
      <3>4. run'[x].state # "blocked" => stream[g].state \in {"streaming", "over"}
        BY <1>2, <2>1, <3>1, <3>2 DEF RunMoves
      <3>5. stream[g].state \in {"streaming", "over"} => stream'[g].state \in {"streaming", "over"}
        BY <3>1 DEF Moves, GroupMoves
      <3> QED
        BY <3>3, <3>4, <3>5
    <2> QED
      BY <2>2, <2>3, <2>4, <2>6, <2>7
  <1>5. \A x : Resource(x)' = Resource(x) /\ InGroup(x)' = InGroup(x) /\ GroupsOf(x)' = GroupsOf(x)
    BY <1>1, SameWork
  <1> QED
    BY <1>1, <1>4, <1>5 DEF RunsFollow, Still

LEMMA GroupsFollowKept ==
    ASSUME TimelineTypes, GroupsFollow, Moves
    PROVE  GroupsFollow'
  <1>1. Still
    BY DEF Moves
  <1>2. ASSUME NEW g \in DOMAIN stream
        PROVE  /\ stream'[g].state # "blocked" => GroupIsFed(g)'
               /\ stream'[g].state = "over" => IsOver(g)'
    <2>1. /\ stream[g].state # "blocked" => GroupIsFed(g)
          /\ stream[g].state = "over" => IsOver(g)
      BY DEF GroupsFollow
    <2>2. GroupMoves(g)
      BY DEF Moves
    <2>3. stream'[g].state # "blocked" => GroupIsFed(g)
      BY <2>1, <2>2 DEF GroupMoves
    <2>4. stream'[g].state = "over" => IsOver(g)
      BY <2>1, <2>2 DEF GroupMoves
    <2> QED
      BY <2>3, <2>4, MovesKeep
  <1> QED
    BY <1>1, <1>2 DEF GroupsFollow, Still

\* A transfer into a group from outside is one of its inputs.
LEMMA OutsideInputs ==
    ASSUME TimelineTypes, NEW h \in DOMAIN hop, ~IsInternal(h), NEW g \in GroupsOf(Target(h))
    PROVE  h \in GroupInputs(g)
  <1>1. h \in Inputs(Target(h)) /\ Target(h) \in DOMAIN run /\ Source(h) \in DOMAIN run
    BY HopFacts
  <1>2. g \in DOMAIN stream
    BY DEF GroupsOf
  <1>3. Target(h) \in Members(g)
    BY <1>1, <1>2, StreamFacts
  <1>4. Source(h) \notin Members(g)
    BY <1>2, <1>3 DEF IsInternal
  <1>5. Target(h) = <<h[1][2], h[2]>> /\ h[2] = g[2]
    BY <1>3 DEF Target, Members
  <1>6. h[1][1] \notin g[1]
    BY <1>4, <1>5 DEF Source, Members
  <1> QED
    BY <1>1, <1>3, <1>6 DEF GroupInputs

LEMMA StartsFollowKept ==
    ASSUME TimelineTypes, HopsFollow, RunsFollow, GroupsFollow, StartsFollow, Moves
    PROVE  StartsFollow'
  <1>1. Still
    BY DEF Moves
  <1>2. ASSUME NEW h \in DOMAIN hop, ~IsInternal(h), HasStarted(Target(h))'
        PROVE  hop'[h].state = "arrived" /\ MadeAt(h)' + Delay(h) <= run'[Target(h)].start
    <2> DEFINE x == Target(h)
    <2>1. x \in DOMAIN run /\ h \in Inputs(x)
      BY HopFacts
    <2>2. hop[h].state = "arrived" => /\ hop'[h].state = "arrived" /\ MadeAt(h)' = MadeAt(h)
                                      /\ MadeAt(h) + Delay(h) <= now
      BY MovesKeep, MadeKept DEF HopsFollow
    <2>3. CASE HasStarted(x)
      <3>1. hop[h].state = "arrived" /\ MadeAt(h) + Delay(h) <= run[x].start
        BY <1>2, <2>3 DEF StartsFollow
      <3>2. run'[x].start = run[x].start
        BY <2>1, <2>3, MovesKeep
      <3> QED
        BY <2>2, <3>1, <3>2
    <2>4. CASE ~HasStarted(x)
      <3>1. run'[x].state \in {"running", "done"}
        BY <1>2 DEF HasStarted, Target
      <3>2. RunMoves(x)
        BY <2>1 DEF Moves
      <3>3. run'[x].start = now
        BY <2>4, <3>1, <3>2 DEF RunMoves, HasStarted
      <3>4. CASE InGroup(x)
        <4>1. PICK g \in GroupsOf(x) : TRUE
          BY <3>4 DEF InGroup
        <4>2. g \in DOMAIN stream /\ GroupsOf(x) = {g}
          <5>1. g \in DOMAIN stream
            BY DEF GroupsOf
          <5> QED
            BY <2>1, <4>1, <5>1, StreamFacts
        <4>a. run[x].state # "queued"
          BY <2>1, <4>1 DEF RunsFollow
        <4>b. \E k \in GroupsOf(x) : stream[k].state = "streaming"
          BY <2>4, <3>1, <3>2, <3>4, <4>a DEF RunMoves, HasStarted
        <4>3. stream[g].state = "streaming"
          BY <4>2, <4>b
        <4>4. GroupIsFed(g)
          BY <4>2, <4>3 DEF GroupsFollow
        <4>5. h \in GroupInputs(g)
          BY <1>2, <4>1, OutsideInputs
        <4>6. hop[h].state = "arrived"
          BY <4>4, <4>5 DEF GroupIsFed, Arrived
        <4> QED
          BY <2>2, <3>3, <4>6
      <3>5. CASE ~InGroup(x)
        <4>1. Arrived(Inputs(x))
          BY <2>1, <2>4, <3>1, <3>2, <3>5 DEF RunMoves, HasStarted, RunsFollow, InGroup
        <4>2. hop[h].state = "arrived"
          BY <2>1, <4>1 DEF Arrived
        <4> QED
          BY <2>2, <3>3, <4>2
      <3> QED
        BY <3>4, <3>5
    <2> QED
      BY <2>3, <2>4
  <1>3. \A h : Delay(h)' = Delay(h) /\ IsInternal(h)' = IsInternal(h) /\ Target(h)' = Target(h)
    BY <1>1, SameWork DEF Target
  <1>4. ASSUME NEW h \in DOMAIN hop', ~IsInternal(h)', HasStarted(Target(h))'
        PROVE  hop'[h].state = "arrived" /\ (MadeAt(h) + Delay(h) <= run[Target(h)].start)'
    <2>1. h \in DOMAIN hop /\ ~IsInternal(h)
      BY <1>1, <1>3, <1>4 DEF Still
    <2> QED
      BY <1>2, <1>3, <1>4, <2>1
  <1> QED
    BY <1>4 DEF StartsFollow

-----------------------------------------------------------------------------
(* What keeps the servers in step with those who wait for and use them.    *)

LEMMA WaitingSame ==
    ASSUME server' = server
    PROVE  \A s : Waiting(s)' = Waiting(s) /\ server'[s].users = server[s].users
  BY DEF Waiting

LEMMA ServersStill ==
    ASSUME TimelineTypes, ServersKept, Still, server' = server
    PROVE  ServerTypes' /\ ServersKept'
  BY SameWork DEF TimelineTypes, ServerTypes, ServersKept, Still

LEMMA RunsServedStill ==
    ASSUME TimelineTypes, RunsServed, Still,
           \A s \in Resources, x \in DOMAIN run :
               /\ x \in Waiting(s)' <=> x \in Waiting(s)
               /\ x \in server'[s].users <=> x \in server[s].users,
           \A x \in DOMAIN run : \/ run'[x].state = run[x].state
                                 \/ InGroup(x) /\ run[x].state # "queued" /\ run'[x].state # "queued"
    PROVE  RunsServed'
  <1>1. \A x : Resource(x)' = Resource(x) /\ InGroup(x)' = InGroup(x)
    BY SameWork
  <1>2. DOMAIN run' = DOMAIN run
    BY DEF Still
  <1>3. ASSUME NEW s \in Resources, NEW x \in DOMAIN run
        PROVE  /\ x \in Waiting(s)' <=> run'[x].state = "queued" /\ Resource(x) = s
               /\ x \in server'[s].users <=> run'[x].state = "running" /\ ~InGroup(x) /\ Resource(x) = s
    BY DEF RunsServed
  <1> QED
    BY <1>1, <1>2, <1>3 DEF RunsServed

GroupsStay ==
    /\ \A s \in Resources, g \in DOMAIN stream : /\ g \in Waiting(s)' <=> g \in Waiting(s)
                                                 /\ g \in server'[s].users <=> g \in server[s].users
    /\ \A g \in DOMAIN stream : stream'[g].state = stream[g].state

LEMMA GroupsServedStill ==
    ASSUME TimelineTypes, GroupsServed, InOrder, Still, GroupsStay
    PROVE  GroupsServed' /\ InOrder'
  <1>1. \A g : GroupResources(g)' = GroupResources(g)
    BY SameWork
  <1>2. DOMAIN stream' = DOMAIN stream
    BY DEF Still
  <1>a. \A s \in Resources, g \in DOMAIN stream : /\ g \in Waiting(s)' <=> g \in Waiting(s)
                                                  /\ g \in server'[s].users <=> g \in server[s].users
    BY DEF GroupsStay
  <1>b. \A g \in DOMAIN stream : stream'[g].state = stream[g].state
    BY DEF GroupsStay
  <1>3. \A g \in DOMAIN stream : Held(g)' = Held(g)
    <2> TAKE g \in DOMAIN stream
    <2>1. \A r \in Resources : g \in server'[r].users <=> g \in server[r].users
      BY <1>a
    <2> QED
      BY <2>1 DEF Held
  <1>4. \A g \in DOMAIN stream : NextResource(g, Held(g))' = NextResource(g, Held(g)) /\ Rest(g)' = Rest(g)
    BY <1>1, <1>3 DEF NextResource, Rest
  <1>5. GroupsServed'
    <2>1. ASSUME NEW s \in Resources, NEW g \in DOMAIN stream
          PROVE  /\ g \in Waiting(s)' <=> stream'[g].state = "reserving" /\ s = NextResource(g, Held(g))'
                 /\ g \in server'[s].users => stream'[g].state \in {"reserving", "streaming"} /\ s \in GroupResources(g)'
                 /\ s \in GroupResources(g)' /\ stream'[g].state = "streaming" => g \in server'[s].users
      <3>1. /\ g \in Waiting(s)' <=> g \in Waiting(s)
            /\ g \in server'[s].users <=> g \in server[s].users
            /\ stream'[g].state = stream[g].state
        BY <1>a, <1>b
      <3>2. /\ g \in Waiting(s) <=> stream[g].state = "reserving" /\ s = NextResource(g, Held(g))
            /\ g \in server[s].users => stream[g].state \in {"reserving", "streaming"} /\ s \in GroupResources(g)
            /\ s \in GroupResources(g) /\ stream[g].state = "streaming" => g \in server[s].users
        BY DEF GroupsServed
      <3> QED
        BY <1>1, <1>4, <3>1, <3>2
    <2> QED
      BY <1>2, <2>1 DEF GroupsServed
  <1>6. InOrder'
    BY <1>2, <1>3, <1>4, <1>b DEF InOrder
  <1> QED
    BY <1>5, <1>6

LEMMA HopsServedStill ==
    ASSUME TimelineTypes, HopsServed, Still,
           \A s \in Tokens : Waiting(s)' = Waiting(s) /\ server'[s].users = server[s].users,
           \A h \in DOMAIN hop : hop'[h].state = hop[h].state
    PROVE  HopsServed'
  <1>1. \A h : Token(h)' = Token(h)
    BY SameWork
  <1> QED
    BY <1>1 DEF HopsServed, Still

\* The rest of the invariant follows from what moved.
LEMMA Together ==
    ASSUME TimelineInv, Moves, ServerTypes', ServersKept', RunsServed', GroupsServed', InOrder', HopsServed'
    PROVE  TimelineInv'
  <1>1. TimelineTypes'
    BY DEF TimelineInv, TimelineTypes, Moves, Still, Typed
  <1>2. HopsFollow' /\ RunsFollow' /\ GroupsFollow' /\ StartsFollow'
    BY HopsFollowKept, RunsFollowKept, GroupsFollowKept, StartsFollowKept DEF TimelineInv
  <1> QED
    BY <1>1, <1>2 DEF TimelineInv

\* A run, or a group, may wait for a resource and a transfer for a token.
LEMMA MayWait ==
    ASSUME TimelineTypes
    PROVE  /\ \A s \in Resources, x \in DOMAIN run : s \in Servers /\ x \in Clients(s)
           /\ \A s \in Resources, g \in DOMAIN stream : g \in Clients(s)
           /\ \A s \in Tokens : s \in Servers /\ s \notin Resources /\ Clients(s) = DOMAIN hop
           /\ \A s \in Resources : s \notin Tokens
  BY ServerFacts DEF Clients, TimelineTypes

-----------------------------------------------------------------------------
(* Transfers.                                                              *)

LEMMA OnlyHops ==
    ASSUME TimelineInv, Moves, UNCHANGED <<run, stream>>,
           \A s \in Resources : Waiting(s)' = Waiting(s) /\ server'[s].users = server[s].users
    PROVE  RunsServed' /\ GroupsServed' /\ InOrder'
  <1>1. Still
    BY DEF Moves
  <1>2. RunsServed'
    BY <1>1, RunsServedStill DEF TimelineInv
  <1>3. GroupsStay
    BY DEF GroupsStay
  <1> QED
    BY <1>1, <1>2, <1>3, GroupsServedStill DEF TimelineInv

LEMMA DepartStep ==
    ASSUME TimelineInv, NEW h \in DOMAIN hop, Depart(h)
    PROVE  TimelineInv'
  <1>1. TimelineTypes /\ ServersKept /\ ServerTypes /\ HopsServed
    BY DEF TimelineInv, TimelineTypes
  <1>2. /\ hop[h].state = "idle" /\ Dependency(h)
        /\ UNCHANGED <<work, now, run, stream>>
    BY DEF Depart, CanDepart
  <1>3. h \in DOMAIN hop /\ hop[h] \in HopRecord /\ now \in Nat /\ Delay(h) \in Nat /\ Token(h) \in Tokens \cup {Nothing}
    BY <1>1, HopFacts DEF TimelineTypes
  <1>4. \A s \in Tokens : h \notin Waiting(s) /\ h \notin server[s].users
    BY <1>1, <1>2 DEF HopsServed
  <1>5. Nothing \notin Tokens
    BY ServerFacts
  <1>6. ASSUME NEW r \in HopRecord, hop' = [hop EXCEPT ![h] = r], HopMoves(h), server' = server,
               r.state = "arrived" \/ (r.state = "moving" /\ Token(h) = Nothing)
        PROVE  TimelineInv'
    <2>1. Moves
      BY <1>1, <1>2, <1>6, OneHop
    <2>2. Still
      BY <2>1 DEF Moves
    <2>3. ServerTypes' /\ ServersKept'
      BY <1>1, <1>6, <2>2, ServersStill
    <2>4. \A s : Waiting(s)' = Waiting(s) /\ server'[s].users = server[s].users
      BY <1>6, WaitingSame
    <2>5. RunsServed' /\ GroupsServed' /\ InOrder'
      BY <1>2, <2>1, <2>4, OnlyHops
    <2>6. ASSUME NEW s \in Tokens, NEW k \in DOMAIN hop
          PROVE  /\ k \in Waiting(s)' <=> hop'[k].state = "queued" /\ Token(k) = s
                 /\ k \in server'[s].users <=> hop'[k].state = "moving" /\ Token(k) = s
      <3>1. CASE k = h
        BY <1>3, <1>4, <1>5, <1>6, <2>4, <3>1
      <3>2. CASE k # h
        BY <1>1, <1>6, <2>4, <3>2 DEF HopsServed
      <3> QED
        BY <3>1, <3>2
    <2>7. HopsServed'
      BY <2>2, <2>6, SameWork DEF HopsServed, Still
    <2> QED
      BY <2>1, <2>3, <2>5, <2>7, Together
  <1>7. CASE Delay(h) = 0 /\ hop' = [hop EXCEPT ![h].state = "arrived"] /\ server' = server
    <2> DEFINE r == [hop[h] EXCEPT !.state = "arrived"]
    <2>1. r \in HopRecord /\ r.state = "arrived" /\ hop' = [hop EXCEPT ![h] = r]
      BY <1>3, <1>7, HopUpdates
    <2>2. hop'[h] = r
      BY <1>3, <2>1
    <2> HIDE DEF r
    <2>3. HopMoves(h)
      BY <1>2, <1>7, <2>1, <2>2 DEF HopMoves
    <2> QED
      BY <1>6, <1>7, <2>1, <2>3
  <1>8. CASE Token(h) = Nothing /\ server' = server
             /\ hop' = [hop EXCEPT ![h] = [state |-> "moving", since |-> now, until |-> now + Delay(h)]]
    <2> DEFINE r == [state |-> "moving", since |-> now, until |-> now + Delay(h)]
    <2>a. now + Delay(h) \in Nat
      BY <1>3
    <2>b. hop' = [hop EXCEPT ![h] = r]
      BY <1>8
    <2>1. r \in HopRecord /\ r.state = "moving" /\ r.until = now + Delay(h) /\ hop' = [hop EXCEPT ![h] = r]
      BY <1>3, <2>a, <2>b, HopUpdates
    <2>2. hop'[h] = r
      BY <1>3, <2>1
    <2> HIDE DEF r
    <2>3. HopMoves(h)
      BY <1>2, <2>1, <2>2 DEF HopMoves
    <2> QED
      BY <1>6, <1>8, <2>1, <2>3
  <1>9. CASE Token(h) # Nothing /\ server' = Asked(Token(h), h)
             /\ hop' = [hop EXCEPT ![h] = [state |-> "queued", since |-> now, until |-> now]]
    <2> DEFINE r == [state |-> "queued", since |-> now, until |-> now]
    <2>0. PICK t : t = Token(h)
      OBVIOUS
    <2>1. r \in HopRecord /\ r.state = "queued" /\ hop' = [hop EXCEPT ![h] = r]
      BY <1>3, <1>9, HopUpdates
    <2>2. hop'[h] = r
      BY <1>3, <2>1
    <2> HIDE DEF r
    <2>3. HopMoves(h)
      BY <1>2, <1>9, <2>1, <2>2 DEF HopMoves
    <2>4. Moves
      BY <1>1, <1>2, <2>1, <2>3, OneHop
    <2>5. t \in Tokens /\ t \in Servers /\ t \notin Resources /\ h \in Clients(t)
      BY <1>1, <1>3, <1>9, <2>0, MayWait
    <2>a. server' = Asked(t, h) /\ h \notin Waiting(t) /\ work' = work
      BY <1>2, <1>4, <1>9, <2>0, <2>5
    <2>6. /\ ServerTypes' /\ ServersKept'
          /\ \A q \in Servers : server'[q].users = server[q].users
          /\ \A q \in Servers \ {t} : Waiting(q)' = Waiting(q)
          /\ Waiting(t)' = Waiting(t) \cup {h}
      BY <1>1, <2>5, <2>a, AskedEffect
    <2>7. RunsServed' /\ GroupsServed' /\ InOrder'
      BY <1>2, <2>4, <2>5, <2>6, OnlyHops, ServerFacts
    <2>8. ASSUME NEW s \in Tokens, NEW k \in DOMAIN hop
          PROVE  /\ k \in Waiting(s)' <=> hop'[k].state = "queued" /\ Token(k) = s
                 /\ k \in server'[s].users <=> hop'[k].state = "moving" /\ Token(k) = s
      <3>1. s \in Servers
        BY ServerFacts
      <3>2. CASE k = h
        <4>1. hop'[k].state = "queued" /\ k \notin Waiting(s) /\ k \notin server[s].users
          BY <1>4, <2>1, <2>2, <3>2
        <4>2. server'[s].users = server[s].users
          BY <2>6, <3>1
        <4>3. k \in Waiting(s)' <=> Token(k) = s
          BY <2>0, <2>6, <3>1, <3>2, <4>1
        <4> QED
          BY <4>1, <4>2, <4>3
      <3>3. CASE k # h
        <4>1. k \in Waiting(s)' <=> k \in Waiting(s)
          BY <2>6, <3>1, <3>3
        <4>2. hop'[k] = hop[k] /\ server'[s].users = server[s].users
          BY <2>1, <2>6, <3>1, <3>3
        <4> QED
          BY <1>1, <4>1, <4>2 DEF HopsServed
      <3> QED
        BY <3>2, <3>3
    <2>9. HopsServed'
      BY <2>4, <2>8, SameWork DEF HopsServed, Still, Moves
    <2> QED
      BY <2>4, <2>6, <2>7, <2>9, Together
  <1> QED
    BY <1>7, <1>8, <1>9 DEF Depart, Delay, Token

LEMMA ArriveStep ==
    ASSUME TimelineInv, NEW h \in DOMAIN hop, Arrive(h)
    PROVE  TimelineInv'
  <1>1. TimelineTypes /\ ServersKept /\ ServerTypes /\ HopsServed
    BY DEF TimelineInv, TimelineTypes
  <1>2. /\ hop[h].state = "moving" /\ hop[h].until = now
        /\ UNCHANGED <<work, now, run, stream>> /\ server' = Freed({Token(h)}, h)
    BY DEF Arrive, CanArrive, Token
  <1>3. hop[h] \in HopRecord /\ now \in Nat
    BY <1>1 DEF TimelineTypes
  <1> DEFINE r == [hop[h] EXCEPT !.state = "arrived"]
  <1>4. r \in HopRecord /\ r.state = "arrived" /\ hop' = [hop EXCEPT ![h] = r]
    BY <1>3, HopUpdates DEF Arrive
  <1>5. hop'[h] = r
    BY <1>4
  <1> HIDE DEF r
  <1>6. HopMoves(h)
    BY <1>2, <1>4, <1>5 DEF HopMoves
  <1>7. Moves
    BY <1>1, <1>2, <1>4, <1>6, OneHop
  <1>8. /\ ServerTypes' /\ ServersKept'
        /\ \A s \in Servers : /\ Waiting(s)' = Waiting(s)
                              /\ s = Token(h) => server'[s].users = server[s].users \ {h}
                              /\ s # Token(h) => server'[s].users = server[s].users
    <2>1. PICK S : S = {Token(h)}
      OBVIOUS
    <2>2. server' = Freed(S, h) /\ work' = work
      BY <1>2, <2>1
    <2>3. /\ ServerTypes' /\ ServersKept'
          /\ \A s \in Servers : /\ Waiting(s)' = Waiting(s)
                                /\ s \in S => server'[s].users = server[s].users \ {h}
                                /\ s \notin S => server'[s].users = server[s].users
      BY <1>1, <2>2, FreedEffect
    <2> QED
      BY <2>1, <2>3
  <1>9. \A s \in Resources : s \in Servers /\ s # Token(h)
    BY <1>1, HopFacts, ServerFacts
  <1>10. RunsServed' /\ GroupsServed' /\ InOrder'
    BY <1>2, <1>7, <1>8, <1>9, OnlyHops
  <1>11. ASSUME NEW s \in Tokens, NEW k \in DOMAIN hop
         PROVE  /\ k \in Waiting(s)' <=> hop'[k].state = "queued" /\ Token(k) = s
                /\ k \in server'[s].users <=> hop'[k].state = "moving" /\ Token(k) = s
    <2>1. s \in Servers
      BY ServerFacts
    <2>2. CASE k = h
      BY <1>1, <1>2, <1>4, <1>5, <1>8, <2>1, <2>2 DEF HopsServed
    <2>3. CASE k # h
      BY <1>1, <1>4, <1>8, <2>1, <2>3 DEF HopsServed
    <2> QED
      BY <2>2, <2>3
  <1>12. HopsServed'
    BY <1>7, <1>11, SameWork DEF HopsServed, Still, Moves
  <1> QED
    BY <1>7, <1>8, <1>10, <1>12, Together

LEMMA ServeHopStep ==
    ASSUME TimelineInv, NEW s \in Tokens, ServeHop(s)
    PROVE  TimelineInv'
  <1> DEFINE h == Head(server[s].queue)
  <1>1. TimelineTypes /\ ServersKept /\ ServerTypes /\ HopsServed
    BY DEF TimelineInv, TimelineTypes
  <1>2. /\ CanServe(s) /\ server' = Granted(s)
        /\ UNCHANGED <<work, now, run, stream>>
        /\ hop' = [hop EXCEPT ![h] = [@ EXCEPT !.state = "moving", !.until = now + Delay(h)]]
    BY DEF ServeHop, Delay
  <1>3. s \in Servers /\ s \notin Resources /\ Clients(s) = DOMAIN hop
    BY <1>1, MayWait
  <1>4. /\ ServerTypes' /\ ServersKept' /\ h \in Waiting(s)
        /\ \A r \in Servers \ {s} : server'[r].users = server[r].users /\ Waiting(r)' = Waiting(r)
        /\ server'[s].users = server[s].users \cup {h}
        /\ Waiting(s)' = Waiting(s) \ {h}
    BY <1>1, <1>2, <1>3, GrantedEffect
  <1>5. h \in DOMAIN hop
    <2>1. server[s].queue \in Seq(DOMAIN hop) /\ server[s].queue # <<>>
      BY <1>1, <1>2, <1>3, ServerTyped DEF CanServe
    <2> QED
      BY <2>1
  <1>6. hop[h].state = "queued" /\ Token(h) = s
    BY <1>1, <1>4, <1>5 DEF HopsServed
  <1> HIDE DEF h
  <1>7. hop[h] \in HopRecord /\ now \in Nat /\ Delay(h) \in Nat
    BY <1>1, <1>5, HopFacts DEF TimelineTypes
  <1> DEFINE r == [hop[h] EXCEPT !.state = "moving", !.until = now + Delay(h)]
  <1>8. r \in HopRecord /\ r.state = "moving" /\ r.until = now + Delay(h) /\ hop' = [hop EXCEPT ![h] = r]
    <2>1. now + Delay(h) \in Nat
      BY <1>7
    <2>2. hop' = [hop EXCEPT ![h] = r]
      BY <1>2
    <2>3. \A n \in Nat : LET q == [hop[h] EXCEPT !.state = "moving", !.until = n]
                         IN  q \in HopRecord /\ q.state = "moving" /\ q.until = n
      BY <1>7 DEF HopRecord
    <2> QED
      BY <2>1, <2>2, <2>3
  <1>9. hop'[h] = r
    BY <1>5, <1>8
  <1> HIDE DEF r
  <1>10. HopMoves(h)
    BY <1>2, <1>6, <1>8, <1>9 DEF HopMoves
  <1>11. Moves
    BY <1>1, <1>2, <1>5, <1>8, <1>10, OneHop
  <1>12. RunsServed' /\ GroupsServed' /\ InOrder'
    BY <1>2, <1>3, <1>4, <1>11, OnlyHops, ServerFacts
  <1>13. ASSUME NEW t \in Tokens, NEW k \in DOMAIN hop
         PROVE  /\ k \in Waiting(t)' <=> hop'[k].state = "queued" /\ Token(k) = t
                /\ k \in server'[t].users <=> hop'[k].state = "moving" /\ Token(k) = t
    <2>1. t \in Servers
      BY ServerFacts
    <2>2. CASE k = h
      BY <1>1, <1>4, <1>6, <1>8, <1>9, <2>1, <2>2 DEF HopsServed
    <2>3. CASE k # h
      BY <1>1, <1>4, <1>8, <2>1, <2>3 DEF HopsServed
    <2> QED
      BY <2>2, <2>3
  <1>14. HopsServed'
    BY <1>11, <1>13, SameWork DEF HopsServed, Still, Moves
  <1> QED
    BY <1>4, <1>11, <1>12, <1>14, Together

-----------------------------------------------------------------------------
(* Single tasks.                                                           *)

LEMMA HopsStill ==
    ASSUME TimelineInv, Moves, hop' = hop,
           \A s \in Tokens : Waiting(s)' = Waiting(s) /\ server'[s].users = server[s].users
    PROVE  HopsServed'
  BY HopsServedStill DEF TimelineInv, Moves

\* A run that is no member of a group; the groups stay where they are.
LEMMA GroupsStill ==
    ASSUME TimelineInv, Moves, stream' = stream, NEW x \in DOMAIN run,
           \A s \in Resources : /\ Waiting(s)' \cup {x} = Waiting(s) \cup {x}
                                /\ server'[s].users \cup {x} = server[s].users \cup {x}
    PROVE  GroupsServed' /\ InOrder'
  <1>1. TimelineTypes /\ Still
    BY DEF TimelineInv, Moves
  <1>2. \A g \in DOMAIN stream : g # x
    BY <1>1, StreamFacts
  <1>3. \A s \in Resources, g \in DOMAIN stream : /\ g \in Waiting(s)' <=> g \in Waiting(s)
                                                  /\ g \in server'[s].users <=> g \in server[s].users
    BY <1>2
  <1>4. \A g \in DOMAIN stream : stream'[g].state = stream[g].state
    OBVIOUS
  <1>5. GroupsStay
    BY <1>3, <1>4 DEF GroupsStay
  <1> QED
    BY <1>1, <1>5, GroupsServedStill DEF TimelineInv

LEMMA BeReadyStep ==
    ASSUME TimelineInv, NEW x \in DOMAIN run, BeReady(x)
    PROVE  TimelineInv'
  <1>1. TimelineTypes /\ ServersKept /\ ServerTypes /\ RunsServed
    BY DEF TimelineInv, TimelineTypes
  <1>2. /\ run[x].state = "blocked" /\ ~InGroup(x) /\ Arrived(Inputs(x))
        /\ UNCHANGED <<work, now, hop, stream, chain>>
    BY DEF BeReady, CanBeReady
  <1>3. run[x] \in RunRecord /\ now \in Nat /\ Resource(x) \in Resources \cup {Nothing} /\ Nothing \notin Resources
    BY <1>1, RunFacts, ServerFacts DEF TimelineTypes
  <1> DEFINE state == IF Resource(x) = Nothing THEN "running" ELSE "queued"
             r == [run[x] EXCEPT !.ready = now, !.start = now, !.state = state]
  <1>4. state \in {"queued", "running"}
    OBVIOUS
  <1> HIDE DEF state
  <1>5. r \in RunRecord /\ r.state = state /\ r.start = now
    BY <1>3, <1>4 DEF RunRecord
  <1>6. run' = [run EXCEPT ![x] = r] /\ run'[x] = r
    BY DEF BeReady, Resource, state
  <1> HIDE DEF r
  <1>7. RunMoves(x)
    BY <1>2, <1>5, <1>6 DEF RunMoves, state
  <1>8. Moves
    <2>1. stream' \in [Streams -> StreamRecord] /\ \A g \in DOMAIN stream : GroupMoves(g)
      BY <1>1, <1>2 DEF TimelineTypes, GroupMoves
    <2> QED
      BY <1>1, <1>2, <1>5, <1>6, <1>7, <2>1, OneRun
  <1>9. \A s \in Resources : x \notin Waiting(s) /\ x \notin server[s].users
    BY <1>1, <1>2 DEF RunsServed
  <1>10. /\ ServerTypes' /\ ServersKept'
         /\ \A s \in Servers : server'[s].users = server[s].users
         /\ \A s \in Servers : Waiting(s)' = IF s = Resource(x) THEN Waiting(s) \cup {x} ELSE Waiting(s)
    <2>1. CASE Resource(x) = Nothing
      <3>1. server' = server /\ Still
        BY <1>8, <2>1 DEF BeReady, Resource, Moves
      <3>2. \A s \in Servers : s # Resource(x)
        BY <2>1, ServerFacts
      <3> QED
        BY <1>1, <3>1, <3>2, ServersStill, WaitingSame
    <2>2. CASE Resource(x) # Nothing
      <3>1. PICK q : q = Resource(x)
        OBVIOUS
      <3>2. server' = Asked(q, x) /\ q \in Resources
        BY <1>3, <2>2, <3>1 DEF BeReady, Resource
      <3>3. q \in Servers /\ x \in Clients(q) /\ x \notin Waiting(q) /\ work' = work
        BY <1>1, <1>2, <1>9, <3>2, MayWait
      <3>4. /\ ServerTypes' /\ ServersKept'
            /\ \A s \in Servers : server'[s].users = server[s].users
            /\ \A s \in Servers \ {q} : Waiting(s)' = Waiting(s)
            /\ Waiting(q)' = Waiting(q) \cup {x}
        BY <1>1, <3>2, <3>3, AskedEffect
      <3> QED
        BY <3>1, <3>4
    <2> QED
      BY <2>1, <2>2
  <1>11. \A s \in Resources : s \in Servers
    BY ServerFacts
  <1>12. RunsServed'
    <2>1. ASSUME NEW s \in Resources, NEW y \in DOMAIN run
          PROVE  /\ y \in Waiting(s)' <=> run'[y].state = "queued" /\ Resource(y) = s
                 /\ y \in server'[s].users <=> run'[y].state = "running" /\ ~InGroup(y) /\ Resource(y) = s
      <3>1. CASE y = x
        <4>1. run'[y].state = state /\ y \notin Waiting(s) /\ y \notin server[s].users
          BY <1>5, <1>6, <1>9, <3>1
        <4>2. server'[s].users = server[s].users /\ (y \in Waiting(s)' <=> s = Resource(y))
          BY <1>10, <1>11, <3>1, <4>1
        <4> QED
          BY <1>3, <3>1, <4>1, <4>2 DEF state
      <3>2. CASE y # x
        <4>1. run'[y] = run[y] /\ server'[s].users = server[s].users /\ (y \in Waiting(s)' <=> y \in Waiting(s))
          BY <1>6, <1>10, <1>11, <3>2
        <4> QED
          BY <1>1, <4>1 DEF RunsServed
      <3> QED
        BY <3>1, <3>2
    <2> QED
      BY <1>8, <2>1, SameWork DEF RunsServed, Still, Moves
  <1>13. GroupsServed' /\ InOrder'
    BY <1>2, <1>8, <1>10, <1>11, GroupsStill
  <1>14. HopsServed'
    <2>1. \A s \in Tokens : s \in Servers /\ s # Resource(x)
      BY <1>3, ServerFacts
    <2> QED
      BY <1>2, <1>8, <1>10, <2>1, HopsStill
  <1> QED
    BY <1>8, <1>10, <1>12, <1>13, <1>14, Together

LEMMA FinishRunStep ==
    ASSUME TimelineInv, NEW x \in DOMAIN run, FinishRun(x)
    PROVE  TimelineInv'
  <1>1. TimelineTypes /\ ServersKept /\ ServerTypes /\ RunsServed
    BY DEF TimelineInv, TimelineTypes
  <1>2. /\ run[x].state = "running" /\ ~InGroup(x)
        /\ UNCHANGED <<work, now, hop, stream, chain>>
    BY DEF FinishRun, CanFinish
  <1>3. run[x] \in RunRecord /\ now \in Nat /\ Resource(x) \in Resources \cup {Nothing} /\ Nothing \notin Resources
    BY <1>1, RunFacts, ServerFacts DEF TimelineTypes
  <1> DEFINE r == [run[x] EXCEPT !.state = "done", !.end = now]
  <1>5. r \in RunRecord /\ r.state = "done" /\ r.start = run[x].start /\ r.end = now
    BY <1>3, RunDone
  <1>6. run' = [run EXCEPT ![x] = r] /\ run'[x] = r
    BY DEF FinishRun
  <1> HIDE DEF r
  <1>7. RunMoves(x)
    BY <1>2, <1>5, <1>6 DEF RunMoves
  <1>8. Moves
    <2>1. stream' \in [Streams -> StreamRecord] /\ \A g \in DOMAIN stream : GroupMoves(g)
      BY <1>1, <1>2 DEF TimelineTypes, GroupMoves
    <2> QED
      BY <1>1, <1>2, <1>5, <1>6, <1>7, <2>1, OneRun
  <1>10. /\ ServerTypes' /\ ServersKept'
         /\ \A s \in Servers : /\ Waiting(s)' = Waiting(s)
                               /\ s = Resource(x) => server'[s].users = server[s].users \ {x}
                               /\ s # Resource(x) => server'[s].users = server[s].users
    <2>1. PICK S : S = {Resource(x)}
      OBVIOUS
    <2>2. server' = Freed(S, x) /\ work' = work
      BY <1>2, <2>1 DEF FinishRun, Resource
    <2>3. /\ ServerTypes' /\ ServersKept'
          /\ \A s \in Servers : /\ Waiting(s)' = Waiting(s)
                                /\ s \in S => server'[s].users = server[s].users \ {x}
                                /\ s \notin S => server'[s].users = server[s].users
      BY <1>1, <2>2, FreedEffect
    <2> QED
      BY <2>1, <2>3
  <1>11. \A s \in Resources : s \in Servers
    BY ServerFacts
  <1>12. RunsServed'
    <2>1. ASSUME NEW s \in Resources, NEW y \in DOMAIN run
          PROVE  /\ y \in Waiting(s)' <=> run'[y].state = "queued" /\ Resource(y) = s
                 /\ y \in server'[s].users <=> run'[y].state = "running" /\ ~InGroup(y) /\ Resource(y) = s
      <3>1. CASE y = x
        <4>1. run'[y].state = "done" /\ y \notin Waiting(s) /\ (y \in server[s].users <=> Resource(y) = s)
          BY <1>1, <1>2, <1>5, <1>6, <3>1 DEF RunsServed
        <4>2. y \notin server'[s].users /\ y \notin Waiting(s)'
          BY <1>10, <1>11, <3>1, <4>1
        <4> QED
          BY <4>1, <4>2
      <3>2. CASE y # x
        <4>1. run'[y] = run[y] /\ (y \in server'[s].users <=> y \in server[s].users) /\ (y \in Waiting(s)' <=> y \in Waiting(s))
          BY <1>6, <1>10, <1>11, <3>2
        <4> QED
          BY <1>1, <4>1 DEF RunsServed
      <3> QED
        BY <3>1, <3>2
    <2> QED
      BY <1>8, <2>1, SameWork DEF RunsServed, Still, Moves
  <1>13. GroupsServed' /\ InOrder'
    BY <1>2, <1>8, <1>10, <1>11, GroupsStill
  <1>14. HopsServed'
    <2>1. \A s \in Tokens : s \in Servers /\ s # Resource(x)
      BY <1>3, ServerFacts
    <2> QED
      BY <1>2, <1>8, <1>10, <2>1, HopsStill
  <1> QED
    BY <1>8, <1>10, <1>12, <1>13, <1>14, Together

LEMMA ServeRunStep ==
    ASSUME TimelineInv, NEW s \in Resources, ServeRun(s)
    PROVE  TimelineInv'
  <1> DEFINE x == Head(server[s].queue)
  <1>1. TimelineTypes /\ ServersKept /\ ServerTypes /\ RunsServed
    BY DEF TimelineInv, TimelineTypes
  <1>2. /\ CanServe(s) /\ server' = Granted(s) /\ x \in DOMAIN run
        /\ UNCHANGED <<work, now, hop, stream, chain>>
        /\ run' = [run EXCEPT ![x] = [@ EXCEPT !.state = "running", !.start = now]]
    BY DEF ServeRun
  <1>3. s \in Servers /\ s \notin Tokens
    BY ServerFacts
  <1>4. /\ ServerTypes' /\ ServersKept' /\ x \in Waiting(s)
        /\ \A r \in Servers \ {s} : server'[r].users = server[r].users /\ Waiting(r)' = Waiting(r)
        /\ server'[s].users = server[s].users \cup {x}
        /\ Waiting(s)' = Waiting(s) \ {x}
    BY <1>1, <1>2, <1>3, GrantedEffect
  <1> HIDE DEF x
  <1>5. run[x].state = "queued" /\ Resource(x) = s
    BY <1>1, <1>2, <1>4 DEF RunsServed
  <1>6. ~InGroup(x)
    BY <1>2, <1>5 DEF TimelineInv, RunsFollow, InGroup
  <1>7. run[x] \in RunRecord /\ now \in Nat
    BY <1>1, <1>2 DEF TimelineTypes
  <1> DEFINE r == [run[x] EXCEPT !.state = "running", !.start = now]
  <1>8. r \in RunRecord /\ r.state = "running" /\ r.start = now
    BY <1>7, RunStarts
  <1>9. run' = [run EXCEPT ![x] = r] /\ run'[x] = r
    BY <1>2
  <1> HIDE DEF r
  <1>10. RunMoves(x)
    BY <1>2, <1>5, <1>8, <1>9 DEF RunMoves
  <1>11. Moves
    <2>1. stream' \in [Streams -> StreamRecord] /\ \A g \in DOMAIN stream : GroupMoves(g)
      BY <1>1, <1>2 DEF TimelineTypes, GroupMoves
    <2> QED
      BY <1>1, <1>2, <1>8, <1>9, <1>10, <2>1, OneRun
  <1>12. RunsServed'
    <2>1. ASSUME NEW t \in Resources, NEW y \in DOMAIN run
          PROVE  /\ y \in Waiting(t)' <=> run'[y].state = "queued" /\ Resource(y) = t
                 /\ y \in server'[t].users <=> run'[y].state = "running" /\ ~InGroup(y) /\ Resource(y) = t
      <3>0. t \in Servers
        BY ServerFacts
      <3>1. CASE y = x
        <4>1. run'[y].state = "running" /\ (y \in Waiting(t) <=> t = s) /\ y \notin server[t].users
          BY <1>1, <1>5, <1>8, <1>9, <3>1 DEF RunsServed
        <4>2. y \notin Waiting(t)' /\ (y \in server'[t].users <=> t = s)
          BY <1>4, <3>0, <3>1, <4>1
        <4> QED
          BY <1>5, <1>6, <3>1, <4>1, <4>2
      <3>2. CASE y # x
        <4>1. run'[y] = run[y] /\ (y \in server'[t].users <=> y \in server[t].users) /\ (y \in Waiting(t)' <=> y \in Waiting(t))
          BY <1>4, <1>9, <3>0, <3>2
        <4> QED
          BY <1>1, <4>1 DEF RunsServed
      <3> QED
        BY <3>1, <3>2
    <2> QED
      BY <1>11, <2>1, SameWork DEF RunsServed, Still, Moves
  <1>13. GroupsServed' /\ InOrder'
    <2>1. \A t \in Resources : /\ Waiting(t)' \cup {x} = Waiting(t) \cup {x}
                               /\ server'[t].users \cup {x} = server[t].users \cup {x}
      <3> TAKE t \in Resources
      <3>1. t \in Servers
        BY ServerFacts
      <3> QED
        BY <1>4, <3>1
    <2> QED
      BY <1>2, <1>11, <2>1, GroupsStill
  <1>14. HopsServed'
    <2>1. \A t \in Tokens : t \in Servers /\ t # s
      BY <1>3, ServerFacts
    <2> QED
      BY <1>2, <1>4, <1>11, <2>1, HopsStill
  <1> QED
    BY <1>4, <1>11, <1>12, <1>13, <1>14, Together

-----------------------------------------------------------------------------
(* The members of a group.                                                 *)

LEMMA MemberStep ==
    ASSUME TimelineInv, NEW x \in DOMAIN run, InGroup(x), NEW r \in RunRecord, run' = [run EXCEPT ![x] = r],
           RunMoves(x), run[x].state # "queued", r.state # "queued",
           UNCHANGED <<work, now, hop, stream, server, chain>>
    PROVE  TimelineInv'
  <1>1. TimelineTypes /\ ServersKept
    BY DEF TimelineInv
  <1>2. Moves
    <2>1. stream' \in [Streams -> StreamRecord] /\ \A g \in DOMAIN stream : GroupMoves(g)
      BY <1>1 DEF TimelineTypes, GroupMoves
    <2> QED
      BY <1>1, <2>1, OneRun
  <1>3. Still
    BY <1>2 DEF Moves
  <1>4. ServerTypes' /\ ServersKept'
    BY <1>1, <1>3, ServersStill
  <1>5. \A s : Waiting(s)' = Waiting(s) /\ server'[s].users = server[s].users
    BY WaitingSame
  <1>6. RunsServed'
    <2>1. \A y \in DOMAIN run : \/ run'[y].state = run[y].state
                                \/ InGroup(y) /\ run[y].state # "queued" /\ run'[y].state # "queued"
      OBVIOUS
    <2> QED
      BY <1>1, <1>3, <1>5, <2>1, RunsServedStill DEF TimelineInv
  <1>7. GroupsServed' /\ InOrder'
    BY <1>2, <1>5, GroupsStill
  <1>8. HopsServed'
    BY <1>2, <1>5, HopsStill
  <1> QED
    BY <1>2, <1>4, <1>6, <1>7, <1>8, Together

LEMMA JoinGroupStep ==
    ASSUME TimelineInv, NEW g \in DOMAIN stream, NEW x \in Members(g), JoinGroup(x, g)
    PROVE  TimelineInv'
  <1>1. TimelineTypes
    BY DEF TimelineInv
  <1>2. x \in DOMAIN run /\ g \in GroupsOf(x) /\ InGroup(x)
    BY <1>1, StreamFacts
  <1>3. /\ stream[g].state = "streaming" /\ run[x].state = "blocked"
        /\ UNCHANGED <<work, now, hop, stream, server, chain>>
    BY DEF JoinGroup, CanJoin
  <1>4. run[x] \in RunRecord /\ now \in Nat
    BY <1>1, <1>2 DEF TimelineTypes
  <1> DEFINE r == [run[x] EXCEPT !.state = "running", !.start = now]
  <1>5. r \in RunRecord /\ r.state = "running" /\ r.start = now
    BY <1>4, RunStarts
  <1>6. run' = [run EXCEPT ![x] = r] /\ run'[x] = r
    BY <1>2 DEF JoinGroup
  <1> HIDE DEF r
  <1>7. RunMoves(x)
    BY <1>2, <1>3, <1>5, <1>6 DEF RunMoves
  <1> QED
    BY <1>2, <1>3, <1>5, <1>6, <1>7, MemberStep

LEMMA LeaveGroupStep ==
    ASSUME TimelineInv, NEW g \in DOMAIN stream, NEW x \in Members(g), LeaveGroup(x, g)
    PROVE  TimelineInv'
  <1>1. TimelineTypes
    BY DEF TimelineInv
  <1>2. x \in DOMAIN run /\ InGroup(x)
    BY <1>1, StreamFacts
  <1>3. /\ run[x].state = "running"
        /\ UNCHANGED <<work, now, hop, stream, server, chain>>
    BY DEF LeaveGroup, CanLeave
  <1>4. run[x] \in RunRecord /\ now \in Nat
    BY <1>1, <1>2 DEF TimelineTypes
  <1> DEFINE r == [run[x] EXCEPT !.state = "done", !.end = now]
  <1>5. r \in RunRecord /\ r.state = "done" /\ r.start = run[x].start /\ r.end = now
    BY <1>4, RunDone
  <1>6. run' = [run EXCEPT ![x] = r] /\ run'[x] = r
    BY <1>2 DEF LeaveGroup
  <1> HIDE DEF r
  <1>7. RunMoves(x)
    BY <1>2, <1>3, <1>5, <1>6 DEF RunMoves
  <1> QED
    BY <1>2, <1>3, <1>5, <1>6, <1>7, MemberStep

-----------------------------------------------------------------------------
(* Streaming groups.                                                       *)

\* A set of numbers has a least one.
LEMMA HasLeast ==
    ASSUME NEW S, S \subseteq Nat, S # {}
    PROVE  \E m \in S : \A j \in S : m <= j
  <1>1. PICK b \in S : TRUE
    OBVIOUS
  <1> DEFINE K == {j \in S : j <= b}
             UpTo(i) == {j \in K : j <= i}
             Chain == {UpTo(i) : i \in K}
  <1>2. IsFiniteSet(K)
    <2>1. b \in Nat /\ \A j \in K : j \in Nat /\ j <= b
      BY <1>1
    <2> HIDE DEF K
    <2>2. K \subseteq 0..b /\ 0 \in Int /\ b \in Int
      BY <2>1
    <2>3. QED
      BY <2>2, FS_Interval, FS_Subset
  <1>3. Chain \subseteq FiniteSubsetsOf(K) /\ Chain # {}
    <2>1. \A i \in K : UpTo(i) \subseteq K /\ IsFiniteSet(UpTo(i))
      BY <1>2, FS_Subset
    <2>2. b \in K
      BY <1>1
    <2>3. QED
      BY <2>1, <2>2 DEF FiniteSubsetsOf
  <1>4. \E U \in Chain : \A V \in Chain : <<V, U>> \notin StrictSubsetOrdering(K)
    <2>1. IsWellFoundedOn(StrictSubsetOrdering(K), FiniteSubsetsOf(K))
      BY <1>2, FS_StrictSubsetOrderingWellFounded
    <2> HIDE DEF Chain, K
    <2>2. QED
      BY <1>3, <2>1, WFMin
  <1>5. PICK m \in K : \A i \in K : <<UpTo(i), UpTo(m)>> \notin StrictSubsetOrdering(K)
    BY <1>4
  <1>6. ASSUME NEW j \in K, j < m PROVE FALSE
    <2>1. j \in Nat /\ m \in Nat /\ \A i \in K : i \in Nat
      BY <1>1
    <2> HIDE DEF K
    <2>2. \A i \in K : i <= j => i <= m
      BY <1>6, <2>1
    <2>3. m <= m /\ ~(m <= j)
      BY <1>6, <2>1
    <2>4. UpTo(j) \subseteq UpTo(m) /\ m \in UpTo(m) /\ m \notin UpTo(j)
      BY <2>2, <2>3
    <2>5. UpTo(j) \in SUBSET K /\ UpTo(m) \in SUBSET K /\ UpTo(j) # UpTo(m)
      BY <2>4
    <2>6. <<UpTo(j), UpTo(m)>> \in StrictSubsetOrdering(K)
      BY <2>4, <2>5 DEF StrictSubsetOrdering
    <2>7. QED
      BY <1>5, <2>6
  <1>7. QED
    BY <1>1, <1>6

\* A finite set of numbers has a greatest one.
LEMMA HasGreatest ==
    ASSUME NEW S, IsFiniteSet(S), S # {}, S \subseteq Nat
    PROVE  \E t \in S : \A u \in S : u <= t
  <1> DEFINE Above(t) == {u \in S : u > t}
             Sizes == {Cardinality(Above(t)) : t \in S}
  <1>1. \A t : IsFiniteSet(Above(t)) /\ Cardinality(Above(t)) \in Nat
    <2> TAKE t
    <2>1. Above(t) \subseteq S
      OBVIOUS
    <2> HIDE DEF Above
    <2>2. QED
      BY <2>1, FS_Subset, FS_CardinalityType
  <1>2. Sizes \subseteq Nat /\ Sizes # {}
    BY <1>1
  <1>3. PICK m \in Sizes : \A j \in Sizes : m <= j
    BY <1>2, HasLeast
  <1>4. PICK t \in S : m = Cardinality(Above(t))
    BY <1>3
  <1>5. ASSUME NEW u \in S, u > t PROVE FALSE
    <2>1. u \in Nat /\ t \in Nat /\ \A v \in S : v \in Nat
      OBVIOUS
    <2>2. Above(u) \subseteq Above(t) /\ u \in Above(t) /\ u \notin Above(u)
      <3>1. ~(u > u)
        BY <2>1
      <3>2. \A v \in S : v > u => v > t
        BY <1>5, <2>1
      <3>3. QED
        BY <1>5, <3>1, <3>2
    <2>3. Cardinality(Above(t)) <= Cardinality(Above(u))
      BY <1>3, <1>4
    <2> DEFINE Small == Above(u)
               Large == Above(t)
    <2>4. Small \subseteq Large /\ Small # Large /\ IsFiniteSet(Large) /\ Cardinality(Large) <= Cardinality(Small)
          /\ Cardinality(Large) \in Nat /\ Cardinality(Small) \in Nat
      BY <1>1, <2>2, <2>3
    <2> HIDE DEF Small, Large
    <2>5. Cardinality(Small) <= Cardinality(Large) /\ (Cardinality(Large) = Cardinality(Small) => Large = Small)
      BY <2>4, FS_Subset
    <2>6. QED
      BY <2>4, <2>5
  <1>6. \A u \in S : u <= t
    <2>1. \A u \in S : u \in Nat /\ t \in Nat
      OBVIOUS
    <2>2. QED
      BY <1>5, <2>1
  <1>7. QED
    BY <1>6
LEMMA NextFacts ==
    ASSUME TimelineTypes, NEW g \in DOMAIN stream, NEW held, GroupResources(g) \ held # {}
    PROVE  LET n == NextResource(g, held)
           IN  /\ n \in GroupResources(g) \ held /\ n \in Resources /\ n \in Nat
               /\ \A r \in GroupResources(g) \ held : n <= r
  <1> DEFINE rest == GroupResources(g) \ held
  <1>1. GroupResources(g) \subseteq Resources /\ Resources \subseteq Nat
    BY StreamFacts, ServerFacts
  <1>2. \E n \in rest : \A r \in rest : n <= r
    BY <1>1, HasLeast
  <1>3. Min(rest) \in rest /\ \A r \in rest : Min(rest) <= r
    BY <1>2 DEF Min
  <1>4. NextResource(g, held) = Min(rest)
    BY DEF NextResource
  <1> QED
    BY <1>1, <1>3, <1>4

\* A step that changes one group alone: the runs stay as they are at the resources.
LEMMA RunsStill ==
    ASSUME TimelineInv, Moves, NEW g \in DOMAIN stream,
           \A x \in DOMAIN run : run'[x].state = run[x].state,
           \A s \in Resources : /\ Waiting(s)' \cup {g} = Waiting(s) \cup {g}
                                /\ server'[s].users \cup {g} = server[s].users \cup {g}
    PROVE  RunsServed'
  <1>1. TimelineTypes /\ Still
    BY DEF TimelineInv, Moves
  <1>2. \A x \in DOMAIN run : x # g
    BY <1>1, StreamFacts
  <1>3. ASSUME NEW s \in Resources, NEW x \in DOMAIN run
        PROVE  /\ x \in Waiting(s)' <=> x \in Waiting(s)
               /\ x \in server'[s].users <=> x \in server[s].users
    BY <1>2
  <1> QED
    BY <1>1, <1>3, RunsServedStill DEF TimelineInv

\* What is left to prove of the groups is what holds of the one that changed.
GroupServed(g) ==
    /\ \A s \in Resources :
           /\ g \in Waiting(s) <=> stream[g].state = "reserving" /\ s = NextResource(g, Held(g))
           /\ g \in server[s].users => stream[g].state \in {"reserving", "streaming"} /\ s \in GroupResources(g)
           /\ s \in GroupResources(g) /\ stream[g].state = "streaming" => g \in server[s].users
    /\ stream[g].state = "reserving" => Rest(g) # {} /\ \A held \in Held(g), other \in Rest(g) : held < other

LEMMA GroupServedSame ==
    ASSUME GroupsServed, InOrder, Still, NEW g \in DOMAIN stream, stream'[g].state = stream[g].state,
           \A s \in Resources : (g \in Waiting(s)') = (g \in Waiting(s)),
           \A s \in Resources : (g \in server'[s].users) = (g \in server[s].users)
    PROVE  GroupServed(g)'
  <1>1. GroupResources(g)' = GroupResources(g)
    BY SameWork
  <1>2. Held(g)' = Held(g)
    BY DEF Held
  <1>3. NextResource(g, Held(g))' = NextResource(g, Held(g)) /\ Rest(g)' = Rest(g)
    BY <1>1, <1>2 DEF NextResource, Rest
  <1>4. GroupServed(g)
    BY DEF GroupServed, GroupsServed, InOrder
  <1> QED
    BY <1>1, <1>2, <1>3, <1>4 DEF GroupServed

LEMMA OtherGroupsStill ==
    ASSUME TimelineInv, Still, NEW g \in DOMAIN stream, GroupServed(g)',
           \A k \in DOMAIN stream \ {g} : stream'[k].state = stream[k].state,
           \A s \in Resources : /\ Waiting(s)' \cup {g} = Waiting(s) \cup {g}
                                /\ server'[s].users \cup {g} = server[s].users \cup {g}
    PROVE  GroupsServed' /\ InOrder'
  <1>1. GroupsServed /\ InOrder
    BY DEF TimelineInv
  <1>2. ASSUME NEW k \in DOMAIN stream PROVE GroupServed(k)'
    <2>1. CASE k = g
      BY <2>1
    <2>2. CASE k # g
      <3>1. \A s \in Resources : (k \in Waiting(s)') = (k \in Waiting(s))
        BY <2>2
      <3>2. \A s \in Resources : (k \in server'[s].users) = (k \in server[s].users)
        BY <2>2
      <3> QED
        BY <1>1, <2>2, <3>1, <3>2, GroupServedSame
    <2> QED
      BY <2>1, <2>2
  <1>3. DOMAIN stream' = DOMAIN stream
    BY DEF Still
  <1> QED
    BY <1>2, <1>3 DEF GroupServed, GroupsServed, InOrder

LEMMA GatherStep ==
    ASSUME TimelineInv, NEW g \in DOMAIN stream, Gather(g)
    PROVE  TimelineInv'
  <1>1. TimelineTypes /\ ServersKept /\ ServerTypes /\ GroupsServed
    BY DEF TimelineInv, TimelineTypes
  <1>2. /\ stream[g].state = "blocked" /\ GroupIsFed(g)
        /\ UNCHANGED <<work, now, hop, chain>>
    BY DEF Gather, CanGather
  <1>3. stream[g] \in StreamRecord /\ now \in Nat
    BY <1>1 DEF TimelineTypes
  <1>4. /\ run' \in [Runs(work) -> RunRecord]
        /\ \A x \in DOMAIN run : /\ run'[x].state = run[x].state /\ run'[x].start = run[x].start
                                 /\ run'[x].end = run[x].end
    <2>1. run' = [x \in DOMAIN run |-> IF x \in Members(g) THEN [run[x] EXCEPT !.ready = now] ELSE run[x]]
      BY DEF Gather
    <2>2. \A x \in DOMAIN run : run[x] \in RunRecord
      BY <1>1 DEF TimelineTypes
    <2>3. \A x \in DOMAIN run : LET q == [run[x] EXCEPT !.ready = now]
                                IN  q \in RunRecord /\ q.state = run[x].state /\ q.start = run[x].start /\ q.end = run[x].end
      BY <1>3, <2>2, RunGathered
    <2>4. DOMAIN run = Runs(work)
      BY <1>1 DEF TimelineTypes
    <2> QED
      BY <2>1, <2>2, <2>3, <2>4
  <1>5. \A x \in DOMAIN run : RunMoves(x)
    BY <1>4 DEF RunMoves
  <1>6. \A s \in Resources : g \notin Waiting(s) /\ g \notin server[s].users
    BY <1>1, <1>2 DEF GroupsServed
  <1>7. ASSUME NEW r \in StreamRecord, stream' = [stream EXCEPT ![g] = r],
               r.state \in {"reserving", "streaming"}
        PROVE  Moves /\ stream'[g] = r
    <2>1. stream'[g] = r
      BY <1>7
    <2>2. GroupMoves(g)
      BY <1>2, <1>7, <2>1 DEF GroupMoves
    <2> QED
      BY <1>1, <1>2, <1>4, <1>5, <1>7, <2>1, <2>2, OneGroup
  <1>8. CASE GroupResources(g) = {}
    <2> DEFINE r == [stream[g] EXCEPT !.state = "streaming", !.base = now]
    <2>1. r \in StreamRecord /\ r.state = "streaming"
      BY <1>3, StreamUpdates
    <2>2. stream' = [stream EXCEPT ![g] = r] /\ server' = server
      BY <1>8 DEF Gather
    <2> HIDE DEF r
    <2>3. Moves /\ stream'[g] = r /\ Still
      BY <1>7, <2>1, <2>2 DEF Moves
    <2>4. ServerTypes' /\ ServersKept'
      BY <1>1, <2>2, <2>3, ServersStill
    <2>5. \A s : Waiting(s)' = Waiting(s) /\ server'[s].users = server[s].users
      BY <2>2, WaitingSame
    <2>6. RunsServed'
      BY <1>4, <2>3, <2>5, RunsStill
    <2>7. GroupServed(g)'
      <3>1. GroupResources(g)' = {}
        BY <1>8, <2>3, SameWork
      <3> QED
        BY <1>6, <2>1, <2>3, <2>5, <3>1 DEF GroupServed
    <2>8. GroupsServed' /\ InOrder'
      BY <2>2, <2>3, <2>5, <2>7, OtherGroupsStill
    <2>9. HopsServed'
      BY <1>2, <2>3, <2>5, HopsStill
    <2> QED
      BY <2>3, <2>4, <2>6, <2>8, <2>9, Together
  <1>9. CASE GroupResources(g) # {}
    <2> DEFINE r == [stream[g] EXCEPT !.state = "reserving"]
    <2>1. r \in StreamRecord /\ r.state = "reserving"
      BY <1>3, StreamUpdates
    <2>2. stream' = [stream EXCEPT ![g] = r]
      BY <1>9 DEF Gather
    <2> HIDE DEF r
    <2>3. Moves /\ stream'[g] = r /\ Still
      BY <1>7, <2>1, <2>2 DEF Moves
    <2>4. PICK n : n = NextResource(g, {})
      OBVIOUS
    <2>5. n \in GroupResources(g) /\ n \in Resources
      BY <1>1, <1>9, <2>4, NextFacts
    <2>6. server' = Asked(n, g) /\ work' = work /\ n \in Servers /\ g \in Clients(n) /\ g \notin Waiting(n)
      <3>1. server' = Asked(n, g)
        BY <1>9, <2>4 DEF Gather
      <3>2. n \in Servers /\ g \in Clients(n)
        BY <1>1, <2>5, MayWait, ServerFacts
      <3> QED
        BY <1>2, <1>6, <2>5, <3>1, <3>2
    <2>7. /\ ServerTypes' /\ ServersKept'
          /\ \A s \in Servers : server'[s].users = server[s].users
          /\ \A s \in Servers \ {n} : Waiting(s)' = Waiting(s)
          /\ Waiting(n)' = Waiting(n) \cup {g}
      BY <1>1, <2>6, AskedEffect
    <2>8. \A s \in Resources : s \in Servers
      BY ServerFacts
    <2>9. \A s \in Resources : /\ Waiting(s)' \cup {g} = Waiting(s) \cup {g}
                               /\ server'[s].users \cup {g} = server[s].users \cup {g}
      BY <2>7, <2>8
    <2>10. RunsServed'
      BY <1>4, <2>3, <2>9, RunsStill
    <2>11. GroupServed(g)'
      <3>1. GroupResources(g)' = GroupResources(g)
        BY <2>3, SameWork
      <3>2. Held(g)' = {}
        BY <1>6, <2>7, <2>8 DEF Held
      <3>3. NextResource(g, Held(g))' = n
        BY <2>4, <3>1, <3>2 DEF NextResource
      <3>4. Rest(g)' # {} /\ \A held \in Held(g)', other \in Rest(g)' : held < other
        BY <1>9, <3>1, <3>2 DEF Rest
      <3>5. \A s \in Resources : (g \in Waiting(s)' <=> s = n) /\ g \notin server'[s].users
        BY <1>6, <2>7, <2>8
      <3>6. stream'[g].state = "reserving"
        BY <2>1, <2>3
      <3> QED
        BY <3>3, <3>4, <3>5, <3>6 DEF GroupServed
    <2>12. GroupsServed' /\ InOrder'
      BY <2>2, <2>3, <2>9, <2>11, OtherGroupsStill
    <2>13. HopsServed'
      <3>1. \A s \in Tokens : s \in Servers /\ s # n
        BY <2>5, ServerFacts
      <3> QED
        BY <1>2, <2>3, <2>7, <3>1, HopsStill
    <2> QED
      BY <2>3, <2>7, <2>10, <2>12, <2>13, Together
  <1> QED
    BY <1>8, <1>9

LEMMA DissolveStep ==
    ASSUME TimelineInv, NEW g \in DOMAIN stream, Dissolve(g)
    PROVE  TimelineInv'
  <1>1. TimelineTypes /\ ServersKept /\ ServerTypes /\ GroupsServed
    BY DEF TimelineInv, TimelineTypes
  <1>2. /\ stream[g].state = "streaming" /\ IsOver(g)
        /\ UNCHANGED <<work, now, run, hop, chain>>
    BY DEF Dissolve, CanDissolve
  <1>3. stream[g] \in StreamRecord
    BY <1>1 DEF TimelineTypes
  <1> DEFINE r == [stream[g] EXCEPT !.state = "over"]
  <1>4. r \in StreamRecord /\ r.state = "over"
    BY <1>3 DEF StreamRecord
  <1>5. stream' = [stream EXCEPT ![g] = r] /\ stream'[g] = r
    BY DEF Dissolve
  <1> HIDE DEF r
  <1>6. GroupMoves(g)
    BY <1>2, <1>4, <1>5 DEF GroupMoves
  <1>7. Moves
    <2>1. run' \in [Runs(work) -> RunRecord] /\ \A x \in DOMAIN run : RunMoves(x)
      BY <1>1, <1>2 DEF TimelineTypes, RunMoves
    <2> QED
      BY <1>1, <1>2, <1>4, <1>5, <1>6, <2>1, OneGroup
  <1>8. Still
    BY <1>7 DEF Moves
  <1>9. /\ ServerTypes' /\ ServersKept'
        /\ \A s \in Servers : /\ Waiting(s)' = Waiting(s)
                              /\ s \in GroupResources(g) => server'[s].users = server[s].users \ {g}
                              /\ s \notin GroupResources(g) => server'[s].users = server[s].users
    <2>1. server' = Freed(GroupResources(g), g) /\ work' = work
      BY <1>2 DEF Dissolve
    <2> QED
      BY <1>1, <2>1, FreedEffect
  <1>10. \A s \in Resources : s \in Servers
    BY ServerFacts
  <1>11. \A s \in Resources : /\ Waiting(s)' \cup {g} = Waiting(s) \cup {g}
                              /\ server'[s].users \cup {g} = server[s].users \cup {g}
    BY <1>9, <1>10
  <1>12. RunsServed'
    BY <1>2, <1>7, <1>11, RunsStill
  <1>13. GroupServed(g)'
    <2>1. \A s \in Resources : g \notin Waiting(s) /\ (g \in server[s].users => s \in GroupResources(g))
      BY <1>1, <1>2 DEF GroupsServed
    <2>2. \A s \in Resources : g \notin Waiting(s)' /\ g \notin server'[s].users
      BY <1>9, <1>10, <2>1
    <2>3. stream'[g].state = "over"
      BY <1>4, <1>5
    <2> QED
      BY <2>2, <2>3 DEF GroupServed
  <1>14. GroupsServed' /\ InOrder'
    BY <1>5, <1>8, <1>11, <1>13, OtherGroupsStill
  <1>15. HopsServed'
    <2>1. GroupResources(g) \subseteq Resources
      BY <1>1, StreamFacts
    <2>2. \A s \in Tokens : s \in Servers /\ s \notin GroupResources(g)
      BY <2>1, ServerFacts
    <2> QED
      BY <1>2, <1>7, <1>9, <2>2, HopsStill
  <1> QED
    BY <1>7, <1>9, <1>12, <1>14, <1>15, Together

LEMMA ServeGroupStep ==
    ASSUME TimelineInv, NEW s \in Resources, ServeGroup(s)
    PROVE  TimelineInv'
  <1> DEFINE g == Head(server[s].queue)
             held == Held(g) \cup {s}
  <1>1. TimelineTypes /\ ServersKept /\ ServerTypes /\ GroupsServed /\ InOrder
    BY DEF TimelineInv, TimelineTypes
  <1>2. /\ CanServe(s) /\ g \in DOMAIN stream
        /\ UNCHANGED <<work, now, run, hop, chain>>
        /\ \/ /\ held = GroupResources(g)
              /\ stream' = [stream EXCEPT ![g] = [@ EXCEPT !.state = "streaming", !.base = now]]
              /\ server' = Granted(s)
           \/ /\ held # GroupResources(g)
              /\ stream' = stream
              /\ server' = [Granted(s) EXCEPT ![NextResource(g, held)].queue = Append(@, g)]
    BY DEF ServeGroup
  <1>3. s \in Servers /\ s \notin Tokens
    BY ServerFacts
  <1>4. g \in Waiting(s)
    BY <1>1, <1>2, <1>3, ServedServer
  <1>5. PICK k : k = g
    OBVIOUS
  <1>6. k \in DOMAIN stream /\ k \in Waiting(s)
    BY <1>2, <1>4, <1>5
  <1>7. /\ stream[k].state = "reserving" /\ s = NextResource(k, Held(k))
        /\ \A t \in Resources : k \in Waiting(t) <=> t = s
        /\ \A t \in Resources : k \in server[t].users => t \in GroupResources(k)
    BY <1>1, <1>6 DEF GroupsServed
  <1>8. Rest(k) # {} /\ (\A a \in Held(k), b \in Rest(k) : a < b) /\ Rest(k) = GroupResources(k) \ Held(k)
    BY <1>1, <1>6, <1>7 DEF InOrder, Rest
  <1>9. s \in Rest(k) /\ s \in Nat /\ \A b \in Rest(k) : s <= b
    BY <1>1, <1>6, <1>7, <1>8, NextFacts
  <1>10. Held(k) \subseteq GroupResources(k) /\ GroupResources(k) \subseteq Resources
    BY <1>1, <1>6, <1>7, StreamFacts DEF Held
  <1>11. \A t \in Resources : t \in Servers /\ t \in Nat
    BY ServerFacts
  <1>12. ASSUME work' = work, server'[s].users = server[s].users \cup {k},
                \A t \in Servers \ {s} : server'[t].users = server[t].users
         PROVE  Held(k)' = Held(k) \cup {s}
    BY <1>11, <1>12 DEF Held
  <1>13. CASE held = GroupResources(g)
    <2> DEFINE r == [stream[k] EXCEPT !.state = "streaming", !.base = now]
    <2>1. stream[k] \in StreamRecord /\ now \in Nat
      BY <1>1, <1>6 DEF TimelineTypes
    <2>2. r \in StreamRecord /\ r.state = "streaming"
      BY <2>1, StreamUpdates
    <2>3. stream' = [stream EXCEPT ![k] = r] /\ stream'[k] = r /\ server' = Granted(s)
      BY <1>2, <1>5, <1>13
    <2> HIDE DEF r
    <2>4. GroupMoves(k)
      BY <1>7, <2>2, <2>3 DEF GroupMoves
    <2>5. Moves
      <3>1. run' \in [Runs(work) -> RunRecord] /\ \A x \in DOMAIN run : RunMoves(x)
        BY <1>1, <1>2 DEF TimelineTypes, RunMoves
      <3> QED
        BY <1>1, <1>2, <1>6, <2>2, <2>3, <2>4, <3>1, OneGroup
    <2>6. Still /\ work' = work
      BY <2>5 DEF Moves, Still
    <2>7. /\ ServerTypes' /\ ServersKept'
          /\ \A t \in Servers \ {s} : server'[t].users = server[t].users /\ Waiting(t)' = Waiting(t)
          /\ server'[s].users = server[s].users \cup {k}
          /\ Waiting(s)' = Waiting(s) \ {k}
      BY <1>1, <1>2, <1>3, <1>5, <2>3, <2>6, GrantedEffect
    <2>8. \A t \in Resources : /\ Waiting(t)' \cup {k} = Waiting(t) \cup {k}
                               /\ server'[t].users \cup {k} = server[t].users \cup {k}
      BY <1>11, <2>7
    <2>9. RunsServed'
      BY <1>2, <1>6, <2>5, <2>8, RunsStill
    <2>10. GroupServed(k)'
      <3>1. GroupResources(k)' = GroupResources(k) /\ GroupResources(k) = Held(k) \cup {s}
        BY <1>5, <1>13, <2>6, SameWork
      <3>2. \A t \in Resources : k \notin Waiting(t)'
        BY <1>7, <1>11, <2>7
      <3>3. \A t \in Resources : k \in server'[t].users <=> (k \in server[t].users \/ t = s)
        BY <1>11, <2>7
      <3>4. stream'[k].state = "streaming"
        BY <2>2, <2>3
      <3>5. \A t \in Resources : t \in Held(k) <=> k \in server[t].users
        BY DEF Held
      <3> QED
        BY <1>7, <3>1, <3>2, <3>3, <3>4, <3>5 DEF GroupServed
    <2>11. GroupsServed' /\ InOrder'
      BY <1>6, <2>3, <2>6, <2>8, <2>10, OtherGroupsStill
    <2>12. HopsServed'
      <3>1. \A t \in Tokens : t \in Servers /\ t # s
        BY <1>3, ServerFacts
      <3> QED
        BY <1>2, <2>5, <2>7, <3>1, HopsStill
    <2> QED
      BY <2>5, <2>7, <2>9, <2>11, <2>12, Together
  <1>14. CASE held # GroupResources(g)
    <2>1. stream' = stream /\ work' = work
      BY <1>2, <1>14
    <2>2. now \in Nat
      BY <1>1 DEF TimelineTypes
    <2>3. Moves
      BY <1>1, <1>2, <2>1, <2>2, NothingMoves
    <2>4. Still
      BY <2>3 DEF Moves
    <2>5. PICK n : n = NextResource(k, Held(k) \cup {s})
      OBVIOUS
    <2>6. GroupResources(k) \ (Held(k) \cup {s}) # {}
      BY <1>5, <1>8, <1>9, <1>10, <1>14
    <2>7. n \in GroupResources(k) \ (Held(k) \cup {s}) /\ n \in Resources
      BY <1>1, <1>6, <2>5, <2>6, NextFacts
    <2>8. /\ n \in Servers \ {s} /\ k \in Clients(n) /\ k \notin Waiting(n)
          /\ server' = [Granted(s) EXCEPT ![n].queue = Append(@, k)]
      BY <1>1, <1>2, <1>5, <1>6, <1>7, <1>11, <1>14, <2>5, <2>7, MayWait
    <2>9. /\ ServerTypes' /\ ServersKept'
          /\ \A t \in Servers \ {s} : server'[t].users = server[t].users
          /\ \A t \in Servers \ {s, n} : Waiting(t)' = Waiting(t)
          /\ server'[s].users = server[s].users \cup {k}
          /\ Waiting(s)' = Waiting(s) \ {k}
          /\ Waiting(n)' = Waiting(n) \cup {k}
      <3>2. k = Head(server[s].queue)
        BY <1>5
      <3>3. CanServe(s) /\ work' = work /\ ServerTypes /\ ServersKept /\ s \in Servers
        BY <1>1, <1>2, <1>3
      <3> HIDE DEF g, held
      <3>5. server' = ServedAndAsked(s, n, k)
        BY <2>8 DEF ServedAndAsked
      <3>4. LET v == Head(server[s].queue)
            IN  /\ ServerTypes' /\ ServersKept' /\ v \in Waiting(s)
                /\ \A r \in Servers \ {s} : server'[r].users = server[r].users
                /\ \A r \in Servers \ {s, n} : Waiting(r)' = Waiting(r)
                /\ server'[s].users = server[s].users \cup {v}
                /\ Waiting(s)' = Waiting(s) \ {v}
                /\ Waiting(n)' = Waiting(n) \cup {k}
        BY <2>8, <3>3, <3>5, GrantedAskedEffect
      <3> QED
        BY ONLY <3>2, <3>4
    <2>10. \A t \in Resources : /\ Waiting(t)' \cup {k} = Waiting(t) \cup {k}
                                /\ server'[t].users \cup {k} = server[t].users \cup {k}
      <3> TAKE t \in Resources
      <3>1. t \in Servers
        BY <1>11
      <3>2. CASE t = s
        BY <2>9, <3>2
      <3>3. CASE t = n
        BY <2>8, <2>9, <3>3
      <3>4. CASE t \notin {s, n}
        BY <2>9, <3>1, <3>4
      <3> QED
        BY <3>2, <3>3, <3>4
    <2>11. RunsServed'
      BY <1>2, <1>6, <2>3, <2>10, RunsStill
    <2>12. GroupServed(k)'
      <3>1. GroupResources(k)' = GroupResources(k)
        BY <2>4, SameWork
      <3>2. Held(k)' = Held(k) \cup {s}
        BY <1>12, <2>1, <2>9
      <3>3. NextResource(k, Held(k))' = n
        BY <2>5, <3>1, <3>2 DEF NextResource
      <3>4. Rest(k)' = GroupResources(k) \ (Held(k) \cup {s})
        BY <3>1, <3>2 DEF Rest
      <3>5. \A a \in Held(k)', b \in Rest(k)' : a < b
        <4> TAKE a \in Held(k)', b \in Rest(k)'
        <4>1. b \in Rest(k) /\ b # s /\ b \in Nat
          BY <1>8, <1>10, <1>11, <3>4
        <4>2. CASE a = s
          BY <1>9, <4>1, <4>2
        <4>3. CASE a \in Held(k)
          BY <1>8, <4>1, <4>3
        <4> QED
          BY <3>2, <4>2, <4>3
      <3>6. \A t \in Resources : k \in Waiting(t)' <=> t = n
        <4> TAKE t \in Resources
        <4>1. t \in Servers /\ (k \in Waiting(t) <=> t = s)
          BY <1>7, <1>11
        <4>2. CASE t = s
          BY <2>8, <2>9, <4>2
        <4>3. CASE t = n
          BY <2>9, <4>3
        <4>4. CASE t \notin {s, n}
          BY <2>9, <4>1, <4>4
        <4> QED
          BY <4>2, <4>3, <4>4
      <3>7. \A t \in Resources : k \in server'[t].users => t \in GroupResources(k)
        <4> TAKE t \in Resources
        <4>1. CASE t = s
          BY <1>8, <1>9, <4>1
        <4>2. CASE t # s
          BY <1>7, <1>11, <2>9, <4>2
        <4> QED
          BY <4>1, <4>2
      <3>8. stream'[k].state = "reserving"
        BY <1>7, <2>1
      <3> QED
        BY <2>6, <3>1, <3>3, <3>4, <3>5, <3>6, <3>7, <3>8 DEF GroupServed
    <2>13. GroupsServed' /\ InOrder'
      BY <1>6, <2>1, <2>4, <2>10, <2>12, OtherGroupsStill
    <2>14. HopsServed'
      <3>1. \A t \in Tokens : t \in Servers /\ t # s /\ t # n
        BY <1>3, <2>7, ServerFacts
      <3> QED
        BY <1>2, <2>3, <2>9, <3>1, HopsStill
    <2> QED
      BY <2>3, <2>9, <2>11, <2>13, <2>14, Together
  <1> QED
    BY <1>13, <1>14

-----------------------------------------------------------------------------
(* The whole specification.                                                *)

LEMMA NobodyServed ==
    ASSUME TimelineInv, UNCHANGED <<work, run, hop, stream, server>>, now' \in Nat, now <= now'
    PROVE  TimelineInv'
  <1>1. TimelineTypes /\ ServersKept
    BY DEF TimelineInv
  <1>2. Moves
    BY <1>1, NothingMoves
  <1>3. Still
    BY <1>2 DEF Moves
  <1>4. ServerTypes' /\ ServersKept'
    BY <1>1, <1>3, ServersStill
  <1>5. \A s : Waiting(s)' = Waiting(s) /\ server'[s].users = server[s].users
    BY WaitingSame
  <1>6. RunsServed' /\ GroupsServed' /\ InOrder'
    BY <1>2, <1>5, OnlyHops
  <1>7. HopsServed'
    BY <1>2, <1>5, HopsStill
  <1> QED
    BY <1>2, <1>4, <1>6, <1>7, Together

LEMMA TimelineInvInit ==
    ASSUME TimelineInit
    PROVE  TimelineInv
  <1>1. work \in Workloads /\ IsAccepted(work) /\ now = 0
    BY DEF TimelineInit
  <1>2. /\ run = [x \in Runs(work) |-> NewRun] /\ hop = [h \in Hops |-> NewHop] /\ stream = [g \in Streams |-> NewStream]
        /\ server = [s \in Servers |-> [users |-> {}, queue |-> <<>>]]
    BY DEF TimelineInit, Hops, Streams, Frames
  <1>3. NewRun \in RunRecord /\ NewHop \in HopRecord /\ NewStream \in StreamRecord
    BY DEF NewRun, NewHop, NewStream, RunRecord, HopRecord, StreamRecord
  <1>4. /\ run \in [Runs(work) -> RunRecord] /\ hop \in [Hops -> HopRecord] /\ stream \in [Streams -> StreamRecord]
        /\ \A x \in DOMAIN run : run[x].state = "blocked"
        /\ \A h \in DOMAIN hop : hop[h].state = "idle"
        /\ \A g \in DOMAIN stream : stream[g].state = "blocked"
    BY <1>2, <1>3 DEF NewRun, NewHop, NewStream
  <1>5. \A s \in Servers : /\ server[s] = [users |-> {}, queue |-> <<>>]
                           /\ server[s].users = {} /\ server[s].queue = <<>> /\ Waiting(s) = {}
    BY <1>2 DEF Waiting, Range
  <1>6. ServerTypes
    <2>1. \A s \in Resources : s \in Servers
      BY ServerFacts
    <2>2. \A s \in Tokens : s \in Servers
      BY ServerFacts
    <2>3. DOMAIN server = Servers
      BY <1>2
    <2>4. \A T : [users |-> {}, queue |-> <<>>] \in [users : SUBSET T, queue : Seq(T)]
      OBVIOUS
    <2> QED
      BY <1>5, <2>1, <2>2, <2>3, <2>4 DEF ServerTypes
  <1>7. TimelineTypes
    BY <1>1, <1>4, <1>6 DEF TimelineTypes
  <1>8. ServersKept
    <2>1. IsFiniteSet({}) /\ Cardinality({}) = 0 /\ \A s \in Servers : 0 <= Places[s]
      BY FS_EmptySet, ServerFacts
    <2>2. \A q : q = <<>> => IsInjective(q)
      BY DEF IsInjective
    <2> QED
      BY <1>5, <2>1, <2>2 DEF ServersKept
  <1>9. RunsServed /\ GroupsServed /\ HopsServed /\ InOrder
    BY <1>4, <1>5, ServerFacts DEF RunsServed, GroupsServed, HopsServed, InOrder
  <1>10. HopsFollow /\ GroupsFollow
    BY <1>4 DEF HopsFollow, GroupsFollow
  <1>11. RunsFollow
    BY <1>4 DEF RunsFollow, HasStarted
  <1>12. StartsFollow
    BY <1>4, <1>7, HopFacts DEF StartsFollow, HasStarted
  <1> QED
    BY <1>7, <1>8, <1>9, <1>10, <1>11, <1>12 DEF TimelineInv

LEMMA TimelineInvStep ==
    ASSUME TimelineInv, [TimelineNext]_timelineVars
    PROVE  TimelineInv'
  <1>0. now \in Nat
    BY DEF TimelineInv, TimelineTypes
  <1>1. ASSUME NEW h \in DOMAIN hop, Depart(h) \/ Arrive(h) PROVE TimelineInv'
    BY <1>1, DepartStep, ArriveStep
  <1>2. ASSUME NEW x \in DOMAIN run, BeReady(x) \/ FinishRun(x) PROVE TimelineInv'
    BY <1>2, BeReadyStep, FinishRunStep
  <1>3. ASSUME NEW x \in DOMAIN run, BeginPath(x) \/ ExtendPath(x) PROVE TimelineInv'
    <2>1. UNCHANGED <<work, run, hop, stream, server>> /\ now' = now
      BY <1>3 DEF BeginPath, ExtendPath
    <2> QED
      BY <1>0, <2>1, NobodyServed
  <1>4. ASSUME NEW g \in DOMAIN stream, Gather(g) \/ Dissolve(g) PROVE TimelineInv'
    BY <1>4, GatherStep, DissolveStep
  <1>5. ASSUME NEW g \in DOMAIN stream, NEW x \in Members(g), JoinGroup(x, g) \/ LeaveGroup(x, g) PROVE TimelineInv'
    BY <1>5, JoinGroupStep, LeaveGroupStep
  <1>6. ASSUME NEW s \in Resources, ServeRun(s) \/ ServeGroup(s) PROVE TimelineInv'
    BY <1>6, ServeRunStep, ServeGroupStep
  <1>7. ASSUME NEW s \in Tokens, ServeHop(s) PROVE TimelineInv'
    BY <1>7, ServeHopStep
  <1>8. CASE Tick
    <2>1. UNCHANGED <<work, run, hop, stream, server>> /\ now' = now + 1
      BY <1>8 DEF Tick
    <2>2. now' \in Nat /\ now <= now'
      BY <1>0, <2>1
    <2> QED
      BY <2>1, <2>2, NobodyServed
  <1>9. CASE UNCHANGED timelineVars
    <2>1. UNCHANGED <<work, run, hop, stream, server>> /\ now' = now
      BY <1>9 DEF timelineVars
    <2> QED
      BY <1>0, <2>1, NobodyServed
  <1> QED
    BY <1>1, <1>2, <1>3, <1>4, <1>5, <1>6, <1>7, <1>8, <1>9 DEF TimelineNext

-----------------------------------------------------------------------------
(* What the invariant says of consumers and of capacities.                 *)

LEMMA InvConsumersFollow ==
    ASSUME TimelineInv
    PROVE  ConsumersFollow
  <1> SUFFICES ASSUME NEW h \in DOMAIN hop, ~IsInternal(h), HasStarted(Target(h))
               PROVE  /\ IF Streaming(h[1]) THEN HasStarted(Source(h)) ELSE run[Source(h)].state = "done"
                      /\ run[Target(h)].start >= Delay(h)
                                                 + IF Streaming(h[1]) THEN run[Source(h)].start ELSE run[Source(h)].end
    BY DEF ConsumersFollow, Delay
  <1>1. hop[h].state = "arrived" /\ MadeAt(h) + Delay(h) <= run[Target(h)].start
    BY DEF TimelineInv, StartsFollow
  <1>2. Dependency(h)
    BY <1>1 DEF TimelineInv, HopsFollow
  <1>3. IF Streaming(h[1]) THEN HasStarted(Source(h)) ELSE run[Source(h)].state = "done"
    BY <1>2 DEF Dependency, HasStarted
  <1>4. MadeAt(h) \in Nat /\ Delay(h) \in Nat /\ run[Target(h)].start \in Nat
    <2>1. Target(h) \in DOMAIN run /\ run \in [Runs(work) -> RunRecord]
      BY HopFacts DEF TimelineInv, TimelineTypes
    <2>2. run[Target(h)].start \in Nat
      BY <2>1 DEF RunRecord
    <2> QED
      BY <2>2, MadeAtNat DEF TimelineInv
  <1>5. run[Target(h)].start >= Delay(h) + MadeAt(h)
    BY <1>1, <1>4
  <1> QED
    BY <1>3, <1>5 DEF MadeAt

LEMMA InvCapacityHolds ==
    ASSUME TimelineInv
    PROVE  CapacityHolds
  <1> SUFFICES ASSUME NEW s \in Resources
               PROVE  Cardinality({x \in Using(s) : ~InGroup(x)} \cup UNION {GroupsOf(x) : x \in Using(s)}) <= Places[s]
    BY DEF CapacityHolds
  <1> DEFINE users == {x \in Using(s) : ~InGroup(x)} \cup UNION {GroupsOf(x) : x \in Using(s)}
  <1>1. s \in Servers /\ s # Nothing
    BY ServerFacts
  <1>2. IsFiniteSet(server[s].users) /\ Cardinality(server[s].users) <= Places[s] /\ Places[s] \in Nat
    BY <1>1, ServerFacts DEF TimelineInv, ServersKept
  <1>3. \A x \in Using(s) : x \in DOMAIN run /\ run[x].state = "running" /\ Resource(x) = s
    BY DEF Using, Resource
  <1>4. \A x \in Using(s) : ~InGroup(x) => x \in server[s].users
    BY <1>3 DEF TimelineInv, RunsServed
  <1>5. ASSUME NEW x \in Using(s), NEW g \in GroupsOf(x) PROVE g \in server[s].users
    <2>1. g \in DOMAIN stream /\ x[1] \in g[1]
      BY DEF GroupsOf
    <2>2. stream[g].state \in {"streaming", "over"} /\ (stream[g].state = "over" => IsOver(g))
      BY <1>3, <2>1 DEF TimelineInv, RunsFollow, GroupsFollow
    <2>3. x \in Members(g)
      BY <1>3, <2>1, StreamFacts DEF TimelineInv
    <2>4. stream[g].state = "streaming"
      BY <1>3, <2>2, <2>3 DEF IsOver
    <2>5. s \in GroupResources(g)
      BY <1>1, <1>3, <2>1 DEF GroupResources, Resource
    <2> QED
      BY <2>1, <2>4, <2>5 DEF TimelineInv, GroupsServed
  <1>6. users \subseteq server[s].users
    BY <1>4, <1>5
  <1> HIDE DEF users
  <1>7. Cardinality(users) <= Cardinality(server[s].users) /\ IsFiniteSet(users)
    BY <1>2, <1>6, FS_Subset
  <1>8. Cardinality(users) \in Nat /\ Cardinality(server[s].users) \in Nat
    BY <1>2, <1>7, FS_CardinalityType
  <1>9. Cardinality(users) <= Places[s]
    BY <1>2, <1>7, <1>8
  <1> QED
    BY <1>9 DEF users

-----------------------------------------------------------------------------
(* When no event is left: nothing moves, nothing runs, nothing waits.      *)

LEMMA Quiet ==
    ASSUME TimelineInv, Finished
    PROVE  /\ \A h \in DOMAIN hop : hop[h].state # "moving" /\ ~CanDepart(h)
           /\ \A x \in DOMAIN run : run[x].state # "running" /\ IsReleased(x) /\ ~CanBeReady(x)
           /\ \A g \in DOMAIN stream : stream[g].state # "streaming" /\ ~CanGather(g)
           /\ \A s \in Servers : ~CanServe(s)
  <1>1. ~Instant /\ ~IsTimed
    BY DEF Finished
  <1>2. /\ \A h \in DOMAIN hop : hop[h].state # "moving" /\ ~CanDepart(h)
        /\ \A x \in DOMAIN run : run[x].state # "running" /\ ~(now < ReleaseTime(x)) /\ ~CanBeReady(x)
        /\ \A g \in DOMAIN stream : stream[g].state # "streaming" /\ ~CanGather(g)
        /\ \A s \in Servers : ~CanServe(s)
    BY <1>1 DEF Instant, IsTimed
  <1>3. ASSUME NEW x \in DOMAIN run PROVE IsReleased(x)
    <2>1. x[1] \in DOMAIN work.task /\ x[2] \in Nat /\ IsWorkload(work) /\ now \in Nat
      BY RunFacts, WorkFacts DEF TimelineInv, TimelineTypes
    <2>2. work.task[x[1]].own \in Nat /\ work.period \in Nat
      BY <2>1 DEF IsWorkload
    <2>3. PICK p \in Nat : p = (IF Independent(work, x[1]) THEN work.task[x[1]].own ELSE work.period)
      BY <2>2
    <2>4. x[2] * p \in Nat
      BY <2>1, <2>3
    <2>5. ReleaseTime(x) = x[2] * p
      BY <2>3 DEF ReleaseTime
    <2>6. ReleaseTime(x) \in Nat
      BY <2>4, <2>5
    <2> QED
      BY <1>2, <2>1, <2>6 DEF IsReleased
  <1> QED
    BY <1>2, <1>3

LEMMA NobodyInside ==
    ASSUME TimelineInv, Finished, NEW s \in Servers, server[s].users = {}
    PROVE  server[s].queue = <<>>
  <1>1. ~CanServe(s)
    BY Quiet
  <1>2. Cardinality({}) = 0 /\ Places[s] > 0 /\ Places[s] \in Nat
    BY FS_EmptySet, ServerFacts
  <1> QED
    BY <1>1, <1>2 DEF CanServe

LEMMA NoTokenAwaited ==
    ASSUME TimelineInv, Finished, NEW h \in DOMAIN hop
    PROVE  hop[h].state \in {"idle", "arrived"}
  <1>1. TimelineTypes /\ ServerTypes
    BY DEF TimelineInv, TimelineTypes
  <1>2. hop[h].state \in {"idle", "queued", "moving", "arrived"} /\ hop[h].state # "moving"
    BY <1>1, Quiet DEF TimelineTypes, HopRecord
  <1>3. ASSUME hop[h].state = "queued" PROVE FALSE
    <2>1. Token(h) \in Tokens
      BY <1>1, <1>3, HopFacts DEF TimelineInv, HopsFollow
    <2>2. PICK s \in Tokens : s = Token(h)
      BY <2>1
    <2>3. h \in Waiting(s)
      BY <1>3, <2>2 DEF TimelineInv, HopsServed
    <2>4. s \in Servers /\ Clients(s) = DOMAIN hop
      BY <1>1, MayWait
    <2>5. server[s].users \subseteq DOMAIN hop
      BY <1>1, <2>4, ServerTyped
    <2>6. \A k \in server[s].users : hop[k].state = "moving"
      BY <2>5 DEF TimelineInv, HopsServed
    <2>7. server[s].users = {}
      BY <2>5, <2>6, Quiet
    <2>8. server[s].queue = <<>>
      BY <2>4, <2>7, NobodyInside
    <2> QED
      BY <2>3, <2>8 DEF Waiting, Range
  <1> QED
    BY <1>2, <1>3

\* No resource is waited for: of those that were, the last in the order would be
\* held by a group that waits for a later one.
LEMMA NoResourceAwaited ==
    ASSUME TimelineInv, Finished
    PROVE  \A s \in Resources : Waiting(s) = {}
  <1>1. TimelineTypes /\ ServerTypes /\ GroupsServed /\ InOrder
    BY DEF TimelineInv, TimelineTypes
  <1> DEFINE awaited == {s \in Resources : server[s].queue # <<>>}
  <1>2. \A s \in Resources : s \in Servers /\ s \in Nat
    BY ServerFacts
  <1>3. awaited \subseteq Servers /\ awaited \subseteq Nat /\ IsFiniteSet(Servers)
    BY <1>2, TimelineAssumption
  <1>4. IsFiniteSet(awaited)
    BY <1>3, FS_Subset
  <1>5. ASSUME awaited # {} PROVE FALSE
    <2>1. PICK s \in awaited : \A t \in awaited : t <= s
      BY <1>3, <1>4, <1>5, HasGreatest
    <2>2. s \in Resources /\ s \in Servers /\ server[s].queue # <<>>
      BY <1>2
    <2>3. server[s].users # {}
      BY <2>2, NobodyInside
    <2>4. PICK v \in server[s].users : TRUE
      BY <2>3
    <2>5. v \in DOMAIN run \/ v \in DOMAIN stream
      BY <1>1, <2>2, <2>4, ServerTyped DEF Clients, TimelineTypes
    <2>6. v \notin DOMAIN run
      BY <2>2, <2>4, Quiet DEF TimelineInv, RunsServed
    <2>7. v \in DOMAIN stream /\ stream[v].state = "reserving"
      BY <1>1, <2>2, <2>4, <2>5, <2>6, Quiet DEF GroupsServed
    <2>8. Rest(v) # {} /\ (\A a \in Held(v), b \in Rest(v) : a < b) /\ s \in Held(v)
      BY <1>1, <2>2, <2>4, <2>7 DEF InOrder, Held
    <2>9. PICK n : n = NextResource(v, Held(v))
      OBVIOUS
    <2>10. n \in Rest(v) /\ n \in Resources
      BY <1>1, <2>7, <2>8, <2>9, NextFacts DEF Rest
    <2>11. v \in Waiting(n)
      BY <1>1, <2>7, <2>9, <2>10 DEF GroupsServed
    <2>12. n \in awaited
      BY <2>10, <2>11 DEF Waiting, Range
    <2>13. s < n /\ n <= s /\ s \in Nat /\ n \in Nat
      BY <1>2, <2>1, <2>2, <2>8, <2>10, <2>12
    <2> QED
      BY <2>13
  <1> QED
    BY <1>5 DEF Waiting, Range

LEMMA OnlyBlocked ==
    ASSUME TimelineInv, Finished
    PROVE  /\ \A x \in DOMAIN run : run[x].state \in {"blocked", "done"}
           /\ \A g \in DOMAIN stream : stream[g].state \in {"blocked", "over"}
  <1>1. TimelineTypes /\ RunsServed /\ GroupsServed /\ InOrder
    BY DEF TimelineInv, TimelineTypes
  <1>2. ASSUME NEW x \in DOMAIN run PROVE run[x].state \in {"blocked", "done"}
    <2>1. run[x].state \in {"blocked", "queued", "running", "done"} /\ run[x].state # "running"
      BY <1>1, Quiet DEF TimelineTypes, RunRecord
    <2>2. ASSUME run[x].state = "queued" PROVE FALSE
      <3>1. Resource(x) \in Resources
        BY <1>1, <2>2, RunFacts DEF TimelineInv, RunsFollow
      <3>2. x \in Waiting(Resource(x))
        BY <1>1, <2>2, <3>1 DEF RunsServed
      <3> QED
        BY <3>1, <3>2, NoResourceAwaited
    <2> QED
      BY <2>1, <2>2
  <1>3. ASSUME NEW g \in DOMAIN stream PROVE stream[g].state \in {"blocked", "over"}
    <2>1. stream[g].state \in {"blocked", "reserving", "streaming", "over"} /\ stream[g].state # "streaming"
      BY <1>1, Quiet DEF TimelineTypes, StreamRecord
    <2>2. ASSUME stream[g].state = "reserving" PROVE FALSE
      <3>1. PICK n : n = NextResource(g, Held(g))
        OBVIOUS
      <3>2. n \in Resources
        BY <1>1, <2>2, <3>1, NextFacts DEF InOrder, Rest
      <3>3. g \in Waiting(n)
        BY <1>1, <2>2, <3>1, <3>2 DEF GroupsServed
      <3> QED
        BY <3>2, <3>3, NoResourceAwaited
    <2> QED
      BY <2>1, <2>2
  <1> QED
    BY <1>2, <1>3

\* What a run that has ended gave arrived where it was needed.
LEMMA GivenArrived ==
    ASSUME TimelineInv, Finished, NEW h \in DOMAIN hop, ~IsInternal(h), run[Source(h)].state = "done"
    PROVE  hop[h].state = "arrived"
  <1>1. Target(h) \in DOMAIN run
    BY HopFacts DEF TimelineInv
  <1>2. IsReleased(Target(h)) /\ ~CanDepart(h)
    BY <1>1, Quiet
  <1>3. Dependency(h)
    BY DEF Dependency
  <1> QED
    BY <1>2, <1>3, NoTokenAwaited DEF CanDepart

-----------------------------------------------------------------------------
(* Then every task has run: of what has not, something waits for nothing.  *)

Unit(w, t) == IF \E g \in OtfGroups(w) : t \in g THEN CHOOSE g \in OtfGroups(w) : t \in g ELSE {t}

LEMMA UnitFacts ==
    ASSUME TimelineTypes, NEW t \in DOMAIN work.task
    PROVE  /\ t \in Unit(work, t)
           /\ \A g \in OtfGroups(work) : t \in g => Unit(work, t) = g
           /\ (\A g \in OtfGroups(work) : t \notin g) => Unit(work, t) = {t}
  <1>1. IsWorkload(work)
    BY WorkFacts
  <1>2. CASE \E g \in OtfGroups(work) : t \in g
    <2>1. Unit(work, t) \in OtfGroups(work) /\ t \in Unit(work, t)
      BY <1>2 DEF Unit
    <2> QED
      BY <1>1, <1>2, <2>1, GroupsDisjoint
  <1>3. CASE ~\E g \in OtfGroups(work) : t \in g
    BY <1>3 DEF Unit
  <1> QED
    BY <1>2, <1>3

\* In a frame, of the units that have not run, one has all that it needs from others.
LEMMA FirstUnit ==
    ASSUME TimelineTypes, Untangled(work), NEW k \in Frames, NEW t \in DOMAIN work.task,
           work.task[t].own = 0, run[<<t, k>>].state # "done"
    PROVE  \E u \in DOMAIN work.task :
               /\ work.task[u].own = 0 /\ run[<<u, k>>].state # "done"
               /\ \A h \in DOMAIN hop : h[2] = k /\ Unit(work, h[1][2]) = Unit(work, u)
                                        /\ Unit(work, h[1][1]) # Unit(work, u) => run[Source(h)].state = "done"
  <1> DEFINE Left(u) == work.task[u].own = 0 /\ run[<<u, k>>].state # "done"
             part == {Unit(work, u) : u \in {v \in DOMAIN work.task : Left(v)}}
             between == {<<Unit(work, e[1]), Unit(work, e[2])>> : e \in DOMAIN work.edge}
             arcs == {e \in between : e[1] # e[2]}
             nodes == {Unit(work, u) : u \in DOMAIN work.task}
  <1>0. IsWorkload(work)
    BY WorkFacts
  <1>1. IsAcyclic(nodes, arcs)
    <2> DEFINE unit == [u \in DOMAIN work.task |-> Unit(work, u)]
               pairs == {<<unit[e[1]], unit[e[2]]>> : e \in DOMAIN work.edge}
    <2>1. IsAcyclic({unit[u] : u \in DOMAIN work.task}, {e \in pairs : e[1] # e[2]})
      BY DEF Untangled, Unit
    <2>2. {unit[u] : u \in DOMAIN work.task} = nodes
      OBVIOUS
    <2>3. \A e \in DOMAIN work.edge : e[1] \in DOMAIN work.task /\ e[2] \in DOMAIN work.task
      BY <1>0 DEF IsWorkload
    <2>4. \A e \in DOMAIN work.edge : unit[e[1]] = Unit(work, e[1]) /\ unit[e[2]] = Unit(work, e[2])
      BY <2>3
    <2> HIDE DEF unit
    <2>5. pairs = between
      BY <2>4
    <2> QED
      BY <2>1, <2>2, <2>5
  <1>2. part \in SUBSET nodes /\ part # {}
    <2>1. Left(t)
      OBVIOUS
    <2> HIDE DEF Left
    <2> QED
      BY <2>1
  <1>3. PICK first \in part : \A other \in part : <<other, first>> \notin arcs
    BY <1>1, <1>2 DEF IsAcyclic
  <1>4. PICK u \in DOMAIN work.task : Left(u) /\ first = Unit(work, u)
    BY <1>3
  <1>5. ASSUME NEW h \in DOMAIN hop, h[2] = k, Unit(work, h[1][2]) = Unit(work, u),
               Unit(work, h[1][1]) # Unit(work, u), run[Source(h)].state # "done"
        PROVE  FALSE
    <2>1. h[1] \in DOMAIN work.edge
      BY HopFacts
    <2>2. h[1][1] \in DOMAIN work.task /\ work.task[h[1][1]].own = 0
      BY <1>0, <2>1 DEF IsWorkload
    <2>3. Left(h[1][1])
      BY <1>5, <2>2 DEF Source
    <2> HIDE DEF Left
    <2>4. Unit(work, h[1][1]) \in part
      BY <2>2, <2>3
    <2>5. <<Unit(work, h[1][1]), Unit(work, h[1][2])>> \in between
      BY <2>1
    <2>6. <<Unit(work, h[1][1]), first>> \in arcs
      BY <1>4, <1>5, <2>5
    <2> QED
      BY <1>3, <2>4, <2>6
  <1> QED
    BY <1>4, <1>5

LEMMA InvEveryTaskRuns ==
    ASSUME TimelineInv
    PROVE  EveryTaskRuns
  <1> SUFFICES ASSUME Finished, Untangled(work), NEW x \in DOMAIN run, run[x].state # "done" PROVE FALSE
    BY DEF EveryTaskRuns
  <1>1. TimelineTypes /\ GroupsFollow /\ IsAccepted(work) /\ IsWorkload(work)
    BY WorkFacts DEF TimelineInv, TimelineTypes
  <1>2. \A y \in DOMAIN run : run[y].state \in {"blocked", "done"} /\ IsReleased(y) /\ ~CanBeReady(y)
    BY OnlyBlocked, Quiet
  <1>3. CASE work.task[x[1]].own # 0
    <2>1. ~InGroup(x)
      <3>1. ASSUME NEW g \in GroupsOf(x) PROVE FALSE
        <4>1. g \in DOMAIN stream /\ x[1] \in g[1]
          BY DEF GroupsOf
        <4>2. g[1] \in OtfGroups(work)
          BY <1>1, <4>1, StreamFacts
        <4> QED
          BY <1>1, <1>3, <4>1, <4>2, GroupFacts
      <3> QED
        BY <3>1 DEF InGroup
    <2>2. \A h \in Inputs(x) : FALSE
      <3> TAKE h \in Inputs(x)
      <3>1. h \in DOMAIN hop /\ h[1][2] = x[1]
        BY DEF Inputs
      <3>2. h[1] \in DOMAIN work.edge
        BY <1>1, <3>1, HopFacts
      <3> QED
        BY <1>1, <1>3, <3>1, <3>2 DEF IsWorkload
    <2>3. CanBeReady(x)
      BY <1>2, <2>1, <2>2 DEF CanBeReady, Arrived
    <2> QED
      BY <1>2, <2>3
  <1>4. CASE work.task[x[1]].own = 0
    <2> DEFINE k == x[2]
    <2>1. x = <<x[1], k>> /\ x[1] \in DOMAIN work.task /\ k \in Frames
      BY <1>1, <1>4, RunFacts
    <2>2. PICK t \in DOMAIN work.task :
               /\ work.task[t].own = 0 /\ run[<<t, k>>].state # "done"
               /\ \A h \in DOMAIN hop : h[2] = k /\ Unit(work, h[1][2]) = Unit(work, t)
                                        /\ Unit(work, h[1][1]) # Unit(work, t) => run[Source(h)].state = "done"
      BY <1>1, <1>4, <2>1, FirstUnit
    <2>3. PICK y : y = <<t, k>>
      OBVIOUS
    <2>4. y \in DOMAIN run /\ run[y].state = "blocked" /\ y[1] = t /\ y[2] = k
      BY <1>1, <1>2, <2>1, <2>2, <2>3, RunFacts
    <2>5. \A h \in DOMAIN hop : h[1][1] \in DOMAIN work.task /\ h[1][2] \in DOMAIN work.task
      <3> TAKE h \in DOMAIN hop
      <3>1. h[1] \in DOMAIN work.edge
        BY <1>1, HopFacts
      <3> QED
        BY <1>1, <3>1 DEF IsWorkload
    <2>6. CASE InGroup(y)
      <3>1. PICK g \in GroupsOf(y) : TRUE
        BY <2>6 DEF InGroup
      <3>2. g \in DOMAIN stream /\ t \in g[1] /\ g[2] = k
        BY <2>4 DEF GroupsOf
      <3>3. y \in Members(g) /\ g[1] \in OtfGroups(work) /\ Members(g) \subseteq DOMAIN run
        BY <1>1, <2>4, <3>1, <3>2, StreamFacts
      <3>4. stream[g].state = "blocked"
        BY <1>1, <2>4, <3>2, <3>3, OnlyBlocked DEF GroupsFollow, IsOver
      <3>5. ~GroupIsFed(g)
        BY <1>2, <3>2, <3>3, <3>4, Quiet DEF CanGather
      <3>6. PICK h \in GroupInputs(g) : hop[h].state # "arrived"
        BY <3>5 DEF GroupIsFed, Arrived
      <3>7. h \in DOMAIN hop /\ Target(h) \in Members(g)
        BY <1>1, <3>2, <3>6, StreamFacts
      <3>8. h[1][2] \in g[1] /\ h[2] = k
        BY <3>2, <3>7 DEF Target, Members
      <3>9. h[1][1] \notin g[1]
        BY DEF GroupInputs
      <3>10. Unit(work, h[1][2]) = g[1] /\ Unit(work, t) = g[1] /\ h[1][1] \in Unit(work, h[1][1])
        BY <1>1, <2>5, <3>2, <3>3, <3>7, <3>8, UnitFacts
      <3>11. run[Source(h)].state = "done"
        BY <2>2, <3>7, <3>8, <3>9, <3>10
      <3>12. ~IsInternal(h)
        <4>1. ASSUME NEW j \in DOMAIN stream, Source(h) \in Members(j), Target(h) \in Members(j) PROVE FALSE
          <5>1. j = g
            BY <1>1, <3>2, <3>7, <4>1, StreamFacts
          <5>2. h[1][1] \in g[1]
            BY <4>1, <5>1 DEF Source, Members
          <5> QED
            BY <3>9, <5>2
        <4> QED
          BY <4>1 DEF IsInternal
      <3> QED
        BY <3>6, <3>7, <3>11, <3>12, GivenArrived
    <2>7. CASE ~InGroup(y)
      <3>1. ~Arrived(Inputs(y))
        BY <1>2, <2>4, <2>7 DEF CanBeReady
      <3>2. PICK h \in Inputs(y) : hop[h].state # "arrived"
        BY <3>1 DEF Arrived
      <3>3. h \in DOMAIN hop /\ Target(h) = y /\ h[1][2] = t /\ h[2] = k
        BY <1>1, <2>4, <3>2, InputFacts DEF Inputs
      <3>4. h[1][1] # t
        <4>1. h[1] = <<h[1][1], h[1][2]>> /\ h[1] \in DOMAIN work.edge
          BY <1>1, <3>3, HopFacts
        <4>2. {t} \in SUBSET DOMAIN work.task /\ {t} # {}
          OBVIOUS
        <4>3. <<t, t>> \notin DOMAIN work.edge
          BY <1>1, <4>2 DEF IsAccepted, IsAcyclic
        <4> QED
          BY <3>3, <4>1, <4>3
      <3>5. \A g \in OtfGroups(work) : t \notin g
        <4> TAKE g \in OtfGroups(work)
        <4>1. <<g, k>> \in DOMAIN stream
          BY <1>1, <2>1 DEF TimelineTypes, Streams
        <4> QED
          BY <2>4, <2>7, <4>1 DEF InGroup, GroupsOf
      <3>6. Unit(work, t) = {t} /\ h[1][1] \in Unit(work, h[1][1])
        BY <1>1, <2>5, <3>3, <3>5, UnitFacts
      <3>7. run[Source(h)].state = "done"
        BY <2>2, <3>3, <3>4, <3>6
      <3>8. ~IsInternal(h)
        <4>1. ASSUME NEW j \in DOMAIN stream, y \in Members(j) PROVE FALSE
          BY <1>1, <2>4, <2>7, <4>1, StreamFacts
        <4> QED
          BY <3>3, <4>1 DEF IsInternal
      <3> QED
        BY <3>2, <3>3, <3>7, <3>8, GivenArrived
    <2> QED
      BY <2>6, <2>7
  <1>5. work.task[x[1]].own \in Nat
    BY <1>1, RunFacts DEF IsWorkload
  <1> QED
    BY <1>3, <1>4

-----------------------------------------------------------------------------
(* The theorems.                                                           *)

\* Who waits for and who uses a resource or a token is in its queue or among its
\* users, groups reserve in order, and what travels and starts follows what it
\* depends on, in every simulation (build_timeline_events).
THEOREM TimelineInvHolds == TimelineSpec => []TimelineInv
  <1>1. TimelineInit => TimelineInv
    BY TimelineInvInit
  <1>2. TimelineInv /\ [TimelineNext]_timelineVars => TimelineInv'
    BY TimelineInvStep
  <1> QED
    BY <1>1, <1>2, PTL DEF TimelineSpec

\* Every task of every frame is simulated, however streaming groups overlap; no
\* task starts before what it consumes is there; and no resource runs more tasks
\* than it has places (run_task, run_otf_group, run_edge_transfer).
THEOREM SimulatesEveryTask == TimelineSpec => []TimelineHolds
  <1>1. TimelineInv => TimelineHolds
    BY InvEveryTaskRuns, InvConsumersFollow, InvCapacityHolds DEF TimelineHolds
  <1> QED
    BY <1>1, TimelineInvHolds, PTL
=============================================================================
