------------------------------ MODULE Timeline ------------------------------
(***************************************************************************)
(* The timing engine sim/timeline.py: a discrete-event simulation of a     *)
(* graph of tasks over several frames.                                     *)
(*                                                                         *)
(* Tasks joined by OTF edges form a streaming group, which starts and ends *)
(* as one and reserves its resources for its whole lifetime.  Other tasks  *)
(* run when their inputs have arrived and their resource is free; an input *)
(* travels along its edge and may need a token of a queue.  The event queue*)
(* serves what falls on one instant in some order: here, in any.           *)
(*                                                                         *)
(* When no event is left, the critical path is walked backwards.           *)
(*                                                                         *)
(* Resources are numbers, 0 is none; times are whole numbers; tasks are    *)
(* model values.  A task with a cadence of its own has no edge and no phase.*)
(***************************************************************************)
EXTENDS Integers, FiniteSets, Sequences, FiniteSetsExt

CONSTANTS Workloads,  \* task graphs with their frames
          Tokens,     \* the resources that are token queues
          Places      \* the capacity of each resource

(* A workload: frames, their period, the budget of the critical path or 0; *)
(* task, a table of tasks with duration, frame durations (byFrame, used    *)
(* cyclically, or empty), offset (latency in a streaming group), resource, *)
(* sink and own (the period of its own cadence or 0); edge, a table from   *)
(* pairs of tasks to type, delay and token.                                *)

VARIABLES work,   \* the workload of this simulation
          now,    \* env.now
          run,    \* the task runs
          hop,    \* the transfers along the edges of each frame
          stream, \* the streaming groups of each frame
          server, \* resources: who holds them, who waits
          chain   \* the critical path found so far, last run first

timelineVars == <<work, now, run, hop, stream, server, chain>>

Nothing == 0
Servers == DOMAIN Places

Resources == Servers \ Tokens

IsWorkload(w) ==
    /\ w.frames \in Nat \ {0} /\ w.period \in Nat
    /\ \A t \in DOMAIN w.task : LET task == w.task[t]
                               IN  task.offset \in Nat /\ task.own \in Nat /\ task.resource \in Resources \cup {Nothing}
    /\ \A e \in DOMAIN w.edge : /\ e \in (DOMAIN w.task) \X (DOMAIN w.task)
                                /\ w.task[e[1]].own = 0 /\ w.task[e[2]].own = 0
                                /\ w.edge[e].delay \in Nat /\ w.edge[e].token \in Tokens \cup {Nothing}
    \* What waits for a resource is a run of a task or of a group of tasks, not of both.
    /\ \A group \in SUBSET DOMAIN w.task : group \notin DOMAIN w.task

ASSUME TimelineAssumption ==
    /\ IsFiniteSet(Servers) /\ Servers \subseteq Nat \ {Nothing} /\ Tokens \subseteq Servers
    /\ \A s \in Servers : Places[s] \in Nat \ {0}
    /\ \A w \in Workloads : IsWorkload(w)

Streaming(e) == work.edge[e].type \in {"OTF", "VOTF"}

-----------------------------------------------------------------------------
\* Operators whose names begin with Faulty are plausible mistakes in the
\* definition they precede; nothing here uses them (README, "Mutants").

\* _otf_groups: the tasks connected by OTF edges in either direction.
Otf(w) == {e \in DOMAIN w.edge : w.edge[e].type = "OTF"}
IsClosed(w, S) == \A e \in Otf(w) : e[1] \in S <=> e[2] \in S
Component(w, t) == {u \in DOMAIN w.task : \A S \in SUBSET DOMAIN w.task : IsClosed(w, S) /\ t \in S => u \in S}
OtfGroups(w) == {Component(w, t) : t \in UNION {{e[1], e[2]} : e \in Otf(w)}}

\* Without cycles: in every part of the graph there is a first node.
IsAcyclic(nodes, arcs) ==
    \A part \in SUBSET nodes : part # {} => \E first \in part : \A other \in part : <<other, first>> \notin arcs

\* build_timeline_events refuses a graph with a cycle.
IsAccepted(w) == IsAcyclic(DOMAIN w.task, DOMAIN w.edge)

\* _expand_task_runs: the runs of a task, one a frame or as its own cadence has it.
Independent(w, t) == w.task[t].own > 0
CadenceRuns(w, t) ==
    IF w.period = 0 THEN w.frames ELSE Max({1, (w.frames * w.period + w.task[t].own - 1) \div w.task[t].own})
RunsOf(w, t) == IF Independent(w, t) THEN CadenceRuns(w, t) ELSE w.frames
Runs(w) == UNION {{t} \X (0..(RunsOf(w, t) - 1)) : t \in DOMAIN w.task}
ReleaseTime(x) == x[2] * (IF Independent(work, x[1]) THEN work.task[x[1]].own ELSE work.period)

TaskDuration(x) ==
    LET t == work.task[x[1]]
    IN  IF t.byFrame = <<>> \/ Independent(work, x[1]) THEN t.duration ELSE t.byFrame[1 + (x[2] % Len(t.byFrame))]
GroupsOf(x) == {g \in DOMAIN stream : x[1] \in g[1] /\ x[2] = g[2]}
InGroup(x) == GroupsOf(x) # {}
Members(g) == {<<t, g[2]>> : t \in g[1]}
GroupDuration(g) == Max({work.task[t].duration : t \in g[1]})

\* Transfers into a run; those inside a streaming group do not exist.
Inputs(x) == {h \in DOMAIN hop : h[1][2] = x[1] /\ h[2] = x[2]}
GroupInputs(g) == UNION {{h \in Inputs(x) : h[1][1] \notin g[1]} : x \in Members(g)}
GroupResources(g) == {work.task[t].resource : t \in g[1]} \ {Nothing}

NewRun == [state |-> "blocked", ready |-> 0, start |-> 0, end |-> 0]
NewHop == [state |-> "idle", since |-> 0, until |-> 0]
NewStream == [state |-> "blocked", base |-> 0]

TimelineInit == /\ work \in {w \in Workloads : IsAccepted(w)}
                /\ now = 0
                /\ run = [x \in Runs(work) |-> NewRun]
                /\ hop = [h \in (DOMAIN work.edge) \X (0..(work.frames - 1)) |-> NewHop]
                /\ stream = [g \in OtfGroups(work) \X (0..(work.frames - 1)) |-> NewStream]
                /\ server = [s \in Servers |-> [users |-> {}, queue |-> <<>>]]
                /\ chain = <<>>

Asked(s, who) == [server EXCEPT ![s].queue = Append(@, who)]
Freed(S, who) == [s \in Servers |-> [server[s] EXCEPT !.users = IF s \in S THEN @ \ {who} ELSE @]]

-----------------------------------------------------------------------------
(* Transfers (run_edge_ready, run_edge_transfer).                          *)

Target(h) == <<h[1][2], h[2]>>
Source(h) == <<h[1][1], h[2]>>
\* A run, or its group, looks at its inputs from its release on.
IsReleased(x) == now >= ReleaseTime(x)
IsInternal(h) == \E g \in DOMAIN stream : {Source(h), Target(h)} \subseteq Members(g)

FaultyDependency(h) == run[Source(h)].state \in {"running", "done"}
Dependency(h) == run[Source(h)].state \in IF Streaming(h[1]) THEN {"running", "done"} ELSE {"done"}

CanDepart(h) == hop[h].state = "idle" /\ ~IsInternal(h) /\ IsReleased(Target(h)) /\ Dependency(h)

Depart(h) ==
    LET e == work.edge[h[1]]
    IN  /\ CanDepart(h)
        /\ \/ /\ e.delay = 0
              /\ hop' = [hop EXCEPT ![h].state = "arrived"]
              /\ UNCHANGED server
           \/ /\ e.delay > 0 /\ e.token = Nothing
              /\ hop' = [hop EXCEPT ![h] = [state |-> "moving", since |-> now, until |-> now + e.delay]]
              /\ UNCHANGED server
           \/ /\ e.delay > 0 /\ e.token # Nothing
              /\ hop' = [hop EXCEPT ![h] = [state |-> "queued", since |-> now, until |-> now]]
              /\ server' = Asked(e.token, h)
        /\ UNCHANGED <<work, now, run, stream, chain>>

CanArrive(h) == hop[h].state = "moving" /\ hop[h].until = now
Arrive(h) == /\ CanArrive(h)
             /\ hop' = [hop EXCEPT ![h].state = "arrived"]
             /\ server' = Freed({work.edge[h[1]].token}, h)
             /\ UNCHANGED <<work, now, run, stream, chain>>

Arrived(H) == \A h \in H : hop[h].state = "arrived"

-----------------------------------------------------------------------------
(* Single tasks (run_task).                                                *)

CanBeReady(x) == run[x].state = "blocked" /\ ~InGroup(x) /\ IsReleased(x) /\ Arrived(Inputs(x))
BeReady(x) ==
    LET s == work.task[x[1]].resource
    IN  /\ CanBeReady(x)
        /\ run' = [run EXCEPT ![x] = [@ EXCEPT !.ready = now, !.start = now,
                                               !.state = IF s = Nothing THEN "running" ELSE "queued"]]
        /\ server' = IF s = Nothing THEN server ELSE Asked(s, x)
        /\ UNCHANGED <<work, now, hop, stream, chain>>

CanFinish(x) == run[x].state = "running" /\ ~InGroup(x) /\ run[x].start + TaskDuration(x) = now
FinishRun(x) == /\ CanFinish(x)
                /\ run' = [run EXCEPT ![x] = [@ EXCEPT !.state = "done", !.end = now]]
                /\ server' = Freed({work.task[x[1]].resource}, x)
                /\ UNCHANGED <<work, now, hop, stream, chain>>

-----------------------------------------------------------------------------
(* Streaming groups (run_otf_group, run_otf_group_task).                   *)

\* The next resource a group reserves, in sorted order.
FaultyNextResource(g, held) == LET rest == GroupResources(g) \ held IN IF g[2] % 2 = 0 THEN Min(rest) ELSE Max(rest)
NextResource(g, held) == Min(GroupResources(g) \ held)
Held(g) == {r \in Resources : g \in server[r].users}

GroupIsFed(g) == Arrived(GroupInputs(g))
CanGather(g) == stream[g].state = "blocked" /\ (\A x \in Members(g) : IsReleased(x)) /\ GroupIsFed(g)
Gather(g) ==
    /\ CanGather(g)
    /\ run' = [x \in DOMAIN run |-> IF x \in Members(g) THEN [run[x] EXCEPT !.ready = now] ELSE run[x]]
    /\ IF GroupResources(g) = {}
       THEN /\ stream' = [stream EXCEPT ![g] = [@ EXCEPT !.state = "streaming", !.base = now]]
            /\ UNCHANGED server
       ELSE /\ stream' = [stream EXCEPT ![g].state = "reserving"]
            /\ server' = Asked(NextResource(g, {}), g)
    /\ UNCHANGED <<work, now, hop, chain>>

\* The group holds all it needs: its members start, each after its offset.
StartOf(x, g) == stream[g].base + work.task[x[1]].offset
CanJoin(x, g) == stream[g].state = "streaming" /\ run[x].state = "blocked" /\ StartOf(x, g) = now
JoinGroup(x, g) == /\ CanJoin(x, g)
                   /\ run' = [run EXCEPT ![x] = [@ EXCEPT !.state = "running", !.start = now]]
                   /\ UNCHANGED <<work, now, hop, stream, server, chain>>

CanLeave(x, g) == stream[g].state = "streaming" /\ run[x].state = "running" /\ run[x].start + GroupDuration(g) = now
LeaveGroup(x, g) == /\ CanLeave(x, g)
                    /\ run' = [run EXCEPT ![x] = [@ EXCEPT !.state = "done", !.end = now]]
                    /\ UNCHANGED <<work, now, hop, stream, server, chain>>

IsOver(g) == \A x \in Members(g) : run[x].state = "done"
CanDissolve(g) == stream[g].state = "streaming" /\ IsOver(g)
Dissolve(g) == /\ CanDissolve(g)
               /\ stream' = [stream EXCEPT ![g].state = "over"]
               /\ server' = Freed(GroupResources(g), g)
               /\ UNCHANGED <<work, now, run, hop, chain>>

-----------------------------------------------------------------------------
(* Requests are served in their order while there is capacity.             *)

CanServe(s) == server[s].queue # <<>> /\ Cardinality(server[s].users) < Places[s]
Granted(s) == [server EXCEPT ![s] = [users |-> @.users \cup {Head(@.queue)}, queue |-> Tail(@.queue)]]

ServeRun(s) == /\ CanServe(s)
               /\ Head(server[s].queue) \in DOMAIN run
               /\ server' = Granted(s)
               /\ run' = [run EXCEPT ![Head(server[s].queue)] = [@ EXCEPT !.state = "running", !.start = now]]
               /\ UNCHANGED <<work, now, hop, stream, chain>>

ServeHop(s) == /\ CanServe(s)
               /\ server' = Granted(s)
               /\ LET h == Head(server[s].queue)
                  IN  hop' = [hop EXCEPT ![h] = [@ EXCEPT !.state = "moving", !.until = now + work.edge[h[1]].delay]]
               /\ UNCHANGED <<work, now, run, stream, chain>>

ServeGroup(s) ==
    /\ CanServe(s)
    /\ Head(server[s].queue) \in DOMAIN stream
    /\ LET g == Head(server[s].queue)
           held == Held(g) \cup {s}
       IN  IF held = GroupResources(g)
           THEN /\ stream' = [stream EXCEPT ![g] = [@ EXCEPT !.state = "streaming", !.base = now]]
                /\ server' = Granted(s)
           ELSE /\ UNCHANGED stream
                /\ server' = [Granted(s) EXCEPT ![NextResource(g, held)].queue = Append(@, g)]
    /\ UNCHANGED <<work, now, run, hop, chain>>

-----------------------------------------------------------------------------
(* Time passes when nothing is left to do now and something is timed.      *)

Instant == \/ \E h \in DOMAIN hop : CanDepart(h) \/ CanArrive(h)
           \/ \E x \in DOMAIN run : CanBeReady(x) \/ CanFinish(x)
           \/ \E g \in DOMAIN stream : CanGather(g) \/ CanDissolve(g) \/ \E x \in Members(g) : CanJoin(x, g) \/ CanLeave(x, g)
           \/ \E s \in Servers : CanServe(s)

IsTimed == \/ \E h \in DOMAIN hop : hop[h].state = "moving"
           \/ \E x \in DOMAIN run : run[x].state = "running" \/ now < ReleaseTime(x)
           \/ \E g \in DOMAIN stream : stream[g].state = "streaming"

Tick == /\ ~Instant
        /\ IsTimed
        /\ now' = now + 1
        /\ UNCHANGED <<work, run, hop, stream, server, chain>>

\* env.run() returns: no event is left.
Finished == ~Instant /\ ~IsTimed

-----------------------------------------------------------------------------
(* The critical path (_mark_critical_path), over the runs of the frames.   *)

HasStarted(x) == run[x].state \in {"running", "done"}
FrameRuns == {x \in DOMAIN run : ~Independent(work, x[1])}

\* _annotate_output_cadence: outputs that are finished less often than frames begin.
Endpoints == {t \in DOMAIN work.task : /\ ~Independent(work, t)
                                       /\ work.task[t].sink \/ \A e \in DOMAIN work.edge : e[1] # t}
LastFrame == work.frames - 1
Lateness(t) == run[<<t, LastFrame>>].end - run[<<t, 0>>].end - LastFrame * work.budget
LateEndpoints == {t \in Endpoints : work.frames > 1 /\ Lateness(t) > 0}

\* _runs_fit_frame_budget: nothing waited and nothing ran for longer than a frame.
FitsBudget ==
    IF work.frames > 1 THEN LateEndpoints = {}
    ELSE /\ \A x \in FrameRuns : ~InGroup(x) => run[x].start = run[x].ready /\ run[x].end - run[x].start <= work.budget
         /\ \A h \in DOMAIN hop : hop[h].until - hop[h].since <= work.edge[h[1]].delay
         /\ \A g \in DOMAIN stream :
                /\ \A x \in Members(g) : run[x].ready = stream[g].base
                /\ Max({run[x].end : x \in Members(g)}) - Min({run[x].start : x \in Members(g)}) <= work.budget

IsLater(x, y) == run[x].end > run[y].end \/ (run[x].end = run[y].end /\ run[x].start >= run[y].start)
Latest == {x \in FrameRuns : \A y \in FrameRuns : IsLater(x, y)}
MostLate == {<<t, LastFrame>> : t \in {u \in LateEndpoints : \A v \in LateEndpoints : Lateness(u) >= Lateness(v)}}

BeginPath(x) ==
    /\ Finished /\ chain = <<>>
    /\ work.budget > 0 => ~FitsBudget
    /\ x \in IF work.budget > 0 /\ LateEndpoints # {} THEN MostLate ELSE Latest
    /\ chain' = <<x>>
    /\ UNCHANGED <<work, now, run, hop, stream, server>>

\* _critical_parent: what made its results or the resource available last.
Feeding(x) == {[time |-> work.edge[h[1]].delay + IF Streaming(h[1]) THEN run[Source(h)].start ELSE run[Source(h)].end,
                by |-> Source(h)] : h \in Inputs(x)}
Before(x) == {y \in FrameRuns \ {x} : /\ work.task[y[1]].resource = work.task[x[1]].resource
                                       /\ work.task[x[1]].resource # Nothing
                                       /\ HasStarted(x) /\ HasStarted(y)
                                       /\ run[y].end <= run[x].start}
Vacating(x) == {[time |-> run[y].end, by |-> y] : y \in {z \in Before(x) : \A u \in Before(x) : run[u].end <= run[z].end}}
Candidates(x) == Feeding(x) \cup Vacating(x)
CriticalParents(x) == {c.by : c \in {d \in Candidates(x) : \A e \in Candidates(x) :
                  d.time > e.time \/ (d.time = e.time /\ run[d.by].start >= run[e.by].start)}}

ExtendPath(x) == /\ chain # <<>>
                 /\ x \in CriticalParents(chain[Len(chain)])
                 /\ chain' = Append(chain, x)
                 /\ UNCHANGED <<work, now, run, hop, stream, server>>

TimelineNext == \/ \E h \in DOMAIN hop : Depart(h) \/ Arrive(h)
                \/ \E x \in DOMAIN run : BeReady(x) \/ FinishRun(x) \/ BeginPath(x) \/ ExtendPath(x)
                \/ \E g \in DOMAIN stream : Gather(g) \/ Dissolve(g) \/ \E x \in Members(g) : JoinGroup(x, g) \/ LeaveGroup(x, g)
                \/ \E s \in Resources : ServeRun(s) \/ ServeGroup(s)
                \/ \E s \in Tokens : ServeHop(s)
                \/ Tick

TimelineSpec == TimelineInit /\ [][TimelineNext]_timelineVars

-----------------------------------------------------------------------------
(* Properties                                                              *)

\* The graph of the streaming groups and the single tasks.  A task between two
\* tasks of one group, say, leaves the group waiting for itself.
Untangled(w) ==
    LET groups == OtfGroups(w)
        unit == [t \in DOMAIN w.task |-> IF \E g \in groups : t \in g THEN CHOOSE g \in groups : t \in g ELSE {t}]
        between == {<<unit[e[1]], unit[e[2]]>> : e \in DOMAIN w.edge}
    IN  IsAcyclic({unit[t] : t \in DOMAIN w.task}, {e \in between : e[1] # e[2]})

\* When the simulation stops every task of every frame has run: no group waits for
\* a resource that another one holds, and no input was forgotten (run_otf_group,
\* "sorted acquisition prevents two overlapping groups from acquiring in reverse").
EveryTaskRuns == Finished /\ Untangled(work) => \A x \in DOMAIN run : run[x].state = "done"

\* A consumer starts when what it consumes is there: after its producer has ended,
\* or started where they stream, and after the transfer; also into and out of groups.
ConsumersFollow ==
    \A h \in DOMAIN hop : ~IsInternal(h) /\ HasStarted(Target(h)) =>
        /\ IF Streaming(h[1]) THEN HasStarted(Source(h)) ELSE run[Source(h)].state = "done"
        /\ run[Target(h)].start >= work.edge[h[1]].delay
                                   + IF Streaming(h[1]) THEN run[Source(h)].start ELSE run[Source(h)].end

\* A resource is used by no more tasks than it has room for; the tasks of a group
\* that share a resource take one place of it, until the last of the group ends.
Using(s) == {x \in DOMAIN run : run[x].state = "running" /\ work.task[x[1]].resource = s}
CapacityHolds ==
    \A s \in Resources :
        Cardinality({x \in Using(s) : ~InGroup(x)} \cup UNION {GroupsOf(x) : x \in Using(s)}) <= Places[s]

\* The simulation as a whole: every task run is simulated, whatever groups reserve;
\* it starts when what it consumes is there, and no resource runs more tasks than
\* it may.
TimelineHolds == EveryTaskRuns /\ ConsumersFollow /\ CapacityHolds

\* The walk back along the critical path meets no run twice, so it ends.
PathEnds == IsInjective(chain)
=============================================================================
