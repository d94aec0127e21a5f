----------------------------- MODULE GraphWalks -----------------------------
(***************************************************************************)
(* Two walks through graphs by Kahn's algorithm: the check that the data   *)
(* flow of a pipeline has no cycle (graph_checks.py: find_data_flow_cycle),*)
(* before every write and load of a scenario, and the critical path of a   *)
(* stage (sim/cpu_sched.py: longest_path).  The queue of nodes that are    *)
(* ready starts from a set of strings, whose order differs from one        *)
(* process to the next: any node of it may be the next.                    *)
(***************************************************************************)
EXTENDS Naturals, FiniteSets, Sequences

CONSTANTS Nodes,  \* 1..n; a smaller node has the smaller name
          Flows,  \* edge lists of the pipelines checked: [from, to, type]
          Orders  \* pairs of items of the stages, with the time of each item

ASSUME WalkAssumption ==
    /\ IsFiniteSet(Nodes) /\ Nodes \subseteq Nat \ {0}
    /\ Flows \subseteq Seq([from : Nat, to : Nat, type : STRING])
    /\ Orders \subseteq [ms : Seq(Nat), pairs : Seq(Nat \X Nat)]

VARIABLES walk,   \* what is walked, and how far
          queue, indegree

walkVars == <<walk, queue, indegree>>

\* Operators whose names begin with Faulty are plausible mistakes in the
\* definition they precede; nothing here uses them (README, "Mutants").

-----------------------------------------------------------------------------
DataFlowEdgeTypes == {"OTF", "vOTF", "M2M"}

\* The places in their list of edges between known nodes that carry data.
DataFlow(edges) == {i \in DOMAIN edges : edges[i].type \in DataFlowEdgeTypes /\ {edges[i].from, edges[i].to} \subseteq Nodes}
\* Pairs of different items; a pair given twice counts once.
Pairs(stage) == {p \in {stage.pairs[i] : i \in DOMAIN stage.pairs} : p[1] # p[2] /\ {p[1], p[2]} \subseteq DOMAIN stage.ms}

\* Parallel edges count one by one.
Incoming(n) == {i \in walk.flow : walk.edges[i].to = n}
Outgoing(n) == {i \in walk.flow : walk.edges[i].from = n}
NotYet == DOMAIN indegree \ walk.done
Degrees(d) == /\ indegree = d /\ queue = {n \in DOMAIN d : d[n] = 0}

WalksInit ==
    \/ \E edges \in Flows :
          /\ walk = [over |-> "flow", edges |-> edges, flow |-> DataFlow(edges), done |-> {}]
          /\ Degrees([n \in Nodes |-> Cardinality(Incoming(n))])
    \/ \E stage \in Orders :
          /\ walk = [over |-> "stage", stage |-> stage, pairs |-> Pairs(stage), end |-> stage.ms, done |-> {}]
          /\ Degrees([n \in DOMAIN stage.ms |-> Cardinality({p \in Pairs(stage) : p[2] = n})])

\* A node of the queue is eliminated: every edge from it counts down its target.
FaultyEliminate(n) ==
    LET targets == {walk.edges[i].to : i \in Outgoing(n)}
        left == [m \in Nodes |-> IF m \in targets THEN indegree[m] - 1 ELSE indegree[m]]
    IN  /\ walk.over = "flow" /\ n \in queue
        /\ walk' = [walk EXCEPT !.done = @ \cup {n}]
        /\ indegree' = left
        /\ queue' = (queue \ {n}) \cup {m \in targets : left[m] = 0}
Eliminate(n) ==
    LET left == [m \in Nodes |-> indegree[m] - Cardinality(Outgoing(n) \cap Incoming(m))]
    IN  /\ walk.over = "flow" /\ n \in queue
        /\ walk' = [walk EXCEPT !.done = @ \cup {n}]
        /\ indegree' = left
        /\ queue' = (queue \ {n}) \cup {walk.edges[i].to : i \in {j \in Outgoing(n) : left[walk.edges[j].to] = 0}}

\* An item of the queue has its end: what comes after it ends no earlier.
Later(a, b) == IF a < b THEN b ELSE a
Extend(a) ==
    LET after == {p[2] : p \in {q \in walk.pairs : q[1] = a}}
        left == [b \in DOMAIN indegree |-> IF b \in after THEN indegree[b] - 1 ELSE indegree[b]]
    IN  /\ walk.over = "stage" /\ a \in queue
        /\ walk' = [walk EXCEPT !.done = @ \cup {a},
                        !.end = [b \in DOMAIN indegree |->
                            IF b \in after THEN Later(walk.end[b], walk.end[a] + walk.stage.ms[b]) ELSE walk.end[b]]]
        /\ indegree' = left
        /\ queue' = (queue \ {a}) \cup {b \in after : left[b] = 0}

WalksNext == (\E n \in Nodes : Eliminate(n)) \/ (\E a \in DOMAIN indegree : Extend(a))

WalksSpec == WalksInit /\ [][WalksNext]_walkVars

-----------------------------------------------------------------------------
(* The answers, when the queue is empty.                                   *)

Least(S) == CHOOSE n \in S : \A m \in S : n <= m

\* Backwards from the least node left over, along the first edge that comes from
\* another, until a node comes again; FirstFrom is 0 when there is none.
FirstFrom(n) ==
    LET edges == {i \in Incoming(n) : walk.edges[i].from \in NotYet}
    IN  IF edges = {} THEN 0 ELSE walk.edges[Least(edges)].from
Backwards[k \in 1..Cardinality(Nodes) + 1] == IF k = 1 THEN Least(NotYet) ELSE FirstFrom(Backwards[k - 1])

\* The closed cycle in the direction of the edges, or none.
FindDataFlowCycle ==
    IF NotYet = {} THEN <<>>
    ELSE LET last == Least({k \in 2..Cardinality(Nodes) + 1 : \E j \in 1..k - 1 : Backwards[j] = Backwards[k]})
             first == Least({j \in 1..last - 1 : Backwards[j] = Backwards[last]})
         IN  [i \in 1..last - first + 1 |-> Backwards[last - i + 1]]

LongestPath == LET S == {walk.end[n] : n \in DOMAIN walk.end}
               IN  IF S = {} THEN 0 ELSE CHOOSE t \in S : \A u \in S : u <= t

-----------------------------------------------------------------------------
(* What should hold.                                                       *)

\* The paths along edges that meet no node twice.
SimplePaths(nodes, edges) ==
    {p \in UNION {[1..n -> nodes] : n \in 1..Cardinality(nodes)} :
        /\ \A i, j \in DOMAIN p : p[i] = p[j] => i = j
        /\ \A i \in 1..Len(p) - 1 : <<p[i], p[i + 1]>> \in edges}
Final(p) == p[Len(p)]
FlowEdges == {<<walk.edges[i].from, walk.edges[i].to>> : i \in walk.flow}
FlowPaths == SimplePaths(Nodes, FlowEdges)
OnACycle == {n \in Nodes : \E p \in FlowPaths : p[1] = n /\ <<Final(p), n>> \in FlowEdges}
Behind(S) == {n \in Nodes : \E p \in FlowPaths : p[1] \in S /\ Final(p) = n}

\* When nothing is ready any more, whatever the order was, what is left over is what
\* lies on a cycle or behind one, and the answer is a cycle of the data flow, through
\* each of its nodes once, exactly when there is one.
CyclesAreFound == (walk.over = "flow" /\ queue = {}) =>
    LET c == FindDataFlowCycle
    IN  /\ NotYet = Behind(OnACycle)
        /\ (c = <<>>) = (OnACycle = {})
        /\ c # <<>> => /\ Len(c) > 1 /\ c[1] = c[Len(c)]
                       /\ \A i \in 1..Len(c) - 1 : <<c[i], c[i + 1]>> \in FlowEdges
                       /\ \A i, j \in 2..Len(c) : c[i] = c[j] => i = j

\* The critical path of a stage without cycles is its longest path, whatever the
\* order of the queue was.
Time(p) == LET upTo[i \in DOMAIN p] == walk.stage.ms[p[i]] + IF i = 1 THEN 0 ELSE upTo[i - 1]
           IN  upTo[Len(p)]
CriticalPathIsLongest == (walk.over = "stage" /\ queue = {}) =>
    LET paths == SimplePaths(DOMAIN walk.stage.ms, walk.pairs)
        times == {Time(p) : p \in paths}
    IN  (paths # {} /\ \A p \in paths : <<Final(p), p[1]>> \notin walk.pairs) =>
            LongestPath \in times /\ \A t \in times : t <= LongestPath

WalksAreRight == CyclesAreFound /\ CriticalPathIsLongest
=============================================================================
