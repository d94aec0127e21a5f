--------------------------- MODULE TimelineGraphs ---------------------------
(* The graphs on which TLC runs Timeline: every graph of three tasks over   *)
(* two frames with one of four edges, or none, between each two tasks; two  *)
(* overlapping groups with offsets beside tasks that share their resources; *)
(* tasks with a cadence of their own; and graphs with a budget.             *)
EXTENDS Naturals, Sequences, TLC

CONSTANTS A, B, C, D

MCTokens == {3}
MCCapacity == <<1, 1, 1>>

Task(r, d) == [duration |-> d, byFrame |-> <<>>, offset |-> 0, resource |-> r, sink |-> FALSE, own |-> 0]
Edge(type, delay, token) == [type |-> type, delay |-> delay, token |-> token]
Kinds == {Edge("OTF", 0, 0), Edge("VOTF", 1, 3), Edge("M2M", 0, 0), Edge("M2M", 1, 3)}
Graph(edge, task) == [frames |-> 2, period |-> 1, budget |-> 0, edge |-> edge, task |-> task]

Shapes == {{<<A, B>>, <<B, C>>, <<A, C>>}, {<<A, B>>, <<B, C>>, <<C, A>>}}
Tables == UNION {[E -> Kinds] : E \in UNION {SUBSET shape : shape \in Shapes}}

ThreeTasks == {Graph(e, A :> Task(p[1], 1) @@ B :> Task(p[2], 2) @@ C :> Task(p[3], 1))
               : e \in Tables, p \in {<<1, 1, 1>>, <<1, 2, 1>>, <<2, 1, 0>>}}

Late(r, d) == [Task(r, d) EXCEPT !.offset = 1]
TwoGroups == {Graph(<<A, B>> :> Edge("OTF", 0, 0) @@ <<C, D>> :> Edge("OTF", 0, 0),
                    A :> Task(p[1], 1) @@ B :> Late(p[2], 2) @@ C :> Task(p[3], 1) @@ D :> Late(p[4], 1))
              : p \in {<<1, 2, 2, 1>>, <<1, 2, 1, 2>>, <<2, 2, 1, 2>>}}

Varied == [Task(1, 1) EXCEPT !.byFrame = <<2, 1>>]
Own == [Task(1, 1) EXCEPT !.own = 2]
Cadences == {[Graph(<<A, B>> :> k, A :> Varied @@ B :> Late(2, 1) @@ C :> Own @@ D :> Task(1, 1))
              EXCEPT !.period = n] : k \in Kinds, n \in {0, 3}}

Budgets == {[Graph(<<A, B>> :> k, A :> Task(1, 1) @@ B :> Task(2, 2) @@ C :> Task(1, 1))
             EXCEPT !.budget = b, !.frames = f, !.task[C].sink = TRUE]
            : k \in Kinds, b \in 1..3, f \in 1..2}

NoTasks == Graph([e \in {} |-> 0], [t \in {} |-> 0])
MCGraphs == {NoTasks} \cup ThreeTasks \cup TwoGroups \cup Cadences \cup Budgets

\* Two tasks without a timing profile share the CPU and take no time.
MCInstant == {[Graph(<<A, B>> :> Edge("M2M", 0, 0), A :> Task(1, 0) @@ B :> Task(1, 0) @@ C :> Task(2, 3))
              EXCEPT !.budget = b] : b \in 0..1}
             \cup {[Graph(<<A, C>> :> Edge("M2M", 0, 0) @@ <<B, C>> :> Edge("M2M", 0, 0),
                          A :> Task(1, 0) @@ B :> Task(1, 0) @@ C :> Task(2, 3)) EXCEPT !.budget = b] : b \in 0..2}
=============================================================================
