----------------------------- MODULE MCAnswers -----------------------------
(***************************************************************************)
(* What the threads of an API process share: the CPU pool (CpuPool), the   *)
(* rule and facets caches (ServingCaches), the result cache (ResultCache); *)
(* how an answer comes about: a request is admitted (AdmissionSlots), a    *)
(* variant is resolved (VariantResolution), judged (ReviewGate) and        *)
(* simulated (Timeline) along its graph (GraphWalks); and how it reaches a *)
(* page: pages share calculations (SharedCalculations) and run an analysis *)
(* (CpuAnalysis).  These components share no state, so TLC explores each   *)
(* of them by itself: part names the component that moves; the others stay *)
(* in an initial state, and there is nothing to walk through or to read    *)
(* where graphs or variants are not what moves.                            *)
(***************************************************************************)
EXTENDS CpuPool, ServingCaches, ResultCache, AdmissionSlots, SharedCalculations, ReviewGate, CpuAnalysis,
        GraphWalks, Timeline, TimelineGraphs, VariantResolution, TLC

CONSTANTS a1, a2, a3, k1, k2

VARIABLE part

poolVars == vars

\* Batches, threads, requests and subscribers have the same names, keys and processes too.
ThreeThreads == {a1, a2, a3}
TwoKeys == {k1, k2}
SmallAndLarge == {1, 2}

Points2 == INSTANCE CpuPool WITH NPoints <- 2

\* What rows say: dictionaries over the keys x and y, whose values are leaves or
\* dictionaries over a and b; a row may speak of the same key in both its fields.
Key(k, value) == [j \in {k} |-> value]
Content(c, o, p) == [conditions |-> c, override |-> o, patch |-> p]
Silent == Content(NoKeys, NoKeys, <<>>)
Overlays == {Silent,
             Content(Key("x", Leaf(1)), NoKeys, <<"m">>),
             Content(Key("x", Dict(Key("a", 1))), Key("x", Dict(Key("b", 1))), <<"n", "m">>),
             Content(Key("x", Dict(Key("a", 2))), Key("x", Leaf(2)), <<"m", "m">>),
             Content(Key("x", Dict(Key("b", 2))), NoKeys, <<"o">>),
             Content(Key("y", Leaf(3)), Key("x", Dict(Key("a", 3))), <<"n">>),
             Content(NoKeys, Key("x", Dict([k \in {"a", "b"} |-> 4])), <<"o", "n">>)}
Line == {<<1, 2>>, <<2, 3>>, <<3, Absent>>}
Web == {<<1, 2>>, <<1, Absent>>, <<2, 1>>, <<2, 3>>, <<2, Absent>>, <<3, 1>>, <<3, Absent>>}

\* Every overlay of a variant, its parent and its grandparent; and rows that say
\* nothing, of which two commits between the rounds may turn parents around.
VariantRow(p, content) == [id |-> p[1], parent |-> p[2], content |-> content]
LineRows == {VariantRow(p, c) : p \in Line, c \in Overlays}
WebRows == {VariantRow(p, Silent) : p \in Web}
MCWritable == LineRows \cup WebRows
IsTableOf(rows) == \A v \in VariantIds : table[v] \in {Absent} \cup rows

\* Every rule on every variant; two commits while the gate reads.
Documents == INSTANCE ReviewDocuments
MCDatabases == Documents!EveryRule \cup Documents!Before \cup {Documents!Quiet}
MCLoads == Documents!Changes

\* Of calls of the page.
Either == {TRUE, FALSE}

\* Every list of three edges between three nodes, of four between some of them, and
\* two edges beside a control edge and an edge to nowhere; every list of pairs of
\* three items.
Flow(i, j, type) == [from |-> i, to |-> j, type |-> type]
Edges == {Flow(i, j, "OTF") : i, j \in 1..3}
Crossing == {Flow(1, 2, "M2M"), Flow(2, 1, "OTF"), Flow(2, 3, "vOTF"), Flow(3, 1, "OTF")}
MCFlows == [1..3 -> Edges] \cup [1..4 -> Crossing]
           \cup {<<Flow(1, 2, "M2M"), Flow(2, 1, t), Flow(2, 4, "OTF")>> : t \in {"control", "vOTF"}}
Stages == {[ms |-> ms, pairs |-> pairs] : ms \in {<<1, 2, 2>>, <<2, 1, 1>>, <<1, 1, 3>>},
                                          pairs \in [1..3 -> (1..3) \X (1..3)]}
ThreeNodes == 1..3

-----------------------------------------------------------------------------
MCInit ==
    /\ part \in {"leases", "points", "caches", "results", "slots", "rules", "verdicts", "timeline", "sharing", "comparing",
                "overtaking", "walks", "overlays", "rounds"}
    /\ IF part = "points" THEN Points2!Init ELSE Init
    /\ CachesInit /\ (part # "caches" => rules.loaded)
    /\ ResultInit /\ SlotsInit /\ SharedInit /\ PageInit
    /\ GateInit /\ stored \in CASE part = "rules" -> Documents!EveryRule
                               [] part = "verdicts" -> Documents!Before
                               [] OTHER -> {Documents!Quiet}
    /\ TimelineInit /\ (part # "timeline" => work = NoTasks)
    /\ IF part = "walks" THEN WalksInit ELSE walk = [over |-> "nothing"] /\ queue = 0 /\ indegree = 0
    /\ IF part \in {"overlays", "rounds"} THEN TRUE ELSE table = [v \in VariantIds |-> Absent]
    /\ ResolutionInit /\ (part = "overlays" => IsTableOf(LineRows)) /\ (part = "rounds" => IsTableOf(WebRows))

InThreads == UNCHANGED <<timelineVars, slotVars, pageVars, sharedVars, resolutionVars, gateVars, walkVars>>
InAnswers == UNCHANGED <<poolVars, cacheVars, resultVars, pageVars, sharedVars>>
InPage == UNCHANGED <<poolVars, cacheVars, resultVars, timelineVars, slotVars, resolutionVars, gateVars, walkVars>>

MCNext ==
    \* Three batches of one point without a shutdown; two batches, for the third never
    \* asks, of two points and one size with a shutdown.
    /\ \/ /\ \/ part = "leases" /\ Next /\ batch'[Stopper].pc = "idle"
             \/ part = "points" /\ Points2!Next /\ batch'[a3].pc = "idle" /\ \A b \in Batches : batch'[b].size <= 1
          /\ InThreads /\ UNCHANGED <<cacheVars, resultVars>>
       \* Two requests of three threads at a time.
       \/ part = "caches" /\ CachesNext /\ (\E t \in RequestThreads : thread'[t] = Idle) /\ InThreads /\ UNCHANGED <<poolVars, resultVars>>
       \/ part = "results" /\ ResultNext /\ InThreads /\ UNCHANGED <<poolVars, cacheVars>>
       \/ /\ part = "timeline" /\ TimelineNext
          /\ InAnswers /\ UNCHANGED <<slotVars, resolutionVars, gateVars, walkVars>>
       \* Three requests in two processes of two slots, on a host with two.
       \/ /\ part = "slots" /\ SlotsNext
          /\ InAnswers /\ UNCHANGED <<timelineVars, resolutionVars, gateVars, walkVars>>
       \* One variant and what it inherits; or any, with commits between the rounds
       \* (before them every table is the first of some behaviour, after them none is read).
       \/ /\ part \in {"overlays", "rounds"} /\ ResolutionNext
          /\ IF part = "overlays" THEN table' = table /\ Cardinality(reader'.wants) <= 1 ELSE IsTableOf(WebRows)'
          /\ reader.at # "fetching" => table' = table
          /\ InAnswers /\ UNCHANGED <<timelineVars, slotVars, gateVars, walkVars>>
       \/ /\ part \in {"rules", "verdicts"} /\ GateNext /\ (part = "rules" => writes' = 0)
          /\ InAnswers /\ UNCHANGED <<timelineVars, slotVars, resolutionVars, walkVars>>
       \/ /\ part = "walks" /\ WalksNext
          /\ InAnswers /\ UNCHANGED <<timelineVars, slotVars, resolutionVars, gateVars>>
       \* Two calls with comparisons; three without, whose history stays.
       \/ /\ \/ part = "comparing" /\ PageNext /\ call'[3].mode = "none"
             \/ part = "overtaking" /\ PageNext /\ ~ClearHistory /\ \A w \in Calls : ~call'[w].cmp
          /\ InPage /\ UNCHANGED sharedVars
       \/ part = "sharing" /\ SharedNext /\ InPage /\ UNCHANGED pageVars
    /\ UNCHANGED part

MCSpec == MCInit /\ [][MCNext]_<<part, poolVars, cacheVars, resultVars, timelineVars, slotVars, pageVars,
                                 sharedVars, resolutionVars, gateVars, walkVars>>

Symmetry == Permutations({a1, a2, a3})

=============================================================================
