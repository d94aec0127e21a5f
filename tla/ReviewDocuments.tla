--------------------------- MODULE ReviewDocuments ---------------------------
(* What TLC runs ReviewGate on: rules over a size, a temperature that may be *)
(* text and a feature flag, in variants, evidence, issues and waivers.       *)
EXTENDS MatchRules, TLC

On(subject, key, op, value) == [subject |-> subject, key |-> key, op |-> op, value |-> value]
Large == On("axis", "size", "in", {2, 3})
Hot == On("axis", "thermal", "gte", 3)
Off == On("sw", "llc", "ne", 2)
Known == On("axis", "thermal", "exists", TRUE)

OneOf == Stored([all |-> <<Large>>, any |-> <<Hot, Off>>])
NoneOf == Stored([any |-> <<Off, Large>>, none |-> <<Off, Hot>>])
WithSw == Stored([any |-> <<Known>>, none |-> <<Hot>>, sw |-> [any |-> <<Off>>]])
AllOnly == [all |-> <<Large>>]
Rules == {NoRule, OneOf, NoneOf, WithSw, Stored(AllOnly)}

Here(rule) == [here |-> TRUE, rule |-> rule]
Elsewhere == [here |-> FALSE, rule |-> NoRule]
Waiver(i, rule, execution, status) ==
    [issue |-> i, here |-> TRUE, rule |-> rule, execution |-> execution, status |-> status]

NoRows == [i \in {} |-> 0]
Variant(axis, flags, required, resolved) ==
    [axis |-> axis, flags |-> flags, required |-> required, severity |-> "heavy", resolved |-> resolved]
Evidence(simulated, at, execution, checks, doc) ==
    [simulated |-> simulated, at |-> at, execution |-> execution, checks |-> checks, doc |-> doc]
Database(v, e, i, w, r) == [variant |-> v, evidence |-> e, issues |-> i, waivers |-> w, rules |-> r]

\* The text is 1, a missing value 0.
Variants == {Variant(axis, flags, required, "PASS")
             : axis \in {"size" :> 2, "size" :> 3 @@ "thermal" :> 1, "size" :> 4 @@ "thermal" :> 3},
               flags \in {NoRows, "llc" :> 2}, required \in {NoRows, "llc" :> 2, "llc" :> 3}}
Heated == Evidence(TRUE, 1, "thermal" :> 3, NoRows, "feasible" :> 2)
Cooled == Evidence(TRUE, 2, "thermal" :> 2, "llc" :> 2, "feasible" :> 3)
Measured == Evidence(FALSE, 3, "thermal" :> 4, "llc" :> 3, NoRows)
Runs == {NoRows, "e1" :> Heated, "e1" :> Heated @@ "e2" :> Cooled, "e2" :> Cooled @@ "e3" :> Measured}

Expr(op, value) == [op |-> op, value |-> value]
Blocks == [severities |-> {"heavy"}, result |-> "BLOCK",
           condition |-> "feasible" :> Expr("in", {3}) @@ "power" :> Expr("ne", 2)]
Warns == [severities |-> {}, result |-> "WARN",
          condition |-> "feasible" :> Expr("not_empty", TRUE) @@ "power" :> Expr("eq", 0)]
GateRules == "r1" :> Blocks @@ "r2" :> Warns

\* Nothing to judge.
Quiet == Database(Variant(NoRows, NoRows, NoRows, "PASS"), NoRows, NoRows, NoRows, NoRows)

\* Every rule on every variant with every evidence.
EveryRule == {Database(v, e, "i1" :> {Elsewhere, Here(r)}, NoRows, GateRules) : v \in Variants, e \in Runs, r \in Rules}

\* What commits change while the gate reads.
Cold == Variant("size" :> 2, NoRows, NoRows, "PASS")
Warm == Variant("size" :> 2 @@ "thermal" :> 3, "llc" :> 2, NoRows, "WARN")
Unscoped(i) == Waiver(i, NoRule, NoRule, "approved")
Before == {Database(v, e, i, w, NoRows)
           : v \in {Cold, Warm}, e \in {"e1" :> Heated, "e2" :> Cooled @@ "e3" :> Measured},
             i \in {NoRows, "i1" :> {Here(OneOf)}},
             w \in {NoRows, "w1" :> Unscoped("i1"), "w1" :> Waiver("i1", OneOf, [all |-> <<Hot>>], "approved")}}
Changes == {[issues |-> "i2" :> {Here(NoRule)}, waivers |-> "w2" :> Unscoped("i2")],
            [waivers |-> "w1" :> Waiver("i1", NoRule, NoRule, "revoked")],
            [issues |-> "i1" :> {Here([any |-> <<Known>>, none |-> <<Hot>>])}],
            [evidence |-> "e4" :> Heated],
            [variant |-> Warm]}
Arrives == {[waivers |-> "w1" :> Waiver("i1", AllOnly, NoRule, "approved")]}
=============================================================================
