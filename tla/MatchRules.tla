----------------------------- MODULE MatchRules -----------------------------
(***************************************************************************)
(* The rules by which issues and waivers say what they are about           *)
(* (matcher/runner.py, matcher/context.py).  A rule has sections of        *)
(* conditions; sw_conditions has sections of its own.  Every evaluation    *)
(* yields "yes", "no" or "error", an exception that callers take for "no". *)
(***************************************************************************)
EXTENDS Naturals, Sequences

CONSTANT NoRule  \* an issue or a waiver without a match_rule

\* Operators whose names begin with Faulty are plausible mistakes in the
\* definition they precede; nothing here uses them (README, "Mutants").

Missing == 0  \* None: the context has no such key
Text == 1     \* a value that cannot be compared with a number; the others are numbers

\* A dictionary updated: {**g, **f}.
Over(f, g) == [k \in DOMAIN f \cup DOMAIN g |-> IF k \in DOMAIN f THEN f[k] ELSE g[k]]

\* model_dump writes every list of a rule, those the author left out as empty
\* lists; what is not a list is left out when it is None.
Sections == {"all", "any", "none"}
Listed(r) == [k \in Sections |-> IF k \in DOMAIN r THEN r[k] ELSE <<>>]
Stored(r) == IF r = NoRule THEN NoRule
             ELSE IF "sw" \in DOMAIN r THEN Over([k \in {"sw"} |-> Listed(r[k])], Listed(r)) ELSE Listed(r)

\* A context has design conditions (axis) and feature flags (sw).  A condition on a
\* subject it does not have, such as sw_version, compares with None.
Actual(c, ctx) == IF /\ c.subject \in DOMAIN ctx
                     /\ c.key \in DOMAIN ctx[c.subject] THEN ctx[c.subject][c.key] ELSE Missing

\* What an operator asks of a value; the order of a text and a number is an exception.
Met(c, actual) == CASE c.op = "eq" -> actual = c.value
                    [] c.op = "ne" -> actual # c.value
                    [] c.op = "in" -> actual \in c.value
                    [] c.op = "exists" -> (actual # Missing) = c.value
                    [] c.op = "gte" -> actual # Missing /\ actual >= c.value
EvalLeaf(c, ctx) == LET actual == Actual(c, ctx)
                    IN  CASE c.op = "gte" /\ actual = Text -> "error"
                          [] OTHER -> IF Met(c, actual) THEN "yes" ELSE "no"

\* all() and any() stop at the first outcome that decides.
Decided(outcomes, undecided) ==
    LET deciding == {i \in DOMAIN outcomes : outcomes[i] # undecided}
    IN  IF deciding = {} THEN undecided
        ELSE outcomes[CHOOSE i \in deciding : \A j \in deciding : i <= j]
AllOf(outcomes) == Decided(outcomes, "yes")
AnyOf(outcomes) == Decided(outcomes, "no")
Not(outcome) == CASE outcome = "yes" -> "no" [] outcome = "no" -> "yes" [] outcome = "error" -> "error"
Outcomes(conditions, ctx) == [i \in DOMAIN conditions |-> EvalLeaf(conditions[i], ctx)]

FaultySection(r, k, ctx) ==
    LET outcomes == Outcomes(r[k], ctx)
    IN  CASE k = "all" -> AllOf(outcomes) [] k = "any" -> AnyOf(outcomes)
          [] k = "none" -> IF AnyOf(outcomes) = "yes" THEN "no" ELSE "yes"
Section(r, k, ctx) ==
    LET outcomes == Outcomes(r[k], ctx)
    IN  CASE k = "all" -> AllOf(outcomes) [] k = "any" -> AnyOf(outcomes) [] k = "none" -> Not(AnyOf(outcomes))

\* What a rule does not have it does not demand.
Lists(r, ctx) == [i \in 1..3 |-> LET k == <<"all", "any", "none">>[i]
                                 IN  IF k \in DOMAIN r THEN Section(r, k, ctx) ELSE "yes"]
Evaluate(r, ctx) ==
    AllOf(<<AllOf(Lists(r, ctx)), IF "sw" \in DOMAIN r THEN AllOf(Lists(r["sw"], ctx)) ELSE "yes">>)
Hits(r, ctx) == r = NoRule \/ Evaluate(r, ctx) = "yes"

-----------------------------------------------------------------------------
\* Lists of conditions; a rule as authors write it, and as it is stored.
Conditional(r) == \A k \in Sections \cap DOMAIN r : DOMAIN r[k] \subseteq Nat
IsAuthored(r) == /\ DOMAIN r \subseteq Sections \cup {"sw"}
                 /\ Conditional(r)
                 /\ "sw" \in DOMAIN r => DOMAIN r["sw"] \subseteq Sections /\ Conditional(r["sw"])
IsStored(r) == /\ IsAuthored(r)
               /\ Sections \subseteq DOMAIN r
               /\ "sw" \in DOMAIN r => Sections \subseteq DOMAIN r["sw"]

\* The sections of a rule: its own, and those of its sw_conditions.
Parts(r) == {r} \cup (IF "sw" \in DOMAIN r THEN {r["sw"]} ELSE {})

\* What a rule means, however its erroneous conditions are decided: a section that
\* has no conditions demands nothing.
Means(r, ctx) ==
    LET Holds(c, erroneous) == EvalLeaf(c, ctx) = "yes" \/ (EvalLeaf(c, ctx) = "error" /\ erroneous)
        Every(s, e) == \A i \in DOMAIN s : Holds(s[i], e)
        Some(s, e) == \E i \in DOMAIN s : Holds(s[i], e)
    IN  \A q \in Parts(r), e \in BOOLEAN :
            /\ Every(q["all"], e)
            /\ q["any"] = <<>> \/ Some(q["any"], e)
            /\ ~Some(q["none"], e)
Erroneous(r, ctx) == \E q \in Parts(r) : \E k \in Sections : \E i \in DOMAIN q[k] : EvalLeaf(q[k][i], ctx) = "error"
Complete(r) == \A q \in Parts(r) : q["any"] # <<>>
=============================================================================
