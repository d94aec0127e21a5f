----------------------------- MODULE ReviewGate -----------------------------
(***************************************************************************)
(* The review gate of a variant (review_gate/engine.py), beside the two    *)
(* other readers of the same issue rules: the query engine and the         *)
(* matched-issues endpoint.  A request of the gate loads its graph in one  *)
(* statement after another (scenario_graph.py), and PostgreSQL shows each  *)
(* statement what is committed when it begins; writers commit in between.  *)
(* One scenario and one variant of it are modelled: what is about another  *)
(* scenario is an issue or a waiver that is not Here.                      *)
(***************************************************************************)
EXTENDS MatchRules

CONSTANTS Databases,   \* what may be stored when a request begins
          Loads,       \* what one commit may write: rows for the tables it names
          MaxWrites    \* bound of the model: commits while a request reads

VARIABLES stored,  \* variant, evidence, issues, waivers, rules: the latter four by id
          writes,  \* commits while the request reads
          gate     \* the request: rows it has read, and what a reader would say of it

gateVars == <<stored, writes, gate>>

GraphTables == {"variant", "evidence", "issues", "waivers", "rules"}

\* Feature flags are a dictionary, and the rules of issues have gone through the
\* validation of documents.
IsRow(table, rows) ==
    /\ table = "variant" => rows.flags = [k \in DOMAIN rows.flags |-> rows.flags[k]]
    /\ table = "issues" =>
         \A i \in DOMAIN rows : \A a \in rows[i] : a.rule = NoRule \/ IsStored(a.rule)
ASSUME GateAssumption ==
    /\ MaxWrites \in Nat
    /\ \A d \in Databases : DOMAIN d = GraphTables /\ \A table \in GraphTables : IsRow(table, d[table])
    /\ \A load \in Loads :
         /\ "variant" \in DOMAIN load => IsRow("variant", load.variant)
         /\ "issues" \in DOMAIN load =>
              \A i \in DOMAIN load.issues : \A a \in load.issues[i] :
                  "rule" \in DOMAIN a /\ (a.rule = NoRule \/ IsAuthored(a.rule))

\* Operators whose names begin with Faulty are plausible mistakes in the
\* definition they precede; nothing here uses them (README, "Mutants").

-----------------------------------------------------------------------------
(* What rules are evaluated against.                                       *)

VariantContext(v) == [axis |-> v.axis, sw |-> Over(v.required, v.flags)]
EvidenceContext(v, e) == [axis |-> Over(e.execution, v.axis), sw |-> Over(e.checks, Over(v.required, v.flags))]
FromVariant(v) == [axis |-> v.axis, sw |-> v.flags]

Contexts(v, evidence) == {VariantContext(v)} \cup {EvidenceContext(v, e) : e \in evidence}
Rows(table) == {table[i] : i \in DOMAIN table}
\* An issue is the set of its affects entries.
Affects(issue, ctx) == \E a \in issue : a.here /\ Hits(a.rule, ctx)

\* The gate: against the variant and every evidence of it, simulated or measured.
FaultyMatchIssues(g) == {i \in DOMAIN g.issues : Affects(g.issues[i], VariantContext(g.variant))}
MatchIssues(g) ==
    {i \in DOMAIN g.issues : \E ctx \in Contexts(g.variant, Rows(g.evidence)) : Affects(g.issues[i], ctx)}

\* The query engine: against the variant and its latest simulated evidence.
LatestEvidence(d) ==
    LET simulated == {e \in Rows(d.evidence) : e.simulated}
    IN  {e \in simulated : \A f \in simulated : f.at <= e.at}
MatchedIssueIds(d) ==
    {i \in DOMAIN d.issues : \E ctx \in Contexts(d.variant, LatestEvidence(d)) : Affects(d.issues[i], ctx)}

\* The endpoint: against the variant as it is stored.
MatchIssuesForVariant(d) == {i \in DOMAIN d.issues : Affects(d.issues[i], FromVariant(d.variant))}

-----------------------------------------------------------------------------
(* Waivers, gate rules and the verdict.                                    *)

WaiverApplies(w, g) ==
    /\ w.here /\ Hits(w.rule, VariantContext(g.variant))
    /\ w.execution = NoRule \/ \E e \in Rows(g.evidence) : Hits(w.execution, EvidenceContext(g.variant, e))
Waived(g) == {g.waivers[w].issue : w \in {x \in DOMAIN g.waivers : /\ g.waivers[x].status = "approved"
                                                                 /\ WaiverApplies(g.waivers[x], g)}}
MissingWaivers(g) == MatchIssues(g) \ Waived(g)

\* A gate rule without severities is for every variant, one without a condition
\* for none; one evidence has to meet all of the condition.
GateRuleApplies(rule, v) == rule.severities = {} \/ v.severity \in rule.severities
MatchOperator(actual, c) == CASE c.op = "in" -> actual \in c.value
                              [] c.op = "not_empty" -> (actual # Missing) = c.value
                              [] c.op = "eq" -> actual = c.value
                              [] c.op = "ne" -> actual # c.value
MatchGateCondition(rule, evidence) ==
    /\ DOMAIN rule.condition # {}
    /\ \E e \in evidence : \A path \in DOMAIN rule.condition :
          MatchOperator(IF path \in DOMAIN e.doc THEN e.doc[path] ELSE Missing, rule.condition[path])
CheckGateRules(g) ==
    {g.rules[r].result : r \in {x \in DOMAIN g.rules : /\ GateRuleApplies(g.rules[x], g.variant)
                                                     /\ MatchGateCondition(g.rules[x], Rows(g.evidence))}}
    \cup (CASE g.variant.resolved = "FAIL" -> {"BLOCK"} [] g.variant.resolved = "WARN" -> {"WARN"}
            [] g.variant.resolved = "PASS" -> {})
    \cup (IF MatchIssues(g) = {} THEN {} ELSE {"WARN"})

DeriveStatus(g) ==
    LET checks == CheckGateRules(g)
    IN  CASE "BLOCK" \in checks -> "BLOCK"
          [] "BLOCK" \notin checks /\ MissingWaivers(g) # {} -> "WAIVER_REQUIRED"
          [] "BLOCK" \notin checks /\ MissingWaivers(g) = {} -> IF "WARN" \in checks THEN "WARN" ELSE "PASS"

-----------------------------------------------------------------------------
(* A request of the gate, and the commits it meets.                       *)

\* The order of the statements.
FaultyOrder == <<"variant", "evidence", "waivers", "issues", "rules">>
Order == <<"variant", "evidence", "issues", "waivers", "rules">>

\* Which issues match, and by what: the set of an evidence, or nothing but the variant.
MatchedBy(d) ==
    {x \in (DOMAIN d.issues) \X ({{}} \cup {{e} : e \in DOMAIN d.evidence}) :
        \E ctx \in IF x[2] = {} THEN {VariantContext(d.variant)}
                   ELSE {EvidenceContext(d.variant, d.evidence[e]) : e \in x[2]} : Affects(d.issues[x[1]], ctx)}
\* Issues that an approved waiver names; those that none covers whatever the variant is.
Approved(d) == {w \in Rows(d.waivers) : w.status = "approved"}
Named(d) == {w.issue : w \in Approved(d)}
Bare(d) == DOMAIN d.issues
           \ {w.issue : w \in {x \in Approved(d) : x.here /\ x.rule = NoRule /\ x.execution = NoRule}}

GateInit == /\ stored \in Databases
            /\ writes = 0
            /\ gate = [step |-> 0, read |-> stored, steady |-> MatchedBy(stored),
                        named |-> Named(stored), bare |-> Bare(stored)]

Read == /\ gate.step < Len(Order)
        /\ gate' = [gate EXCEPT !.step = @ + 1, !.read[Order[gate.step + 1]] = stored[Order[gate.step + 1]]]
        /\ UNCHANGED <<stored, writes>>

UpsertIssues(documents) ==
    [i \in DOMAIN documents |-> {[a EXCEPT !.rule = Stored(@)] : a \in documents[i]}]
UpsertWaivers(documents) == [w \in DOMAIN documents |-> [documents[w] EXCEPT !.rule = Stored(@)]]

\* A commit of another transaction: a load with all its documents, or a write.
Written(d, load) == [d EXCEPT !.variant = IF "variant" \in DOMAIN load THEN load.variant ELSE @,
                              !.evidence = IF "evidence" \in DOMAIN load THEN Over(load.evidence, @) ELSE @,
                              !.issues = IF "issues" \in DOMAIN load THEN Over(UpsertIssues(load.issues), @) ELSE @,
                              !.waivers = IF "waivers" \in DOMAIN load THEN Over(UpsertWaivers(load.waivers), @) ELSE @]
\* For the properties: what matched in every state while the request read, as long
\* as the variant and the evidence it matched by stayed, and what was named or bare
\* in one of them.
Follow(d) ==
    gate' = [gate EXCEPT !.steady = {x \in @ \cap MatchedBy(d) :
                                       /\ d.variant = stored.variant
                                       /\ \A e \in x[2] : d.evidence[e] = stored.evidence[e]},
                         !.named = @ \cup Named(d), !.bare = @ \cup Bare(d)]
Commit(d) == /\ 0 < gate.step /\ gate.step < Len(Order)
             /\ writes < MaxWrites /\ d # stored
             /\ stored' = d /\ writes' = writes + 1
             /\ Follow(d)

Load == \E load \in Loads : Commit(Written(stored, load))
\* Simulated evidence may be deleted.
DeleteEvidence == \E e \in DOMAIN stored.evidence :
    /\ stored.evidence[e].simulated
    /\ Commit([stored EXCEPT !.evidence = [f \in DOMAIN @ \ {e} |-> @[f]]])

GateNext == Read \/ Load \/ DeleteEvidence

GateSpec == GateInit /\ [][GateNext]_gateVars

-----------------------------------------------------------------------------
(* What should hold.                                                       *)

\* A rule hits only what it is about, whatever an erroneous condition may have been
\* meant to say, and it misses nothing it is about when it has no such condition and
\* names an alternative (runner.py:41-56).
RulesMeanWhatTheySay == \A i \in DOMAIN stored.issues : \A a \in stored.issues[i] : a.rule # NoRule =>
    \A ctx \in Contexts(stored.variant, Rows(stored.evidence)) \cup {FromVariant(stored.variant)} :
        /\ Evaluate(a.rule, ctx) = "yes" => Means(a.rule, ctx)
        /\ Means(a.rule, ctx) /\ Complete(a.rule) /\ ~Erroneous(a.rule, ctx) => Evaluate(a.rule, ctx) = "yes"

\* The three readers of the issue rules agree as far as their contexts go: what the
\* query engine lists the gate counts, and so do both with what the endpoint lists,
\* for a variant without required features.
ReadersAgree == /\ MatchedIssueIds(stored) \subseteq MatchIssues(stored)
                /\ DOMAIN stored.variant.required = {} => MatchIssuesForVariant(stored) \subseteq MatchedIssueIds(stored)

\* Rules hit what they are about, and their readers agree.
RulesAgree == RulesMeanWhatTheySay /\ ReadersAgree

\* A verdict made of rows of several writes is still one of them, as to what stayed:
\* an issue that matched all along is counted, and asked a waiver for if nothing ever
\* named it; and no waiver is asked for an issue that has always had one, though both
\* be committed while the gate reads (scenario_graph.py:182-208).
VerdictHolds == gate.step = Len(Order) =>
    LET matched == {x[1] : x \in gate.steady}
    IN  /\ matched \subseteq MatchIssues(gate.read)
        /\ matched # {} => DeriveStatus(gate.read) # "PASS"
        /\ matched \ gate.named # {} => DeriveStatus(gate.read) \in {"WAIVER_REQUIRED", "BLOCK"}
        /\ MissingWaivers(gate.read) \subseteq gate.bare

\* A waiver applies to a variant that meets what its author wrote: the test of the
\* gate has a waiver with a list of all conditions and nothing else
\* (tests/unit/test_runtime_projection.py:97-154).
WaiversApplyAsWritten == \A w \in Approved(stored) :
    w.here /\ w.execution = NoRule /\ w.rule # NoRule /\ Means(w.rule, VariantContext(stored.variant))
    => WaiverApplies(w, stored)
=============================================================================
