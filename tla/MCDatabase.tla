----------------------------- MODULE MCDatabase -----------------------------
(***************************************************************************)
(* What the database is left with by reviewed writes (WriteBatches), by    *)
(* bases and registrations (ModelBases), by simulations and exports        *)
(* (SimulationEvidence), by the review of a project (ProjectReview) and by *)
(* calibrations of power parameters (PowerFit).                            *)
(* These components share no rows, so TLC explores each of them by itself: *)
(* part names the one that moves, and what it uses of the constants; the   *)
(* others stay in an initial state.                                        *)
(***************************************************************************)
EXTENDS MCWriteBatches, ModelBases, ProjectReview, SimulationEvidence, PowerFit, TLC

CONSTANTS c1, k1, k2, p1, p2, q1, q2, r3, w1, x1, x2, x3, S1, S2

VARIABLE part \* the component that moves, and which of its requests do

-----------------------------------------------------------------------------
(* What the parts use of the constants.                                    *)

\* ModelBases: a long history of one variant; two variants and a basis; an edit of
\* what a basis froze; two bases over one variant; two trials of one basis.
OneContent == {c1}
Bounds(variants, bases, preds, trials, edits) ==
    [variants |-> variants, bases |-> bases, preds |-> preds, trials |-> trials, edits |-> edits]
BasisParts == [chains |-> Bounds(1, 1, 4, 1, 0), pairs |-> Bounds(2, 1, 2, 1, 0), edits |-> Bounds(1, 1, 3, 1, 1),
               bases |-> Bounds(1, 2, 1, 1, 1), trials |-> Bounds(1, 1, 2, 2, 1)]
Within(c) == /\ inputs <= c.edits
             /\ \A b \in Bases : basis[b].trial <= c.trials /\ (b > c.bases => basis[b].status = "absent")
             /\ \A p \in Preds : p > c.preds => pred[p].status = "absent"
             /\ \A r \in Sessions : req[r].todo \subseteq 1..c.variants

\* SimulationEvidence: three exports beside one run; two runs that race, beside
\* one export.
ThreeRuns == {r1, r2, r3}
ThreeExports == {x1, x2, x3}
EvidenceParts == [exports |-> [run |-> {r3}, export |-> {x1, x2, x3}], saving |-> [run |-> {r1, r2}, export |-> {x3}]]
Asked(c) == /\ \A r \in Runs \ c.run : RunAt(r, "idle")
            /\ \A x \in Exports \ c.export : ExportAt(x, "idle")

\* ProjectReview: two reports and two edits over two risks; a report beside two
\* recordings and a withdrawal of snapshots.
TwoKeys == {k1, k2}
TwoReports == {p1, p2}
TwoRecorders == {q1, q2}
OneWithdrawal == {w1}
ReviewParts == [register |-> [firing |-> {k1, k2}, tx |-> {p1, p2} \cup Editors],
                snapshots |-> [firing |-> {k1}, tx |-> {p1} \cup Recorders \cup Withdraw]]
Involved(c) == firing \subseteq c.firing /\ \A q \in Transactions \ c.tx : InStep(q, "idle")

\* PowerFit: parameters of two SoCs, among them two of one stem, and documents to
\* load.
Params(id, soc, version) == [id |-> id, soc |-> soc, version |-> version]
SomeParams == {Params(<<p1, 1>>, S1, 1), Params(<<p2, 0>>, S1, 2), Params(<<p1, 0>>, S2, 2)}
SomeAuthored == {Params(<<p1, 3>>, S1, 3), Params(<<p2, 4>>, S1, 3), Params(<<p1, 2>>, S2, 1)}

-----------------------------------------------------------------------------
MCInit ==
    /\ part \in {"writes", "versions"} \cup DOMAIN BasisParts \cup DOMAIN EvidenceParts \cup DOMAIN ReviewParts
    /\ Init /\ BasesInit /\ EvidenceInit /\ FitInit /\ ReviewInit
    /\ IF part \in DOMAIN ReviewParts THEN Involved(ReviewParts[part]) ELSE firing = {}

MCNext ==
    \/ /\ part = "writes" /\ Next
       /\ UNCHANGED <<part, basesVars, evidenceVars, reviewVars, fitVars>>
    \/ /\ part \in DOMAIN BasisParts
       /\ UNCHANGED part /\ BasesNext /\ Within(BasisParts[part])'
       /\ UNCHANGED <<vars, evidenceVars, reviewVars, fitVars>>
    \/ /\ part \in DOMAIN EvidenceParts
       /\ UNCHANGED part /\ EvidenceNext /\ Asked(EvidenceParts[part])'
       /\ UNCHANGED <<vars, basesVars, reviewVars, fitVars>>
    \/ /\ part \in DOMAIN ReviewParts
       /\ UNCHANGED part /\ ReviewNext /\ Involved(ReviewParts[part])'
       /\ UNCHANGED <<vars, basesVars, evidenceVars, fitVars>>
    \/ /\ part = "versions" /\ FitNext
       /\ UNCHANGED <<part, vars, basesVars, evidenceVars, reviewVars>>

MCSpec == MCInit /\ [][MCNext]_<<part, vars, basesVars, evidenceVars, reviewVars, fitVars>>

\* In each component two requests that are alike change places.
Alike == {<<r1, r2>>, <<q1, q2>>, <<x1, x2>>}
Symmetry == {f \in Permutations({r1, r2, q1, q2, x1, x2}) :
                \/ \A a \in Alike : f[a[1]] = a[1] /\ f[a[2]] = a[2]
                \/ \A a \in Alike : f[a[1]] = a[2] /\ f[a[2]] = a[1]}
=============================================================================
