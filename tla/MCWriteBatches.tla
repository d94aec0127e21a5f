--------------------------- MODULE MCWriteBatches ---------------------------
(* Instances of WriteBatches for TLC. *)
EXTENDS WriteBatches

CONSTANTS s1, s2, v1, v2, n1, n2, b1, b2, b3, r1, r2

OneScenario == {s1}
TwoScenarios == {s1, s2}
TwoVariants == {v1, v2}
TwoNodes == {n1, n2}
TwoBatches == {b1, b2}
TwoRequests == {r1, r2}

RefersTo(ns, par) == [refs |-> ns, parent |-> par]
OnlyV1(o) == [v \in TwoVariants |-> IF v = v1 THEN o ELSE None]
Both(o1, o2) == [v \in TwoVariants |-> IF v = v1 THEN o1 ELSE o2]

\* Two versions of one file with the same pipeline; the second needs node n2.
Small == [base |-> {n1, n2}, variants |-> OnlyV1(RefersTo({n1}, None))]
Large == [base |-> {n1, n2}, variants |-> Both(RefersTo({n1}, None), RefersTo({n2}, v1))]
\* A document whose variant refers to a node it does not have, and one whose variant
\* derives from a variant it does not have.
Unfit == [base |-> {n1}, variants |-> OnlyV1(RefersTo({n2}, None))]
Dangling == [base |-> {n1, n2}, variants |-> OnlyV1(RefersTo({n1}, v2))]
SomeDocuments == {Small, Large, Unfit, Dangling}
TwoFiles == {Small, Large}

OverlayV1 == [kind |-> "overlay", scenario |-> s1, variant |-> v1, overlay |-> RefersTo({n2}, None)]
OverlayV1OnV2 == [kind |-> "overlay", scenario |-> s1, variant |-> v1, overlay |-> RefersTo({n1}, v2)]
OverlayV2OnV1 == [kind |-> "overlay", scenario |-> s1, variant |-> v2, overlay |-> RefersTo({n1}, v1)]
DropN2 == [kind |-> "patch", scenario |-> s1, remove |-> {n2}, add |-> {}]
AddN2 == [kind |-> "patch", scenario |-> s1, remove |-> {}, add |-> {n2}]
ImportSmall == [kind |-> "import", docs |-> [s \in {s1} |-> Small]]
ImportLarge == [kind |-> "import", docs |-> [s \in {s1} |-> Large]]
ImportUnfit == [kind |-> "import", docs |-> [s \in {s1} |-> Unfit]]
ImportBoth == [kind |-> "import", docs |-> [s \in {s1, s2} |-> Small]]

AllKinds == {OverlayV1, OverlayV2OnV1, DropN2, AddN2, ImportLarge, ImportUnfit}
Overlays == {OverlayV1OnV2, OverlayV2OnV1}
Bundles == {ImportSmall, OverlayV1}
BothAndDrop == {ImportBoth, DropN2}
OnlySmall == {Small}
=============================================================================
