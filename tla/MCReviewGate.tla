---------------------------- MODULE MCReviewGate ----------------------------
(* Instances of ReviewGate for TLC. *)
EXTENDS ReviewGate

Documents == INSTANCE ReviewDocuments
Databases0 == Documents!Before
Loads0 == Documents!Arrives
=============================================================================
