---------------------------- MODULE MCModelBases ----------------------------
(* An instance of ModelBases for TLC. *)
EXTENDS ModelBases

CONSTANTS r1, r2, c1

TwoSessions == {r1, r2}
OneContent == {c1}
=============================================================================
