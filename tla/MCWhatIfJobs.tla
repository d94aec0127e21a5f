---------------------------- MODULE MCWhatIfJobs ----------------------------
(* Instances of WhatIfJobs for TLC. *)
EXTENDS WhatIfJobs

CONSTANTS j1, j2, p1, p2

OneJob == {j1}
TwoJobs == {j1, j2}
OneProc == {p1}
TwoProcs == {p1, p2}
=============================================================================
