----------------------------- MODULE MCTimeline -----------------------------
(* Instances of Timeline for TLC. *)
EXTENDS Timeline, TimelineGraphs
=============================================================================
