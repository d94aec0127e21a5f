------------------------------- MODULE MCJobs -------------------------------
(***************************************************************************)
(* WhatIfJobs in two parts, of which part names the one TLC explores: one  *)
(* job that is submitted, cancelled and resumed in two API processes, one  *)
(* of which may begin its shutdown with a request in flight; and two jobs  *)
(* in the other process, whose threads compete for its one slot.           *)
(***************************************************************************)
EXTENDS MCWhatIfJobs

VARIABLE part

\* What a part leaves out: the second job; the first process and expired leases.
Within(c) == CASE c = "takeover" -> row[j2].status = "absent"
               [] c = "shared" -> /\ ~flag[p1]
                                  /\ \A t \in Tokens : worker[t].pc # "unborn" => worker[t].proc = p2
                                  /\ \A j \in Jobs : Active(j) => row[j].lease

MCInit == part \in {"takeover", "shared"} /\ Init
MCNext == UNCHANGED part /\ Next /\ Within(part)'
MCSpec == MCInit /\ [][MCNext]_<<part, vars>>
=============================================================================
