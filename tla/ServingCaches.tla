--------------------------- MODULE ServingCaches ---------------------------
(***************************************************************************)
(* The caches one API worker answers from: the decision rules              *)
(* (api/cache.py, RuleCache) and the query facets (query_engine/service.py)*)
(* with the requests that fill, refresh and invalidate them.  The rule     *)
(* cache has a lock, the facets cache is two fields of a dict that every   *)
(* request thread reads and writes as it likes.  Database contents are     *)
(* represented by the number of commits they include: every query sees the *)
(* latest commit, so the two queries of a load may see different ones.     *)
(***************************************************************************)
EXTENDS Naturals

CONSTANTS RequestThreads, \* of the worker
          NoThread,
          MaxCommits      \* bound of the model

ASSUME CachesAssumption == MaxCommits \in Nat /\ NoThread \notin RequestThreads

Versions == 0..MaxCommits

VARIABLES db,      \* commits so far: write batches of this worker and loads of others
          answered,\* the last commit whose apply_batch has answered
          rules,   \* the RuleCache: its two lists, loaded, and whether its TTL runs
          lock,    \* holder of _refresh_lock
          facets,  \* _FACETS_CACHE: value (a version, or NoValue) and expiry
          thread   \* the request of every thread

cacheVars == <<db, answered, rules, lock, facets, thread>>

NoValue == MaxCommits + 1

Phases == {"idle",
           "refresh", "recheck", "gates", "publish", "mark",        \* rules: load and publication
           "published", "read",
           "dropped", "expire", "build", "store", "extend", "return", "serve"} \* facets

\* kind: what the request is; own: the commit an apply made; got, gotGates: the
\* lists it loaded, then those it answers from; floor: the last answered write
\* when it began.
Thread == [pc : Phases, kind : {"none", "apply", "rules", "facets"}, own : Versions,
           got : Versions \cup {NoValue}, gotGates : Versions, floor : Versions]
Idle == [pc |-> "idle", kind |-> "none", own |-> 0, got |-> 0, gotGates |-> 0, floor |-> 0]

CachesTypeOK == /\ db \in Versions
                /\ answered \in Versions
                /\ rules \in [issues : Versions, gates : Versions, loaded : BOOLEAN, young : BOOLEAN]
                /\ lock \in RequestThreads \cup {NoThread}
                /\ facets \in [value : Versions \cup {NoValue}, young : BOOLEAN]
                /\ thread \in [RequestThreads -> Thread]

\* The server starts with loaded rules, or with none after three failed attempts.
CachesInit == /\ db = 0
              /\ answered = 0
              /\ \E ok \in BOOLEAN : rules = [issues |-> 0, gates |-> 0, loaded |-> ok, young |-> TRUE]
              /\ lock = NoThread
              /\ facets = [value |-> NoValue, young |-> FALSE]
              /\ thread = [t \in RequestThreads |-> Idle]

\* Operators whose names begin with Faulty are plausible mistakes in the
\* definition they precede; nothing here uses them (README, "Mutants").

InPhase(t, pc) == thread[t].pc = pc
Enter(t, pc) == thread' = [thread EXCEPT ![t].pc = pc]
Bigger(v, w) == IF v > w THEN v ELSE w

\* A load by the ETL or a write of another worker, which tells this one nothing.
CommitElsewhere == /\ db < MaxCommits
                   /\ db' = db + 1
                   /\ UNCHANGED <<answered, rules, lock, facets, thread>>

RulesAge == /\ rules.young
            /\ rules' = [rules EXCEPT !.young = FALSE]
            /\ UNCHANGED <<db, answered, lock, facets, thread>>
FacetsAge == /\ facets.young
             /\ facets' = [facets EXCEPT !.young = FALSE]
             /\ UNCHANGED <<db, answered, rules, lock, thread>>

-----------------------------------------------------------------------------
(* The rule cache.                                                         *)

\* apply_batch commits, then refreshes the caches (invalidate_all).
Apply(t) == /\ InPhase(t, "idle")
            /\ db < MaxCommits
            /\ db' = db + 1
            /\ thread' = [thread EXCEPT ![t] = [Idle EXCEPT !.pc = "refresh", !.kind = "apply", !.own = db + 1]]
            /\ UNCHANGED <<answered, rules, lock, facets>>

NeedsRefresh == ~rules.loaded \/ ~rules.young

\* get_rule_cache: refresh_if_stale looks without the lock first.
AskRules(t) == /\ InPhase(t, "idle")
               /\ thread' = [thread EXCEPT ![t] = [Idle EXCEPT !.kind = "rules", !.floor = answered,
                                                   !.pc = IF NeedsRefresh THEN "refresh" ELSE "read"]]
               /\ UNCHANGED <<db, answered, rules, lock, facets>>

FaultyLockFree(t) == t \in RequestThreads
LockFree(t) == lock = NoThread

\* The lock is acquired; a reader looks again and leaves when another thread
\* was faster, the others query the issues.
TakeLock(t) ==
    /\ InPhase(t, "refresh")
    /\ LockFree(t)
    /\ IF thread[t].kind = "rules" /\ ~NeedsRefresh
          THEN Enter(t, "read") /\ UNCHANGED lock
          ELSE /\ lock' = t
               /\ thread' = [thread EXCEPT ![t].pc = "gates", ![t].got = db]
    /\ UNCHANGED <<db, answered, rules, facets>>

LoadGates(t) == /\ InPhase(t, "gates")
                /\ thread' = [thread EXCEPT ![t].pc = "publish", ![t].gotGates = db]
                /\ UNCHANGED <<db, answered, rules, lock, facets>>

\* A query of the load fails: a reader's request fails, an apply marks the
\* cache stale, which takes the lock again.
FaultyAfterFailure(t) == IF thread[t].kind = "apply" THEN "dropped" ELSE "idle"
AfterFailure(t) == IF thread[t].kind = "apply" THEN "mark" ELSE "idle"
Unlocked == NoThread

LoadFails(t) == /\ thread[t].pc \in {"gates", "publish"}
                /\ lock' = Unlocked
                /\ thread' = [thread EXCEPT ![t] = [@ EXCEPT !.pc = AfterFailure(t), !.got = 0, !.gotGates = 0]]
                /\ UNCHANGED <<db, answered, rules, facets>>

MarkStale(t) == /\ InPhase(t, "mark")
                /\ LockFree(t)
                /\ rules' = [rules EXCEPT !.loaded = FALSE]
                /\ Enter(t, "dropped")
                /\ UNCHANGED <<db, answered, lock, facets>>

\* The fields are assigned one after another; readers do not take the lock.
PublishIssues(t) == /\ InPhase(t, "publish")
                    /\ rules' = [rules EXCEPT !.issues = thread[t].got]
                    /\ Enter(t, "published")
                    /\ UNCHANGED <<db, answered, lock, facets>>
Refreshed(t) == [rules EXCEPT !.gates = thread[t].gotGates, !.loaded = TRUE, !.young = TRUE]
PublishGates(t) ==
    /\ InPhase(t, "published")
    /\ rules' = Refreshed(t)
    /\ lock' = Unlocked
    /\ Enter(t, IF thread[t].kind = "apply" THEN "dropped" ELSE "read")
    /\ UNCHANGED <<db, answered, facets>>

\* The request evaluates the rules it finds and answers.
ReadRules(t) == /\ InPhase(t, "read")
                /\ thread' = [thread EXCEPT ![t].pc = "serve", ![t].got = rules.issues, ![t].gotGates = rules.gates]
                /\ UNCHANGED <<db, answered, rules, lock, facets>>

-----------------------------------------------------------------------------
(* The facets cache.                                                       *)

\* invalidate_facets_cache at the end of apply_batch, which then answers.
DropFacets(t) == /\ InPhase(t, "dropped")
                 /\ facets' = [facets EXCEPT !.value = NoValue]
                 /\ Enter(t, "expire")
                 /\ UNCHANGED <<db, answered, rules, lock>>
ExpireFacets(t) == /\ InPhase(t, "expire")
                   /\ facets' = [facets EXCEPT !.young = FALSE]
                   /\ answered' = Bigger(answered, thread[t].own)
                   /\ thread' = [thread EXCEPT ![t] = Idle]
                   /\ UNCHANGED <<db, rules, lock>>

\* build_facets: the value is tested here and read once more when it is returned.
AskFacets(t) ==
    /\ InPhase(t, "idle")
    /\ thread' = [thread EXCEPT ![t] = [Idle EXCEPT !.kind = "facets", !.floor = answered,
           !.pc = IF facets.value # NoValue /\ facets.young THEN "return" ELSE "build"]]
    /\ UNCHANGED <<db, answered, rules, lock, facets>>
ReturnFacets(t) == /\ InPhase(t, "return")
                   /\ thread' = [thread EXCEPT ![t].pc = "serve", ![t].got = facets.value]
                   /\ UNCHANGED <<db, answered, rules, lock, facets>>
BuildFacets(t) == /\ InPhase(t, "build")
                  /\ thread' = [thread EXCEPT ![t].pc = "store", ![t].got = db]
                  /\ UNCHANGED <<db, answered, rules, lock, facets>>
StoreFacets(t) == /\ InPhase(t, "store")
                  /\ facets' = [facets EXCEPT !.value = thread[t].got]
                  /\ Enter(t, "extend")
                  /\ UNCHANGED <<db, answered, rules, lock>>
ExtendFacets(t) == /\ InPhase(t, "extend")
                   /\ facets' = [facets EXCEPT !.young = TRUE]
                   /\ Enter(t, "serve")
                   /\ UNCHANGED <<db, answered, rules, lock>>

Serve(t) == /\ InPhase(t, "serve")
            /\ thread' = [thread EXCEPT ![t] = Idle]
            /\ UNCHANGED <<db, answered, rules, lock, facets>>

-----------------------------------------------------------------------------
RuleStep(t) == \/ LoadGates(t) \/ LoadFails(t) \/ PublishIssues(t) \/ PublishGates(t)
               \/ ReadRules(t)
FacetStep(t) == \/ DropFacets(t) \/ ExpireFacets(t) \/ ReturnFacets(t)
                \/ BuildFacets(t) \/ StoreFacets(t) \/ ExtendFacets(t)
RuleLockStep(t) == TakeLock(t) \/ MarkStale(t)

CachesNext == \/ CommitElsewhere \/ RulesAge \/ FacetsAge
              \/ \E t \in RequestThreads : \/ Apply(t) \/ AskRules(t) \/ AskFacets(t)
                                           \/ RuleLockStep(t) \/ RuleStep(t) \/ FacetStep(t) \/ Serve(t)

CachesSpec == CachesInit /\ [][CachesNext]_cacheVars

\* A thread that may run does; one that waits for the lock gets it in the end.
CachesFairness == \A t \in RequestThreads : /\ WF_cacheVars(RuleStep(t) \/ FacetStep(t) \/ Serve(t))
                                            /\ SF_cacheVars(RuleLockStep(t))
CachesFairSpec == CachesSpec /\ CachesFairness

-----------------------------------------------------------------------------
(* Properties                                                              *)

\* Rules are never served from before a write that had been answered when the
\* request began, whether the refresh after the commit succeeded or failed
\* (apply_batch, invalidate_all, mark_stale, refresh_if_stale).
AnsweredWritesRuleEvaluations ==
    \A t \in RequestThreads : InPhase(t, "serve") /\ thread[t].kind = "rules" =>
        thread[t].got >= thread[t].floor /\ thread[t].gotGates >= thread[t].floor

\* A load that began earlier is never published after a later one: the rules
\* in the cache only get newer (the lock covers the queries, not only the
\* assignments).
NeverGoBack == rules'.issues >= rules.issues /\ rules'.gates >= rules.gates
RulesNeverGoBack == [][NeverGoBack]_cacheVars

\* Every request and every apply comes to an end, also when loads fail.
RequestsAnswer == \A t \in RequestThreads : ~InPhase(t, "idle") ~> InPhase(t, "idle")

\* README: "Write apply refreshes the current worker immediately" and
\* config.py: "write apply invalidates it regardless of TTL": facets served to
\* a later request include the write.
AnsweredWritesShowInFacets ==
    \A t \in RequestThreads : InPhase(t, "serve") /\ thread[t].kind = "facets" /\ thread[t].got # NoValue =>
        thread[t].got >= thread[t].floor

=============================================================================
