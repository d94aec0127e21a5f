----------------------------- MODULE ResultCache -----------------------------
(***************************************************************************)
(* The cache of What-if case results, api/services/analysis_cache.py:      *)
(* get_or_compute, called by request and worker threads.  A key stands for *)
(* all the inputs of a case.  The first thread that misses a key computes  *)
(* it, the others wait for its future.  What runs under the lock is one    *)
(* action.                                                                 *)
(***************************************************************************)
EXTENDS Naturals, Sequences, FiniteSets

CONSTANTS Callers,  \* threads
          Cases,    \* cache keys
          Capacity, \* values the cache keeps, more than 0
          NoCaller  \* no thread, no key

ASSUME ResultAssumption == Capacity \in Nat \ {0} /\ NoCaller \notin Callers

VARIABLES values,  \* the cached keys, least recently used first, with their age
          pending, \* the future of each key, named after its owner
          future,  \* the futures
          caller   \* what the threads do

resultVars == <<values, pending, future, caller>>

IdleCaller == [pc |-> "idle", key |-> NoCaller, waitsFor |-> NoCaller, answer |-> "none"]
ResultInit == /\ values = <<>>
              /\ pending = [k \in Cases |-> NoCaller]
              /\ future = [c \in Callers |-> "unset"]
              /\ caller = [c \in Callers |-> IdleCaller]

-----------------------------------------------------------------------------
\* Operators whose names begin with Faulty are plausible mistakes in the
\* definition they precede; nothing here uses them (README, "Mutants").

CallerAt(c, pc) == caller[c].pc = pc
\* What s holds at the positions I, in its order.
Kept(s, I) == [n \in 1..Cardinality(I) |-> s[CHOOSE i \in I : Cardinality({j \in I : j <= i}) = n]]
Without(s, k) == Kept(s, {i \in DOMAIN s : s[i].key # k})
Fresh(s) == Kept(s, {i \in DOMAIN s : ~s[i].expired})

Call(c) == /\ CallerAt(c, "idle")
           /\ \E k \in Cases : caller' = [caller EXCEPT ![c] = [@ EXCEPT !.pc = "asking", !.key = k]]
           /\ UNCHANGED <<values, pending, future>>

\* Expired values go; a hit becomes the most recent; a miss owns the key unless
\* somebody owns it already.
FaultyIsOwned(k) == FALSE
IsOwned(k) == pending[k] # NoCaller

Look(c) ==
    LET k == caller[c].key
        fresh == Fresh(values)
        hit == \E i \in DOMAIN fresh : fresh[i].key = k
    IN  /\ CallerAt(c, "asking")
        /\ \/ /\ hit
              /\ values' = Append(Without(fresh, k), [key |-> k, expired |-> FALSE])
              /\ caller' = [caller EXCEPT ![c] = [@ EXCEPT !.pc = "answered", !.answer = "hit"]]
              /\ UNCHANGED <<pending, future>>
           \/ /\ ~hit /\ IsOwned(k)
              /\ values' = fresh
              /\ caller' = [caller EXCEPT ![c] = [@ EXCEPT !.pc = "waiting", !.waitsFor = pending[k]]]
              /\ UNCHANGED <<pending, future>>
           \/ /\ ~hit /\ ~IsOwned(k)
              /\ values' = fresh
              /\ pending' = [pending EXCEPT ![k] = c]
              /\ future' = [future EXCEPT ![c] = "unset"]
              /\ caller' = [caller EXCEPT ![c].pc = "computing"]

\* The value is stored with room made for it, then the future is set.
Evicted(s) == IF Len(s) > Capacity THEN SubSeq(s, Len(s) - Capacity + 1, Len(s)) ELSE s
Store(c) == /\ CallerAt(c, "computing")
            /\ values' = Evicted(Append(values, [key |-> caller[c].key, expired |-> FALSE]))
            /\ caller' = [caller EXCEPT ![c].pc = "stored"]
            /\ UNCHANGED <<pending, future>>

SetResult(c) == /\ CallerAt(c, "stored")
                /\ future' = [future EXCEPT ![c] = "set"]
                /\ caller' = [caller EXCEPT ![c] = [@ EXCEPT !.pc = "ending", !.answer = "miss"]]
                /\ UNCHANGED <<values, pending>>

\* The calculation raises, whatever it raises.
SetException(c) == [future EXCEPT ![c] = "failed"]
Fail(c) == /\ CallerAt(c, "computing")
           /\ future' = SetException(c)
           /\ caller' = [caller EXCEPT ![c] = [@ EXCEPT !.pc = "ending", !.answer = "failed"]]
           /\ UNCHANGED <<values, pending>>

Disown(c) == /\ CallerAt(c, "ending")
             /\ pending' = [pending EXCEPT ![caller[c].key] = NoCaller]
             /\ caller' = [caller EXCEPT ![c].pc = "answered"]
             /\ UNCHANGED <<values, future>>

\* The waiter gets the result, or the exception, of the owner.
Share(c) == /\ CallerAt(c, "waiting")
            /\ future[caller[c].waitsFor] # "unset"
            /\ caller' = [caller EXCEPT ![c] = [@ EXCEPT !.pc = "answered", !.waitsFor = NoCaller,
                              !.answer = IF future[caller[c].waitsFor] = "set" THEN "shared" ELSE "failed"]]
            /\ UNCHANGED <<values, pending, future>>

\* A future has the name of its owner, who is free when nobody uses that name.
Return(c) == /\ CallerAt(c, "answered")
             /\ \A d \in Callers : caller[d].waitsFor # c
             /\ caller' = [caller EXCEPT ![c] = IdleCaller]
             /\ UNCHANGED <<values, pending, future>>

Expire == /\ \E i \in DOMAIN values : ~values[i].expired /\ values' = [values EXCEPT ![i].expired = TRUE]
          /\ UNCHANGED <<pending, future, caller>>

CallerStep(c) == Look(c) \/ Store(c) \/ SetResult(c) \/ Fail(c) \/ Disown(c) \/ Share(c)
ResultNext == (\E c \in Callers : Call(c) \/ CallerStep(c) \/ Return(c)) \/ Expire

ResultSpec == ResultInit /\ [][ResultNext]_resultVars
ResultFairness == \A c \in Callers : WF_resultVars(CallerStep(c))
ResultFairSpec == ResultSpec /\ ResultFairness

-----------------------------------------------------------------------------
(* Properties                                                              *)

\* A case is calculated by one thread at a time, its future belongs to that
\* thread until it is removed, and the cache keeps what it may at most.  Who
\* waits, waits for the future of its own case, and while that is not set its
\* owner is at work.
Owns(c) == caller[c].pc \in {"computing", "stored", "ending"}
OneFlight ==
    /\ \A c, d \in Callers : Owns(c) /\ Owns(d) /\ caller[c].key = caller[d].key => c = d /\ pending[caller[c].key] = c
    /\ \A c \in Callers : CallerAt(c, "waiting") =>
          LET o == caller[c].waitsFor
          IN  caller[o].key = caller[c].key /\ (future[o] = "unset" => caller[o].pc \in {"computing", "stored"})
    /\ Len(values) <= Capacity

\* A waiter is never left behind by an owner whose calculation failed or whose
\* value expired or was evicted at once.
CallersEnd == \A c \in Callers : CallerAt(c, "asking") ~> CallerAt(c, "answered")
=============================================================================
