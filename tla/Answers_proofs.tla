--------------------------- MODULE Answers_proofs ---------------------------
(***************************************************************************)
(* Proofs about how an answer comes about: how calculations are admitted   *)
(* (AdmissionSlots), for every finite set of requests, every set of        *)
(* processes and every limit; how pages share them (SharedCalculations),   *)
(* for every finite set of subscribers, every set of keys and every number *)
(* of requests; how a variant is judged by its issues and waivers          *)
(* (MatchRules, ReviewGate), for all rules and all that may be written;    *)
(* what the walks through graphs answer (GraphWalks), for all graphs; and  *)
(* what a variant inherits (VariantResolution), for every finite set of    *)
(* variants, all rows that may be written and every number of commits.     *)
(***************************************************************************)
EXTENDS AdmissionSlots, SharedCalculations, ReviewGate, GraphWalks, VariantResolution,
        FiniteSetTheorems, TLAPS

-----------------------------------------------------------------------------
(* AdmissionSlots.                                                         *)

Stages == {"idle", "trying", "running", "releasing"}
RequestRecord == [at : Stages, in : Processes \cup {NoOne}, next : Nat]

SlotTypes == /\ semaphore \in [Processes -> Nat]
             /\ locked \in [Files -> Requests \cup {NoOne}]
             /\ request \in [Requests -> RequestRecord]

\* The inductive invariant: who is on the way is in a process, the slots of a
\* process that are not free are those of the requests in it, and the locked
\* files are those of the requests that run.
OnTheWay == \A r \in Requests : AtStage(r, "idle") <=> request[r].in = NoOne
ProcessSlots == \A p \in Processes : semaphore[p] + Cardinality(In(p)) = Limit
OwnersRun == \A f \in Files : locked[f] # NoOne => AtStage(locked[f], "running")
RunnersOwn == HostLimit > 0 => \A r \in Requests : AtStage(r, "running") => \E f \in Files : locked[f] = r
SlotsInv == SlotTypes /\ OnTheWay /\ ProcessSlots /\ OwnersRun /\ RunnersOwn

-----------------------------------------------------------------------------
(* Sets of requests.                                                       *)

LEMMA InFinite ==
    ASSUME NEW p \in Processes
    PROVE  IsFiniteSet(In(p)) /\ Cardinality(In(p)) \in Nat
  <1>1. In(p) \subseteq Requests
    BY DEF In
  <1>2. IsFiniteSet(In(p))
    BY <1>1, FS_Subset, SlotsAssumption
  <1>3. QED
    BY <1>2, FS_CardinalityType

\* No more requests run than files are locked, and no more files are locked than
\* there are.
LEMMA HostBudget ==
    ASSUME SlotsInv, HostLimit > 0
    PROVE  Cardinality(Running) <= HostLimit
  <1> DEFINE Owned == {f \in Files : locked[f] # NoOne}
             owner == [f \in Owned |-> locked[f]]
  <1>1. IsFiniteSet(Files) /\ Cardinality(Files) = HostLimit
    BY FS_Interval, SlotsAssumption DEF Files
  <1>2. Owned \subseteq Files
    OBVIOUS
  <1>3. IsFiniteSet(Owned) /\ Cardinality(Owned) <= HostLimit
    BY <1>1, <1>2, FS_Subset
  <1>4. owner \in Surjection(Owned, Running)
    <2>1. \A f \in Owned : owner[f] \in Running
      BY DEF SlotsInv, SlotTypes, OwnersRun, Running
    <2>2. \A r \in Running : r # NoOne
      BY SlotsAssumption DEF Running
    <2>3. \A r \in Running : \E f \in Owned : owner[f] = r
      BY <2>2 DEF SlotsInv, RunnersOwn, Running
    <2>4. QED
      BY <2>1, <2>3 DEF Surjection
  <1>5. IsFiniteSet(Running) /\ Cardinality(Running) <= Cardinality(Owned)
    BY <1>3, <1>4, FS_Surjection
  <1>6. Cardinality(Running) \in Nat /\ Cardinality(Owned) \in Nat
    BY <1>3, <1>5, FS_CardinalityType
  <1>7. QED
    BY <1>3, <1>5, <1>6, SlotsAssumption

-----------------------------------------------------------------------------
(* The invariant.                                                          *)

LEMMA InvariantAtFirst == SlotsInit => SlotsInv
  <1> SUFFICES ASSUME SlotsInit PROVE SlotsInv
    OBVIOUS
  <1>1. SlotTypes
    BY SlotsAssumption DEF SlotsInit, SlotTypes, RequestRecord, Stages
  <1>2. OnTheWay /\ OwnersRun /\ RunnersOwn
    BY DEF SlotsInit, OnTheWay, OwnersRun, RunnersOwn, AtStage
  <1>3. ASSUME NEW p \in Processes PROVE semaphore[p] + Cardinality(In(p)) = Limit
    <2>1. In(p) = {}
      BY SlotsAssumption DEF SlotsInit, In
    <2>2. Cardinality(In(p)) = 0
      BY <2>1, FS_EmptySet
    <2>3. QED
      BY <2>2, SlotsAssumption DEF SlotsInit
  <1>4. QED
    BY <1>1, <1>2, <1>3 DEF SlotsInv, ProcessSlots

\* A step that changes neither a semaphore nor who is in a process.
LEMMA SameProcesses ==
    ASSUME SlotsInv, semaphore' = semaphore, SlotTypes',
           \A r \in Requests : request'[r].in = request[r].in
    PROVE  ProcessSlots'
  <1>1. \A p \in Processes : In(p)' = In(p)
    BY DEF In
  <1>2. QED
    BY <1>1 DEF SlotsInv, ProcessSlots

LEMMA InvariantKept == SlotsInv /\ [SlotsNext]_slotVars => SlotsInv'
  <1> SUFFICES ASSUME SlotsInv, [SlotsNext]_slotVars PROVE SlotsInv'
    OBVIOUS
  <1>0. /\ semaphore \in [Processes -> Nat] /\ locked \in [Files -> Requests \cup {NoOne}]
        /\ request \in [Requests -> RequestRecord]
        /\ NoOne \notin Requests /\ NoOne \notin Processes /\ Limit \in Nat \ {0} /\ HostLimit \in Nat
    BY SlotsAssumption DEF SlotsInv, SlotTypes
  <1>1. ASSUME NEW r \in Requests, NEW p \in Processes, Admit(r, p) PROVE SlotsInv'
    <2>1. /\ request[r].at = "idle" /\ request[r].in = NoOne /\ semaphore[p] > 0
          /\ semaphore' = [semaphore EXCEPT ![p] = @ - 1] /\ locked' = locked
      BY <1>1 DEF Admit, AtStage, SlotsInv, OnTheWay
    <2>2. PICK new \in {[at |-> "running", in |-> p, next |-> 0], [at |-> "trying", in |-> p, next |-> 0]} :
             /\ request' = [request EXCEPT ![r] = new]
             /\ new.at = "running" => HostLimit = 0
      BY <1>0, <1>1 DEF Admit
    <2>3. new \in RequestRecord /\ new.in = p /\ new.at # "idle" /\ new.at # "releasing"
      BY <2>2 DEF RequestRecord, Stages
    <2>4. SlotTypes'
      BY <1>0, <2>1, <2>2, <2>3 DEF SlotTypes
    <2>5. OnTheWay'
      BY <1>0, <2>2, <2>3 DEF SlotsInv, OnTheWay, AtStage
    <2>6. OwnersRun'
      BY <1>0, <2>1, <2>2, <2>3 DEF SlotsInv, OwnersRun, AtStage
    <2>7. RunnersOwn'
      BY <1>0, <2>1, <2>2, <2>3 DEF SlotsInv, RunnersOwn, AtStage
    <2>8. ASSUME NEW q \in Processes PROVE (semaphore[q] + Cardinality(In(q)) = Limit)'
      <3>1. CASE q = p
        <4>1. In(p)' = In(p) \cup {r} /\ r \notin In(p)
          BY <1>0, <2>1, <2>2, <2>3 DEF In
        <4>2. IsFiniteSet(In(p)) /\ Cardinality(In(p)) \in Nat
          BY InFinite
        <4>3. Cardinality(In(p) \cup {r}) = Cardinality(In(p)) + 1
          BY <4>1, <4>2, FS_AddElement
        <4>4. QED
          BY <1>0, <2>1, <3>1, <4>1, <4>2, <4>3 DEF SlotsInv, ProcessSlots
      <3>2. CASE q # p
        <4>1. In(q)' = In(q)
          BY <1>0, <2>1, <2>2, <2>3, <3>2 DEF In
        <4>2. QED
          BY <1>0, <2>1, <3>2, <4>1 DEF SlotsInv, ProcessSlots
      <3>3. QED
        BY <3>1, <3>2
    <2>9. QED
      BY <2>4, <2>5, <2>6, <2>7, <2>8 DEF SlotsInv, ProcessSlots
  <1>2. ASSUME NEW r \in Requests, TryFile(r) PROVE SlotsInv'
    <2> DEFINE f == request[r].next
    <2>1. request[r].at = "trying" /\ f \in Files /\ semaphore' = semaphore
      BY <1>2 DEF TryFile, AtStage
    <2>2. CASE locked[f] = NoOne
      <3>1. locked' = [locked EXCEPT ![f] = r] /\ request' = [request EXCEPT ![r].at = "running"]
        BY <1>2, <2>2 DEF TryFile, IsFree, GoesTo
      <3>2. SlotTypes' /\ \A q \in Requests : request'[q].in = request[q].in
        BY <1>0, <2>1, <3>1 DEF SlotTypes, RequestRecord, Stages
      <3>3. OnTheWay'
        BY <1>0, <2>1, <3>1 DEF SlotsInv, OnTheWay, AtStage, RequestRecord
      <3>4. OwnersRun'
        BY <1>0, <2>1, <3>1 DEF SlotsInv, OwnersRun, AtStage, RequestRecord
      <3>5. RunnersOwn'
        BY <1>0, <2>1, <2>2, <3>1 DEF SlotsInv, RunnersOwn, AtStage, RequestRecord
      <3>6. QED
        BY <2>1, <3>2, <3>3, <3>4, <3>5, SameProcesses DEF SlotsInv
    <2>3. CASE locked[f] # NoOne
      <3>1. locked' = locked /\ request' = [request EXCEPT ![r].next = f + 1]
        BY <1>2, <2>3 DEF TryFile, IsFree
      <3>2. SlotTypes' /\ \A q \in Requests : request'[q].in = request[q].in /\ request'[q].at = request[q].at
        BY <1>0, <2>1, <3>1 DEF SlotTypes, RequestRecord
      <3>3. OnTheWay' /\ OwnersRun' /\ RunnersOwn'
        BY <1>0, <3>1, <3>2 DEF SlotsInv, OnTheWay, OwnersRun, RunnersOwn, AtStage
      <3>4. QED
        BY <2>1, <3>2, <3>3, SameProcesses DEF SlotsInv
    <2>4. QED
      BY <2>2, <2>3
  <1>3. ASSUME NEW r \in Requests, Refuse(r) PROVE SlotsInv'
    <2>1. /\ request[r].at = "trying" /\ request' = [request EXCEPT ![r].at = "releasing"]
          /\ semaphore' = semaphore /\ locked' = locked
      BY <1>3 DEF Refuse, GoesTo, AtStage
    <2>2. SlotTypes' /\ \A q \in Requests : request'[q].in = request[q].in
      BY <1>0, <2>1 DEF SlotTypes, RequestRecord, Stages
    <2>3. OnTheWay'
      BY <1>0, <2>1 DEF SlotsInv, OnTheWay, AtStage, RequestRecord
    <2>4. OwnersRun'
      BY <1>0, <2>1 DEF SlotsInv, OwnersRun, AtStage, RequestRecord
    <2>5. RunnersOwn'
      BY <1>0, <2>1 DEF SlotsInv, RunnersOwn, AtStage, RequestRecord
    <2>6. QED
      BY <2>1, <2>2, <2>3, <2>4, <2>5, SameProcesses DEF SlotsInv
  <1>4. ASSUME NEW r \in Requests, Finish(r) PROVE SlotsInv'
    <2>1. /\ request[r].at = "running" /\ request' = [request EXCEPT ![r].at = "releasing"]
          /\ semaphore' = semaphore
          /\ locked' = [f \in Files |-> IF locked[f] = r THEN NoOne ELSE locked[f]]
      BY <1>4 DEF Finish, GoesTo, AtStage, Closed
    <2>2. SlotTypes' /\ \A q \in Requests : request'[q].in = request[q].in
      BY <1>0, <2>1 DEF SlotTypes, RequestRecord, Stages
    <2>3. OnTheWay'
      BY <1>0, <2>1 DEF SlotsInv, OnTheWay, AtStage, RequestRecord
    <2>4. OwnersRun'
      BY <1>0, <2>1 DEF SlotsInv, OwnersRun, AtStage, RequestRecord
    <2>5. RunnersOwn'
      BY <1>0, <2>1 DEF SlotsInv, RunnersOwn, AtStage, RequestRecord
    <2>6. QED
      BY <2>1, <2>2, <2>3, <2>4, <2>5, SameProcesses DEF SlotsInv
  <1>5. ASSUME NEW r \in Requests, Leave(r) PROVE SlotsInv'
    <2>1. /\ request[r].at = "releasing" /\ locked' = locked
          /\ semaphore' = [semaphore EXCEPT ![request[r].in] = @ + 1]
      BY <1>5 DEF Leave, AtStage, Released
    <2>2. PICK new \in {[at |-> "idle", in |-> NoOne, next |-> 0]} :
             request' = [request EXCEPT ![r] = new] /\ new \in RequestRecord /\ new.at = "idle" /\ new.in = NoOne
      BY <1>5 DEF Leave, RequestRecord, Stages
    <2>3. PICK p \in Processes : request[r].in = p
      BY <1>0, <2>1 DEF SlotsInv, OnTheWay, AtStage, RequestRecord
    <2>4. SlotTypes'
      BY <1>0, <2>1, <2>2, <2>3 DEF SlotTypes
    <2>5. OnTheWay'
      BY <1>0, <2>2 DEF SlotsInv, OnTheWay, AtStage
    <2>6. OwnersRun'
      <3>1. ASSUME NEW f \in Files, locked[f] # NoOne PROVE locked[f] \in Requests \ {r} /\ request[locked[f]].at = "running"
        BY <1>0, <2>1, <3>1 DEF SlotsInv, OwnersRun, AtStage
      <3>2. QED
        BY <1>0, <2>1, <2>2, <3>1 DEF OwnersRun, AtStage
    <2>7. RunnersOwn'
      BY <1>0, <2>1, <2>2 DEF SlotsInv, RunnersOwn, AtStage
    <2>8. ASSUME NEW q \in Processes PROVE (semaphore[q] + Cardinality(In(q)) = Limit)'
      <3>0. semaphore'[q] = IF q = p THEN semaphore[q] + 1 ELSE semaphore[q]
        BY <1>0, <2>1, <2>3
      <3>1. CASE q = p
        <4>1. In(p)' = In(p) \ {r} /\ r \in In(p)
          BY <1>0, <2>1, <2>2, <2>3 DEF In
        <4>2. IsFiniteSet(In(p)) /\ Cardinality(In(p)) \in Nat
          BY <2>3, InFinite
        <4>3. Cardinality(In(p) \ {r}) = Cardinality(In(p)) - 1
          BY <4>1, <4>2, FS_RemoveElement
        <4>4. QED
          BY <1>0, <3>0, <3>1, <4>1, <4>2, <4>3 DEF SlotsInv, ProcessSlots
      <3>2. CASE q # p
        <4>1. In(q)' = In(q)
          BY <1>0, <2>1, <2>2, <2>3, <3>2 DEF In
        <4>2. QED
          BY <1>0, <3>0, <3>2, <4>1 DEF SlotsInv, ProcessSlots
      <3>3. QED
        BY <3>1, <3>2
    <2>9. QED
      BY <2>4, <2>5, <2>6, <2>7, <2>8 DEF SlotsInv, ProcessSlots
  <1>6. ASSUME NEW p \in Processes, Crash(p) PROVE SlotsInv'
    <2> DEFINE idle == [at |-> "idle", in |-> NoOne, next |-> 0]
    <2>1. /\ semaphore' = [semaphore EXCEPT ![p] = Limit]
          /\ locked' = [f \in Files |-> IF locked[f] \in In(p) THEN NoOne ELSE locked[f]]
          /\ request' = [r \in Requests |-> IF r \in In(p) THEN idle ELSE request[r]]
      BY <1>6 DEF Crash
    <2>2. idle \in RequestRecord
      BY DEF RequestRecord, Stages
    <2>3. SlotTypes'
      BY <1>0, <2>1, <2>2 DEF SlotTypes
    <2>4. OnTheWay'
      BY <1>0, <2>1 DEF SlotsInv, OnTheWay, AtStage
    <2>5. OwnersRun'
      BY <1>0, <2>1 DEF SlotsInv, OwnersRun, AtStage
    <2>6. RunnersOwn'
      BY <1>0, <2>1 DEF SlotsInv, RunnersOwn, AtStage
    <2>7. ASSUME NEW q \in Processes PROVE (semaphore[q] + Cardinality(In(q)) = Limit)'
      <3>1. CASE q = p
        <4>1. In(p)' = {}
          BY <1>0, <2>1 DEF In
        <4>2. Cardinality(In(p))' = 0
          BY <4>1, FS_EmptySet
        <4>3. QED
          BY <1>0, <2>1, <3>1, <4>2
      <3>2. CASE q # p
        <4>1. In(q)' = In(q)
          BY <1>0, <2>1, <3>2 DEF In
        <4>2. QED
          BY <1>0, <2>1, <3>2, <4>1 DEF SlotsInv, ProcessSlots
      <3>3. QED
        BY <3>1, <3>2
    <2>8. QED
      BY <2>3, <2>4, <2>5, <2>6, <2>7 DEF SlotsInv, ProcessSlots
  <1>7. CASE UNCHANGED slotVars
    <2>1. SlotTypes'
      BY <1>0, <1>7 DEF slotVars, SlotTypes
    <2>2. OnTheWay' /\ OwnersRun' /\ RunnersOwn'
      BY <1>7 DEF slotVars, SlotsInv, OnTheWay, OwnersRun, RunnersOwn, AtStage
    <2>3. QED
      BY <1>7, <2>1, <2>2, SameProcesses DEF slotVars, SlotsInv
  <1>8. QED
    BY <1>1, <1>2, <1>3, <1>4, <1>5, <1>6, <1>7 DEF SlotsNext

\* Neither budget is exceeded and no slot of a process or of the host is lost,
\* whichever step of an admission fails and whichever process dies (admission_slot
\* and _shared_slot), for any number of requests, processes and slots.
THEOREM SlotsNeverLost == SlotsSpec => []SlotsAreKept
  <1>1. SlotsInv => SlotsAreKept
    <2> SUFFICES ASSUME SlotsInv PROVE SlotsAreKept
      OBVIOUS
    <2>1. HostLimit > 0 => Cardinality(Running) <= HostLimit
      BY HostBudget
    <2>2. \A f \in Files : locked[f] # NoOne => locked[f] \in Running
      BY DEF SlotsInv, SlotTypes, OwnersRun, Running
    <2>3. HostLimit > 0 => \A r \in Running : \E f \in Files : locked[f] = r
      BY DEF SlotsInv, RunnersOwn, Running
    <2>4. QED
      BY <2>1, <2>2, <2>3 DEF SlotsAreKept, SlotsInv, ProcessSlots
  <1>2. SlotsInit => SlotsInv
    BY InvariantAtFirst
  <1>3. SlotsInv /\ [SlotsNext]_slotVars => SlotsInv'
    BY InvariantKept
  <1>4. QED
    BY <1>1, <1>2, <1>3, PTL DEF SlotsSpec

-----------------------------------------------------------------------------
(* SharedCalculations: the inductive invariant.                            *)

NoKey == CHOOSE k \in Keys : TRUE
FlightRow == [at : {"none", "fetching", "sleeping", "settled"}, key : Keys \cup {NoKey}, subscribers : Nat,
              order : Seq(Subscribers), shared : BOOLEAN, aborted : BOOLEAN, queued : BOOLEAN,
              outcome : {"none", "resolved", "rejected"}]
SubRow == [at : {"idle", "waiting", "cancelled", "resolved", "rejected"}, on : Flights \cup {NoFlight},
           gets : {"nothing", "original", "clone"}]
Tasks == [what : {"check", "done"}, of : Flights] \cup [what : {"answer"}, of : Subscribers]

SharedTyped == /\ flights \in [Keys -> Flights \cup {NoFlight}]
               /\ flight \in [Flights -> FlightRow]
               /\ sub \in [Subscribers -> SubRow]
               /\ micro \in Seq(Tasks)

\* A microtask is queued; the answers for subscribers of S come after the end of f.
Has(q, what, of) == \E i \in 1..Len(q) : q[i] = Microtask(what, of)
AnswersFollow(q, S, f) ==
    \A i \in 1..Len(q), s \in S :
        q[i] = Microtask("answer", s) => \E j \in 1..(i - 1) : q[j] = Microtask("done", f)

Sent(f) == flight[f].at # "none"
Settled(f) == flight[f].at = "settled"
Members(f) == {s \in Subscribers : sub[s].on = f}

\* Flights are sent in order; one that was not sent is blank.
SentInOrder == \E n \in 0..MaxFlights : \A f \in Flights : Sent(f) <=> f <= n
Blank(f) == /\ flight[f].order = <<>> /\ flight[f].subscribers = 0
            /\ ~flight[f].shared /\ ~flight[f].aborted /\ ~flight[f].queued

\* A flight in the map was sent for its key and can be joined.
MapFits == \A k \in Keys : LET f == flights[k] IN
    f # NoFlight => flight[f].key = k /\ Sent(f) /\ ~flight[f].aborted

\* A request that may go on is in the map; if nobody waits for it, a check will
\* find that out.  A settled one that is still in the map is removed from it before
\* anybody is answered.
FlightFits(f) ==
    /\ IF Sent(f) THEN flight[f].key \in Keys ELSE Blank(f)
    /\ \A i \in 1..Len(flight[f].order) : sub[flight[f].order[i]].on = f
    /\ InFlight(f) /\ ~flight[f].aborted => Shares(f) /\ (On(f) = {} => Has(micro, "check", f))
    /\ flight[f].queued => InFlight(f)
    /\ Settled(f) => flight[f].outcome # "none"
    /\ Settled(f) /\ Shares(f) => Has(micro, "done", f) /\ AnswersFollow(micro, Members(f), f)

\* Who waits for a settled flight will be answered; who was answered got what is
\* not in the map any more.
SubFits(s) ==
    LET f == sub[s].on
    IN  /\ sub[s].at = "idle" <=> f = NoFlight
        /\ f # NoFlight => Sent(f)
        /\ sub[s].at = "waiting" => \E i \in 1..Len(flight[f].order) : flight[f].order[i] = s
        /\ sub[s].at = "waiting" /\ Settled(f) => Has(micro, "answer", s)
        /\ Has(micro, "answer", s) => f # NoFlight /\ Settled(f)
        /\ sub[s].gets # "nothing" => sub[s].at = "resolved" /\ Settled(f) /\ ~Shares(f)
        /\ sub[s].gets = "original" => ~flight[f].shared

MicroFits == \A f \in Flights : (Has(micro, "check", f) => Sent(f)) /\ (Has(micro, "done", f) => Settled(f))

Sees(s) == sub[s].at = "waiting" \/ sub[s].gets # "nothing"
SharedIsMarked ==
    \A s, t \in Subscribers :
        s # t /\ sub[s].on = sub[t].on /\ Sees(s) /\ Sees(t) => flight[sub[s].on].shared

SharedInv == /\ SharedTyped /\ SentInOrder /\ MapFits /\ MicroFits
             /\ \A f \in Flights : FlightFits(f)
             /\ \A s \in Subscribers : SubFits(s)
             /\ SharedIsMarked /\ CancelsAreOwn /\ WaitingIsCounted

-----------------------------------------------------------------------------
(* Queues of microtasks.                                                   *)

LEMMA Appended ==
    ASSUME NEW q \in Seq(Tasks), NEW m \in Tasks
    PROVE  /\ Append(q, m) \in Seq(Tasks)
           /\ \A what, of : Has(Append(q, m), what, of) <=> Has(q, what, of) \/ m = Microtask(what, of)
           /\ \A S, f : AnswersFollow(q, S, f) /\ (Has(q, "done", f) \/ \A s \in S : m # Microtask("answer", s))
                           => AnswersFollow(Append(q, m), S, f)
  <1>1. /\ Append(q, m) \in Seq(Tasks) /\ Len(q) \in Nat /\ Len(Append(q, m)) = Len(q) + 1
        /\ \A i \in 1..Len(q) : Append(q, m)[i] = q[i]
        /\ Append(q, m)[Len(q) + 1] = m
    OBVIOUS
  <1>2. \A what, of : Has(Append(q, m), what, of) <=> Has(q, what, of) \/ m = Microtask(what, of)
    BY <1>1 DEF Has
  <1>3. ASSUME NEW S, NEW f, AnswersFollow(q, S, f), Has(q, "done", f) \/ \A s \in S : m # Microtask("answer", s)
        PROVE  AnswersFollow(Append(q, m), S, f)
    <2> SUFFICES ASSUME NEW i \in 1..(Len(q) + 1), NEW s \in S, Append(q, m)[i] = Microtask("answer", s)
                 PROVE  \E j \in 1..(i - 1) : Append(q, m)[j] = Microtask("done", f)
      BY <1>1 DEF AnswersFollow
    <2>1. CASE i \in 1..Len(q)
      <3>1. PICK j \in 1..(i - 1) : q[j] = Microtask("done", f)
        BY <1>1, <1>3, <2>1 DEF AnswersFollow
      <3>2. QED
        BY <1>1, <2>1, <3>1
    <2>2. CASE i = Len(q) + 1
      <3>1. PICK j \in 1..Len(q) : q[j] = Microtask("done", f)
        BY <1>1, <1>3, <2>2 DEF Has
      <3>2. QED
        BY <1>1, <2>2, <3>1
    <2>3. QED
      BY <1>1, <2>1, <2>2
  <1>4. QED
    BY <1>1, <1>2, <1>3

LEMMA Removed ==
    ASSUME NEW q \in Seq(Tasks), q # <<>>
    PROVE  /\ Tail(q) \in Seq(Tasks) /\ Head(q) \in Tasks
           /\ \A what, of : Has(q, what, of) <=> Has(Tail(q), what, of) \/ Head(q) = Microtask(what, of)
           /\ \A S, f : AnswersFollow(q, S, f) =>
                 /\ Head(q) # Microtask("done", f) => AnswersFollow(Tail(q), S, f)
                 /\ \A s \in S : Head(q) # Microtask("answer", s)
  <1>1. /\ Len(q) \in Nat \ {0} /\ Len(Tail(q)) = Len(q) - 1 /\ Head(q) = q[1] /\ Head(q) \in Tasks
        /\ Tail(q) \in Seq(Tasks) /\ \A i \in 1..(Len(q) - 1) : Tail(q)[i] = q[i + 1]
    OBVIOUS
  <1>2. ASSUME NEW what, NEW of PROVE Has(q, what, of) <=> Has(Tail(q), what, of) \/ Head(q) = Microtask(what, of)
    <2>1. ASSUME Has(q, what, of) PROVE Has(Tail(q), what, of) \/ Head(q) = Microtask(what, of)
      <3>1. PICK i \in 1..Len(q) : q[i] = Microtask(what, of)
        BY <2>1 DEF Has
      <3>2. CASE i = 1
        BY <1>1, <3>1, <3>2
      <3>3. CASE i # 1
        <4>1. i - 1 \in 1..Len(Tail(q)) /\ Tail(q)[i - 1] = q[(i - 1) + 1] /\ (i - 1) + 1 = i
          BY <1>1, <3>3
        <4>2. QED
          BY <3>1, <4>1 DEF Has
      <3>4. QED
        BY <3>2, <3>3
    <2>2. ASSUME Has(Tail(q), what, of) PROVE Has(q, what, of)
      <3>1. PICK i \in 1..Len(Tail(q)) : Tail(q)[i] = Microtask(what, of)
        BY <2>2 DEF Has
      <3>2. i + 1 \in 1..Len(q) /\ q[i + 1] = Microtask(what, of)
        BY <1>1, <3>1
      <3>3. QED
        BY <3>2 DEF Has
    <2>3. ASSUME Head(q) = Microtask(what, of) PROVE Has(q, what, of)
      BY <1>1, <2>3 DEF Has
    <2>4. QED
      BY <2>1, <2>2, <2>3
  <1>3. ASSUME NEW S, NEW f, AnswersFollow(q, S, f), Head(q) # Microtask("done", f)
        PROVE  AnswersFollow(Tail(q), S, f)
    <2> SUFFICES ASSUME NEW i \in 1..Len(Tail(q)), NEW s \in S, Tail(q)[i] = Microtask("answer", s)
                 PROVE  \E j \in 1..(i - 1) : Tail(q)[j] = Microtask("done", f)
      BY DEF AnswersFollow
    <2>1. i + 1 \in 1..Len(q) /\ q[i + 1] = Microtask("answer", s)
      BY <1>1
    <2>2. PICK j \in 1..((i + 1) - 1) : q[j] = Microtask("done", f)
      BY <1>3, <2>1 DEF AnswersFollow
    <2>3. j # 1
      BY <1>1, <1>3, <2>2
    <2>4. j - 1 \in 1..(i - 1) /\ j - 1 \in 1..(Len(q) - 1) /\ (j - 1) + 1 = j
      BY <1>1, <2>2, <2>3
    <2>5. QED
      BY <1>1, <2>2, <2>4
  <1>4. ASSUME NEW S, NEW f, AnswersFollow(q, S, f), NEW s \in S PROVE Head(q) # Microtask("answer", s)
    <2>1. 1 \in 1..Len(q) /\ ~\E j \in 1..(1 - 1) : q[j] = Microtask("done", f)
      BY <1>1
    <2>2. QED
      BY <1>1, <1>4, <2>1 DEF AnswersFollow
  <1>5. QED
    BY <1>1, <1>2, <1>3, <1>4

-----------------------------------------------------------------------------
(* Subscribers and flights that a step leaves alone.                       *)

LEMMA OnFinite ==
    ASSUME NEW f
    PROVE  IsFiniteSet(On(f)) /\ Cardinality(On(f)) \in Nat
  <1>1. IsFiniteSet(On(f))
    BY SharedAssumption, FS_Subset DEF On
  <1>2. QED
    BY <1>1, FS_CardinalityType

LEMMA OneMore ==
    ASSUME NEW f, NEW s, s \notin On(f), On(f)' = On(f) \cup {s}
    PROVE  Cardinality(On(f))' = Cardinality(On(f)) + 1
  BY OnFinite, FS_AddElement

LEMMA OneLeft ==
    ASSUME NEW f, NEW s, s \in On(f), On(f)' = On(f) \ {s}
    PROVE  Cardinality(On(f))' = Cardinality(On(f)) - 1 /\ Cardinality(On(f)) > 0
  <1>1. Cardinality(On(f))' = Cardinality(On(f)) - 1 /\ Cardinality(On(f)) \in Nat
    BY OnFinite, FS_RemoveElement
  <1>2. Cardinality(On(f)) # 0
    BY OnFinite, FS_EmptySet
  <1>3. QED
    BY <1>1, <1>2

LEMMA SubFlight ==
    ASSUME SharedInv, NEW s \in Subscribers, sub[s].at # "idle"
    PROVE  sub[s].on \in Flights /\ Sent(sub[s].on) /\ flight[sub[s].on] \in FlightRow
  BY DEF SharedInv, SharedTyped, SubFits, SubRow

LEMMA FlightStays ==
    ASSUME SharedInv, NEW f \in Flights, flight'[f] = flight[f],
           Sent(f) => (Shares(f)' <=> Shares(f)),
           On(f)' = On(f), Members(f)' = Members(f),
           Has(micro, "check", f) => Has(micro', "check", f),
           Settled(f) /\ Shares(f) => Has(micro', "done", f) /\ AnswersFollow(micro', Members(f), f)
    PROVE  FlightFits(f)'
  <1>1. FlightFits(f) /\ flight[f] \in FlightRow
    BY DEF SharedInv, SharedTyped
  <1>2. (IF Sent(f) THEN flight[f].key \in Keys ELSE Blank(f))'
    BY <1>1 DEF FlightFits, Sent, Blank
  <1>3. \A i \in 1..Len(flight[f].order) : sub'[flight[f].order[i]].on = f
    <2>1. \A i \in 1..Len(flight[f].order) : flight[f].order[i] \in Members(f)
      BY <1>1 DEF FlightFits, FlightRow, Members
    <2>2. \A s \in Members(f)' : sub'[s].on = f
      BY DEF Members
    <2>3. QED
      BY <2>1, <2>2
  <1>4. (InFlight(f) /\ ~flight[f].aborted => Shares(f) /\ (On(f) = {} => Has(micro, "check", f)))'
    BY <1>1 DEF FlightFits, InFlight, Sent
  <1>5. (flight[f].queued => InFlight(f))' /\ (Settled(f) => flight[f].outcome # "none")'
    BY <1>1 DEF FlightFits, InFlight, Settled
  <1>6. (Settled(f) /\ Shares(f) => Has(micro, "done", f) /\ AnswersFollow(micro, Members(f), f))'
    BY DEF Settled, Sent
  <1>7. QED
    BY <1>2, <1>3, <1>4, <1>5, <1>6 DEF FlightFits

LEMMA SubStays ==
    ASSUME SharedInv, NEW s \in Subscribers, NEW f, f = sub[s].on, sub'[s] = sub[s],
           f # NoFlight => /\ Sent(f)' /\ (Settled(f)' <=> Settled(f))
                           /\ \A i \in 1..Len(flight[f].order) :
                                 i \in 1..Len(flight'[f].order) /\ flight'[f].order[i] = flight[f].order[i],
           Has(micro', "answer", s) <=> Has(micro, "answer", s),
           sub[s].gets # "nothing" => ~Shares(f)' /\ flight'[f].shared = flight[f].shared
    PROVE  SubFits(s)'
  <1>1. SubFits(s)
    BY DEF SharedInv
  <1>2. sub'[s].at = "waiting" => \E i \in 1..Len(flight'[f].order) : flight'[f].order[i] = s
    BY <1>1 DEF SubFits
  <1>3. QED
    BY <1>1, <1>2 DEF SubFits

LEMMA RowUpdates ==
    ASSUME NEW a \in FlightRow, NEW at \in {"fetching", "sleeping", "settled"}, NEW n \in Nat, NEW b \in BOOLEAN,
           NEW o \in Seq(Subscribers), NEW k \in Keys, NEW end \in {"resolved", "rejected"}
    PROVE  /\ [a EXCEPT !.subscribers = n, !.shared = b, !.order = o] \in FlightRow
           /\ [a EXCEPT !.at = at, !.key = k, !.subscribers = n, !.order = o] \in FlightRow
           /\ [a EXCEPT !.subscribers = n] \in FlightRow
           /\ [a EXCEPT !.aborted = TRUE] \in FlightRow
           /\ [a EXCEPT !.at = at, !.queued = b] \in FlightRow
           /\ [a EXCEPT !.at = at] \in FlightRow
           /\ [a EXCEPT !.at = at, !.outcome = end, !.queued = b] \in FlightRow
  BY DEF FlightRow

LEMMA SubUpdates ==
    ASSUME NEW a \in SubRow, NEW at \in {"waiting", "cancelled", "resolved", "rejected"}, NEW f \in Flights,
           NEW gets \in {"nothing", "original", "clone"}
    PROVE  /\ [a EXCEPT !.at = at, !.on = f] \in SubRow /\ [a EXCEPT !.at = at] \in SubRow
           /\ [a EXCEPT !.at = at, !.gets = gets] \in SubRow
  BY DEF SubRow

LEMMA SharedStarts == SharedInit => SharedInv
  <1> SUFFICES ASSUME SharedInit PROVE SharedInv
    OBVIOUS
  <1>1. \A what, of : ~Has(micro, what, of)
    BY DEF SharedInit, Has
  <1>2. SharedTyped
    BY DEF SharedInit, SharedTyped, FlightRow, SubRow, NoKey
  <1>3. SentInOrder
    <2>1. 0 \in 0..MaxFlights /\ \A f \in Flights : Sent(f) <=> f <= 0
      BY SharedAssumption DEF SharedInit, Sent, Flights
    <2>2. QED
      BY <2>1 DEF SentInOrder
  <1>4. MapFits /\ MicroFits
    BY <1>1 DEF SharedInit, MapFits, MicroFits
  <1>5. \A f \in Flights : On(f) = {} /\ Cardinality(On(f)) = 0
    BY FS_EmptySet DEF SharedInit, On
  <1>6. \A f \in Flights : FlightFits(f)
    BY <1>1 DEF SharedInit, FlightFits, Sent, Settled, InFlight, Blank
  <1>7. \A s \in Subscribers : SubFits(s)
    BY <1>1 DEF SharedInit, SubFits
  <1>8. SharedIsMarked
    BY DEF SharedInit, SharedIsMarked, Sees
  <1>9. CancelsAreOwn
    BY <1>5 DEF SharedInit, CancelsAreOwn
  <1>10. WaitingIsCounted
    BY FS_EmptySet DEF SharedInit, WaitingIsCounted
  <1>11. QED
    BY <1>2, <1>3, <1>4, <1>6, <1>7, <1>8, <1>9, <1>10 DEF SharedInv

-----------------------------------------------------------------------------
(* A call: it joins a flight, or sends one.                                *)

LEMMA JoinKeeps ==
    ASSUME SharedInv, NEW s \in Subscribers, NEW k \in Keys, AskFor(s, k), Joinable(k)
    PROVE  SharedInv'
  <1>1. SharedTyped /\ MapFits /\ MicroFits /\ SharedIsMarked /\ CancelsAreOwn
    BY DEF SharedInv
  <1>2. PICK f \in Flights : /\ f = flights[k] /\ f # NoFlight /\ flight[f].key = k /\ Sent(f) /\ Shares(f)
                             /\ flight[f].aborted = FALSE
    BY <1>1 DEF Joinable, SharedTyped, MapFits, Shares, FlightRow
  <1>3. FlightFits(f) /\ flight[f] \in FlightRow /\ sub[s] \in SubRow
        /\ flight[f].order \in Seq(Subscribers) /\ flight[f].subscribers \in Nat /\ flight[f].shared \in BOOLEAN
    BY <1>1, <1>2 DEF SharedInv, SharedTyped, FlightRow
  <1>4. sub[s].at = "idle" /\ sub[s].on = NoFlight /\ sub[s].gets = "nothing" /\ ~Has(micro, "answer", s)
    BY <1>3 DEF AskFor, SharedInv, SubFits, SubRow
  <1>5. PICK asked \in SubRow : /\ sub' = [sub EXCEPT ![s] = asked]
                                /\ asked.at = "waiting" /\ asked.on = f /\ asked.gets = "nothing"
    <2>1. sub' = [sub EXCEPT ![s] = [sub[s] EXCEPT !.at = "waiting", !.on = f]]
      BY <1>2 DEF AskFor
    <2>2. [sub[s] EXCEPT !.at = "waiting", !.on = f] \in SubRow
      BY <1>3, SubUpdates
    <2>3. LET a == [sub[s] EXCEPT !.at = "waiting", !.on = f]
          IN  a.at = "waiting" /\ a.on = f /\ a.gets = "nothing"
      BY <1>3, <1>4 DEF SubRow
    <2>4. QED
      BY <2>1, <2>2, <2>3
  <1>6. flights' = flights /\ waiting' = waiting
    BY DEF AskFor
  <1>7. PICK new \in FlightRow :
           /\ flight' = [flight EXCEPT ![f] = new]
           /\ new.at = flight[f].at /\ new.key = k /\ new.subscribers = flight[f].subscribers + 1
           /\ new.order = Append(flight[f].order, s) /\ new.shared = (flight[f].shared \/ flight[f].subscribers > 0)
           /\ new.aborted = FALSE /\ new.queued = flight[f].queued /\ new.outcome = flight[f].outcome
    <2>1. flight' = [flight EXCEPT ![f] = Joined(f, s)]
      BY <1>2 DEF AskFor
    <2> DEFINE n == flight[f].subscribers + 1
               b == flight[f].shared \/ flight[f].subscribers > 0
               o == Append(flight[f].order, s)
    <2>2. n \in Nat /\ b \in BOOLEAN /\ o \in Seq(Subscribers)
      BY <1>3
    <2>3. Joined(f, s) = [flight[f] EXCEPT !.subscribers = n, !.shared = b, !.order = o]
      BY DEF Joined
    <2> HIDE DEF n, b, o
    <2>4. [flight[f] EXCEPT !.subscribers = n, !.shared = b, !.order = o] \in FlightRow
      BY <1>3, <2>2, RowUpdates
    <2>5. LET a == [flight[f] EXCEPT !.subscribers = n, !.shared = b, !.order = o]
          IN  /\ a.at = flight[f].at /\ a.key = flight[f].key /\ a.subscribers = n /\ a.order = o /\ a.shared = b
              /\ a.aborted = flight[f].aborted /\ a.queued = flight[f].queued /\ a.outcome = flight[f].outcome
      BY <1>3 DEF FlightRow
    <2>6. QED
      BY <1>2, <2>1, <2>3, <2>4, <2>5 DEF n, b, o
  <1>8. /\ Len(new.order) = Len(flight[f].order) + 1 /\ new.order[Len(flight[f].order) + 1] = s
        /\ \A i \in 1..Len(flight[f].order) : /\ i \in 1..Len(new.order) /\ new.order[i] = flight[f].order[i]
                                              /\ flight[f].order[i] \in Subscribers
        /\ Len(flight[f].order) \in Nat
    <2>1. ASSUME NEW o \in Seq(Subscribers)
          PROVE  /\ Len(Append(o, s)) = Len(o) + 1 /\ Append(o, s)[Len(o) + 1] = s /\ Len(o) \in Nat
                 /\ \A i \in 1..Len(o) : i \in 1..(Len(o) + 1) /\ Append(o, s)[i] = o[i] /\ o[i] \in Subscribers
      OBVIOUS
    <2>2. QED
      BY <1>3, <1>7, <2>1
  <1>9. /\ flight'[f] = new /\ \A g \in Flights \ {f} : flight'[g] = flight[g]
        /\ sub'[s] = asked /\ \A t \in Subscribers \ {s} : sub'[t] = sub[t]
    BY <1>1, <1>2, <1>5, <1>7 DEF SharedTyped
  <1>10. /\ On(f)' = On(f) \cup {s} /\ s \notin On(f) /\ \A g \in Flights \ {f} : On(g)' = On(g)
         /\ Members(f)' = Members(f) \cup {s} /\ \A g \in Flights \ {f} : Members(g)' = Members(g)
         /\ \A g \in Flights : s \notin Members(g)
    <2>1. \A g \in Flights : g # NoFlight
      BY DEF Flights, NoFlight
    <2>2. On(f)' = On(f) \cup {s} /\ s \notin On(f) /\ \A g \in Flights \ {f} : On(g)' = On(g)
      BY <1>4, <1>5, <1>9, <2>1 DEF On
    <2>3. Members(f)' = Members(f) \cup {s} /\ \A g \in Flights \ {f} : Members(g)' = Members(g)
      BY <1>4, <1>5, <1>9, <2>1 DEF Members
    <2>4. QED
      BY <1>4, <2>1, <2>2, <2>3 DEF Members
  <1>11. /\ micro' \in Seq(Tasks)
         /\ \A what, of : Has(micro', what, of) <=>
                Has(micro, what, of) \/ (~InFlight(f) /\ Microtask("answer", s) = Microtask(what, of))
         /\ \A S, g : AnswersFollow(micro, S, g) /\ (Has(micro, "done", g) \/ s \notin S) => AnswersFollow(micro', S, g)
    <2>1. Microtask("answer", s) \in Tasks /\ \A r : Microtask("answer", r) = Microtask("answer", s) => r = s
      BY DEF Tasks, Microtask
    <2>2. micro' = IF InFlight(f) THEN micro ELSE Append(micro, Microtask("answer", s))
      BY <1>2 DEF AskFor
    <2>3. QED
      BY <1>1, <2>1, <2>2, Appended DEF SharedTyped
  <1>12. \A what, of : what # "answer" => (Has(micro', what, of) <=> Has(micro, what, of))
    BY <1>11 DEF Microtask
  <1>13. \A t \in Subscribers \ {s} : Has(micro', "answer", t) <=> Has(micro, "answer", t)
    BY <1>11 DEF Microtask
  <1>14. SharedTyped'
    BY <1>1, <1>2, <1>5, <1>6, <1>7, <1>11 DEF SharedTyped
  <1>15. \A g \in Flights : (Sent(g)' <=> Sent(g)) /\ (Settled(g)' <=> Settled(g)) /\ (Shares(g)' <=> Shares(g))
                            /\ flight'[g].key = flight[g].key /\ flight'[g].aborted = flight[g].aborted
                            /\ flight'[g].queued = flight[g].queued
    <2>1. \A g \in Flights : /\ flight'[g].at = flight[g].at /\ flight'[g].key = flight[g].key
                             /\ flight'[g].aborted = flight[g].aborted /\ flight'[g].queued = flight[g].queued
      <3> SUFFICES ASSUME NEW g \in Flights
                   PROVE  /\ flight'[g].at = flight[g].at /\ flight'[g].key = flight[g].key
                          /\ flight'[g].aborted = flight[g].aborted /\ flight'[g].queued = flight[g].queued
        OBVIOUS
      <3>1. CASE g = f
        BY <1>2, <1>7, <1>9, <3>1
      <3>2. CASE g # f
        BY <1>9, <3>2
      <3>3. QED
        BY <3>1, <3>2
    <2>2. QED
      BY <1>6, <2>1 DEF Sent, Settled, Shares
  <1>16. SentInOrder' /\ MapFits' /\ MicroFits'
    <2>1. SentInOrder'
      BY <1>15 DEF SharedInv, SentInOrder
    <2>2. MapFits'
      BY <1>1, <1>6, <1>15 DEF MapFits, SharedTyped
    <2>3. MicroFits'
      BY <1>1, <1>12, <1>15 DEF MicroFits
    <2>4. QED
      BY <2>1, <2>2, <2>3
  <1>17. FlightFits(f)'
    <2>1. (IF Sent(f) THEN flight[f].key \in Keys ELSE Blank(f))'
      BY <1>2, <1>7, <1>9, <1>15
    <2>2. \A i \in 1..Len(new.order) : sub'[new.order[i]].on = f
      <3>1. \A i \in 1..Len(flight[f].order) : sub'[flight[f].order[i]].on = f
        BY <1>3, <1>5, <1>8, <1>9 DEF FlightFits
      <3>2. new.order[Len(flight[f].order) + 1] = s /\ sub'[s].on = f
        BY <1>5, <1>8, <1>9
      <3>3. \A i \in 1..Len(flight[f].order) : new.order[i] = flight[f].order[i]
        BY <1>8
      <3>4. \A i \in 1..Len(new.order) : i \in 1..Len(flight[f].order) \/ i = Len(flight[f].order) + 1
        BY <1>8
      <3>5. QED
        BY <3>1, <3>2, <3>3, <3>4
    <2>3. Shares(f)' /\ On(f)' # {}
      BY <1>2, <1>10, <1>15
    <2>4. (flight[f].queued => InFlight(f))' /\ (Settled(f) => flight[f].outcome # "none")'
      BY <1>3, <1>7, <1>9, <1>15 DEF FlightFits, InFlight
    <2>5. ASSUME Settled(f) PROVE Has(micro', "done", f) /\ AnswersFollow(micro', Members(f)', f)
      <3>1. Has(micro, "done", f) /\ AnswersFollow(micro, Members(f), f)
        BY <1>2, <1>3, <2>5 DEF FlightFits
      <3>2. AnswersFollow(micro, Members(f) \cup {s}, f)
        BY <1>4, <3>1 DEF AnswersFollow, Has
      <3>3. QED
        BY <1>10, <1>11, <3>1, <3>2
    <2>6. QED
      BY <1>9, <1>15, <2>1, <2>2, <2>3, <2>4, <2>5 DEF FlightFits
  <1>18. ASSUME NEW g \in Flights \ {f} PROVE FlightFits(g)'
    <2>1. FlightFits(g)
      BY DEF SharedInv
    <2>2. Settled(g) /\ Shares(g) => Has(micro', "done", g) /\ AnswersFollow(micro', Members(g), g)
      BY <1>10, <1>11, <2>1 DEF FlightFits
    <2>3. QED
      BY <1>9, <1>10, <1>12, <1>15, <2>2, FlightStays
  <1>19. SubFits(s)'
    <2>1. \E i \in 1..Len(new.order) : new.order[i] = s
      BY <1>8
    <2>2. Has(micro', "answer", s) <=> ~InFlight(f)
      BY <1>4, <1>11
    <2>3. Settled(f) <=> ~InFlight(f)
      BY <1>2, <1>3 DEF Settled, InFlight, Sent, FlightRow
    <2>4. QED
      BY <1>2, <1>5, <1>9, <1>15, <2>1, <2>2, <2>3 DEF SubFits
  <1>20. ASSUME NEW t \in Subscribers \ {s} PROVE SubFits(t)'
    <2>1. PICK g \in Flights \cup {NoFlight} : g = sub[t].on /\ SubFits(t)
      BY <1>1 DEF SharedInv, SharedTyped, SubRow
    <2>2. g # NoFlight => /\ Sent(g)' /\ (Settled(g)' <=> Settled(g))
                          /\ \A i \in 1..Len(flight[g].order) :
                                i \in 1..Len(flight'[g].order) /\ flight'[g].order[i] = flight[g].order[i]
      <3>1. g # NoFlight => g \in Flights /\ Sent(g)
        BY <2>1 DEF SubFits
      <3>2. g = f => \A i \in 1..Len(flight[g].order) :
                        i \in 1..Len(flight'[g].order) /\ flight'[g].order[i] = flight[g].order[i]
        BY <1>8, <1>9
      <3>3. g \in Flights \ {f} => \A i \in 1..Len(flight[g].order) :
                        i \in 1..Len(flight'[g].order) /\ flight'[g].order[i] = flight[g].order[i]
        BY <1>9
      <3>4. g \in Flights => (Sent(g)' <=> Sent(g)) /\ (Settled(g)' <=> Settled(g))
        BY <1>15
      <3>5. QED
        BY <3>1, <3>2, <3>3, <3>4
    <2>3. sub[t].gets # "nothing" => ~Shares(g)' /\ flight'[g].shared = flight[g].shared
      <3>1. sub[t].gets # "nothing" => ~Shares(g) /\ g \in Flights \ {f}
        BY <1>2, <2>1 DEF SubFits
      <3>2. QED
        BY <1>9, <1>15, <3>1
    <2>4. QED
      BY <1>9, <1>13, <2>1, <2>2, <2>3, SubStays
  <1>21. SharedIsMarked'
    <2>1. \A t \in Subscribers \ {s} : sub[t].on = f /\ Sees(t) => new.shared
      <3> SUFFICES ASSUME NEW t \in Subscribers \ {s}, sub[t].on = f, Sees(t) PROVE new.shared
        OBVIOUS
      <3>1. t \in On(f)
        BY <1>2 DEF SharedInv, SubFits, Sees, On
      <3>2. flight[f].subscribers # 0
        BY <1>1, <1>2, <3>1, OnFinite, FS_EmptySet DEF CancelsAreOwn
      <3>3. flight[f].subscribers > 0
        BY <1>3, <3>2
      <3>4. QED
        BY <1>7, <3>3
    <2>2. \A t \in Subscribers \ {s} : (Sees(t)' <=> Sees(t)) /\ sub'[t].on = sub[t].on
      BY <1>9 DEF Sees
    <2>3. \A g \in Flights : flight[g].shared => flight'[g].shared
      BY <1>7, <1>9
    <2>4. \A t \in Subscribers : Sees(t) => sub[t].on \in Flights
      BY SubFlight DEF SharedInv, SubFits, Sees
    <2>5. ASSUME NEW r \in Subscribers \ {s}, NEW t \in Subscribers \ {s},
                 r # t, sub[r].on = sub[t].on, Sees(r), Sees(t)
          PROVE  flight'[sub[r].on].shared
      BY <1>1, <2>3, <2>4, <2>5 DEF SharedIsMarked
    <2>6. QED
      BY <1>5, <1>9, <2>1, <2>2, <2>5 DEF SharedIsMarked
  <1>22. CancelsAreOwn'
    <2>1. flight'[f].subscribers = Cardinality(On(f))'
      <3>1. Cardinality(On(f))' = Cardinality(On(f)) + 1
        BY <1>10, OneMore
      <3>2. flight[f].subscribers = Cardinality(On(f))
        BY <1>1 DEF CancelsAreOwn
      <3>3. QED
        BY <1>7, <1>9, <3>1, <3>2
    <2>2. \A g \in Flights \ {f} : flight'[g].subscribers = Cardinality(On(g))' /\ (flight'[g].aborted => On(g)' = {})
      BY <1>1, <1>9, <1>10 DEF CancelsAreOwn
    <2>3. QED
      BY <1>7, <1>9, <2>1, <2>2 DEF CancelsAreOwn
  <1>23. WaitingIsCounted'
    <2>1. {g \in Flights : flight[g].queued}' = {g \in Flights : flight[g].queued}
      BY <1>15
    <2>2. QED
      BY <1>6, <2>1 DEF SharedInv, WaitingIsCounted
  <1>24. QED
    BY <1>14, <1>16, <1>17, <1>18, <1>19, <1>20, <1>21, <1>22, <1>23 DEF SharedInv

LEMMA RequestKeeps ==
    ASSUME SharedInv, NEW s \in Subscribers, NEW k \in Keys, AskFor(s, k), ~Joinable(k)
    PROVE  SharedInv'
  <1>1. SharedTyped /\ MapFits /\ MicroFits /\ SharedIsMarked /\ CancelsAreOwn
    BY DEF SharedInv
  <1>2. PICK n \in 0..MaxFlights : \A g \in Flights : Sent(g) <=> g <= n
    BY DEF SharedInv, SentInOrder
  <1>3. PICK f : f = NextFlight
    OBVIOUS
  <1>4. f = n + 1 /\ f \in Flights /\ n + 1 \in 0..MaxFlights /\ ~Sent(f) /\ f # NoFlight
    <2>1. n + 1 \in Flights /\ ~Sent(n + 1) /\ n + 1 \in 0..MaxFlights /\ \A g \in 1..((n + 1) - 1) : Sent(g)
      <3>1. PICK g \in Flights : ~Sent(g)
        BY DEF AskFor, Sent
      <3>2. g > n
        BY <1>2, <3>1, SharedAssumption DEF Flights
      <3>3. n + 1 \in Flights /\ n + 1 \in 0..MaxFlights /\ 1..((n + 1) - 1) \subseteq Flights
        BY <3>1, <3>2, SharedAssumption DEF Flights
      <3>4. QED
        BY <1>2, <3>3, SharedAssumption DEF Flights
    <2>2. f \in Flights /\ ~Sent(f) /\ \A g \in 1..(f - 1) : Sent(g)
      BY <1>3, <2>1 DEF NextFlight, Sent
    <2>3. f > n
      BY <1>2, <2>2, SharedAssumption DEF Flights
    <2>4. ~(f > n + 1)
      BY <2>1, <2>2, SharedAssumption DEF Flights
    <2>5. QED
      BY <2>1, <2>2, <2>3, <2>4, SharedAssumption DEF Flights, NoFlight
  <1>5. /\ flight[f] \in FlightRow /\ sub[s] \in SubRow /\ Blank(f)
        /\ flight[f].aborted = FALSE /\ flight[f].queued = FALSE
    BY <1>1, <1>4 DEF SharedInv, SharedTyped, FlightFits, Blank, FlightRow
  <1>6. flights[k] = NoFlight
    BY <1>1 DEF Joinable, MapFits
  <1>7. sub[s].at = "idle" /\ sub[s].on = NoFlight /\ sub[s].gets = "nothing" /\ ~Has(micro, "answer", s)
    BY <1>5 DEF AskFor, SharedInv, SubFits, SubRow
  <1>8. PICK asked \in SubRow : /\ sub' = [sub EXCEPT ![s] = asked]
                                /\ asked.at = "waiting" /\ asked.on = f /\ asked.gets = "nothing"
    <2>1. sub' = [sub EXCEPT ![s] = [sub[s] EXCEPT !.at = "waiting", !.on = f]]
      BY <1>3 DEF AskFor
    <2>2. [sub[s] EXCEPT !.at = "waiting", !.on = f] \in SubRow
      BY <1>4, <1>5, SubUpdates
    <2>3. LET a == [sub[s] EXCEPT !.at = "waiting", !.on = f]
          IN  a.at = "waiting" /\ a.on = f /\ a.gets = "nothing"
      BY <1>5, <1>7 DEF SubRow
    <2>4. QED
      BY <2>1, <2>2, <2>3
  <1>9. flights' = [flights EXCEPT ![k] = f] /\ waiting' = waiting /\ micro' = micro
    BY <1>3 DEF AskFor
  <1>10. PICK new \in FlightRow :
           /\ flight' = [flight EXCEPT ![f] = new]
           /\ new.at = "fetching" /\ new.key = k /\ new.subscribers = 1 /\ new.order = <<s>>
           /\ new.aborted = FALSE /\ new.queued = FALSE
    <2>1. flight' = [flight EXCEPT ![f] =
                        [flight[f] EXCEPT !.at = "fetching", !.key = k, !.subscribers = 1, !.order = <<s>>]]
      BY <1>3 DEF AskFor
    <2>2. [flight[f] EXCEPT !.at = "fetching", !.key = k, !.subscribers = 1, !.order = <<s>>] \in FlightRow
      <3>1. 1 \in Nat /\ <<s>> \in Seq(Subscribers) /\ "fetching" \in {"fetching", "sleeping", "settled"}
        OBVIOUS
      <3>2. QED
        BY <1>5, <3>1, RowUpdates
    <2>3. LET a == [flight[f] EXCEPT !.at = "fetching", !.key = k, !.subscribers = 1, !.order = <<s>>]
          IN  /\ a.at = "fetching" /\ a.key = k /\ a.subscribers = 1 /\ a.order = <<s>>
              /\ a.aborted = flight[f].aborted /\ a.queued = flight[f].queued
      BY <1>5 DEF FlightRow
    <2>4. QED
      BY <1>5, <2>1, <2>2, <2>3
  <1>11. /\ flight'[f] = new /\ \A g \in Flights \ {f} : flight'[g] = flight[g]
         /\ sub'[s] = asked /\ \A t \in Subscribers \ {s} : sub'[t] = sub[t]
         /\ flights'[k] = f /\ \A l \in Keys \ {k} : flights'[l] = flights[l]
    BY <1>1, <1>4, <1>8, <1>9, <1>10 DEF SharedTyped
  <1>12. /\ Members(f) = {} /\ On(f) = {} /\ On(f)' = {s}
         /\ \A g \in Flights \ {f} : On(g)' = On(g) /\ Members(g)' = Members(g)
    <2>1. \A g \in Flights : g # NoFlight
      BY DEF Flights, NoFlight
    <2>2. Members(f) = {}
      BY <1>4 DEF SharedInv, SubFits, Members
    <2>3. On(f) = {}
      BY <2>2 DEF On, Members
    <2>4. On(f)' = {s} /\ \A g \in Flights \ {f} : On(g)' = On(g)
      BY <1>7, <1>8, <1>11, <2>1, <2>3 DEF On
    <2>5. \A g \in Flights \ {f} : Members(g)' = Members(g)
      BY <1>7, <1>8, <1>11, <2>1 DEF Members
    <2>6. QED
      BY <2>2, <2>3, <2>4, <2>5
  <1>13. SharedTyped'
    BY <1>1, <1>4, <1>8, <1>9, <1>10 DEF SharedTyped
  <1>14. /\ Sent(f)' /\ Shares(f)' /\ InFlight(f)' /\ ~Settled(f)' /\ ~Settled(f)
         /\ \A g \in Flights \ {f} : (Sent(g)' <=> Sent(g)) /\ (Settled(g)' <=> Settled(g))
    BY <1>4, <1>10, <1>11 DEF Sent, Settled, Shares, InFlight
  <1>15. ASSUME NEW g \in Flights \ {f}, Sent(g) PROVE Shares(g)' <=> Shares(g)
    <2>1. flight[g].key \in Keys /\ g # NoFlight
      BY <1>15 DEF SharedInv, FlightFits, Flights, NoFlight
    <2>2. QED
      BY <1>6, <1>11, <2>1 DEF Shares
  <1>16. SentInOrder' /\ MapFits' /\ MicroFits'
    <2>1. \A g \in Flights : Sent(g)' <=> g <= n + 1
      BY <1>2, <1>4, <1>14 DEF Flights
    <2>2. SentInOrder'
      BY <1>4, <2>1 DEF SentInOrder
    <2>3. MapFits'
      <3>1. ASSUME NEW l \in Keys \ {k}, flights'[l] # NoFlight
            PROVE  LET g == flights'[l] IN flight'[g].key = l /\ flight'[g].at # "none" /\ ~flight'[g].aborted
        <4>1. PICK g \in Flights : g = flights'[l] /\ g = flights[l]
          BY <1>1, <1>11, <3>1 DEF SharedTyped
        <4>2. flight[g].key = l /\ Sent(g) /\ ~flight[g].aborted
          BY <1>1, <3>1, <4>1 DEF MapFits
        <4>3. g # f
          BY <1>4, <4>2
        <4>4. QED
          BY <1>11, <4>1, <4>2, <4>3 DEF Sent
      <3>2. flight'[flights'[k]].key = k /\ flight'[flights'[k]].at # "none" /\ ~flight'[flights'[k]].aborted
        BY <1>10, <1>11
      <3>3. QED
        BY <3>1, <3>2 DEF MapFits, Sent
    <2>4. MicroFits'
      BY <1>1, <1>9, <1>14 DEF MicroFits
    <2>5. QED
      BY <2>2, <2>3, <2>4
  <1>17. FlightFits(f)'
    <2>1. \A i \in 1..Len(new.order) : sub'[new.order[i]].on = f
      BY <1>8, <1>10, <1>11
    <2>2. QED
      BY <1>10, <1>11, <1>12, <1>14, <2>1 DEF FlightFits
  <1>18. ASSUME NEW g \in Flights \ {f} PROVE FlightFits(g)'
    <2>1. FlightFits(g)
      BY DEF SharedInv
    <2>2. Settled(g) /\ Shares(g) => Has(micro', "done", g) /\ AnswersFollow(micro', Members(g), g)
      BY <1>9, <2>1 DEF FlightFits
    <2>3. QED
      BY <1>9, <1>11, <1>12, <1>15, <2>2, FlightStays
  <1>19. SubFits(s)'
    <2>1. \E i \in 1..Len(new.order) : new.order[i] = s
      BY <1>10
    <2>2. QED
      BY <1>4, <1>7, <1>8, <1>9, <1>11, <1>14, <2>1 DEF SubFits
  <1>20. ASSUME NEW t \in Subscribers \ {s} PROVE SubFits(t)'
    <2> DEFINE g == sub[t].on
    <2>1. SubFits(t) /\ g \in Flights \cup {NoFlight} /\ g # f
      BY <1>1, <1>4 DEF SharedInv, SharedTyped, SubRow, SubFits
    <2>2. g # NoFlight => /\ Sent(g)' /\ (Settled(g)' <=> Settled(g))
                          /\ \A i \in 1..Len(flight[g].order) :
                                i \in 1..Len(flight'[g].order) /\ flight'[g].order[i] = flight[g].order[i]
      BY <1>11, <1>14, <2>1 DEF SubFits
    <2>3. sub[t].gets # "nothing" => ~Shares(g)' /\ flight'[g].shared = flight[g].shared
      <3> SUFFICES ASSUME sub[t].gets # "nothing" PROVE ~Shares(g)' /\ flight'[g].shared = flight[g].shared
        OBVIOUS
      <3>1. Settled(g) /\ ~Shares(g) /\ g # NoFlight
        BY <1>1, <2>1 DEF SubFits
      <3>2. g \in Flights \ {f} /\ Sent(g)
        BY <2>1, <3>1 DEF SubFits
      <3>3. QED
        BY <1>11, <1>15, <3>1, <3>2
    <2>4. QED
      BY <1>9, <1>11, <2>2, <2>3, SubStays
  <1>21. SharedIsMarked'
    <2>1. \A t \in Subscribers \ {s} : (Sees(t)' <=> Sees(t)) /\ sub'[t].on = sub[t].on /\ sub[t].on # f
      BY <1>11, <1>12 DEF Sees, Members
    <2>2. \A t \in Subscribers : Sees(t) => sub[t].on \in Flights
      BY SubFlight DEF SharedInv, SubFits, Sees
    <2>3. ASSUME NEW r \in Subscribers \ {s}, NEW t \in Subscribers \ {s},
                 r # t, sub[r].on = sub[t].on, Sees(r), Sees(t)
          PROVE  flight'[sub[r].on].shared
      BY <1>1, <1>11, <2>1, <2>2, <2>3 DEF SharedIsMarked
    <2>4. QED
      BY <1>8, <1>11, <2>1, <2>3 DEF SharedIsMarked
  <1>22. CancelsAreOwn'
    <2>1. flight'[f].subscribers = Cardinality(On(f))' /\ ~flight'[f].aborted
      <3>1. Cardinality({s}) = 1
        BY FS_Singleton
      <3>2. QED
        BY <1>10, <1>11, <1>12, <3>1
    <2>2. \A g \in Flights \ {f} : flight'[g].subscribers = Cardinality(On(g))' /\ (flight'[g].aborted => On(g)' = {})
      BY <1>1, <1>11, <1>12 DEF CancelsAreOwn
    <2>3. QED
      BY <2>1, <2>2 DEF CancelsAreOwn
  <1>23. WaitingIsCounted'
    <2>1. \A g \in Flights : flight'[g].queued = flight[g].queued
      BY <1>5, <1>10, <1>11
    <2>2. {g \in Flights : flight[g].queued}' = {g \in Flights : flight[g].queued}
      BY <2>1
    <2>3. QED
      BY <1>9, <2>2 DEF SharedInv, WaitingIsCounted
  <1>24. QED
    BY <1>13, <1>16, <1>17, <1>18, <1>19, <1>20, <1>21, <1>22, <1>23 DEF SharedInv

-----------------------------------------------------------------------------
(* A subscriber leaves its flight: it cancels, or is answered.             *)

LEMMA LeaveKeeps ==
    ASSUME SharedInv, NEW s \in Subscribers, sub[s].at = "waiting", NEW f, f = sub[s].on,
           flight' = Leaves(s), flights' = flights, waiting' = waiting,
           NEW left \in SubRow, sub' = [sub EXCEPT ![s] = left], left.on = f,
           left.at \in {"cancelled", "resolved", "rejected"},
           left.gets # "nothing" => left.at = "resolved" /\ Settled(f) /\ ~Shares(f),
           left.gets = "original" => ~flight[f].shared,
           micro' \in Seq(Tasks),
           \A g : Has(micro', "done", g) <=> Has(micro, "done", g),
           \A g : Has(micro', "check", g) <=> Has(micro, "check", g) \/ g = f,
           \A t \in Subscribers \ {s} : Has(micro', "answer", t) <=> Has(micro, "answer", t),
           Has(micro', "answer", s) => Has(micro, "answer", s),
           \A S, g : AnswersFollow(micro, S, g) => AnswersFollow(micro', S, g)
    PROVE  SharedInv'
  <1>1. SharedTyped /\ MapFits /\ MicroFits /\ SharedIsMarked /\ CancelsAreOwn
    BY DEF SharedInv
  <1>2. f \in Flights /\ Sent(f) /\ flight[f] \in FlightRow /\ flight[f].subscribers \in Nat /\ f # NoFlight
    BY SubFlight DEF FlightRow, Flights, NoFlight
  <1>3. /\ sub'[s] = left /\ \A t \in Subscribers \ {s} : sub'[t] = sub[t]
        /\ \A g \in Flights \ {f} : flight'[g] = flight[g]
    BY <1>1, <1>2 DEF SharedTyped, Leaves
  <1>4. /\ s \in On(f) /\ On(f)' = On(f) \ {s} /\ \A g \in Flights \ {f} : On(g)' = On(g)
        /\ \A g \in Flights : Members(g)' = Members(g)
    BY <1>3 DEF On, Members
  <1>5. flight[f].subscribers - 1 \in Nat /\ flight[f].subscribers - 1 = Cardinality(On(f))' /\ ~flight[f].aborted
    <2>1. Cardinality(On(f))' = Cardinality(On(f)) - 1 /\ Cardinality(On(f)) > 0
      BY <1>4, OneLeft
    <2>2. flight[f].subscribers = Cardinality(On(f)) /\ (flight[f].aborted => On(f) = {})
      BY <1>1, <1>2 DEF CancelsAreOwn
    <2>3. QED
      BY <1>2, <1>4, <2>1, <2>2
  <1>6. PICK new \in FlightRow :
           /\ flight' = [flight EXCEPT ![f] = new]
           /\ new.at = flight[f].at /\ new.key = flight[f].key /\ new.subscribers = flight[f].subscribers - 1
           /\ new.order = flight[f].order /\ new.shared = flight[f].shared /\ new.aborted = flight[f].aborted
           /\ new.queued = flight[f].queued /\ new.outcome = flight[f].outcome
    <2> DEFINE n == flight[f].subscribers - 1
    <2>1. flight' = [flight EXCEPT ![f] = [flight[f] EXCEPT !.subscribers = n]]
      BY <1>2 DEF Leaves
    <2>2. n \in Nat
      BY <1>5
    <2> HIDE DEF n
    <2>3. [flight[f] EXCEPT !.subscribers = n] \in FlightRow
      BY <1>2, <2>2 DEF FlightRow
    <2>4. LET a == [flight[f] EXCEPT !.subscribers = n]
          IN  /\ a.at = flight[f].at /\ a.key = flight[f].key /\ a.subscribers = n /\ a.order = flight[f].order
              /\ a.shared = flight[f].shared /\ a.aborted = flight[f].aborted /\ a.queued = flight[f].queued
              /\ a.outcome = flight[f].outcome
      BY <1>2 DEF FlightRow
    <2>5. QED
      BY <2>1, <2>3, <2>4 DEF n
  <1>7. flight'[f] = new
    BY <1>1, <1>2, <1>6 DEF SharedTyped
  <1>8. SharedTyped'
    BY <1>1, <1>2, <1>6 DEF SharedTyped
  <1>9. \A g \in Flights : /\ flight'[g].at = flight[g].at /\ flight'[g].key = flight[g].key
                           /\ flight'[g].aborted = flight[g].aborted /\ flight'[g].queued = flight[g].queued
                           /\ flight'[g].order = flight[g].order /\ flight'[g].shared = flight[g].shared
                           /\ flight'[g].outcome = flight[g].outcome
    BY <1>3, <1>6, <1>7
  <1>10. \A g \in Flights : (Sent(g)' <=> Sent(g)) /\ (Settled(g)' <=> Settled(g)) /\ (Shares(g)' <=> Shares(g))
                            /\ (InFlight(g)' <=> InFlight(g))
    BY <1>9 DEF Sent, Settled, Shares, InFlight
  <1>11. SentInOrder' /\ MapFits' /\ MicroFits'
    <2>1. SentInOrder'
      BY <1>10 DEF SharedInv, SentInOrder
    <2>2. MapFits'
      BY <1>1, <1>9, <1>10 DEF MapFits, SharedTyped
    <2>3. MicroFits'
      BY <1>1, <1>2, <1>10 DEF MicroFits
    <2>4. QED
      BY <2>1, <2>2, <2>3
  <1>12. FlightFits(f)'
    <2>1. FlightFits(f)
      BY <1>2 DEF SharedInv
    <2>2. \A i \in 1..Len(flight[f].order) : sub'[flight[f].order[i]].on = f
      <3>1. \A i \in 1..Len(flight[f].order) : flight[f].order[i] \in Members(f)
        <4>1. flight[f].order \in Seq(Subscribers)
          BY <1>2 DEF FlightRow
        <4>2. \A i \in 1..Len(flight[f].order) : flight[f].order[i] \in Subscribers
          BY <4>1
        <4>3. QED
          BY <2>1, <4>2 DEF FlightFits, Members
      <3>2. \A t \in Members(f)' : sub'[t].on = f
        BY DEF Members
      <3>3. QED
        BY <1>2, <1>4, <3>1, <3>2
    <2>3. (IF Sent(f) THEN flight[f].key \in Keys ELSE Blank(f))'
      BY <1>2, <1>9, <1>10, <2>1 DEF FlightFits
    <2>4. (InFlight(f) /\ ~flight[f].aborted => Shares(f) /\ (On(f) = {} => Has(micro, "check", f)))'
      BY <1>2, <1>9, <1>10, <2>1 DEF FlightFits
    <2>5. (flight[f].queued => InFlight(f))' /\ (Settled(f) => flight[f].outcome # "none")'
      BY <1>2, <1>9, <1>10, <2>1 DEF FlightFits
    <2>6. (Settled(f) /\ Shares(f) => Has(micro, "done", f) /\ AnswersFollow(micro, Members(f), f))'
      BY <1>2, <1>4, <1>10, <2>1 DEF FlightFits
    <2>7. (\A i \in 1..Len(flight[f].order) : sub[flight[f].order[i]].on = f)'
      BY <1>2, <1>9, <2>2
    <2>8. QED
      BY <2>3, <2>4, <2>5, <2>6, <2>7 DEF FlightFits
  <1>13. ASSUME NEW g \in Flights \ {f} PROVE FlightFits(g)'
    <2>1. FlightFits(g)
      BY DEF SharedInv
    <2>2. Settled(g) /\ Shares(g) => Has(micro', "done", g) /\ AnswersFollow(micro', Members(g), g)
      BY <2>1 DEF FlightFits
    <2>3. QED
      BY <1>3, <1>4, <1>10, <2>2, FlightStays
  <1>14. SubFits(s)'
    <2>1. SubFits(s)
      BY DEF SharedInv
    <2>2. Has(micro', "answer", s) => Settled(f)'
      BY <1>2, <1>10, <2>1 DEF SubFits
    <2>3. left.gets # "nothing" => left.at = "resolved" /\ Settled(f)' /\ ~Shares(f)'
      BY <1>2, <1>10
    <2>4. left.gets = "original" => ~flight'[f].shared
      BY <1>2, <1>9
    <2>5. QED
      BY <1>2, <1>3, <1>10, <2>2, <2>3, <2>4 DEF SubFits
  <1>15. ASSUME NEW t \in Subscribers \ {s} PROVE SubFits(t)'
    <2> DEFINE g == sub[t].on
    <2>1. SubFits(t) /\ g \in Flights \cup {NoFlight}
      BY <1>1 DEF SharedInv, SharedTyped, SubRow
    <2>2. g # NoFlight => /\ Sent(g)' /\ (Settled(g)' <=> Settled(g))
                          /\ \A i \in 1..Len(flight[g].order) :
                                i \in 1..Len(flight'[g].order) /\ flight'[g].order[i] = flight[g].order[i]
      BY <1>9, <1>10, <2>1 DEF SubFits
    <2>3. sub[t].gets # "nothing" => ~Shares(g)' /\ flight'[g].shared = flight[g].shared
      BY <1>9, <1>10, <2>1 DEF SubFits
    <2>4. QED
      BY <1>3, <2>2, <2>3, SubStays
  <1>16. SharedIsMarked'
    <2>1. \A t \in Subscribers : (Sees(t)' => Sees(t)) /\ sub'[t].on = sub[t].on
      BY <1>3 DEF Sees
    <2>2. \A t \in Subscribers : Sees(t) => sub[t].on \in Flights
      BY SubFlight DEF SharedInv, SubFits, Sees
    <2>3. QED
      BY <1>1, <1>9, <2>1, <2>2 DEF SharedIsMarked
  <1>17. CancelsAreOwn'
    <2>1. \A g \in Flights \ {f} : flight'[g].subscribers = Cardinality(On(g))' /\ (flight'[g].aborted => On(g)' = {})
      BY <1>1, <1>3, <1>4 DEF CancelsAreOwn
    <2>2. flight'[f].subscribers = Cardinality(On(f))' /\ ~flight'[f].aborted
      BY <1>5, <1>6, <1>7
    <2>3. QED
      BY <2>1, <2>2 DEF CancelsAreOwn
  <1>18. WaitingIsCounted'
    <2>1. {g \in Flights : flight[g].queued}' = {g \in Flights : flight[g].queued}
      BY <1>9
    <2>2. QED
      BY <2>1 DEF SharedInv, WaitingIsCounted
  <1>19. QED
    BY <1>8, <1>11, <1>12, <1>13, <1>14, <1>15, <1>16, <1>17, <1>18 DEF SharedInv

LEMMA CancelKeeps ==
    ASSUME SharedInv, NEW s \in Subscribers, Cancel(s)
    PROVE  SharedInv'
  <1>1. SharedTyped /\ SubFits(s) /\ sub[s].at = "waiting"
    BY DEF SharedInv, Cancel
  <1>2. PICK f \in Flights : f = sub[s].on
    BY <1>1, SubFlight
  <1>3. PICK left \in SubRow : /\ sub' = [sub EXCEPT ![s] = left]
                               /\ left.on = f /\ left.at = "cancelled" /\ left.gets = "nothing"
    <2>1. sub' = [sub EXCEPT ![s] = [sub[s] EXCEPT !.at = "cancelled"]] /\ sub[s] \in SubRow
      BY <1>1 DEF Cancel, SharedTyped
    <2>2. [sub[s] EXCEPT !.at = "cancelled"] \in SubRow
      BY <2>1, SubUpdates, <1>2
    <2>3. LET a == [sub[s] EXCEPT !.at = "cancelled"]
          IN  a.at = "cancelled" /\ a.on = f /\ a.gets = sub[s].gets
      BY <1>2, <2>1 DEF SubRow
    <2>4. sub[s].gets = "nothing"
      BY <1>1 DEF SubFits
    <2>5. QED
      BY <2>1, <2>2, <2>3, <2>4
  <1>4. micro' = Append(micro, Microtask("check", f)) /\ Microtask("check", f) \in Tasks
    BY <1>2 DEF Cancel, Tasks, Microtask
  <1>5. /\ micro' \in Seq(Tasks)
        /\ \A what, of : Has(micro', what, of) <=> Has(micro, what, of) \/ Microtask("check", f) = Microtask(what, of)
        /\ \A S, g : AnswersFollow(micro, S, g) => AnswersFollow(micro', S, g)
    <2>1. \A t : Microtask("check", f) # Microtask("answer", t)
      BY DEF Microtask
    <2>2. QED
      BY <1>1, <1>4, <2>1, Appended DEF SharedTyped
  <1>6. /\ \A g : Has(micro', "done", g) <=> Has(micro, "done", g)
        /\ \A g : Has(micro', "check", g) <=> Has(micro, "check", g) \/ g = f
        /\ \A t : Has(micro', "answer", t) <=> Has(micro, "answer", t)
    <2>1. \A what, of : Microtask("check", f) = Microtask(what, of) <=> what = "check" /\ of = f
      BY DEF Microtask
    <2>2. QED
      BY <1>5, <2>1
  <1>7. flight' = Leaves(s) /\ flights' = flights /\ waiting' = waiting
    BY DEF Cancel
  <1>8. QED
    BY <1>1, <1>2, <1>3, <1>5, <1>6, <1>7, LeaveKeeps

LEMMA AnsweredKeeps ==
    ASSUME SharedInv, Answered
    PROVE  SharedInv'
  <1>1. SharedTyped /\ micro \in Seq(Tasks) /\ micro # <<>> /\ Head(micro).what = "answer"
    BY DEF SharedInv, SharedTyped, Answered, IsNext
  <1>2. PICK s \in Subscribers : s = Head(micro).of /\ Head(micro) = Microtask("answer", s)
    BY <1>1, Removed DEF Tasks, Microtask
  <1>3. \A what, of : Microtask("answer", s) = Microtask(what, of) <=> what = "answer" /\ of = s
    BY DEF Microtask
  <1>4. /\ Tail(micro) \in Seq(Tasks) /\ Has(micro, "answer", s)
        /\ \A what, of : Has(micro, what, of) <=> Has(Tail(micro), what, of) \/ (what = "answer" /\ of = s)
        /\ \A S, g : AnswersFollow(micro, S, g) => AnswersFollow(Tail(micro), S, g) /\ s \notin S
    <2>1. /\ Tail(micro) \in Seq(Tasks)
          /\ \A what, of : Has(micro, what, of) <=> Has(Tail(micro), what, of) \/ Microtask("answer", s) = Microtask(what, of)
          /\ \A S, g : AnswersFollow(micro, S, g) =>
                /\ Microtask("answer", s) # Microtask("done", g) => AnswersFollow(Tail(micro), S, g)
                /\ \A t \in S : Microtask("answer", s) # Microtask("answer", t)
      BY <1>1, <1>2, Removed
    <2>2. \A what, of : Has(micro, what, of) <=> Has(Tail(micro), what, of) \/ (what = "answer" /\ of = s)
      BY <1>3, <2>1
    <2>3. Has(micro, "answer", s)
      BY <2>2
    <2>4. ASSUME NEW S, NEW g, AnswersFollow(micro, S, g) PROVE AnswersFollow(Tail(micro), S, g) /\ s \notin S
      <3>1. Microtask("answer", s) # Microtask("done", g)
        BY DEF Microtask
      <3>2. QED
        BY <2>1, <2>4, <3>1
    <2>5. QED
      BY <2>1, <2>2, <2>3, <2>4
  <1>5. SubFits(s) /\ sub[s] \in SubRow
    BY <1>1 DEF SharedInv, SharedTyped
  <1>6. PICK f \in Flights : f = sub[s].on /\ Settled(f) /\ ~Shares(f) /\ flight[f] \in FlightRow
    <2>1. sub[s].on \in Flights /\ Settled(sub[s].on)
      BY <1>4, <1>5 DEF SubFits, SubRow
    <2>2. FlightFits(sub[s].on) /\ flight[sub[s].on] \in FlightRow
      BY <1>1, <2>1 DEF SharedInv, SharedTyped
    <2>3. s \in Members(sub[s].on)
      BY <1>2 DEF Members
    <2>4. QED
      BY <1>4, <2>1, <2>2, <2>3 DEF FlightFits
  <1>7. CASE sub[s].at = "waiting"
    <2>1. flight[f].outcome \in {"resolved", "rejected"}
      BY <1>6 DEF SharedInv, FlightFits, FlightRow
    <2>2. sub[s].gets = "nothing"
      BY <1>5, <1>7 DEF SubFits
    <2>3. PICK gets \in {"nothing", "original", "clone"} :
             gets = IF flight[f].outcome = "resolved" THEN Copy(f) ELSE sub[s].gets
      BY <2>2 DEF Copy
    <2>4. PICK left \in SubRow : /\ sub' = [sub EXCEPT ![s] = left]
                                 /\ left.on = f /\ left.at = flight[f].outcome /\ left.gets = gets
      <3>1. sub' = [sub EXCEPT ![s] = [sub[s] EXCEPT !.at = flight[f].outcome, !.gets = gets]]
        BY <1>2, <1>6, <1>7, <2>3 DEF Answered
      <3>2. [sub[s] EXCEPT !.at = flight[f].outcome, !.gets = gets] \in SubRow
        BY <1>5, <2>1, SubUpdates, <1>6
      <3>3. LET a == [sub[s] EXCEPT !.at = flight[f].outcome, !.gets = gets]
            IN  a.at = flight[f].outcome /\ a.on = f /\ a.gets = gets
        BY <1>5, <1>6 DEF SubRow
      <3>4. QED
        BY <3>1, <3>2, <3>3
    <2>5. /\ gets # "nothing" => flight[f].outcome = "resolved"
          /\ gets = "original" => ~flight[f].shared
      BY <2>2, <2>3 DEF Copy
    <2>6. micro' = Append(Tail(micro), Microtask("check", f)) /\ Microtask("check", f) \in Tasks
      BY <1>2, <1>6, <1>7 DEF Answered, Tasks, Microtask
    <2>7. /\ micro' \in Seq(Tasks)
          /\ \A what, of : Has(micro', what, of) <=> Has(Tail(micro), what, of) \/ (what = "check" /\ of = f)
          /\ \A S, g : AnswersFollow(Tail(micro), S, g) => AnswersFollow(micro', S, g)
      <3>1. /\ \A t : Microtask("check", f) # Microtask("answer", t)
            /\ \A what, of : Microtask("check", f) = Microtask(what, of) <=> what = "check" /\ of = f
        BY DEF Microtask
      <3>2. PICK q \in Seq(Tasks) : q = Tail(micro) /\ micro' = Append(q, Microtask("check", f))
        BY <1>4, <2>6
      <3>3. /\ micro' \in Seq(Tasks)
            /\ \A what, of : Has(micro', what, of) <=> Has(q, what, of) \/ Microtask("check", f) = Microtask(what, of)
            /\ \A S, g : AnswersFollow(q, S, g) => AnswersFollow(micro', S, g)
        <4>1. PICK m \in Tasks : m = Microtask("check", f)
          BY <2>6
        <4>2. /\ Append(q, m) \in Seq(Tasks)
              /\ \A what, of : Has(Append(q, m), what, of) <=> Has(q, what, of) \/ m = Microtask(what, of)
              /\ \A S, g : AnswersFollow(q, S, g) /\ (Has(q, "done", g) \/ \A t \in S : m # Microtask("answer", t))
                              => AnswersFollow(Append(q, m), S, g)
          BY Appended
        <4>3. micro' = Append(q, m)
          BY <3>2, <4>1
        <4>4. QED
          BY <3>1, <4>1, <4>2, <4>3
      <3>4. QED
        BY <3>1, <3>2, <3>3
    <2>8. /\ \A g : Has(micro', "done", g) <=> Has(micro, "done", g)
          /\ \A g : Has(micro', "check", g) <=> Has(micro, "check", g) \/ g = f
          /\ \A t \in Subscribers \ {s} : Has(micro', "answer", t) <=> Has(micro, "answer", t)
          /\ \A S, g : AnswersFollow(micro, S, g) => AnswersFollow(micro', S, g)
      BY <1>4, <2>7
    <2>9. flight' = Leaves(s) /\ flights' = flights /\ waiting' = waiting
      BY <1>2, <1>7 DEF Answered
    <2>10. /\ left.at \in {"cancelled", "resolved", "rejected"}
           /\ left.gets # "nothing" => left.at = "resolved" /\ Settled(f) /\ ~Shares(f)
           /\ left.gets = "original" => ~flight[f].shared
      BY <1>6, <2>1, <2>4, <2>5
    <2>11. QED
      BY <1>4, <1>6, <1>7, <2>4, <2>7, <2>8, <2>9, <2>10, LeaveKeeps
  <1>8. CASE sub[s].at # "waiting"
    <2>1. micro' = Tail(micro) /\ UNCHANGED <<flights, flight, waiting, sub>>
      BY <1>2, <1>8 DEF Answered
    <2>2. SharedTyped'
      BY <1>1, <1>4, <2>1 DEF SharedTyped
    <2>3. SentInOrder' /\ MapFits' /\ MicroFits'
      <3>1. SentInOrder' /\ MapFits'
        BY <2>1 DEF SharedInv, SentInOrder, MapFits, Sent
      <3>2. \A what, of : Has(micro', what, of) => Has(micro, what, of)
        BY <1>4, <2>1
      <3>3. MicroFits'
        BY <2>1, <3>2 DEF SharedInv, MicroFits, Sent, Settled
      <3>4. QED
        BY <3>1, <3>3
    <2>4. ASSUME NEW g \in Flights PROVE FlightFits(g)'
      <3>1. FlightFits(g)
        BY DEF SharedInv
      <3>2. Settled(g) /\ Shares(g) => Has(micro', "done", g) /\ AnswersFollow(micro', Members(g), g)
        BY <1>4, <2>1, <3>1 DEF FlightFits
      <3>3. (Shares(g)' <=> Shares(g)) /\ On(g)' = On(g) /\ Members(g)' = Members(g)
        BY <2>1 DEF Shares, On, Members
      <3>4. Has(micro, "check", g) => Has(micro', "check", g)
        BY <1>4, <2>1
      <3>5. QED
        BY <2>1, <3>2, <3>3, <3>4, FlightStays
    <2>5. ASSUME NEW t \in Subscribers PROVE SubFits(t)'
      <3>1. SubFits(t)
        BY DEF SharedInv
      <3>2. Has(micro', "answer", t) => Has(micro, "answer", t)
        BY <1>4, <2>1
      <3>3. sub[t].at = "waiting" => (Has(micro, "answer", t) => Has(micro', "answer", t))
        BY <1>4, <1>8, <2>1
      <3>4. QED
        BY <2>1, <3>1, <3>2, <3>3 DEF SubFits, Sent, Settled, Shares
    <2>6. SharedIsMarked' /\ CancelsAreOwn' /\ WaitingIsCounted'
      BY <2>1 DEF SharedInv, SharedIsMarked, CancelsAreOwn, WaitingIsCounted, Sees, On
    <2>7. QED
      BY <2>2, <2>3, <2>4, <2>5, <2>6 DEF SharedInv
  <1>9. QED
    BY <1>7, <1>8

-----------------------------------------------------------------------------
(* A flight leaves the map: nobody waits for it, or it is over.            *)

LEMMA UnmappedKeeps ==
    ASSUME SharedInv, NEW f \in Flights, Sent(f), Shares(f),
           flights' = [flights EXCEPT ![flight[f].key] = NoFlight],
           UNCHANGED <<waiting, sub>>,
           \/ flight' = flight /\ Settled(f)
           \/ flight' = [flight EXCEPT ![f].aborted = TRUE] /\ flight[f].subscribers = 0,
           micro # <<>>, micro' = Tail(micro),
           Head(micro) \in {Microtask("check", f), Microtask("done", f)}
    PROVE  SharedInv'
  <1>1. SharedTyped /\ MapFits /\ MicroFits /\ SharedIsMarked /\ CancelsAreOwn
    BY DEF SharedInv
  <1>2. /\ FlightFits(f) /\ flight[f] \in FlightRow /\ flight[f].key \in Keys /\ f # NoFlight
    BY <1>1 DEF SharedInv, SharedTyped, FlightFits, Flights, NoFlight
  <1>3. PICK k \in Keys : k = flight[f].key /\ flights[k] = f
    BY <1>2 DEF Shares
  <1>4. flights'[k] = NoFlight /\ \A l \in Keys \ {k} : flights'[l] = flights[l]
    BY <1>1, <1>3 DEF SharedTyped
  <1>5. PICK new \in FlightRow :
           /\ flight' = [flight EXCEPT ![f] = new]
           /\ new.at = flight[f].at /\ new.key = flight[f].key /\ new.subscribers = flight[f].subscribers
           /\ new.order = flight[f].order /\ new.shared = flight[f].shared
           /\ new.queued = flight[f].queued /\ new.outcome = flight[f].outcome
           /\ new.aborted = flight[f].aborted \/ (new.aborted /\ flight[f].subscribers = 0)
           /\ Settled(f) \/ new.aborted
    <2>1. CASE flight' = flight /\ Settled(f)
      <3>1. PICK a \in FlightRow : a = flight[f]
        BY <1>2
      <3>2. flight' = [flight EXCEPT ![f] = a] /\ Settled(f)
        BY <1>1, <2>1, <3>1 DEF SharedTyped
      <3>3. QED
        BY <3>1, <3>2
    <2>2. CASE flight' = [flight EXCEPT ![f].aborted = TRUE] /\ flight[f].subscribers = 0
      <3>1. flight' = [flight EXCEPT ![f] = [flight[f] EXCEPT !.aborted = TRUE]]
        BY <2>2
      <3>2. [flight[f] EXCEPT !.aborted = TRUE] \in FlightRow
        BY <1>2 DEF FlightRow
      <3>3. LET a == [flight[f] EXCEPT !.aborted = TRUE]
            IN  /\ a.at = flight[f].at /\ a.key = flight[f].key /\ a.subscribers = flight[f].subscribers
                /\ a.order = flight[f].order /\ a.shared = flight[f].shared /\ a.aborted
                /\ a.queued = flight[f].queued /\ a.outcome = flight[f].outcome
        BY <1>2 DEF FlightRow
      <3>4. QED
        BY <2>2, <3>1, <3>2, <3>3
    <2>3. QED
      BY <2>1, <2>2
  <1>6. flight'[f] = new /\ \A g \in Flights \ {f} : flight'[g] = flight[g]
    BY <1>1, <1>5 DEF SharedTyped
  <1>7. \A g \in Flights : /\ flight'[g].at = flight[g].at /\ flight'[g].key = flight[g].key
                           /\ flight'[g].subscribers = flight[g].subscribers /\ flight'[g].queued = flight[g].queued
                           /\ flight'[g].order = flight[g].order /\ flight'[g].shared = flight[g].shared
                           /\ flight'[g].outcome = flight[g].outcome
    BY <1>5, <1>6
  <1>8. \A g \in Flights : /\ (Sent(g)' <=> Sent(g)) /\ (Settled(g)' <=> Settled(g)) /\ (InFlight(g)' <=> InFlight(g))
                           /\ On(g)' = On(g) /\ Members(g)' = Members(g)
    BY <1>7 DEF Sent, Settled, InFlight, On, Members
  <1>9. ~Shares(f)' /\ \A g \in Flights \ {f} : Sent(g) => (Shares(g)' <=> Shares(g))
    <2>1. ~Shares(f)'
      BY <1>2, <1>3, <1>4, <1>7 DEF Shares
    <2>2. ASSUME NEW g \in Flights \ {f}, Sent(g) PROVE Shares(g)' <=> Shares(g)
      <3>1. flight[g].key \in Keys /\ g # NoFlight
        BY <2>2 DEF SharedInv, FlightFits, Flights, NoFlight
      <3>2. QED
        BY <1>3, <1>4, <1>6, <3>1 DEF Shares
    <2>3. QED
      BY <2>1, <2>2
  <1>10. /\ Tail(micro) \in Seq(Tasks)
         /\ \A what, of : Has(micro', what, of) => Has(micro, what, of)
         /\ \A what, of : of # f /\ Has(micro, what, of) /\ what # "answer" => Has(micro', what, of)
         /\ \A t : Has(micro', "answer", t) <=> Has(micro, "answer", t)
         /\ \A S, g : g # f /\ AnswersFollow(micro, S, g) => AnswersFollow(micro', S, g)
    <2>1. /\ Tail(micro) \in Seq(Tasks)
          /\ \A what, of : Has(micro, what, of) <=> Has(Tail(micro), what, of) \/ Head(micro) = Microtask(what, of)
          /\ \A S, g : AnswersFollow(micro, S, g) /\ Head(micro) # Microtask("done", g) => AnswersFollow(Tail(micro), S, g)
      BY <1>1, Removed DEF SharedTyped
    <2>2. /\ \A what, of : Head(micro) = Microtask(what, of) => of = f /\ what # "answer"
      BY DEF Microtask
    <2>3. QED
      BY <2>1, <2>2
  <1>11. SharedTyped'
    BY <1>1, <1>3, <1>5, <1>10 DEF SharedTyped
  <1>12. SentInOrder' /\ MapFits' /\ MicroFits'
    <2>1. SentInOrder'
      BY <1>8 DEF SharedInv, SentInOrder
    <2>2. MapFits'
      <3>1. ASSUME NEW l \in Keys, flights'[l] # NoFlight
            PROVE  LET g == flights'[l] IN flight'[g].key = l /\ flight'[g].at # "none" /\ ~flight'[g].aborted
        <4>1. PICK g \in Flights : g = flights'[l] /\ g = flights[l]
          BY <1>1, <1>4, <3>1 DEF SharedTyped
        <4>2. flight[g].key = l /\ Sent(g) /\ ~flight[g].aborted
          BY <1>1, <1>4, <3>1, <4>1 DEF MapFits
        <4>3. g # f
          BY <1>3, <1>4, <3>1, <4>1, <4>2
        <4>4. QED
          BY <1>6, <4>1, <4>2, <4>3 DEF Sent
      <3>2. QED
        BY <3>1 DEF MapFits, Sent
    <2>3. MicroFits'
      BY <1>1, <1>8, <1>10 DEF MicroFits
    <2>4. QED
      BY <2>1, <2>2, <2>3
  <1>13. FlightFits(f)'
    <2>1. (IF Sent(f) THEN flight[f].key \in Keys ELSE Blank(f))'
      BY <1>2, <1>7, <1>8
    <2>2. (\A i \in 1..Len(flight[f].order) : sub[flight[f].order[i]].on = f)'
      BY <1>2, <1>7 DEF FlightFits
    <2>3. ~(InFlight(f)' /\ ~flight'[f].aborted)
      BY <1>5, <1>6 DEF InFlight, Settled
    <2>4. (flight[f].queued => InFlight(f))' /\ (Settled(f) => flight[f].outcome # "none")'
      BY <1>2, <1>7, <1>8 DEF FlightFits
    <2>5. QED
      BY <1>9, <2>1, <2>2, <2>3, <2>4 DEF FlightFits
  <1>14. ASSUME NEW g \in Flights \ {f} PROVE FlightFits(g)'
    <2>1. FlightFits(g)
      BY DEF SharedInv
    <2>2. Settled(g) /\ Shares(g) => Has(micro', "done", g) /\ AnswersFollow(micro', Members(g), g)
      BY <1>10, <2>1 DEF FlightFits
    <2>3. QED
      BY <1>6, <1>8, <1>9, <1>10, <2>2, FlightStays
  <1>15. ASSUME NEW t \in Subscribers PROVE SubFits(t)'
    <2> DEFINE g == sub[t].on
    <2>1. SubFits(t) /\ g \in Flights \cup {NoFlight}
      BY <1>1 DEF SharedInv, SharedTyped, SubRow
    <2>2. g # NoFlight => /\ Sent(g)' /\ (Settled(g)' <=> Settled(g))
                          /\ \A i \in 1..Len(flight[g].order) :
                                i \in 1..Len(flight'[g].order) /\ flight'[g].order[i] = flight[g].order[i]
      BY <1>7, <1>8, <2>1 DEF SubFits
    <2>3. sub[t].gets # "nothing" => ~Shares(g)' /\ flight'[g].shared = flight[g].shared
      BY <1>7, <1>9, <2>1 DEF SubFits
    <2>4. QED
      BY <1>10, <2>2, <2>3, SubStays
  <1>16. SharedIsMarked'
    <2>1. \A t \in Subscribers : Sees(t)' <=> Sees(t)
      BY DEF Sees
    <2>2. \A t \in Subscribers : Sees(t) => sub[t].on \in Flights
      BY SubFlight DEF SharedInv, SubFits, Sees
    <2>3. QED
      BY <1>1, <1>7, <2>1, <2>2 DEF SharedIsMarked
  <1>17. CancelsAreOwn'
    <2>1. flight[f].subscribers = 0 => On(f) = {}
      <3>1. flight[f].subscribers = Cardinality(On(f))
        BY <1>1 DEF CancelsAreOwn
      <3>2. QED
        BY <3>1, OnFinite, FS_EmptySet
    <2>2. flight'[f].aborted => On(f)' = {}
      BY <1>1, <1>5, <1>6, <1>8, <2>1 DEF CancelsAreOwn
    <2>3. \A g \in Flights \ {f} : flight'[g].aborted => On(g)' = {}
      BY <1>1, <1>6, <1>8 DEF CancelsAreOwn
    <2>4. \A g \in Flights : flight'[g].subscribers = Cardinality(On(g))'
      BY <1>1, <1>7, <1>8 DEF CancelsAreOwn
    <2>5. QED
      BY <2>2, <2>3, <2>4 DEF CancelsAreOwn
  <1>18. WaitingIsCounted'
    <2>1. {g \in Flights : flight[g].queued}' = {g \in Flights : flight[g].queued}
      BY <1>7
    <2>2. QED
      BY <2>1 DEF SharedInv, WaitingIsCounted
  <1>19. QED
    BY <1>11, <1>12, <1>13, <1>14, <1>15, <1>16, <1>17, <1>18 DEF SharedInv

LEMMA TailKeeps ==
    ASSUME SharedInv, NEW f \in Flights, micro # <<>>, micro' = Tail(micro),
           UNCHANGED <<flights, flight, waiting, sub>>,
           Head(micro) \in {Microtask("check", f), Microtask("done", f)},
           InFlight(f) /\ ~flight[f].aborted => On(f) # {},
           Head(micro) = Microtask("done", f) => ~Shares(f)
    PROVE  SharedInv'
  <1>1. SharedTyped /\ MapFits /\ MicroFits
    BY DEF SharedInv
  <1>2. /\ Tail(micro) \in Seq(Tasks)
        /\ \A what, of : Has(micro', what, of) => Has(micro, what, of)
        /\ \A what, of : of # f /\ Has(micro, what, of) /\ what # "answer" => Has(micro', what, of)
        /\ \A t : Has(micro', "answer", t) <=> Has(micro, "answer", t)
        /\ \A S, g : (g # f \/ Head(micro) # Microtask("done", f)) /\ AnswersFollow(micro, S, g)
                        => AnswersFollow(micro', S, g)
        /\ \A g : Head(micro) # Microtask("done", f) /\ Has(micro, "done", g) => Has(micro', "done", g)
    <2>1. /\ Tail(micro) \in Seq(Tasks)
          /\ \A what, of : Has(micro, what, of) <=> Has(Tail(micro), what, of) \/ Head(micro) = Microtask(what, of)
          /\ \A S, g : AnswersFollow(micro, S, g) /\ Head(micro) # Microtask("done", g) => AnswersFollow(Tail(micro), S, g)
      BY <1>1, Removed DEF SharedTyped
    <2>2. \A what, of : Head(micro) = Microtask(what, of) => of = f /\ what # "answer"
      BY DEF Microtask
    <2>3. QED
      BY <2>1, <2>2
  <1>3. SharedTyped'
    BY <1>1, <1>2 DEF SharedTyped
  <1>4. SentInOrder' /\ MapFits' /\ MicroFits'
    <2>1. SentInOrder' /\ MapFits'
      BY DEF SharedInv, SentInOrder, MapFits, Sent
    <2>2. MicroFits'
      BY <1>1, <1>2 DEF MicroFits, Sent, Settled
    <2>3. QED
      BY <2>1, <2>2
  <1>5. ASSUME NEW g \in Flights PROVE FlightFits(g)'
    <2>1. FlightFits(g)
      BY DEF SharedInv
    <2>2. /\ Shares(g)' <=> Shares(g)
          /\ On(g)' = On(g) /\ Members(g)' = Members(g)
          /\ (Sent(g)' <=> Sent(g)) /\ (Settled(g)' <=> Settled(g)) /\ (InFlight(g)' <=> InFlight(g))
          /\ Blank(g)' <=> Blank(g)
      BY DEF Shares, On, Members, Sent, Settled, InFlight, Blank
    <2>3. (InFlight(g) /\ ~flight[g].aborted => Shares(g) /\ (On(g) = {} => Has(micro, "check", g)))'
      BY <1>2, <2>1, <2>2 DEF FlightFits
    <2>4. (Settled(g) /\ Shares(g) => Has(micro, "done", g) /\ AnswersFollow(micro, Members(g), g))'
      BY <1>2, <2>1, <2>2 DEF FlightFits
    <2>5. QED
      BY <2>1, <2>2, <2>3, <2>4 DEF FlightFits
  <1>6. ASSUME NEW t \in Subscribers PROVE SubFits(t)'
    BY <1>2 DEF SharedInv, SubFits, Sent, Settled, Shares
  <1>7. SharedIsMarked' /\ CancelsAreOwn' /\ WaitingIsCounted'
    BY DEF SharedInv, SharedIsMarked, CancelsAreOwn, WaitingIsCounted, Sees, On
  <1>8. QED
    BY <1>3, <1>4, <1>5, <1>6, <1>7 DEF SharedInv

LEMMA CheckKeeps ==
    ASSUME SharedInv, Check
    PROVE  SharedInv'
  <1>1. SharedTyped /\ micro \in Seq(Tasks) /\ micro # <<>> /\ Head(micro).what = "check" /\ micro' = Tail(micro)
    BY DEF SharedInv, SharedTyped, Check, IsNext
  <1>2. PICK f \in Flights : f = Head(micro).of /\ Head(micro) = Microtask("check", f)
    BY <1>1, Removed DEF Tasks, Microtask
  <1>3. Has(micro, "check", f)
    BY <1>1, <1>2, Removed
  <1>4. Sent(f) /\ FlightFits(f)
    BY <1>3 DEF SharedInv, MicroFits
  <1>5. CASE Abandoned(f)
    <2>1. /\ flights' = [flights EXCEPT ![flight[f].key] = NoFlight]
          /\ flight' = [flight EXCEPT ![f].aborted = TRUE]
          /\ UNCHANGED <<waiting, sub>>
      BY <1>2, <1>5 DEF Check
    <2>2. QED
      BY <1>1, <1>2, <1>4, <1>5, <2>1, UnmappedKeeps DEF Abandoned
  <1>6. CASE ~Abandoned(f)
    <2>1. UNCHANGED <<flights, flight, waiting, sub>>
      BY <1>2, <1>6 DEF Check
    <2>2. InFlight(f) /\ ~flight[f].aborted => On(f) # {}
      <3>1. Shares(f) => flight[f].subscribers # 0
        BY <1>6 DEF Abandoned
      <3>2. flight[f].subscribers = Cardinality(On(f))
        BY DEF SharedInv, CancelsAreOwn
      <3>3. QED
        BY <1>4, <3>1, <3>2, FS_EmptySet DEF FlightFits
    <2>3. Microtask("check", f) # Microtask("done", f)
      BY DEF Microtask
    <2>4. QED
      BY <1>1, <1>2, <2>1, <2>2, <2>3, TailKeeps
  <1>7. QED
    BY <1>5, <1>6

LEMMA DoneKeeps ==
    ASSUME SharedInv, Done
    PROVE  SharedInv'
  <1>1. SharedTyped /\ micro \in Seq(Tasks) /\ micro # <<>> /\ Head(micro).what = "done" /\ micro' = Tail(micro)
    BY DEF SharedInv, SharedTyped, Done, IsNext
  <1>2. PICK f \in Flights : f = Head(micro).of /\ Head(micro) = Microtask("done", f)
    BY <1>1, Removed DEF Tasks, Microtask
  <1>3. Has(micro, "done", f)
    BY <1>1, <1>2, Removed
  <1>4. Sent(f) /\ Settled(f) /\ ~InFlight(f)
    BY <1>3 DEF SharedInv, MicroFits, Sent, Settled, InFlight
  <1>5. flight' = flight /\ UNCHANGED <<waiting, sub>>
    BY DEF Done
  <1>6. CASE Shares(f)
    <2>1. flights' = [flights EXCEPT ![flight[f].key] = NoFlight]
      BY <1>2, <1>6 DEF Done
    <2>2. QED
      BY <1>1, <1>2, <1>4, <1>5, <1>6, <2>1, UnmappedKeeps
  <1>7. CASE ~Shares(f)
    <2>1. flights' = flights
      BY <1>2, <1>7 DEF Done
    <2>2. QED
      BY <1>1, <1>2, <1>4, <1>5, <1>7, <2>1, TailKeeps
  <1>8. QED
    BY <1>6, <1>7

-----------------------------------------------------------------------------
(* The request of a flight, when no microtask is left.                     *)

LEMMA NothingHas == ASSUME micro = <<>> PROVE \A what, of : ~Has(micro, what, of)
  BY DEF Has

\* Every step of a request: one flight in flight goes on or settles.
LEMMA RequestStepKeeps ==
    ASSUME SharedInv, micro = <<>>, NEW f \in Flights, InFlight(f), UNCHANGED <<flights, sub>>,
           NEW new \in FlightRow, flight' = [flight EXCEPT ![f] = new],
           new.at # "none", new.key = flight[f].key, new.subscribers = flight[f].subscribers,
           new.order = flight[f].order, new.shared = flight[f].shared, new.aborted = flight[f].aborted,
           FlightFits(f)', WaitingIsCounted', MicroFits', micro' \in Seq(Tasks),
           \A t \in Subscribers : (Has(micro', "answer", t) <=> Settled(f)' /\ \E i \in 1..Len(new.order) : new.order[i] = t)
    PROVE  SharedInv'
  <1>1. SharedTyped /\ MapFits /\ SharedIsMarked /\ CancelsAreOwn
    BY DEF SharedInv
  <1>2. FlightFits(f) /\ ~Settled(f) /\ Sent(f) /\ flight[f] \in FlightRow /\ flight[f].order \in Seq(Subscribers)
    BY <1>1 DEF SharedInv, SharedTyped, InFlight, Settled, Sent, FlightRow
  <1>3. flight'[f] = new /\ \A g \in Flights \ {f} : flight'[g] = flight[g]
    BY <1>1 DEF SharedTyped
  <1>4. \A g \in Flights : /\ flight'[g].key = flight[g].key /\ flight'[g].subscribers = flight[g].subscribers
                           /\ flight'[g].order = flight[g].order /\ flight'[g].shared = flight[g].shared
                           /\ flight'[g].aborted = flight[g].aborted
    BY <1>3
  <1>5. \A g \in Flights : /\ (Sent(g)' <=> Sent(g)) /\ (Shares(g)' <=> Shares(g))
                           /\ On(g)' = On(g) /\ Members(g)' = Members(g)
                           /\ g # f => (Settled(g)' <=> Settled(g))
    <2>1. \A g \in Flights : Sent(g)' <=> Sent(g)
      BY <1>2, <1>3 DEF Sent
    <2>2. \A g \in Flights : (Shares(g)' <=> Shares(g)) /\ On(g)' = On(g) /\ Members(g)' = Members(g)
      BY <1>4 DEF Shares, On, Members
    <2>3. QED
      BY <1>3, <2>1, <2>2 DEF Settled
  <1>6. \A what, of : ~Has(micro, what, of)
    BY NothingHas
  <1>7. SharedTyped'
    BY <1>1 DEF SharedTyped
  <1>8. SentInOrder' /\ MapFits'
    <2>1. SentInOrder'
      BY <1>5 DEF SharedInv, SentInOrder
    <2>2. MapFits'
      BY <1>1, <1>4, <1>5 DEF MapFits, SharedTyped
    <2>3. QED
      BY <2>1, <2>2
  <1>9. ASSUME NEW g \in Flights \ {f} PROVE FlightFits(g)'
    <2>1. FlightFits(g)
      BY DEF SharedInv
    <2>2. ~(Settled(g) /\ Shares(g))
      BY <1>6, <2>1 DEF FlightFits
    <2>3. QED
      BY <1>3, <1>5, <1>6, <2>2, FlightStays
  <1>10. ASSUME NEW t \in Subscribers PROVE SubFits(t)'
    <2> DEFINE g == sub[t].on
    <2>1. SubFits(t) /\ g \in Flights \cup {NoFlight} /\ f # NoFlight
      BY <1>1 DEF SharedInv, SharedTyped, SubRow, Flights, NoFlight
    <2>2. (\E i \in 1..Len(new.order) : new.order[i] = t) => g = f
      BY <1>2 DEF FlightFits
    <2>3. sub[t].at = "waiting" => \E i \in 1..Len(flight'[g].order) : flight'[g].order[i] = t
      BY <1>4, <2>1 DEF SubFits
    <2>4. sub[t].at = "waiting" /\ Settled(g)' => Has(micro', "answer", t)
      <3>1. sub[t].at = "waiting" => g \in Flights /\ ~Settled(g)
        BY <1>6, <2>1 DEF SubFits
      <3>2. QED
        BY <1>3, <1>5, <2>3, <3>1
    <2>5. Has(micro', "answer", t) => g # NoFlight /\ Settled(g)'
      BY <2>1, <2>2
    <2>6. sub[t].gets # "nothing" => sub[t].at = "resolved" /\ Settled(g)' /\ ~Shares(g)' /\ g \in Flights
      BY <1>2, <1>5, <2>1 DEF SubFits
    <2>7. sub[t].gets = "original" => ~flight'[g].shared
      BY <1>4, <2>1, <2>6 DEF SubFits
    <2>8. g # NoFlight => Sent(g)'
      BY <1>5, <2>1 DEF SubFits
    <2>9. sub' = sub /\ (sub[t].at = "idle" <=> g = NoFlight)
      BY <2>1 DEF SubFits
    <2>10. QED
      BY <2>3, <2>4, <2>5, <2>6, <2>7, <2>8, <2>9 DEF SubFits
  <1>11. SharedIsMarked'
    <2>1. \A t \in Subscribers : Sees(t)' <=> Sees(t)
      BY DEF Sees
    <2>2. \A t \in Subscribers : Sees(t) => sub[t].on \in Flights
      BY SubFlight DEF SharedInv, SubFits, Sees
    <2>3. QED
      BY <1>1, <1>4, <2>1, <2>2 DEF SharedIsMarked
  <1>12. CancelsAreOwn'
    BY <1>1, <1>4, <1>5 DEF CancelsAreOwn
  <1>13. QED
    BY <1>7, <1>8, <1>9, <1>10, <1>11, <1>12 DEF SharedInv

\* The count of the clients that are queued follows the mark of one flight.
LEMMA CountFollows ==
    ASSUME SharedInv, NEW f \in Flights, \A g \in Flights \ {f} : flight'[g].queued = flight[g].queued,
           waiting' = IF flight'[f].queued THEN IF flight[f].queued THEN waiting ELSE waiting + 1 ELSE OneLess(f)
    PROVE  WaitingIsCounted'
  <1> DEFINE Q == {g \in Flights : flight[g].queued}
             P == {g \in Flights : flight'[g].queued}
  <1>1. IsFiniteSet(Q) /\ waiting = Cardinality(Q) /\ Cardinality(Q) \in Nat
    <2>1. IsFiniteSet(Flights)
      BY FS_Interval, SharedAssumption DEF Flights
    <2>2. IsFiniteSet(Q)
      BY <2>1, FS_Subset
    <2>3. QED
      BY <2>2, FS_CardinalityType DEF SharedInv, WaitingIsCounted
  <1>2. CASE flight'[f].queued /\ flight[f].queued
    <2>1. P = Q
      BY <1>2
    <2>2. QED
      BY <1>1, <1>2, <2>1 DEF WaitingIsCounted
  <1>3. CASE flight'[f].queued /\ ~flight[f].queued
    <2>1. P = Q \cup {f} /\ f \notin Q
      BY <1>3
    <2>2. Cardinality(P) = Cardinality(Q) + 1
      BY <1>1, <2>1, FS_AddElement
    <2>3. QED
      BY <1>1, <1>3, <2>2 DEF WaitingIsCounted
  <1>4. CASE ~flight'[f].queued /\ flight[f].queued
    <2>1. P = Q \ {f} /\ f \in Q
      BY <1>4
    <2>2. Cardinality(P) = Cardinality(Q) - 1
      BY <1>1, <2>1, FS_RemoveElement
    <2>3. QED
      BY <1>1, <1>4, <2>2 DEF WaitingIsCounted, OneLess
  <1>5. CASE ~flight'[f].queued /\ ~flight[f].queued
    <2>1. P = Q
      BY <1>5
    <2>2. QED
      BY <1>1, <1>5, <2>1 DEF WaitingIsCounted, OneLess
  <1>6. QED
    BY <1>2, <1>3, <1>4, <1>5

\* Busy and Retry: the request goes on.
LEMMA GoesOnKeeps ==
    ASSUME SharedInv, micro = <<>>, NEW f \in Flights, InFlight(f), UNCHANGED <<flights, sub, micro>>,
           NEW at \in {"fetching", "sleeping"}, NEW queued \in BOOLEAN,
           flight' = [flight EXCEPT ![f] = [flight[f] EXCEPT !.at = at, !.queued = queued]],
           waiting' = IF queued THEN IF flight[f].queued THEN waiting ELSE waiting + 1 ELSE OneLess(f)
    PROVE  SharedInv'
  <1>1. SharedTyped /\ MicroFits /\ FlightFits(f) /\ flight[f] \in FlightRow
    BY DEF SharedInv, SharedTyped
  <1>2. PICK new \in FlightRow :
           /\ flight' = [flight EXCEPT ![f] = new]
           /\ new.at = at /\ new.key = flight[f].key /\ new.subscribers = flight[f].subscribers
           /\ new.order = flight[f].order /\ new.shared = flight[f].shared /\ new.aborted = flight[f].aborted
           /\ new.queued = queued /\ new.outcome = flight[f].outcome
    <2>1. [flight[f] EXCEPT !.at = at, !.queued = queued] \in FlightRow
      BY <1>1 DEF FlightRow
    <2>2. LET a == [flight[f] EXCEPT !.at = at, !.queued = queued]
          IN  /\ a.at = at /\ a.key = flight[f].key /\ a.subscribers = flight[f].subscribers
              /\ a.order = flight[f].order /\ a.shared = flight[f].shared /\ a.aborted = flight[f].aborted
              /\ a.queued = queued /\ a.outcome = flight[f].outcome
      BY <1>1 DEF FlightRow
    <2>3. QED
      BY <2>1, <2>2
  <1>3. flight'[f] = new /\ \A g \in Flights \ {f} : flight'[g] = flight[g]
    BY <1>1, <1>2 DEF SharedTyped
  <1>4. InFlight(f)' /\ Sent(f)' /\ ~Settled(f)' /\ Sent(f)
    BY <1>2, <1>3 DEF InFlight, Sent, Settled
  <1>5. \A what, of : ~Has(micro, what, of)
    BY NothingHas
  <1>6. FlightFits(f)'
    <2>1. (Shares(f)' <=> Shares(f)) /\ On(f)' = On(f)
      BY <1>2, <1>3 DEF Shares, On
    <2>2. \A i \in 1..Len(new.order) : sub[new.order[i]].on = f
      BY <1>1, <1>2 DEF FlightFits
    <2>3. new.key \in Keys
      BY <1>1, <1>2, <1>4 DEF FlightFits
    <2>4. (InFlight(f) /\ ~flight[f].aborted => Shares(f) /\ (On(f) = {} => Has(micro, "check", f)))'
      BY <1>1, <1>2, <1>3, <2>1 DEF FlightFits
    <2>5. QED
      BY <1>3, <1>4, <2>2, <2>3, <2>4 DEF FlightFits
  <1>7. WaitingIsCounted'
    BY <1>2, <1>3, CountFollows
  <1>8. MicroFits' /\ micro' \in Seq(Tasks)
    BY <1>1, <1>5 DEF MicroFits, SharedTyped
  <1>9. \A t \in Subscribers : ~Has(micro', "answer", t)
    BY <1>5
  <1>10. QED
    BY <1>2, <1>4, <1>6, <1>7, <1>8, <1>9, RequestStepKeeps

LEMMA BusyKeeps ==
    ASSUME SharedInv, NEW f \in Flights, Busy(f)
    PROVE  SharedInv'
  <1>1. /\ micro = <<>> /\ InFlight(f) /\ UNCHANGED <<flights, sub, micro>>
        /\ flight' = [flight EXCEPT ![f] = [flight[f] EXCEPT !.at = "sleeping", !.queued = TRUE]]
        /\ waiting' = IF TRUE THEN IF flight[f].queued THEN waiting ELSE waiting + 1 ELSE OneLess(f)
    BY DEF Busy, Quiet, InFlight
  <1>2. "sleeping" \in {"fetching", "sleeping"} /\ TRUE \in BOOLEAN
    OBVIOUS
  <1>3. QED
    BY <1>1, <1>2, GoesOnKeeps

LEMMA RetryKeeps ==
    ASSUME SharedInv, NEW f \in Flights, Retry(f)
    PROVE  SharedInv'
  <1>1. /\ micro = <<>> /\ InFlight(f) /\ UNCHANGED <<flights, sub, micro, waiting>>
        /\ flight' = [flight EXCEPT ![f] = [flight[f] EXCEPT !.at = "fetching"]]
    BY DEF Retry, Quiet, InFlight
  <1>2. flight[f] \in FlightRow
    BY DEF SharedInv, SharedTyped
  <1>3. PICK queued \in BOOLEAN : queued = flight[f].queued
    BY <1>2 DEF FlightRow
  <1>4. [flight[f] EXCEPT !.at = "fetching"] = [flight[f] EXCEPT !.at = "fetching", !.queued = queued]
    BY <1>2, <1>3 DEF FlightRow
  <1>5. flight' = [flight EXCEPT ![f] = [flight[f] EXCEPT !.at = "fetching", !.queued = queued]]
    BY <1>1, <1>4
  <1>6. waiting' = IF queued THEN IF flight[f].queued THEN waiting ELSE waiting + 1 ELSE OneLess(f)
    BY <1>1, <1>3 DEF OneLess
  <1>7. "fetching" \in {"fetching", "sleeping"}
    OBVIOUS
  <1>8. QED
    BY <1>1, <1>5, <1>6, <1>7, GoesOnKeeps

LEMMA SettleKeeps ==
    ASSUME SharedInv, NEW f \in Flights, Settle(f)
    PROVE  SharedInv'
  <1>1. /\ SharedTyped /\ FlightFits(f) /\ flight[f] \in FlightRow /\ flight[f].order \in Seq(Subscribers)
    BY DEF SharedInv, SharedTyped, FlightRow
  <1>2. micro = <<>> /\ InFlight(f) /\ UNCHANGED <<flights, sub>> /\ waiting' = OneLess(f) /\ micro' = Reactions(f)
    BY DEF Settle, Quiet
  <1>3. PICK outcome \in {"resolved", "rejected"} :
           flight' = [flight EXCEPT ![f] = [flight[f] EXCEPT !.at = "settled", !.outcome = outcome, !.queued = FALSE]]
    BY DEF Settle
  <1>4. PICK new \in FlightRow :
           /\ flight' = [flight EXCEPT ![f] = new]
           /\ new.at = "settled" /\ new.key = flight[f].key /\ new.subscribers = flight[f].subscribers
           /\ new.order = flight[f].order /\ new.shared = flight[f].shared /\ new.aborted = flight[f].aborted
           /\ new.queued = FALSE /\ new.outcome = outcome
    <2>1. [flight[f] EXCEPT !.at = "settled", !.outcome = outcome, !.queued = FALSE] \in FlightRow
      BY <1>1 DEF FlightRow
    <2>2. LET a == [flight[f] EXCEPT !.at = "settled", !.outcome = outcome, !.queued = FALSE]
          IN  /\ a.at = "settled" /\ a.key = flight[f].key /\ a.subscribers = flight[f].subscribers
              /\ a.order = flight[f].order /\ a.shared = flight[f].shared /\ a.aborted = flight[f].aborted
              /\ a.queued = FALSE /\ a.outcome = outcome
      BY <1>1 DEF FlightRow
    <2>3. QED
      BY <1>3, <2>1, <2>2
  <1>5. flight'[f] = new /\ \A g \in Flights \ {f} : flight'[g] = flight[g]
    BY <1>1, <1>4 DEF SharedTyped
  <1>6. ~InFlight(f)' /\ Sent(f)' /\ Settled(f)' /\ Sent(f)
    BY <1>2, <1>4, <1>5 DEF InFlight, Sent, Settled
  <1>7. /\ micro' \in Seq(Tasks) /\ Has(micro', "done", f)
        /\ \A what, of : Has(micro', what, of) => \/ what = "done" /\ of = f
                                                  \/ what = "answer" /\ \E i \in 1..Len(new.order) : new.order[i] = of
        /\ \A i \in 1..Len(new.order) : Has(micro', "answer", new.order[i])
        /\ \A S : AnswersFollow(micro', S, f)
    <2> DEFINE o == flight[f].order
               answers == [i \in 1..Len(o) |-> Microtask("answer", o[i])]
    <2>1. /\ Len(o) \in Nat /\ \A i \in 1..Len(o) : o[i] \in Subscribers
      BY <1>1
    <2>2. Microtask("done", f) \in Tasks /\ \A t \in Subscribers : Microtask("answer", t) \in Tasks
      BY DEF Tasks, Microtask
    <2>3. answers \in Seq(Tasks) /\ Len(answers) = Len(o) /\ \A i \in 1..Len(o) : answers[i] = Microtask("answer", o[i])
      BY <2>1, <2>2
    <2>4. micro' = <<Microtask("done", f)>> \o answers
      BY <1>2 DEF Reactions
    <2> HIDE DEF answers
    <2>5. /\ micro' \in Seq(Tasks) /\ Len(micro') = Len(o) + 1 /\ micro'[1] = Microtask("done", f)
          /\ \A i \in 1..Len(o) : micro'[i + 1] = answers[i]
      BY <2>1, <2>2, <2>3, <2>4
    <2> HIDE DEF o
    <2>6. \A i \in 1..Len(micro') : i = 1 \/ (i - 1 \in 1..Len(o) /\ micro'[i] = Microtask("answer", o[i - 1]))
      <3> SUFFICES ASSUME NEW i \in 1..Len(micro'), i # 1
                   PROVE  i - 1 \in 1..Len(o) /\ micro'[i] = Microtask("answer", o[i - 1])
        OBVIOUS
      <3>1. i - 1 \in 1..Len(o) /\ (i - 1) + 1 = i
        BY <2>1, <2>5
      <3>2. QED
        BY <2>3, <2>5, <3>1
    <2>7. \A what, of : /\ Microtask("done", f) = Microtask(what, of) => what = "done" /\ of = f
                        /\ \A t : Microtask("answer", t) = Microtask(what, of) => what = "answer" /\ of = t
      BY DEF Microtask
    <2>8. Has(micro', "done", f)
      BY <2>1, <2>5 DEF Has
    <2>9. \A i \in 1..Len(o) : Has(micro', "answer", o[i])
      <3> SUFFICES ASSUME NEW i \in 1..Len(o) PROVE Has(micro', "answer", o[i])
        OBVIOUS
      <3>1. i + 1 \in 1..Len(micro') /\ micro'[i + 1] = Microtask("answer", o[i])
        BY <2>1, <2>3, <2>5
      <3>2. QED
        BY <3>1 DEF Has
    <2>10. ASSUME NEW what, NEW of, Has(micro', what, of)
           PROVE  \/ what = "done" /\ of = f
                  \/ what = "answer" /\ \E i \in 1..Len(o) : o[i] = of
      <3>1. PICK i \in 1..Len(micro') : micro'[i] = Microtask(what, of)
        BY <2>10 DEF Has
      <3>2. QED
        BY <2>5, <2>6, <2>7, <3>1
    <2>11. ASSUME NEW S PROVE AnswersFollow(micro', S, f)
      <3> SUFFICES ASSUME NEW i \in 1..Len(micro'), NEW s \in S, micro'[i] = Microtask("answer", s)
                   PROVE  \E j \in 1..(i - 1) : micro'[j] = Microtask("done", f)
        BY DEF AnswersFollow
      <3>1. i # 1
        BY <2>5, <2>7
      <3>2. 1 \in 1..(i - 1)
        BY <2>1, <2>5, <3>1
      <3>3. QED
        BY <2>5, <3>2
    <2>12. new.order = o
      BY <1>4 DEF o
    <2>13. QED
      BY <2>5, <2>8, <2>9, <2>10, <2>11, <2>12
  <1>8. FlightFits(f)'
    <2>1. \A i \in 1..Len(new.order) : sub[new.order[i]].on = f
      BY <1>1, <1>4 DEF FlightFits
    <2>2. new.key \in Keys
      BY <1>1, <1>4, <1>6 DEF FlightFits
    <2>3. (\A i \in 1..Len(flight[f].order) : sub[flight[f].order[i]].on = f)'
      BY <1>2, <1>5, <2>1
    <2>4. (Settled(f) /\ Shares(f) => Has(micro, "done", f) /\ AnswersFollow(micro, Members(f), f))'
      BY <1>7
    <2>5. QED
      BY <1>4, <1>5, <1>6, <2>2, <2>3, <2>4 DEF FlightFits
  <1>9. WaitingIsCounted'
    BY <1>2, <1>4, <1>5, CountFollows
  <1>10. MicroFits'
    <2>1. \A g \in Flights : ~Has(micro', "check", g) /\ (Has(micro', "done", g) => g = f)
      BY <1>7
    <2>2. QED
      BY <1>6, <2>1 DEF MicroFits
  <1>11. \A t \in Subscribers : (Has(micro', "answer", t) <=> Settled(f)' /\ \E i \in 1..Len(new.order) : new.order[i] = t)
    BY <1>6, <1>7
  <1>12. QED
    BY <1>2, <1>4, <1>7, <1>8, <1>9, <1>10, <1>11, RequestStepKeeps

-----------------------------------------------------------------------------
(* SharedCalculations: the theorem.                                        *)

LEMMA SharedKeeps == SharedInv /\ [SharedNext]_sharedVars => SharedInv'
  <1> SUFFICES ASSUME SharedInv, [SharedNext]_sharedVars PROVE SharedInv'
    OBVIOUS
  <1>1. ASSUME NEW s \in Subscribers, Cancel(s) PROVE SharedInv'
    BY <1>1, CancelKeeps
  <1>2. ASSUME NEW s \in Subscribers, NEW k \in Keys, AskFor(s, k) PROVE SharedInv'
    BY <1>2, JoinKeeps, RequestKeeps
  <1>3. CASE Check
    BY <1>3, CheckKeeps
  <1>4. CASE Done
    BY <1>4, DoneKeeps
  <1>5. CASE Answered
    BY <1>5, AnsweredKeeps
  <1>6. ASSUME NEW f \in Flights, Busy(f) PROVE SharedInv'
    BY <1>6, BusyKeeps
  <1>7. ASSUME NEW f \in Flights, Retry(f) PROVE SharedInv'
    BY <1>7, RetryKeeps
  <1>8. ASSUME NEW f \in Flights, Settle(f) PROVE SharedInv'
    BY <1>8, SettleKeeps
  <1>9. CASE UNCHANGED sharedVars
    <2>1. UNCHANGED <<flights, flight, waiting, sub, micro>>
      BY <1>9 DEF sharedVars
    <2>2. SharedTyped' /\ SentInOrder' /\ MapFits' /\ MicroFits'
      BY <2>1 DEF SharedInv, SharedTyped, SentInOrder, MapFits, MicroFits, Sent, Settled
    <2>3. ASSUME NEW f \in Flights PROVE FlightFits(f)'
      BY <2>1 DEF SharedInv, FlightFits, Sent, Settled, Shares, InFlight, On, Members, Blank
    <2>4. ASSUME NEW s \in Subscribers PROVE SubFits(s)'
      BY <2>1 DEF SharedInv, SubFits, Sent, Settled, Shares
    <2>5. SharedIsMarked' /\ CancelsAreOwn' /\ WaitingIsCounted'
      BY <2>1 DEF SharedInv, SharedIsMarked, CancelsAreOwn, WaitingIsCounted, Sees, On
    <2>6. QED
      BY <2>2, <2>3, <2>4, <2>5 DEF SharedInv
  <1>10. QED
    BY <1>1, <1>2, <1>3, <1>4, <1>5, <1>6, <1>7, <1>8, <1>9 DEF SharedNext, RunMicrotask

LEMMA SharedImplies == SharedInv => SharedFairly
  <1> SUFFICES ASSUME SharedInv PROVE SharedFairly
    OBVIOUS
  <1>1. SharedTyped /\ MapFits
    BY DEF SharedInv
  <1>2. ASSUME Quiet
        PROVE  /\ \A f \in Flights : InFlight(f) /\ On(f) = {} => flight[f].aborted
               /\ \A f, g \in Flights : InFlight(f) /\ InFlight(g) /\ flight[f].key = flight[g].key =>
                     f = g \/ flight[f].aborted \/ flight[g].aborted
               /\ \A k \in Keys : flights[k] # NoFlight => InFlight(flights[k])
               /\ \A s \in Subscribers : sub[s].at = "waiting" => InFlight(sub[s].on)
    <2>1. \A what, of : ~Has(micro, what, of)
      BY <1>2, NothingHas DEF Quiet
    <2>2. \A f \in Flights : /\ InFlight(f) /\ ~flight[f].aborted => Shares(f) /\ On(f) # {}
                             /\ ~(Settled(f) /\ Shares(f))
      BY <2>1 DEF SharedInv, FlightFits
    <2>3. \A f \in Flights : Sent(f) => InFlight(f) \/ Settled(f)
      BY <1>1 DEF SharedTyped, FlightRow, Sent, InFlight, Settled
    <2>4. \A k \in Keys : flights[k] # NoFlight => InFlight(flights[k])
      BY <1>1, <2>2, <2>3 DEF SharedTyped, MapFits, Shares
    <2>5. ASSUME NEW s \in Subscribers, sub[s].at = "waiting" PROVE InFlight(sub[s].on)
      <3>1. SubFits(s) /\ sub[s].on \in Flights /\ Sent(sub[s].on)
        BY <2>5, SubFlight DEF SharedInv
      <3>2. QED
        BY <2>1, <2>3, <2>5, <3>1 DEF SubFits
    <2>6. \A f, g \in Flights : InFlight(f) /\ InFlight(g) /\ flight[f].key = flight[g].key =>
                     f = g \/ flight[f].aborted \/ flight[g].aborted
      BY <2>2 DEF Shares
    <2>7. QED
      BY <2>2, <2>4, <2>5, <2>6
  <1>3. FlightsAreShared
    BY <1>2 DEF FlightsAreShared
  <1>4. Isolated
    <2> SUFFICES ASSUME NEW s \in Subscribers, NEW t \in Subscribers, s # t, sub[s].on = sub[t].on,
                        sub[s].gets = "original", sub[t].gets = "original"
                 PROVE  FALSE
      BY DEF Isolated
    <2>1. Sees(s) /\ Sees(t)
      BY DEF Sees
    <2>2. flight[sub[s].on].shared
      BY <2>1 DEF SharedInv, SharedIsMarked
    <2>3. QED
      BY <2>2 DEF SharedInv, SubFits
  <1>5. QED
    BY <1>3, <1>4 DEF SharedFairly, SharedInv

\* Calculations are shared fairly, whoever asks, joins, cancels, is answered or waits
\* to try again between two microtasks (ui/src/lib/calculation.ts).
THEOREM Sharing == SharedSpec => []SharedFairly
  <1>1. SharedInit => SharedInv
    BY SharedStarts
  <1>2. SharedInv /\ [SharedNext]_sharedVars => SharedInv'
    BY SharedKeeps
  <1>3. SharedInv => SharedFairly
    BY SharedImplies
  <1>4. QED
    BY <1>1, <1>2, <1>3, PTL DEF SharedSpec

-----------------------------------------------------------------------------
(* MatchRules.                                                             *)

\* A set of numbers has a least one.
LEMMA HasLeast ==
    ASSUME NEW S, S \subseteq Nat, S # {}
    PROVE  \E m \in S : \A j \in S : m <= j
  <1>1. PICK b \in S : TRUE
    OBVIOUS
  <1> DEFINE K == {j \in S : j <= b}
             UpTo(i) == {j \in K : j <= i}
             Chain == {UpTo(i) : i \in K}
  <1>2. IsFiniteSet(K)
    <2>1. b \in Nat /\ \A j \in K : j \in Nat /\ j <= b
      BY <1>1
    <2> HIDE DEF K
    <2>2. K \subseteq 0..b /\ 0 \in Int /\ b \in Int
      BY <2>1
    <2>3. QED
      BY <2>2, FS_Interval, FS_Subset
  <1>3. Chain \subseteq FiniteSubsetsOf(K) /\ Chain # {}
    <2>1. \A i \in K : UpTo(i) \subseteq K /\ IsFiniteSet(UpTo(i))
      BY <1>2, FS_Subset
    <2>2. b \in K
      BY <1>1
    <2>3. QED
      BY <2>1, <2>2 DEF FiniteSubsetsOf
  <1>4. \E U \in Chain : \A V \in Chain : <<V, U>> \notin StrictSubsetOrdering(K)
    <2>1. IsWellFoundedOn(StrictSubsetOrdering(K), FiniteSubsetsOf(K))
      BY <1>2, FS_StrictSubsetOrderingWellFounded
    <2> HIDE DEF Chain, K
    <2>2. QED
      BY <1>3, <2>1, WFMin
  <1>5. PICK m \in K : \A i \in K : <<UpTo(i), UpTo(m)>> \notin StrictSubsetOrdering(K)
    BY <1>4
  <1>6. ASSUME NEW j \in K, j < m PROVE FALSE
    <2>1. j \in Nat /\ m \in Nat /\ \A i \in K : i \in Nat
      BY <1>1
    <2> HIDE DEF K
    <2>2. \A i \in K : i <= j => i <= m
      BY <1>6, <2>1
    <2>3. m <= m /\ ~(m <= j)
      BY <1>6, <2>1
    <2>4. UpTo(j) \subseteq UpTo(m) /\ m \in UpTo(m) /\ m \notin UpTo(j)
      BY <2>2, <2>3
    <2>5. UpTo(j) \in SUBSET K /\ UpTo(m) \in SUBSET K /\ UpTo(j) # UpTo(m)
      BY <2>4
    <2>6. <<UpTo(j), UpTo(m)>> \in StrictSubsetOrdering(K)
      BY <2>4, <2>5 DEF StrictSubsetOrdering
    <2>7. QED
      BY <1>5, <2>6
  <1>7. QED
    BY <1>1, <1>6

\* An evaluation that stops at the first outcome that decides ends undecided when
\* none does, and otherwise with an outcome that decides.
LEMMA DecidedOutcome ==
    ASSUME NEW outcomes, DOMAIN outcomes \subseteq Nat, NEW undecided
    PROVE  /\ (\A i \in DOMAIN outcomes : outcomes[i] = undecided) => Decided(outcomes, undecided) = undecided
           /\ (\E i \in DOMAIN outcomes : outcomes[i] # undecided) =>
                 \E i \in DOMAIN outcomes : outcomes[i] # undecided /\ Decided(outcomes, undecided) = outcomes[i]
  <1> DEFINE deciding == {i \in DOMAIN outcomes : outcomes[i] # undecided}
  <1>1. CASE deciding = {}
    BY <1>1 DEF Decided
  <1>2. CASE deciding # {}
    <2>1. \E i \in deciding : \A j \in deciding : i <= j
      BY <1>2, HasLeast
    <2> DEFINE first == CHOOSE k \in deciding : \A j \in deciding : k <= j
    <2>2. first \in deciding
      BY <2>1
    <2>3. Decided(outcomes, undecided) = outcomes[first]
      BY <1>2 DEF Decided
    <2>4. QED
      BY <2>2, <2>3, <1>2
  <1>3. QED
    BY <1>1, <1>2

\* all() holds when everything does, any() when something does; the one stops at
\* the first outcome that is not true, the other at the first that is not false.
LEMMA AllOfYes ==
    ASSUME NEW outcomes, DOMAIN outcomes \subseteq Nat
    PROVE  AllOf(outcomes) = "yes" <=> \A i \in DOMAIN outcomes : outcomes[i] = "yes"
  BY DecidedOutcome DEF AllOf

LEMMA AnyOfNo ==
    ASSUME NEW outcomes, DOMAIN outcomes \subseteq Nat
    PROVE  AnyOf(outcomes) = "no" <=> \A i \in DOMAIN outcomes : outcomes[i] = "no"
  BY DecidedOutcome DEF AnyOf

LEMMA AnyOfDecides ==
    ASSUME NEW outcomes, DOMAIN outcomes \subseteq Nat, AnyOf(outcomes) # "no"
    PROVE  \E i \in DOMAIN outcomes : outcomes[i] # "no" /\ AnyOf(outcomes) = outcomes[i]
  <1>1. \E i \in DOMAIN outcomes : outcomes[i] # "no"
    BY AnyOfNo
  <1>2. QED
    BY <1>1, DecidedOutcome DEF AnyOf

LEMMA LeafOutcome ==
    ASSUME NEW c, NEW ctx
    PROVE  EvalLeaf(c, ctx) \in {"yes", "no", "error"}
  BY DEF EvalLeaf

\* When the sections of a rule hold.
LEMMA SectionYes ==
    ASSUME NEW r, NEW ctx, \A k \in Sections : k \in DOMAIN r /\ DOMAIN r[k] \subseteq Nat
    PROVE  /\ Section(r, "all", ctx) = "yes" <=> \A i \in DOMAIN r["all"] : EvalLeaf(r["all"][i], ctx) = "yes"
           /\ Section(r, "any", ctx) = "yes" => \E i \in DOMAIN r["any"] : EvalLeaf(r["any"][i], ctx) = "yes"
           /\ /\ \A i \in DOMAIN r["any"] : EvalLeaf(r["any"][i], ctx) # "error"
              /\ \E i \in DOMAIN r["any"] : EvalLeaf(r["any"][i], ctx) = "yes"
              => Section(r, "any", ctx) = "yes"
           /\ Section(r, "none", ctx) = "yes" <=> \A i \in DOMAIN r["none"] : EvalLeaf(r["none"][i], ctx) = "no"
  <1> DEFINE O(k) == Outcomes(r[k], ctx)
  <1>1. \A k \in Sections : /\ DOMAIN O(k) = DOMAIN r[k] /\ DOMAIN O(k) \subseteq Nat
                            /\ \A i \in DOMAIN r[k] : O(k)[i] = EvalLeaf(r[k][i], ctx)
    BY DEF Outcomes
  <1>2. Section(r, "all", ctx) = AllOf(O("all")) /\ Section(r, "any", ctx) = AnyOf(O("any"))
        /\ Section(r, "none", ctx) = Not(AnyOf(O("none")))
    BY DEF Section
  <1> HIDE DEF O
  <1>3. "all" \in Sections /\ "any" \in Sections /\ "none" \in Sections
    BY DEF Sections
  <1>4. Section(r, "all", ctx) = "yes" <=> \A i \in DOMAIN r["all"] : EvalLeaf(r["all"][i], ctx) = "yes"
    BY <1>1, <1>2, <1>3, AllOfYes
  <1>5. Section(r, "any", ctx) = "yes" => \E i \in DOMAIN r["any"] : EvalLeaf(r["any"][i], ctx) = "yes"
    BY <1>1, <1>2, <1>3, AnyOfDecides
  <1>6. ASSUME \A i \in DOMAIN r["any"] : EvalLeaf(r["any"][i], ctx) # "error",
               \E i \in DOMAIN r["any"] : EvalLeaf(r["any"][i], ctx) = "yes"
        PROVE  Section(r, "any", ctx) = "yes"
    <2>1. AnyOf(O("any")) # "no"
      BY <1>1, <1>3, <1>6, AnyOfNo
    <2>2. PICK i \in DOMAIN r["any"] : O("any")[i] # "no" /\ AnyOf(O("any")) = O("any")[i]
      BY <1>1, <1>3, <2>1, AnyOfDecides
    <2>3. QED
      BY <1>1, <1>2, <1>3, <1>6, <2>2, LeafOutcome
  <1>7. Not(AnyOf(O("none"))) = "yes" <=> AnyOf(O("none")) = "no"
    <2>1. AnyOf(O("none")) \in {"yes", "no", "error"}
      <3>1. CASE AnyOf(O("none")) = "no"
        BY <3>1
      <3>2. CASE AnyOf(O("none")) # "no"
        BY <1>1, <1>3, <3>2, AnyOfDecides, LeafOutcome
      <3>3. QED
        BY <3>1, <3>2
    <2>2. QED
      BY <2>1 DEF Not
  <1>8. Section(r, "none", ctx) = "yes" <=> \A i \in DOMAIN r["none"] : EvalLeaf(r["none"][i], ctx) = "no"
    BY <1>1, <1>2, <1>3, <1>7, AnyOfNo
  <1>9. QED
    BY <1>4, <1>5, <1>6, <1>8

LEMMA ListsYes ==
    ASSUME NEW r, NEW ctx, Sections \subseteq DOMAIN r
    PROVE  AllOf(Lists(r, ctx)) = "yes" <=> \A k \in Sections : Section(r, k, ctx) = "yes"
  <1>1. DOMAIN Lists(r, ctx) = 1..3 /\ DOMAIN Lists(r, ctx) \subseteq Nat
    BY DEF Lists
  <1>2. /\ Lists(r, ctx)[1] = Section(r, "all", ctx)
        /\ Lists(r, ctx)[2] = Section(r, "any", ctx)
        /\ Lists(r, ctx)[3] = Section(r, "none", ctx)
    BY DEF Lists, Sections
  <1>3. AllOf(Lists(r, ctx)) = "yes" <=> \A i \in 1..3 : Lists(r, ctx)[i] = "yes"
    BY <1>1, AllOfYes
  <1>4. \A i \in 1..3 : i = 1 \/ i = 2 \/ i = 3
    OBVIOUS
  <1>5. QED
    BY <1>2, <1>3, <1>4 DEF Sections

\* A rule hits when all its sections hold, its own and those of its sw_conditions.
LEMMA EvaluateYes ==
    ASSUME NEW r, IsStored(r), NEW ctx
    PROVE  Evaluate(r, ctx) = "yes" <=> \A q \in Parts(r), k \in Sections : Section(q, k, ctx) = "yes"
  <1> DEFINE sw == IF "sw" \in DOMAIN r THEN AllOf(Lists(r["sw"], ctx)) ELSE "yes"
             both == <<AllOf(Lists(r, ctx)), sw>>
  <1>1. Evaluate(r, ctx) = AllOf(both) /\ DOMAIN both = 1..2 /\ both[1] = AllOf(Lists(r, ctx)) /\ both[2] = sw
    BY DEF Evaluate
  <1>2. Evaluate(r, ctx) = "yes" <=> AllOf(Lists(r, ctx)) = "yes" /\ sw = "yes"
    <2>1. DOMAIN both \subseteq Nat /\ \A i \in 1..2 : i = 1 \/ i = 2
      BY <1>1
    <2> HIDE DEF both, sw
    <2>2. QED
      BY <1>1, <2>1, AllOfYes
  <1>3. AllOf(Lists(r, ctx)) = "yes" <=> \A k \in Sections : Section(r, k, ctx) = "yes"
    BY ListsYes DEF IsStored
  <1>4. CASE "sw" \in DOMAIN r
    <2>1. sw = AllOf(Lists(r["sw"], ctx)) /\ Parts(r) = {r, r["sw"]}
      BY <1>4 DEF Parts
    <2>2. sw = "yes" <=> \A k \in Sections : Section(r["sw"], k, ctx) = "yes"
      BY <1>4, <2>1, ListsYes DEF IsStored
    <2> HIDE DEF sw, both
    <2>3. QED
      BY <1>2, <1>3, <2>1, <2>2
  <1>5. CASE "sw" \notin DOMAIN r
    <2>1. sw = "yes" /\ Parts(r) = {r}
      BY <1>5 DEF Parts
    <2> HIDE DEF sw, both
    <2>2. QED
      BY <1>2, <1>3, <2>1
  <1>6. QED
    BY <1>4, <1>5

LEMMA StoredParts ==
    ASSUME NEW r, IsStored(r), NEW q \in Parts(r)
    PROVE  \A k \in Sections : k \in DOMAIN q /\ DOMAIN q[k] \subseteq Nat
  BY DEF IsStored, IsAuthored, Conditional, Parts

\* A stored rule hits only what it is about, and misses only what an erroneous
\* condition or an empty list of alternatives keeps it from (runner.py:34-45).
THEOREM RuleMeans ==
    ASSUME NEW r, IsStored(r), NEW ctx
    PROVE  /\ Evaluate(r, ctx) = "yes" => Means(r, ctx)
           /\ Means(r, ctx) /\ Complete(r) /\ ~Erroneous(r, ctx) => Evaluate(r, ctx) = "yes"
  <1> DEFINE Holds(c, e) == EvalLeaf(c, ctx) = "yes" \/ (EvalLeaf(c, ctx) = "error" /\ e)
             Meant(q, e) == /\ \A i \in DOMAIN q["all"] : Holds(q["all"][i], e)
                            /\ q["any"] = <<>> \/ \E i \in DOMAIN q["any"] : Holds(q["any"][i], e)
                            /\ ~\E i \in DOMAIN q["none"] : Holds(q["none"][i], e)
  <1>1. Means(r, ctx) <=> \A q \in Parts(r), e \in BOOLEAN : Meant(q, e)
    BY DEF Means
  <1>2. ASSUME Evaluate(r, ctx) = "yes", NEW q \in Parts(r), NEW e \in BOOLEAN PROVE Meant(q, e)
    <2>1. Section(q, "all", ctx) = "yes" /\ Section(q, "any", ctx) = "yes" /\ Section(q, "none", ctx) = "yes"
      BY <1>2, EvaluateYes DEF Sections
    <2>2. \A i \in DOMAIN q["all"] : EvalLeaf(q["all"][i], ctx) = "yes"
      BY <2>1, StoredParts, SectionYes
    <2>3. \E i \in DOMAIN q["any"] : EvalLeaf(q["any"][i], ctx) = "yes"
      BY <2>1, StoredParts, SectionYes
    <2>4. \A i \in DOMAIN q["none"] : EvalLeaf(q["none"][i], ctx) = "no"
      BY <2>1, StoredParts, SectionYes
    <2>5. QED
      BY <2>2, <2>3, <2>4
  <1>3. ASSUME Means(r, ctx), Complete(r), ~Erroneous(r, ctx), NEW q \in Parts(r), NEW k \in Sections
        PROVE  Section(q, k, ctx) = "yes"
    <2>1. \A s \in Sections : \A i \in DOMAIN q[s] : EvalLeaf(q[s][i], ctx) \in {"yes", "no"}
      BY <1>3, LeafOutcome DEF Erroneous
    <2>2. Meant(q, FALSE) /\ q["any"] # <<>>
      BY <1>1, <1>3 DEF Complete
    <2>3. /\ \A i \in DOMAIN q["all"] : EvalLeaf(q["all"][i], ctx) = "yes"
          /\ \E i \in DOMAIN q["any"] : EvalLeaf(q["any"][i], ctx) = "yes"
          /\ \A i \in DOMAIN q["none"] : EvalLeaf(q["none"][i], ctx) # "yes"
      BY <2>2
    <2>4. /\ \A i \in DOMAIN q["none"] : EvalLeaf(q["none"][i], ctx) = "no"
          /\ \A i \in DOMAIN q["any"] : EvalLeaf(q["any"][i], ctx) # "error"
      BY <2>1, <2>3 DEF Sections
    <2>5. Section(q, "all", ctx) = "yes" /\ Section(q, "any", ctx) = "yes" /\ Section(q, "none", ctx) = "yes"
      BY <2>3, <2>4, StoredParts, SectionYes
    <2>6. QED
      BY <2>5 DEF Sections
  <1>4. QED
    BY <1>1, <1>2, <1>3, EvaluateYes

-----------------------------------------------------------------------------
(* ReviewGate: rules and their readers.                                    *)

\* The inductive invariant, first part: rows are rows, and stored rules stay so.
Request == {"step", "read", "steady", "named", "bare"}
GateTypes == /\ writes \in 0..MaxWrites
             /\ DOMAIN stored = GraphTables /\ \A kind \in GraphTables : IsRow(kind, stored[kind])
             /\ DOMAIN gate = Request
             /\ gate.step \in 0..5
             /\ DOMAIN gate.read = GraphTables

LEMMA StoredRule ==
    ASSUME NEW r, r = NoRule \/ IsAuthored(r)
    PROVE  Stored(r) = NoRule \/ IsStored(Stored(r))
  <1>1. CASE r = NoRule
    BY <1>1 DEF Stored
  <1>2. CASE r # NoRule
    <2>1. ASSUME NEW q, Conditional(q)
          PROVE  DOMAIN Listed(q) = Sections /\ \A k \in Sections : DOMAIN Listed(q)[k] \subseteq Nat
      <3>1. DOMAIN <<>> \subseteq Nat
        OBVIOUS
      <3>2. QED
        BY <2>1, <3>1 DEF Listed, Conditional
    <2>2. CASE "sw" \in DOMAIN r
      <3> DEFINE sw == [k \in {"sw"} |-> Listed(r[k])]
      <3>1. Stored(r) = Over(sw, Listed(r)) /\ DOMAIN sw = {"sw"} /\ sw["sw"] = Listed(r["sw"])
        BY <1>2, <2>2 DEF Stored
      <3>2. "sw" \notin Sections
        BY DEF Sections
      <3> HIDE DEF sw
      <3>3. /\ DOMAIN Stored(r) = Sections \cup {"sw"}
            /\ Stored(r)["sw"] = Listed(r["sw"])
            /\ \A k \in Sections : Stored(r)[k] = Listed(r)[k]
        BY <1>2, <2>1, <2>2, <3>1, <3>2 DEF Over, IsAuthored
      <3>4. QED
        BY <1>2, <2>1, <2>2, <3>2, <3>3 DEF IsAuthored, IsStored, Conditional
    <2>3. CASE "sw" \notin DOMAIN r
      <3>1. Stored(r) = Listed(r) /\ "sw" \notin Sections
        BY <1>2, <2>3 DEF Stored, Sections
      <3>2. QED
        BY <1>2, <2>1, <3>1 DEF IsAuthored, IsStored, Conditional
    <2>4. QED
      BY <2>2, <2>3
  <1>3. QED
    BY <1>1, <1>2

\* A load leaves rows that are rows.
LEMMA LoadedRows ==
    ASSUME GateTypes, NEW load \in Loads
    PROVE  /\ DOMAIN Written(stored, load) = GraphTables
           /\ \A kind \in GraphTables : IsRow(kind, Written(stored, load)[kind])
  <1> DEFINE d == Written(stored, load)
  <1>1. /\ DOMAIN d = GraphTables
        /\ d.variant = IF "variant" \in DOMAIN load THEN load.variant ELSE stored.variant
        /\ d.issues = IF "issues" \in DOMAIN load THEN Over(UpsertIssues(load.issues), stored.issues)
                      ELSE stored.issues
    BY DEF Written, GateTypes, GraphTables
  <1> HIDE DEF d
  <1>2. IsRow("variant", d.variant)
    BY <1>1, GateAssumption DEF GateTypes, GraphTables
  <1>3. IsRow("issues", d.issues)
    <2>1. \A i \in DOMAIN stored.issues : \A a \in stored.issues[i] : a.rule = NoRule \/ IsStored(a.rule)
      BY DEF GateTypes, GraphTables, IsRow
    <2>2. ASSUME "issues" \in DOMAIN load, NEW i \in DOMAIN load.issues, NEW a \in UpsertIssues(load.issues)[i]
          PROVE  a.rule = NoRule \/ IsStored(a.rule)
      <3>1. PICK b \in load.issues[i] : a = [b EXCEPT !.rule = Stored(@)]
        BY <2>2 DEF UpsertIssues
      <3>2. "rule" \in DOMAIN b /\ (b.rule = NoRule \/ IsAuthored(b.rule))
        BY <2>2, GateAssumption
      <3>3. a.rule = Stored(b.rule)
        BY <3>1, <3>2
      <3>4. QED
        BY <3>2, <3>3, StoredRule
    <2>3. CASE "issues" \in DOMAIN load
      <3>1. DOMAIN UpsertIssues(load.issues) = DOMAIN load.issues
        BY DEF UpsertIssues
      <3>2. \A i \in DOMAIN d.issues : \A a \in d.issues[i] : a.rule = NoRule \/ IsStored(a.rule)
        BY <1>1, <2>1, <2>2, <2>3, <3>1 DEF Over
      <3>3. QED
        BY <3>2 DEF IsRow
    <2>4. CASE "issues" \notin DOMAIN load
      BY <1>1, <2>1, <2>4 DEF IsRow
    <2>5. QED
      BY <2>3, <2>4
  <1>4. \A kind \in {"evidence", "waivers", "rules"} : IsRow(kind, d[kind])
    BY DEF IsRow
  <1>5. QED
    BY <1>1, <1>2, <1>3, <1>4 DEF GraphTables, d

LEMMA OrderIs ==
    /\ Len(Order) = 5 /\ \A n \in 1..5 : Order[n] \in GraphTables
    /\ Order[1] = "variant" /\ Order[2] = "evidence" /\ Order[3] = "issues"
    /\ Order[4] = "waivers" /\ Order[5] = "rules"
  <1>1. /\ Len(Order) = 5
        /\ Order[1] = "variant" /\ Order[2] = "evidence" /\ Order[3] = "issues"
        /\ Order[4] = "waivers" /\ Order[5] = "rules"
    BY DEF Order
  <1>2. \A n \in 1..5 : n = 1 \/ n = 2 \/ n = 3 \/ n = 4 \/ n = 5
    OBVIOUS
  <1>3. QED
    BY <1>1, <1>2 DEF GraphTables

LEMMA TypesHold == GateSpec => []GateTypes
  <1>1. GateInit => GateTypes
    BY GateAssumption DEF GateInit, GateTypes, Request
  <1>2. ASSUME GateTypes, [GateNext]_gateVars PROVE GateTypes'
    <2>1. ASSUME NEW d, DOMAIN d = GraphTables, \A kind \in GraphTables : IsRow(kind, d[kind]), Commit(d)
          PROVE  GateTypes'
      <3>1. writes' \in 0..MaxWrites /\ stored' = d
        BY <1>2, <2>1, GateAssumption DEF GateTypes, Commit
      <3>2. DOMAIN gate' = Request /\ gate'.step = gate.step /\ gate'.read = gate.read
        BY <1>2, <2>1 DEF GateTypes, Commit, Follow, Request
      <3>3. QED
        BY <1>2, <2>1, <3>1, <3>2 DEF GateTypes
    <2>2. CASE Read
      <3>1. gate.step \in 0..4
        BY <1>2, <2>2, OrderIs DEF GateTypes, Read
      <3>2. DOMAIN gate' = Request /\ gate'.step = gate.step + 1 /\ DOMAIN gate'.read = DOMAIN gate.read
        BY <1>2, <2>2 DEF GateTypes, Read, Request
      <3>3. QED
        BY <1>2, <2>2, <3>1, <3>2 DEF GateTypes, Read
    <2>3. CASE Load
      BY <1>2, <2>1, <2>3, LoadedRows DEF Load
    <2>4. CASE DeleteEvidence
      <3>1. PICK e \in DOMAIN stored.evidence :
                Commit([stored EXCEPT !.evidence = [f \in DOMAIN @ \ {e} |-> @[f]]])
        BY <2>4 DEF DeleteEvidence
      <3> DEFINE d == [stored EXCEPT !.evidence = [f \in DOMAIN @ \ {e} |-> @[f]]]
      <3>2. DOMAIN d = GraphTables /\ \A kind \in GraphTables : kind # "evidence" => d[kind] = stored[kind]
        BY <1>2 DEF GateTypes
      <3>3. IsRow("evidence", d["evidence"])
        BY DEF IsRow
      <3>4. \A kind \in GraphTables : IsRow(kind, d[kind])
        BY <1>2, <3>2, <3>3 DEF GateTypes
      <3>5. QED
        BY <2>1, <3>1, <3>2, <3>4
    <2>5. CASE UNCHANGED gateVars
      BY <1>2, <2>5 DEF GateTypes, gateVars
    <2>6. QED
      BY <1>2, <2>2, <2>3, <2>4, <2>5 DEF GateNext
  <1>3. QED
    BY <1>1, <1>2, PTL DEF GateSpec

\* Whatever is written, rules hit what they are about, what the query engine lists
\* the gate counts, and what the endpoint lists for a variant without required
\* features the query engine lists.
THEOREM Readers == GateSpec => []RulesAgree
  <1>1. ASSUME GateTypes PROVE RulesMeanWhatTheySay
    <2>1. \A i \in DOMAIN stored.issues : \A a \in stored.issues[i] : a.rule = NoRule \/ IsStored(a.rule)
      BY <1>1 DEF GateTypes, GraphTables, IsRow
    <2>2. QED
      BY <2>1, RuleMeans DEF RulesMeanWhatTheySay
  <1>2. MatchedIssueIds(stored) \subseteq MatchIssues(stored)
    <2>1. LatestEvidence(stored) \subseteq Rows(stored.evidence)
      BY DEF LatestEvidence
    <2>2. QED
      BY <2>1 DEF MatchedIssueIds, MatchIssues, Contexts
  <1>3. ASSUME GateTypes, DOMAIN stored.variant.required = {}
        PROVE  MatchIssuesForVariant(stored) \subseteq MatchedIssueIds(stored)
    <2> DEFINE flags == stored.variant.flags
    <2>1. flags = [k \in DOMAIN flags |-> flags[k]]
      BY <1>3 DEF GateTypes, GraphTables, IsRow
    <2>2. Over(stored.variant.required, flags) = [k \in DOMAIN flags |-> flags[k]]
      <3> HIDE DEF flags
      <3> QED
        BY <1>3 DEF Over
    <2>3. FromVariant(stored.variant) = VariantContext(stored.variant)
      BY <2>1, <2>2 DEF FromVariant, VariantContext
    <2>4. QED
      BY <2>3 DEF MatchIssuesForVariant, MatchedIssueIds, Contexts
  <1>4. QED
    BY <1>1, <1>2, <1>3, TypesHold, PTL DEF RulesAgree, ReadersAgree

-----------------------------------------------------------------------------
(* ReviewGate: the verdict.                                                *)

\* What a match was by, in the rows of v and of evidence.
By(x, v, evidence) == IF x[2] = {} THEN {VariantContext(v)} ELSE {EvidenceContext(v, evidence[e]) : e \in x[2]}

\* The inductive invariant, second part.  What has matched all along matches now;
\* what it matched by is in what the request has read, and so are, once it has read
\* the issues, the rules that matched.  No issue is read that is not there any
\* more, and what waivers name or leave bare has been seen.
SteadyMatches == gate.steady \subseteq MatchedBy(stored)
SteadyIsRead == \A x \in gate.steady :
    /\ gate.step >= 1 => gate.read.variant = stored.variant
    /\ gate.step >= 2 =>
         \A e \in x[2] : e \in DOMAIN gate.read.evidence /\ gate.read.evidence[e] = stored.evidence[e]
    /\ gate.step >= 3 => /\ x[1] \in DOMAIN gate.read.issues
                         /\ \E ctx \in By(x, stored.variant, stored.evidence) : Affects(gate.read.issues[x[1]], ctx)
IssuesStay == gate.step >= 3 => DOMAIN gate.read.issues \subseteq DOMAIN stored.issues
WaiversSeen == /\ Named(stored) \subseteq gate.named /\ Bare(stored) \subseteq gate.bare
               /\ gate.step >= 4 => Named(gate.read) \subseteq gate.named /\ Bare(gate.read) \subseteq gate.bare
VerdictInv == SteadyMatches /\ SteadyIsRead /\ IssuesStay /\ WaiversSeen

LEMMA MatchedPair ==
    ASSUME NEW d, NEW x \in MatchedBy(d)
    PROVE  /\ x[1] \in DOMAIN d.issues /\ \A e \in x[2] : e \in DOMAIN d.evidence
           /\ \E ctx \in By(x, d.variant, d.evidence) : Affects(d.issues[x[1]], ctx)
  BY DEF MatchedBy, By

\* A request reads one table.
LEMMA ReadKeeps ==
    ASSUME GateTypes, VerdictInv, Read
    PROVE  VerdictInv'
  <1> DEFINE n == gate.step + 1
  <1>1. /\ n \in 1..5 /\ gate.step = n - 1 /\ n \in Nat /\ gate.step \in Nat
        /\ Order[n] \in GraphTables
    BY OrderIs DEF Read, GateTypes
  <1>2. /\ stored' = stored /\ gate'.step = n
        /\ gate'.steady = gate.steady /\ gate'.named = gate.named /\ gate'.bare = gate.bare
    BY DEF Read, GateTypes, Request
  <1>3. gate'.read = [gate.read EXCEPT ![Order[n]] = stored[Order[n]]]
    BY DEF Read, GateTypes, Request
  <1> DEFINE r == gate.read
             s == gate'.read
  <1>4. \A kind \in GraphTables : s[kind] = IF kind = Order[n] THEN stored[kind] ELSE r[kind]
    BY <1>1, <1>3 DEF GateTypes
  <1>5. /\ n = 1 => s.variant = stored.variant
        /\ n # 1 => s.variant = r.variant
        /\ n = 2 => s.evidence = stored.evidence
        /\ n # 2 => s.evidence = r.evidence
        /\ n = 3 => s.issues = stored.issues
        /\ n # 3 => s.issues = r.issues
        /\ n = 4 => s.waivers = stored.waivers
        /\ n # 4 => s.waivers = r.waivers
    <2>1. \A m \in 1..5 : n # m => Order[n] # Order[m]
      <3>1. n = 1 \/ n = 2 \/ n = 3 \/ n = 4 \/ n = 5
        BY <1>1
      <3>2. \A m \in 1..5 : m = 1 \/ m = 2 \/ m = 3 \/ m = 4 \/ m = 5
        OBVIOUS
      <3> HIDE DEF n
      <3>3. QED
        BY <3>1, <3>2, OrderIs
    <2> HIDE DEF n, r, s
    <2>2. QED
      BY <1>4, <2>1, OrderIs DEF GraphTables
  <1> HIDE DEF n, r, s
  <1>6. SteadyMatches'
    BY <1>2 DEF VerdictInv, SteadyMatches
  <1>7. SteadyIsRead'
    <2>1. ASSUME NEW x \in gate.steady
          PROVE  /\ n >= 1 => s.variant = stored.variant
                 /\ n >= 2 => \A e \in x[2] : e \in DOMAIN s.evidence /\ s.evidence[e] = stored.evidence[e]
                 /\ n >= 3 => /\ x[1] \in DOMAIN s.issues
                              /\ \E ctx \in By(x, stored.variant, stored.evidence) : Affects(s.issues[x[1]], ctx)
      <3>1. x \in MatchedBy(stored)
        BY DEF VerdictInv, SteadyMatches
      <3>2. n >= 1 => s.variant = stored.variant
        BY <1>1, <1>5, <2>1 DEF VerdictInv, SteadyIsRead, r
      <3>3. n >= 2 => \A e \in x[2] : e \in DOMAIN s.evidence /\ s.evidence[e] = stored.evidence[e]
        BY <1>1, <1>5, <2>1, <3>1, MatchedPair DEF VerdictInv, SteadyIsRead, r
      <3>4. n >= 3 => /\ x[1] \in DOMAIN s.issues
                      /\ \E ctx \in By(x, stored.variant, stored.evidence) : Affects(s.issues[x[1]], ctx)
        BY <1>1, <1>5, <2>1, <3>1, MatchedPair DEF VerdictInv, SteadyIsRead, r
      <3>5. QED
        BY <3>2, <3>3, <3>4
    <2>2. QED
      BY <1>2, <2>1 DEF SteadyIsRead, s
  <1>8. IssuesStay'
    BY <1>1, <1>2, <1>5 DEF VerdictInv, IssuesStay, r, s
  <1>9. WaiversSeen'
    <2>1. ASSUME n >= 4 PROVE Named(s) \subseteq gate.named /\ Bare(s) \subseteq gate.bare
      <3>1. CASE n = 4
        <4>1. Named(s) = Named(stored)
          BY <1>5, <3>1 DEF Named, Approved
        <4>2. DOMAIN s.issues \subseteq DOMAIN stored.issues
          BY <1>1, <1>5, <3>1 DEF VerdictInv, IssuesStay, r
        <4>3. Bare(s) \subseteq Bare(stored)
          BY <1>5, <3>1, <4>2 DEF Bare, Approved
        <4>4. QED
          BY <4>1, <4>3 DEF VerdictInv, WaiversSeen
      <3>2. CASE n = 5
        <4>1. Named(s) = Named(r) /\ Bare(s) = Bare(r)
          BY <1>5, <3>2 DEF Named, Bare, Approved
        <4>2. QED
          BY <1>1, <3>2, <4>1 DEF VerdictInv, WaiversSeen, r
      <3>3. QED
        BY <1>1, <2>1, <3>1, <3>2
    <2>2. QED
      BY <1>2, <2>1 DEF VerdictInv, WaiversSeen, s
  <1>10. QED
    BY <1>6, <1>7, <1>8, <1>9 DEF VerdictInv

\* Another transaction commits: no issue is deleted.
LEMMA CommitKeeps ==
    ASSUME GateTypes, VerdictInv, NEW d, DOMAIN stored.issues \subseteq DOMAIN d.issues, Commit(d)
    PROVE  VerdictInv'
  <1>1. /\ stored' = d /\ gate'.step = gate.step /\ gate'.read = gate.read
        /\ gate'.steady = {x \in gate.steady \cap MatchedBy(d) :
                              /\ d.variant = stored.variant
                              /\ \A e \in x[2] : d.evidence[e] = stored.evidence[e]}
        /\ gate'.named = gate.named \cup Named(d) /\ gate'.bare = gate.bare \cup Bare(d)
    BY DEF Commit, Follow, GateTypes, Request
  <1>2. SteadyMatches'
    BY <1>1 DEF SteadyMatches
  <1>3. SteadyIsRead'
    <2>1. ASSUME NEW x \in gate'.steady
          PROVE  /\ x \in gate.steady /\ d.variant = stored.variant
                 /\ \A e \in x[2] : d.evidence[e] = stored.evidence[e]
                 /\ By(x, d.variant, d.evidence) = By(x, stored.variant, stored.evidence)
      <3>1. x \in gate.steady /\ d.variant = stored.variant /\ \A e \in x[2] : d.evidence[e] = stored.evidence[e]
        BY <1>1, <2>1
      <3>2. {EvidenceContext(d.variant, d.evidence[e]) : e \in x[2]}
            = {EvidenceContext(stored.variant, stored.evidence[e]) : e \in x[2]}
        BY <3>1
      <3>3. QED
        BY <3>1, <3>2 DEF By
    <2>2. QED
      BY <1>1, <2>1 DEF VerdictInv, SteadyIsRead
  <1>4. IssuesStay'
    BY <1>1 DEF VerdictInv, IssuesStay
  <1>5. WaiversSeen'
    BY <1>1 DEF VerdictInv, WaiversSeen
  <1>6. QED
    BY <1>2, <1>3, <1>4, <1>5 DEF VerdictInv

LEMMA VerdictInvHolds == GateSpec => []VerdictInv
  <1>1. GateInit => VerdictInv
    <2>1. ASSUME GateInit PROVE VerdictInv
      <3>1. /\ gate.step = 0 /\ gate.steady = MatchedBy(stored)
            /\ gate.named = Named(stored) /\ gate.bare = Bare(stored)
        BY <2>1 DEF GateInit
      <3>2. QED
        BY <3>1 DEF VerdictInv, SteadyMatches, SteadyIsRead, IssuesStay, WaiversSeen
    <2>2. QED
      BY <2>1
  <1>2. ASSUME GateTypes, VerdictInv, [GateNext]_gateVars PROVE VerdictInv'
    <2>1. CASE Read
      BY <1>2, <2>1, ReadKeeps
    <2>2. CASE Load
      <3>1. PICK load \in Loads : Commit(Written(stored, load))
        BY <2>2 DEF Load
      <3>2. DOMAIN stored.issues \subseteq DOMAIN Written(stored, load).issues
        BY <1>2 DEF Written, Over, GateTypes, GraphTables
      <3>3. QED
        BY <1>2, <3>1, <3>2, CommitKeeps
    <2>3. CASE DeleteEvidence
      <3>1. PICK e \in DOMAIN stored.evidence :
                Commit([stored EXCEPT !.evidence = [f \in DOMAIN @ \ {e} |-> @[f]]])
        BY <2>3 DEF DeleteEvidence
      <3>2. [stored EXCEPT !.evidence = [f \in DOMAIN @ \ {e} |-> @[f]]].issues = stored.issues
        BY <1>2 DEF GateTypes, GraphTables
      <3>3. QED
        BY <1>2, <3>1, <3>2, CommitKeeps
    <2>4. CASE UNCHANGED gateVars
      BY <1>2, <2>4 DEF VerdictInv, SteadyMatches, SteadyIsRead, IssuesStay, WaiversSeen, gateVars
    <2>5. QED
      BY <1>2, <2>1, <2>2, <2>3, <2>4 DEF GateNext
  <1>3. QED
    BY <1>1, <1>2, TypesHold, PTL DEF GateSpec

\* Whatever is written while the gate reads, its verdict counts what matched all
\* along, asks a waiver for what none named, and asks none for what always had one.
THEOREM Verdicts == GateSpec => []VerdictHolds
  <1>1. ASSUME GateTypes, VerdictInv PROVE VerdictHolds
    <2> SUFFICES ASSUME gate.step = Len(Order) PROVE VerdictHolds
      BY DEF VerdictHolds
    <2> DEFINE g == gate.read
               matched == {x[1] : x \in gate.steady}
    <2>1. gate.step = 5
      BY OrderIs
    <2>2. ASSUME NEW x \in gate.steady PROVE x[1] \in MatchIssues(g)
      <3>1. /\ g.variant = stored.variant
            /\ \A e \in x[2] : e \in DOMAIN g.evidence /\ g.evidence[e] = stored.evidence[e]
            /\ x[1] \in DOMAIN g.issues
        BY <1>1, <2>1, <2>2 DEF VerdictInv, SteadyIsRead
      <3>2. PICK ctx \in By(x, stored.variant, stored.evidence) : Affects(g.issues[x[1]], ctx)
        BY <1>1, <2>1, <2>2 DEF VerdictInv, SteadyIsRead
      <3>3. ctx \in Contexts(g.variant, Rows(g.evidence))
        BY <3>1, <3>2 DEF By, Contexts, Rows
      <3>4. QED
        BY <3>1, <3>2, <3>3 DEF MatchIssues
    <2>3. matched \subseteq MatchIssues(g)
      BY <2>2
    <2>4. Waived(g) \subseteq gate.named
      <3>1. Waived(g) \subseteq Named(g)
        BY DEF Waived, Named, Approved, Rows
      <3>2. QED
        BY <1>1, <2>1, <3>1 DEF VerdictInv, WaiversSeen
    <2>5. MissingWaivers(g) \subseteq gate.bare
      <3>1. \A w \in DOMAIN g.waivers :
               /\ g.waivers[w].status = "approved" /\ g.waivers[w].here
               /\ g.waivers[w].rule = NoRule /\ g.waivers[w].execution = NoRule
               => g.waivers[w].issue \in Waived(g)
        BY DEF Waived, WaiverApplies, Hits
      <3>2. MatchIssues(g) \subseteq DOMAIN g.issues
        BY DEF MatchIssues
      <3>3. MissingWaivers(g) \subseteq Bare(g)
        BY <3>1, <3>2 DEF MissingWaivers, Bare, Approved, Rows
      <3>4. QED
        BY <1>1, <2>1, <3>3 DEF VerdictInv, WaiversSeen
    <2>6. MatchIssues(g) # {} => DeriveStatus(g) # "PASS"
      <3>1. MatchIssues(g) # {} => "WARN" \in CheckGateRules(g)
        BY DEF CheckGateRules
      <3>2. QED
        BY <3>1 DEF DeriveStatus
    <2>7. MissingWaivers(g) # {} => DeriveStatus(g) \in {"WAIVER_REQUIRED", "BLOCK"}
      BY DEF DeriveStatus
    <2>8. matched # {} => DeriveStatus(g) # "PASS"
      BY <2>3, <2>6
    <2>9. matched \ gate.named # {} => DeriveStatus(g) \in {"WAIVER_REQUIRED", "BLOCK"}
      <3>1. matched \ gate.named \subseteq MissingWaivers(g)
        BY <2>3, <2>4 DEF MissingWaivers
      <3>2. QED
        BY <2>7, <3>1
    <2>10. QED
      BY <2>3, <2>5, <2>8, <2>9 DEF VerdictHolds
  <1>2. QED
    BY <1>1, TypesHold, VerdictInvHolds, PTL

-----------------------------------------------------------------------------
(* GraphWalks.  First, the paths of a graph.                               *)

\* p is a path of n nodes, none of them twice.
IsPath(p, n, V, E) ==
    /\ p \in [1..n -> V]
    /\ \A i, j \in 1..n : p[i] = p[j] => i = j
    /\ \A i \in 1..n - 1 : <<p[i], p[i + 1]>> \in E

\* A path is a sequence as long as its domain.
LEMMA LengthOf ==
    ASSUME NEW n \in Nat, NEW V, NEW p \in [1..n -> V]
    PROVE  Len(p) = n /\ DOMAIN p = 1..n /\ p \in Seq(V)
  OBVIOUS

\* No path is longer than there are nodes.
LEMMA PathsFit ==
    ASSUME NEW V, IsFiniteSet(V), NEW E, NEW n \in Nat, NEW p, IsPath(p, n, V, E)
    PROVE  n <= Cardinality(V)
  <1> SUFFICES ASSUME ~(n <= Cardinality(V)) PROVE FALSE
    OBVIOUS
  <1>1. Cardinality(V) \in Nat
    BY FS_CardinalityType
  <1>2. 1 \in Int /\ n \in Int
    OBVIOUS
  <1>3. IsFiniteSet(1..n) /\ Cardinality(1..n) = IF 1 > n THEN 0 ELSE n - 1 + 1
    BY <1>2, FS_Interval
  <1>4. Cardinality(V) < Cardinality(1..n)
    BY <1>1, <1>3
  <1>5. p \in [1..n -> V]
    BY DEF IsPath
  <1>6. \E x, y \in 1..n : x # y /\ p[x] = p[y]
    BY <1>3, <1>4, <1>5, FS_PigeonHole
  <1>7. QED
    BY <1>6 DEF IsPath

\* SimplePaths are these paths.
LEMMA PathsAreSimple ==
    ASSUME NEW V, IsFiniteSet(V), NEW E, NEW p
    PROVE  /\ p \in SimplePaths(V, E) => Len(p) \in Nat \ {0} /\ IsPath(p, Len(p), V, E)
           /\ \A n \in Nat \ {0} : IsPath(p, n, V, E) => p \in SimplePaths(V, E) /\ Len(p) = n
  <1>0. Cardinality(V) \in Nat
    BY FS_CardinalityType
  <1>1. ASSUME p \in SimplePaths(V, E) PROVE Len(p) \in Nat \ {0} /\ IsPath(p, Len(p), V, E)
    <2>1. PICK n \in 1..Cardinality(V) : p \in [1..n -> V]
      BY <1>1 DEF SimplePaths
    <2>2. n \in Nat \ {0}
      BY <1>0, <2>1
    <2>3. Len(p) = n /\ DOMAIN p = 1..n
      BY <2>1, <2>2, LengthOf
    <2>4. /\ \A i, j \in 1..n : p[i] = p[j] => i = j
          /\ \A i \in 1..n - 1 : <<p[i], p[i + 1]>> \in E
      BY <1>1, <2>3 DEF SimplePaths
    <2>5. QED
      BY <2>1, <2>2, <2>3, <2>4 DEF IsPath
  <1>2. ASSUME NEW n \in Nat \ {0}, IsPath(p, n, V, E) PROVE p \in SimplePaths(V, E) /\ Len(p) = n
    <2>1. n <= Cardinality(V)
      BY <1>2, PathsFit
    <2>2. n \in 1..Cardinality(V) /\ p \in [1..n -> V]
      BY <1>0, <1>2, <2>1 DEF IsPath
    <2>3. Len(p) = n /\ DOMAIN p = 1..n
      BY <2>2, LengthOf
    <2>4. p \in UNION {[1..k -> V] : k \in 1..Cardinality(V)}
      BY <2>2
    <2>5. QED
      BY <1>2, <2>3, <2>4 DEF SimplePaths, IsPath
  <1>3. QED
    BY <1>1, <1>2

\* The beginning of a path is one.
LEMMA PathStarts ==
    ASSUME NEW V, NEW E, NEW n \in Nat, NEW p, IsPath(p, n, V, E), NEW k \in 1..n
    PROVE  IsPath([i \in 1..k |-> p[i]], k, V, E)
  BY DEF IsPath

\* A node that is not on the path may come after it, or before it.
LEMMA PathGrows ==
    ASSUME NEW V, NEW E, NEW n \in Nat \ {0}, NEW p, IsPath(p, n, V, E), NEW v \in V,
           \A i \in 1..n : p[i] # v, <<p[n], v>> \in E
    PROVE  IsPath([i \in 1..n + 1 |-> IF i = n + 1 THEN v ELSE p[i]], n + 1, V, E)
  <1> DEFINE q == [i \in 1..n + 1 |-> IF i = n + 1 THEN v ELSE p[i]]
  <1>1. p \in [1..n -> V] /\ \A i \in 1..n : i \in 1..n + 1 /\ q[i] = p[i]
    BY DEF IsPath
  <1>2. q \in [1..n + 1 -> V] /\ q[n + 1] = v
    BY <1>1
  <1>3. \A i \in 1..n + 1 : i = n + 1 \/ i \in 1..n
    OBVIOUS
  <1>4. \A i \in 1..n : i # n + 1
    OBVIOUS
  <1> HIDE DEF q
  <1>5. \A i, j \in 1..n + 1 : q[i] = q[j] => i = j
    BY <1>1, <1>2, <1>3, <1>4 DEF IsPath
  <1>6. ASSUME NEW i \in 1..(n + 1) - 1 PROVE <<q[i], q[i + 1]>> \in E
    <2>1. i \in 1..n /\ (i = n \/ (i \in 1..n - 1 /\ i + 1 \in 1..n))
      OBVIOUS
    <2>2. QED
      BY <1>1, <1>2, <2>1 DEF IsPath
  <1>7. QED
    BY <1>2, <1>5, <1>6 DEF IsPath, q

LEMMA PathBegins ==
    ASSUME NEW V, NEW E, NEW n \in Nat \ {0}, NEW p, IsPath(p, n, V, E), NEW v \in V,
           \A i \in 1..n : p[i] # v, <<v, p[1]>> \in E
    PROVE  IsPath([i \in 1..n + 1 |-> IF i = 1 THEN v ELSE p[i - 1]], n + 1, V, E)
  <1> DEFINE q == [i \in 1..n + 1 |-> IF i = 1 THEN v ELSE p[i - 1]]
  <1>1. p \in [1..n -> V] /\ \A i \in 2..n + 1 : i - 1 \in 1..n /\ i \in 1..n + 1 /\ q[i] = p[i - 1]
    BY DEF IsPath
  <1>2. 1 \in 1..n + 1 /\ q[1] = v
    OBVIOUS
  <1>3. \A i \in 1..n + 1 : i = 1 \/ i \in 2..n + 1
    OBVIOUS
  <1>4. q \in [1..n + 1 -> V]
    BY <1>1
  <1> HIDE DEF q
  <1>5. \A i, j \in 1..n + 1 : q[i] = q[j] => i = j
    <2> SUFFICES ASSUME NEW i \in 1..n + 1, NEW j \in 1..n + 1, q[i] = q[j] PROVE i = j
      OBVIOUS
    <2>1. CASE i = 1 /\ j = 1
      BY <2>1
    <2>2. CASE i = 1 /\ j \in 2..n + 1
      BY <1>1, <1>2, <2>2
    <2>3. CASE i \in 2..n + 1 /\ j = 1
      BY <1>1, <1>2, <2>3
    <2>4. CASE i \in 2..n + 1 /\ j \in 2..n + 1
      <3>1. p[i - 1] = p[j - 1] /\ i - 1 \in 1..n /\ j - 1 \in 1..n
        BY <1>1, <2>4
      <3>2. i - 1 = j - 1
        BY <3>1 DEF IsPath
      <3>3. QED
        BY <2>4, <3>2
    <2>5. QED
      BY <1>3, <2>1, <2>2, <2>3, <2>4
  <1>6. ASSUME NEW i \in 1..(n + 1) - 1 PROVE <<q[i], q[i + 1]>> \in E
    <2>1. i + 1 \in 2..n + 1 /\ (i + 1) - 1 = i
      OBVIOUS
    <2>2. q[i + 1] = p[i]
      BY <1>1, <2>1
    <2>3. CASE i = 1
      BY <1>2, <2>2, <2>3
    <2>4. CASE i # 1
      <3>1. i \in 2..n + 1 /\ i - 1 \in 1..n - 1 /\ (i - 1) + 1 = i
        BY <2>4
      <3>2. QED
        BY <1>1, <2>2, <3>1 DEF IsPath
    <2>5. QED
      BY <2>3, <2>4
  <1>7. QED
    BY <1>4, <1>5, <1>6 DEF IsPath, q

-----------------------------------------------------------------------------
(* What is left over in a graph when nothing is ready.                     *)

\* v is reached from a cycle: a path ends there whose first node has an edge from a node of it.
Reached(v, V, E) ==
    \E n \in Nat \ {0} : \E p : IsPath(p, n, V, E) /\ p[n] = v /\ \E k \in 1..n : <<p[k], p[1]>> \in E

\* Nodes all of which have one of them before them are on a cycle or behind one.
LEMMA LeftIsBehind ==
    ASSUME NEW V, IsFiniteSet(V), NEW E, NEW L, L \subseteq V,
           \A v \in L : \E u \in L : <<u, v>> \in E, NEW v \in L
    PROVE  Reached(v, V, E)
  <1> DEFINE Long(n) == \E p : IsPath(p, n, L, E) /\ p[n] = v
             Short == {m \in Nat : \E n \in Nat \ {0} : n + m = Cardinality(V) /\ Long(n)}
  <1>0. Cardinality(V) \in Nat /\ IsFiniteSet(L) /\ Cardinality(L) <= Cardinality(V) /\ Cardinality(L) \in Nat
    BY FS_CardinalityType, FS_Subset
  <1>1. \A n \in Nat : Long(n) => n <= Cardinality(V)
    <2> TAKE n \in Nat
    <2> HAVE Long(n)
    <2>1. n <= Cardinality(L)
      BY <1>0, PathsFit
    <2>2. QED
      BY <1>0, <2>1
  <1>2. Long(1)
    <2> DEFINE p == [i \in 1..1 |-> v]
    <2>1. IsPath(p, 1, L, E) /\ p[1] = v
      BY DEF IsPath
    <2>2. QED
      BY <2>1
  <1> HIDE DEF Long
  <1>3. \A n \in Nat \ {0} : Long(n) => Cardinality(V) - n \in Short /\ Cardinality(V) - n \in Nat
    BY <1>0, <1>1
  <1>4. Short \subseteq Nat /\ Short # {}
    BY <1>2, <1>3
  <1>5. PICK m \in Short : \A j \in Short : m <= j
    BY <1>4, HasLeast
  <1>6. PICK n \in Nat \ {0} : n + m = Cardinality(V) /\ Long(n)
    BY <1>5
  <1>7. \A i \in Nat \ {0} : Long(i) => i <= n
    BY <1>0, <1>3, <1>5, <1>6
  <1>8. PICK p : IsPath(p, n, L, E) /\ p[n] = v
    BY <1>6 DEF Long
  <1>9. 1 \in 1..n /\ p[1] \in L
    BY <1>8 DEF IsPath
  <1>10. PICK u \in L : <<u, p[1]>> \in E
    BY <1>9
  <1>11. \E k \in 1..n : p[k] = u
    <2> SUFFICES ASSUME \A k \in 1..n : p[k] # u PROVE FALSE
      OBVIOUS
    <2> DEFINE q == [i \in 1..n + 1 |-> IF i = 1 THEN u ELSE p[i - 1]]
    <2>1. IsPath(q, n + 1, L, E)
      BY <1>8, <1>10, PathBegins
    <2>2. q[n + 1] = v
      BY <1>8
    <2>3. Long(n + 1)
      BY <2>1, <2>2 DEF Long
    <2>4. n + 1 \in Nat \ {0} /\ ~(n + 1 <= n)
      OBVIOUS
    <2>5. QED
      BY <1>7, <2>3, <2>4
  <1>12. IsPath(p, n, V, E)
    BY <1>8 DEF IsPath
  <1>13. QED
    BY <1>8, <1>10, <1>11, <1>12 DEF Reached

\* Along a path, what is before something done is done.
LEMMA DoneBackwards ==
    ASSUME NEW V, NEW E, NEW D, \A u, v : <<u, v>> \in E /\ v \in D => u \in D,
           NEW n \in Nat, NEW p, IsPath(p, n, V, E), NEW j \in 1..n, p[j] \in D
    PROVE  \A i \in 1..j : p[i] \in D
  <1> DEFINE Back == {m \in Nat : m < j /\ p[j - m] \notin D}
  <1>1. CASE Back = {}
    <2>1. \A i \in 1..j : j - i \in Nat /\ j - i < j /\ j - (j - i) = i
      OBVIOUS
    <2>2. QED
      BY <1>1, <2>1
  <1>2. CASE Back # {}
    <2>1. PICK m \in Back : \A k \in Back : m <= k
      <3>1. Back \subseteq Nat
        OBVIOUS
      <3>2. QED
        BY <1>2, <3>1, HasLeast
    <2>2. m \in Nat /\ m < j /\ m # 0
      BY <2>1
    <2>3. m - 1 \in Nat /\ m - 1 < j /\ ~(m <= m - 1)
      BY <2>2
    <2>4. p[j - (m - 1)] \in D
      BY <2>1, <2>3
    <2>5. j - m \in 1..n - 1 /\ (j - m) + 1 = j - (m - 1)
      BY <2>2
    <2>6. <<p[j - m], p[(j - m) + 1]>> \in E
      BY <2>5 DEF IsPath
    <2>7. p[j - m] \in D
      BY <2>4, <2>5, <2>6
    <2>8. QED
      BY <2>1, <2>7
  <1>3. QED
    BY <1>1, <1>2

\* The nodes on cycles, and those behind a set of nodes.
CycleNodes(V, E) == {v \in V : \E p \in SimplePaths(V, E) : p[1] = v /\ <<Final(p), v>> \in E}
NodesBehind(S, V, E) == {v \in V : \E p \in SimplePaths(V, E) : p[1] \in S /\ Final(p) = v}

\* What has only what is done before it is on no cycle.
LEMMA CycleNodesStay ==
    ASSUME NEW V, IsFiniteSet(V), NEW E, NEW D, \A u, v : <<u, v>> \in E /\ v \in D => u \in D,
           NEW a, a \notin D, \A u : <<u, a>> \in E => u \in D
    PROVE  a \notin CycleNodes(V, E)
  <1> SUFFICES ASSUME NEW p \in SimplePaths(V, E), p[1] = a, <<Final(p), a>> \in E PROVE FALSE
    BY DEF CycleNodes
  <1>1. Len(p) \in Nat \ {0} /\ IsPath(p, Len(p), V, E)
    BY PathsAreSimple
  <1>2. Len(p) \in 1..Len(p) /\ 1 \in 1..Len(p)
    BY <1>1
  <1>3. p[Len(p)] \in D
    BY DEF Final
  <1>4. p[1] \in D
    BY <1>1, <1>2, <1>3, DoneBackwards
  <1>5. QED
    BY <1>4

\* When what is done has only what is done before it, and what is left has something
\* left before it, what is left lies on a cycle or behind one.
LEMMA LeftOver ==
    ASSUME NEW V, IsFiniteSet(V), NEW E, NEW D, \A u, v : <<u, v>> \in E /\ v \in D => u \in D,
           CycleNodes(V, E) \cap D = {}, \A v \in V \ D : \E u \in V \ D : <<u, v>> \in E
    PROVE  V \ D = NodesBehind(CycleNodes(V, E), V, E)
  <1>1. ASSUME NEW v \in V \ D PROVE v \in NodesBehind(CycleNodes(V, E), V, E)
    <2>1. PICK n, p : n \in Nat \ {0} /\ IsPath(p, n, V, E) /\ p[n] = v /\ \E k \in 1..n : <<p[k], p[1]>> \in E
      <3> DEFINE L == V \ D
      <3>1. L \subseteq V /\ v \in L /\ \A w \in L : \E u \in L : <<u, w>> \in E
        OBVIOUS
      <3> HIDE DEF L
      <3>2. Reached(v, V, E)
        BY <3>1, LeftIsBehind
      <3>3. QED
        BY <3>2 DEF Reached
    <2>2. PICK k \in 1..n : <<p[k], p[1]>> \in E
      BY <2>1
    <2> DEFINE q == [i \in 1..k |-> p[i]]
    <2>3. k \in Nat \ {0} /\ IsPath(q, k, V, E) /\ q[1] = p[1] /\ q[k] = p[k]
      BY <2>1, PathStarts
    <2> HIDE DEF q
    <2>4. q \in SimplePaths(V, E) /\ Len(q) = k
      BY <2>3, PathsAreSimple
    <2>5. p[1] \in V
      BY <2>1 DEF IsPath
    <2>6. p[1] \in CycleNodes(V, E)
      BY <2>2, <2>3, <2>4, <2>5 DEF CycleNodes, Final
    <2>7. p \in SimplePaths(V, E) /\ Len(p) = n
      BY <2>1, PathsAreSimple
    <2>8. QED
      BY <2>1, <2>6, <2>7 DEF NodesBehind, Final
  <1>2. ASSUME NEW v \in NodesBehind(CycleNodes(V, E), V, E) PROVE v \in V \ D
    <2>1. PICK p \in SimplePaths(V, E) : p[1] \in CycleNodes(V, E) /\ Final(p) = v
      BY <1>2 DEF NodesBehind
    <2>2. Len(p) \in Nat \ {0} /\ IsPath(p, Len(p), V, E)
      BY PathsAreSimple
    <2>3. Len(p) \in 1..Len(p) /\ 1 \in 1..Len(p)
      BY <2>2
    <2>4. v \notin D
      <3> SUFFICES ASSUME p[Len(p)] \in D PROVE FALSE
        BY <2>1 DEF Final
      <3>1. p[1] \in D
        BY <2>2, <2>3, DoneBackwards
      <3>2. QED
        BY <2>1, <3>1
    <2>5. QED
      BY <2>4, <1>2 DEF NodesBehind
  <1>3. QED
    BY <1>1, <1>2

\* Nothing is on a cycle when nothing is on one or behind one.
LEMMA CyclesAreBehind ==
    ASSUME NEW V, IsFiniteSet(V), NEW E
    PROVE  (NodesBehind(CycleNodes(V, E), V, E) = {}) = (CycleNodes(V, E) = {})
  <1>1. ASSUME NEW v \in CycleNodes(V, E) PROVE v \in NodesBehind(CycleNodes(V, E), V, E)
    <2> DEFINE p == [i \in 1..1 |-> v]
    <2>1. v \in V /\ IsPath(p, 1, V, E) /\ p[1] = v
      BY DEF IsPath, CycleNodes
    <2> HIDE DEF p
    <2>2. p \in SimplePaths(V, E) /\ Len(p) = 1
      <3>1. 1 \in Nat \ {0}
        OBVIOUS
      <3>2. QED
        BY <2>1, <3>1, PathsAreSimple
    <2>3. QED
      BY <2>1, <2>2 DEF NodesBehind, Final
  <1>2. NodesBehind({}, V, E) = {}
    BY DEF NodesBehind
  <1>3. QED
    BY <1>1, <1>2

-----------------------------------------------------------------------------
(* The way back, and the cycle that it closes.                             *)

\* Least is the least of a set of numbers.
LEMMA LeastIs ==
    ASSUME NEW S, S \subseteq Nat, S # {}
    PROVE  Least(S) \in S /\ \A j \in S : Least(S) <= j
  <1>1. \E m \in S : \A j \in S : m <= j
    BY HasLeast
  <1>2. QED
    BY <1>1 DEF Least

\* The steps of B between the first time and the first return, the other way round.
ClosedBy(B, N, last, first, c) ==
    /\ last = Least({k \in 2..N + 1 : \E j \in 1..k - 1 : B[j] = B[k]})
    /\ first = Least({j \in 1..last - 1 : B[j] = B[last]})
    /\ c = [i \in 1..last - first + 1 |-> B[last - i + 1]]
IsCycle(c, E) ==
    /\ c # <<>> /\ Len(c) \in Nat /\ Len(c) > 1 /\ c[1] = c[Len(c)]
    /\ \A i \in 1..Len(c) - 1 : <<c[i], c[i + 1]>> \in E
    /\ \A i, j \in 2..Len(c) : c[i] = c[j] => i = j

\* A walk through fewer nodes than its steps meets a node again, and closes a cycle.
LEMMA WalkCloses ==
    ASSUME NEW L, IsFiniteSet(L), NEW N \in Nat, Cardinality(L) <= N, NEW B \in [1..N + 1 -> L], NEW E,
           \A k \in 2..N + 1 : <<B[k], B[k - 1]>> \in E,
           NEW last, NEW first, NEW c, ClosedBy(B, N, last, first, c)
    PROVE  IsCycle(c, E)
  <1> DEFINE Again == {k \in 2..N + 1 : \E j \in 1..k - 1 : B[j] = B[k]}
             Before == {j \in 1..last - 1 : B[j] = B[last]}
  <1>1. Again # {}
    <2>1. 1 \in Int /\ N + 1 \in Int /\ ~(1 > N + 1) /\ (N + 1) - 1 + 1 = N + 1
      OBVIOUS
    <2>2. IsFiniteSet(1..N + 1) /\ Cardinality(1..N + 1) = N + 1
      BY <2>1, FS_Interval
    <2>3. Cardinality(L) \in Nat
      BY FS_CardinalityType
    <2>4. Cardinality(L) < Cardinality(1..N + 1)
      BY <2>2, <2>3
    <2>5. PICK x, y \in 1..N + 1 : x # y /\ B[x] = B[y]
      BY <2>2, <2>4, FS_PigeonHole
    <2>6. CASE x < y
      <3>1. y \in 2..N + 1 /\ x \in 1..y - 1
        BY <2>6
      <3>2. QED
        BY <2>5, <3>1
    <2>7. CASE y < x
      <3>1. x \in 2..N + 1 /\ y \in 1..x - 1
        BY <2>7
      <3>2. QED
        BY <2>5, <3>1
    <2>8. x < y \/ y < x
      BY <2>5
    <2>9. QED
      BY <2>6, <2>7, <2>8
  <1>2. last \in Again /\ \A k \in Again : last <= k
    <2>1. Again \subseteq Nat
      OBVIOUS
    <2>2. last = Least(Again)
      BY DEF ClosedBy
    <2> HIDE DEF Again
    <2>3. QED
      BY <1>1, <2>1, <2>2, LeastIs
  <1>3. last \in 2..N + 1 /\ Before # {}
    BY <1>2
  <1>4. first \in Before /\ \A k \in Before : first <= k
    <2>1. Before \subseteq Nat
      BY <1>3
    <2>2. first = Least(Before)
      BY DEF ClosedBy
    <2> HIDE DEF Before
    <2>3. QED
      BY <1>3, <2>1, <2>2, LeastIs
  <1>5. first \in 1..last - 1 /\ B[first] = B[last]
    BY <1>4
  <1> DEFINE n == last - first + 1
  <1>6. n \in Nat /\ n > 1 /\ first \in Nat /\ last \in Nat /\ last <= N + 1 /\ first >= 1
    BY <1>3, <1>5
  <1>7. \A i \in 1..n : last - i + 1 \in first..last /\ last - i + 1 \in 1..N + 1
    BY <1>6
  <1>8. c \in [1..n -> L]
    BY <1>7 DEF ClosedBy
  <1>16. \A i \in 1..n : c[i] = B[last - i + 1]
    BY <1>7 DEF ClosedBy
  <1> HIDE DEF n
  <1>9. Len(c) = n /\ DOMAIN c = 1..n /\ c \in Seq(L)
    <2>1. n \in Nat
      BY <1>6
    <2>2. QED
      BY ONLY <2>1, <1>8, LengthOf
  <1>10. c[1] = c[n]
    <2>1. 1 \in 1..n /\ n \in 1..n /\ last - 1 + 1 = last /\ last - n + 1 = first
      BY <1>6 DEF n
    <2>2. QED
      BY <1>5, <1>16, <2>1
  <1>11. ASSUME NEW i \in 1..n - 1 PROVE <<c[i], c[i + 1]>> \in E
    <2>1. i \in 1..n /\ i + 1 \in 1..n
      BY <1>6
    <2>2. last - (i + 1) + 1 = (last - i + 1) - 1 /\ last - i + 1 \in 2..N + 1
      BY <1>6, <2>1 DEF n
    <2>3. QED
      BY <1>16, <2>1, <2>2
  <1>12. ASSUME NEW i \in 2..n, NEW j \in 2..n, c[i] = c[j], i < j PROVE FALSE
    <2> DEFINE a == last - i + 1
               b == last - j + 1
    <2>0. i \in Nat /\ j \in Nat /\ 2 <= i /\ i < j /\ j <= last - first + 1
      BY <1>6, <1>12 DEF n
    <2>1. /\ i \in 1..n /\ j \in 1..n
          /\ a \in Nat /\ b \in Nat /\ b < a /\ a < last /\ b >= 1 /\ a <= N + 1
      <3>1. i \in 1..n /\ j \in 1..n
        BY <1>6, <2>0 DEF n
      <3>2. last \in Nat /\ first \in Nat /\ first >= 1 /\ last <= N + 1
        BY <1>6
      <3>3. a \in Nat /\ b \in Nat /\ b < a /\ a < last /\ b >= 1 /\ a <= N + 1
        BY ONLY <2>0, <3>2, N \in Nat
      <3>4. QED
        BY <3>1, <3>3
    <2>2. B[a] = B[b]
      BY <1>16, <1>12, <2>1
    <2> HIDE DEF a, b
    <2>3. a \in 2..N + 1 /\ b \in 1..a - 1
      BY <2>1, <1>6
    <2>4. a \in Again
      BY <2>2, <2>3
    <2>5. last <= a
      BY <1>2, <2>4
    <2>6. QED
      BY <1>6, <2>1, <2>5
  <1>13. \A i, j \in 2..n : c[i] = c[j] => i = j
    <2> SUFFICES ASSUME NEW i \in 2..n, NEW j \in 2..n, c[i] = c[j], i # j PROVE FALSE
      OBVIOUS
    <2>1. i < j \/ j < i
      BY <1>6
    <2>2. QED
      BY <1>12, <2>1
  <1>14. c # <<>>
    <2>1. Len(<<>>) = 0
      OBVIOUS
    <2>2. Len(c) # 0
      BY <1>6, <1>9
    <2>3. QED
      BY ONLY <2>1, <2>2
  <1>15. QED
    BY ONLY <1>6, <1>9, <1>10, <1>11, <1>13, <1>14 DEF IsCycle

\* g starts somewhere and takes a step from each number to the next.
Steps(g, N, start, step) == \A k \in 1..N : g[k] = IF k = 1 THEN start ELSE step[<<k, g[k - 1]>>]

\* A recursion along the first numbers has a value at each.
LEMMA StepsExist ==
    ASSUME NEW L, NEW start \in L, NEW step \in [Nat \X L -> L], NEW N \in Nat \ {0}
    PROVE  \E g \in [1..N -> L] : Steps(g, N, start, step)
  <1> DEFINE Upto(m) == \E g \in [1..m -> L] :
                            \A k \in 1..m : g[k] = IF k = 1 THEN start ELSE step[<<k, g[k - 1]>>]
             Lacking == {m \in Nat \ {0} : ~Upto(m)}
  <1>1. Upto(1)
    <2> DEFINE g == [i \in 1..1 |-> start]
    <2>1. g \in [1..1 -> L] /\ \A k \in 1..1 : k = 1 /\ g[k] = start
      OBVIOUS
    <2>2. QED
      BY <2>1
  <1>2. ASSUME NEW m \in Nat \ {0}, Upto(m) PROVE Upto(m + 1)
    <2>1. PICK g \in [1..m -> L] : \A k \in 1..m : g[k] = IF k = 1 THEN start ELSE step[<<k, g[k - 1]>>]
      BY <1>2
    <2> DEFINE h == [i \in 1..m + 1 |-> IF i = m + 1 THEN step[<<i, g[m]>>] ELSE g[i]]
    <2>2. m \in 1..m /\ m + 1 \in Nat /\ \A i \in 1..m + 1 : i = m + 1 \/ (i \in 1..m /\ i # m + 1)
      OBVIOUS
    <2>3. g[m] \in L /\ <<m + 1, g[m]>> \in Nat \X L
      BY <2>2
    <2>4. h \in [1..m + 1 -> L]
      BY <2>2, <2>3
    <2>5. h[m + 1] = step[<<m + 1, g[m]>>] /\ \A i \in 1..m : h[i] = g[i]
      OBVIOUS
    <2> HIDE DEF h
    <2>6. ASSUME NEW k \in 1..m + 1 PROVE h[k] = IF k = 1 THEN start ELSE step[<<k, h[k - 1]>>]
      <3>1. CASE k = m + 1
        <4>1. k # 1 /\ k - 1 = m
          BY <3>1
        <4>2. QED
          BY <2>2, <2>5, <3>1, <4>1
      <3>2. CASE k \in 1..m
        <4>1. k = 1 \/ (k # 1 /\ k - 1 \in 1..m)
          BY <3>2
        <4>2. QED
          BY <2>1, <2>5, <3>2, <4>1
      <3>3. QED
        BY <2>2, <3>1, <3>2
    <2>7. QED
      BY <2>4, <2>6
  <1> HIDE DEF Upto
  <1>3. Lacking = {}
    <2> SUFFICES ASSUME Lacking # {} PROVE FALSE
      OBVIOUS
    <2>1. Lacking \subseteq Nat
      OBVIOUS
    <2>2. PICK m \in Lacking : \A j \in Lacking : m <= j
      BY <2>1, HasLeast
    <2>3. m \in Nat \ {0} /\ ~Upto(m) /\ m # 1
      BY <1>1, <2>2
    <2>4. m - 1 \in Nat \ {0} /\ (m - 1) + 1 = m /\ ~(m <= m - 1)
      BY <2>3
    <2>5. Upto(m - 1)
      BY <2>2, <2>4
    <2>6. QED
      BY <1>2, <2>3, <2>4, <2>5
  <1>4. QED
    BY <1>3 DEF Upto, Steps

\* What starts in a set that no step leaves stays in it.
LEMMA StepsStay ==
    ASSUME NEW L, NEW N \in Nat \ {0}, NEW g, g[1] \in L, \A k \in 2..N : g[k - 1] \in L => g[k] \in L
    PROVE  \A k \in 1..N : g[k] \in L
  <1> DEFINE Outside == {k \in 1..N : g[k] \notin L}
  <1> SUFFICES ASSUME Outside # {} PROVE FALSE
    OBVIOUS
  <1>1. PICK k \in Outside : \A j \in Outside : k <= j
    <2>1. Outside \subseteq Nat
      OBVIOUS
    <2>2. QED
      BY <2>1, HasLeast
  <1>2. k \in 2..N /\ k - 1 \in 1..N /\ ~(k <= k - 1)
    BY <1>1
  <1>3. g[k - 1] \in L
    BY <1>1, <1>2
  <1>4. QED
    BY <1>1, <1>2, <1>3

-----------------------------------------------------------------------------
(* The time along a path.                                                  *)

Ms == walk.stage.ms
\* u[k] is the time of the first k nodes of p.
TimesOf(u, p, n) == u[1] = Ms[p[1]] /\ \A k \in 2..n : u[k] = Ms[p[k]] + u[k - 1]

\* The recursion of Time has a value at every node of a path,
LEMMA TimeHasSteps ==
    ASSUME Ms \in Seq(Nat), NEW n \in Nat \ {0}, NEW p \in [1..n -> DOMAIN Ms]
    PROVE  \E u \in [1..n -> Nat] : TimesOf(u, p, n) /\ Time(p) = u[n]
  <1> DEFINE Adds(u) == u = [i \in DOMAIN p |-> Ms[p[i]] + IF i = 1 THEN 0 ELSE u[i - 1]]
             upTo == CHOOSE u : Adds(u)
             step == [x \in Nat \X Nat |-> IF x[1] \in 1..n THEN Ms[p[x[1]]] + x[2] ELSE 0]
  <1>1. Len(p) = n /\ DOMAIN p = 1..n
    BY LengthOf
  <1>2. \A k \in 1..n : p[k] \in DOMAIN Ms /\ Ms[p[k]] \in Nat
    OBVIOUS
  <1>3. Time(p) = upTo[n]
    BY <1>1 DEF Time, Ms
  <1>4. \E u : Adds(u)
    <2>1. step \in [Nat \X Nat -> Nat]
      BY <1>2
    <2>2. \A k \in 1..n, x \in Nat : step[<<k, x>>] = Ms[p[k]] + x
      OBVIOUS
    <2>3. Ms[p[1]] \in Nat
      BY <1>2
    <2> HIDE DEF step
    <2>4. PICK u \in [1..n -> Nat] : Steps(u, n, Ms[p[1]], step)
      BY <2>1, <2>3, StepsExist
    <2>5. ASSUME NEW k \in 1..n PROVE u[k] = Ms[p[k]] + IF k = 1 THEN 0 ELSE u[k - 1]
      <3>1. CASE k = 1
        <4>1. u[k] = Ms[p[1]] /\ p[k] = p[1]
          BY <2>4, <3>1 DEF Steps
        <4>2. QED
          BY <2>3, <3>1, <4>1
      <3>2. CASE k # 1
        <4>1. k - 1 \in 1..n
          BY <3>2
        <4>2. u[k - 1] \in Nat
          BY <2>4, <4>1
        <4>3. QED
          BY <2>2, <2>4, <3>2, <4>2 DEF Steps
      <3>3. QED
        BY <3>1, <3>2
    <2>6. u = [i \in DOMAIN p |-> Ms[p[i]] + IF i = 1 THEN 0 ELSE u[i - 1]]
      BY <1>1, <2>4, <2>5
    <2>7. QED
      BY <2>6
  <1>5. Adds(upTo)
    <2> HIDE DEF Adds
    <2>1. QED
      BY <1>4
  <1> HIDE DEF upTo
  <1>6. DOMAIN upTo = 1..n /\ \A k \in 1..n : upTo[k] = Ms[p[k]] + IF k = 1 THEN 0 ELSE upTo[k - 1]
    BY <1>1, <1>5
  <1>7. upTo[1] = Ms[p[1]] /\ upTo[1] \in Nat
    BY <1>2, <1>6
  <1>8. ASSUME NEW k \in 2..n PROVE upTo[k] = Ms[p[k]] + upTo[k - 1] /\ Ms[p[k]] \in Nat
    <2>1. k \in 1..n /\ k # 1
      OBVIOUS
    <2>2. upTo[k] = Ms[p[k]] + IF k = 1 THEN 0 ELSE upTo[k - 1]
      BY <1>6, <2>1
    <2>3. QED
      BY <1>2, <2>1, <2>2
  <1>9. ASSUME NEW k \in 2..n, upTo[k - 1] \in Nat PROVE upTo[k] \in Nat
    <2>1. upTo[k] = Ms[p[k]] + upTo[k - 1] /\ Ms[p[k]] \in Nat
      BY <1>8
    <2>2. QED
      BY <1>9, <2>1
  <1>10. \A k \in 1..n : upTo[k] \in Nat
    BY <1>7, <1>9, StepsStay
  <1>11. upTo \in [1..n -> Nat]
    <2>1. upTo = [k \in 1..n |-> upTo[k]]
      BY <1>1, <1>5
    <2>2. QED
      BY <1>10, <2>1
  <1>12. TimesOf(upTo, p, n)
    BY <1>7, <1>8 DEF TimesOf
  <1>13. QED
    BY <1>3, <1>11, <1>12

\* and only one;
LEMMA TimeIs ==
    ASSUME Ms \in Seq(Nat), NEW n \in Nat \ {0}, NEW p \in [1..n -> DOMAIN Ms], NEW u, TimesOf(u, p, n)
    PROVE  Time(p) = u[n]
  <1>1. PICK v \in [1..n -> Nat] : TimesOf(v, p, n) /\ Time(p) = v[n]
    BY TimeHasSteps
  <1> DEFINE Differ == {k \in 1..n : u[k] # v[k]}
  <1>2. Differ = {}
    <2> SUFFICES ASSUME Differ # {} PROVE FALSE
      OBVIOUS
    <2>1. PICK k \in Differ : \A j \in Differ : k <= j
      <3>1. Differ \subseteq Nat
        OBVIOUS
      <3>2. QED
        BY <3>1, HasLeast
    <2>2. k # 1
      BY <1>1, <2>1 DEF TimesOf
    <2>3. k \in 2..n /\ k - 1 \in 1..n /\ ~(k <= k - 1)
      BY <2>1, <2>2
    <2>4. u[k - 1] = v[k - 1]
      BY <2>1, <2>3
    <2>5. QED
      BY <1>1, <2>1, <2>3, <2>4 DEF TimesOf
  <1>3. n \in 1..n
    OBVIOUS
  <1>4. QED
    BY <1>1, <1>2, <1>3

\* of a path of one node it is the time of the node,
LEMMA TimeOfOne ==
    ASSUME Ms \in Seq(Nat), NEW b \in DOMAIN Ms, NEW p, p = [i \in 1..1 |-> b]
    PROVE  Time(p) = Ms[b]
  <1> DEFINE u == [i \in 1..1 |-> Ms[b]]
  <1>1. 1 \in Nat \ {0} /\ p \in [1..1 -> DOMAIN Ms] /\ u[1] = Ms[b] /\ p[1] = b
    OBVIOUS
  <1>2. TimesOf(u, p, 1)
    BY <1>1 DEF TimesOf
  <1> HIDE DEF u
  <1>3. Time(p) = u[1]
    BY <1>1, <1>2, TimeIs
  <1>4. QED
    BY <1>1, <1>3

\* and a node more adds its time.
LEMMA TimeGrows ==
    ASSUME Ms \in Seq(Nat), NEW n \in Nat \ {0}, NEW p \in [1..n -> DOMAIN Ms], NEW q \in [1..n + 1 -> DOMAIN Ms],
           \A i \in 1..n : q[i] = p[i]
    PROVE  Time(p) \in Nat /\ Time(q) = Time(p) + Ms[q[n + 1]]
  <1>1. PICK u \in [1..n -> Nat] : TimesOf(u, p, n) /\ Time(p) = u[n]
    BY TimeHasSteps
  <1> DEFINE v == [i \in 1..n + 1 |-> IF i = n + 1 THEN u[n] + Ms[q[n + 1]] ELSE u[i]]
  <1>2. n \in 1..n /\ n + 1 \in 1..n + 1 /\ 1 \in 1..n /\ n + 1 \in Nat \ {0} /\ \A i \in 1..n : i \in 1..n + 1 /\ i # n + 1
    OBVIOUS
  <1>3. v[n + 1] = u[n] + Ms[q[n + 1]] /\ \A i \in 1..n : v[i] = u[i]
    BY <1>2
  <1> HIDE DEF v
  <1>4. u[n] \in Nat /\ Ms[q[n + 1]] \in Nat
    BY <1>2
  <1>5. ASSUME NEW k \in 2..n + 1 PROVE v[k] = Ms[q[k]] + v[k - 1]
    <2>1. CASE k = n + 1
      <3>1. k - 1 = n
        BY <2>1
      <3>2. QED
        BY <1>2, <1>3, <1>4, <2>1, <3>1
    <2>2. CASE k \in 2..n
      <3>1. k \in 1..n /\ k - 1 \in 1..n
        BY <2>2
      <3>2. QED
        BY <1>1, <1>3, <2>2, <3>1 DEF TimesOf
    <2>3. k = n + 1 \/ k \in 2..n
      OBVIOUS
    <2>4. QED
      BY <2>1, <2>2, <2>3
  <1>6. TimesOf(v, q, n + 1)
    BY <1>1, <1>2, <1>3, <1>5 DEF TimesOf
  <1>7. Time(q) = v[n + 1]
    BY <1>2, <1>6, TimeIs
  <1>8. QED
    BY <1>1, <1>3, <1>4, <1>7

-----------------------------------------------------------------------------
(* Both walks are one: over the arcs of a graph, which may be parallel.    *)

Items == DOMAIN indegree
IsFlow == walk.over = "flow"
Arcs == IF IsFlow THEN walk.flow ELSE walk.pairs
ArcFrom(x) == IF IsFlow THEN walk.edges[x].from ELSE x[1]
ArcTo(x) == IF IsFlow THEN walk.edges[x].to ELSE x[2]
ArcsInto(m) == {x \in Arcs : ArcTo(x) = m}
Open(m) == {x \in ArcsInto(m) : ArcFrom(x) \notin walk.done}

FlowShape ==
    /\ DOMAIN walk = {"over", "edges", "flow", "done"}
    /\ walk.edges \in Seq([from : Nat, to : Nat, type : STRING])
    /\ walk.flow = DataFlow(walk.edges)
    /\ indegree \in [Nodes -> Nat]
StageShape ==
    /\ walk.over = "stage"
    /\ DOMAIN walk = {"over", "stage", "pairs", "end", "done"}
    /\ walk.stage \in [ms : Seq(Nat), pairs : Seq(Nat \X Nat)]
    /\ walk.pairs = Pairs(walk.stage)
    /\ indegree \in [DOMAIN walk.stage.ms -> Nat]
    /\ walk.end \in [DOMAIN walk.stage.ms -> Nat]
WalkTypes == IF IsFlow THEN FlowShape ELSE StageShape

\* A node is ready when nothing is left before it, and is done after all that is before it.
Counted ==
    /\ walk.done \subseteq Items
    /\ \A m \in Items : indegree[m] = Cardinality(Open(m))
    /\ queue = {m \in NotYet : indegree[m] = 0}
    /\ \A x \in Arcs : ArcTo(x) \in walk.done => ArcFrom(x) \in walk.done

\* The graphs are finite, and their arcs join their nodes.
LEMMA DataFlowIsFinite ==
    ASSUME NEW edges \in Seq([from : Nat, to : Nat, type : STRING])
    PROVE  IsFiniteSet(DataFlow(edges)) /\ DataFlow(edges) \subseteq Nat
  <1>1. DOMAIN edges = 1..Len(edges) /\ 1 \in Int /\ Len(edges) \in Int
    OBVIOUS
  <1>2. IsFiniteSet(DOMAIN edges) /\ DOMAIN edges \subseteq Nat
    BY <1>1, FS_Interval
  <1>3. DataFlow(edges) \subseteq DOMAIN edges
    BY DEF DataFlow
  <1>4. QED
    BY <1>2, <1>3, FS_Subset

LEMMA PairsAreFinite ==
    ASSUME NEW stage \in [ms : Seq(Nat), pairs : Seq(Nat \X Nat)], NEW M, M = DOMAIN stage.ms
    PROVE  /\ IsFiniteSet(M) /\ M \subseteq Nat \ {0}
           /\ IsFiniteSet(Pairs(stage)) /\ Pairs(stage) \subseteq M \X M
           /\ \A x \in Pairs(stage) : x[1] # x[2]
  <1>1. stage.ms \in Seq(Nat) /\ stage.pairs \in Seq(Nat \X Nat)
    OBVIOUS
  <1>2. M = 1..Len(stage.ms) /\ 1 \in Int /\ Len(stage.ms) \in Int
    BY <1>1
  <1>3. IsFiniteSet(M)
    BY <1>2, FS_Interval
  <1>4. M \subseteq Nat \ {0}
    BY <1>2
  <1>5. ASSUME NEW x \in Pairs(stage) PROVE x \in M \X M /\ x[1] # x[2]
    <2>1. PICK i \in DOMAIN stage.pairs : x = stage.pairs[i]
      BY DEF Pairs
    <2>2. x \in Nat \X Nat
      BY <1>1, <2>1
    <2>3. x[1] \in M /\ x[2] \in M /\ x[1] # x[2]
      BY DEF Pairs
    <2>4. QED
      BY ONLY <2>2, <2>3
  <1>6. IsFiniteSet(M \X M)
    BY ONLY <1>3, FS_Product
  <1>7. Pairs(stage) \subseteq M \X M
    BY <1>5
  <1>8. IsFiniteSet(Pairs(stage))
    BY <1>6, <1>7, FS_Subset
  <1>9. QED
    BY <1>3, <1>4, <1>5, <1>7, <1>8

LEMMA GraphIsFinite ==
    ASSUME WalkTypes
    PROVE  /\ IsFiniteSet(Items) /\ IsFiniteSet(Arcs) /\ Items \subseteq Nat \ {0}
           /\ \A x \in Arcs : ArcFrom(x) \in Items /\ ArcTo(x) \in Items
  <1>1. CASE IsFlow
    <2>1. Items = Nodes
      BY <1>1 DEF WalkTypes, FlowShape, Items
    <2>2. walk.edges \in Seq([from : Nat, to : Nat, type : STRING]) /\ Arcs = DataFlow(walk.edges)
      BY <1>1 DEF WalkTypes, FlowShape, Arcs
    <2>3. IsFiniteSet(Arcs)
      BY <2>2, DataFlowIsFinite
    <2>4. \A x \in Arcs : ArcFrom(x) \in Items /\ ArcTo(x) \in Items
      BY <1>1, <2>1, <2>2 DEF DataFlow, ArcFrom, ArcTo
    <2>5. QED
      BY <2>1, <2>3, <2>4, WalkAssumption
  <1>2. CASE ~IsFlow
    <2>1. walk.stage \in [ms : Seq(Nat), pairs : Seq(Nat \X Nat)] /\ Items = DOMAIN walk.stage.ms /\ Arcs = Pairs(walk.stage)
      BY <1>2 DEF WalkTypes, StageShape, Items, Arcs
    <2>2. /\ IsFiniteSet(Items) /\ Items \subseteq Nat \ {0}
          /\ IsFiniteSet(Arcs) /\ Arcs \subseteq Items \X Items
      BY <2>1, PairsAreFinite
    <2>3. QED
      BY <1>2, <2>2 DEF ArcFrom, ArcTo
  <1>3. QED
    BY <1>1, <1>2

\* What a step of either walk does.
Counts(n) ==
    /\ n \in queue /\ Items' = Items /\ Arcs' = Arcs /\ walk'.over = walk.over
    /\ \A x \in Arcs : ArcFrom(x)' = ArcFrom(x) /\ ArcTo(x)' = ArcTo(x)
    /\ walk'.done = walk.done \cup {n}
    /\ \A m \in Items : indegree'[m] = indegree[m] - Cardinality({x \in ArcsInto(m) : ArcFrom(x) = n})
    /\ queue' = (queue \ {n}) \cup {m \in Items : (\E x \in ArcsInto(m) : ArcFrom(x) = n) /\ indegree'[m] = 0}

\* The counts stay right: a node becomes ready when its last arc is counted down.
LEMMA CountsKeepsCounted ==
    ASSUME WalkTypes, Counted, NEW n, Counts(n)
    PROVE  Counted'
  <1>1. /\ IsFiniteSet(Arcs)
        /\ \A x \in Arcs : ArcFrom(x) \in Items /\ ArcTo(x) \in Items
    BY GraphIsFinite
  <1>2. /\ n \in queue /\ Items' = Items /\ Arcs' = Arcs
        /\ \A x \in Arcs : ArcFrom(x)' = ArcFrom(x) /\ ArcTo(x)' = ArcTo(x)
        /\ walk'.done = walk.done \cup {n}
    BY DEF Counts
  <1>3. n \in Items /\ n \notin walk.done /\ indegree[n] = 0
    BY <1>2 DEF Counted, NotYet, Items
  <1>4. \A m \in Items : IsFiniteSet(Open(m)) /\ Cardinality(Open(m)) \in Nat
    <2> TAKE m \in Items
    <2>1. Open(m) \subseteq Arcs
      BY DEF Open, ArcsInto
    <2>2. QED
      BY <1>1, <2>1, FS_Subset, FS_CardinalityType
  <1>5. Open(n) = {}
    <2>1. Cardinality(Open(n)) = 0
      BY <1>3 DEF Counted
    <2>2. QED
      BY <1>3, <1>4, <2>1, FS_EmptySet
  <1>6. \A m \in Items : ArcsInto(m)' = ArcsInto(m)
    BY <1>2 DEF ArcsInto
  <1>7. ASSUME NEW m \in Items
        PROVE  /\ Open(m)' = Open(m) \ {x \in ArcsInto(m) : ArcFrom(x) = n}
               /\ {x \in ArcsInto(m) : ArcFrom(x) = n} \subseteq Open(m)
    <2>1. \A x \in ArcsInto(m) : x \in Arcs
      BY DEF ArcsInto
    <2>2. {x \in ArcsInto(m) : ArcFrom(x) = n} \subseteq Open(m)
      BY <1>3 DEF Open
    <2>3. Open(m)' = {x \in ArcsInto(m) : ArcFrom(x) \notin walk.done \cup {n}}
      BY <1>2, <1>6, <2>1 DEF Open
    <2>4. QED
      BY <2>2, <2>3 DEF Open
  <1>8. \A m \in Items : indegree'[m] = Cardinality(Open(m)')
    <2> TAKE m \in Items
    <2> DEFINE gone == {x \in ArcsInto(m) : ArcFrom(x) = n}
    <2>1. Cardinality(Open(m) \ gone) = Cardinality(Open(m)) - Cardinality(Open(m) \cap gone)
      BY <1>4, FS_Difference
    <2>2. Open(m) \cap gone = gone
      BY <1>7
    <2>3. indegree'[m] = Cardinality(Open(m)) - Cardinality(gone)
      BY DEF Counts, Counted
    <2>4. QED
      BY <1>7, <2>1, <2>2, <2>3
  <1>9. NotYet' = NotYet \ {n}
    BY <1>2 DEF NotYet, Items
  <1>10. queue' = {m \in NotYet' : indegree'[m] = 0}
    <2>1. ASSUME NEW m \in queue' PROVE m \in NotYet' /\ indegree'[m] = 0
      <3>1. CASE m \in queue \ {n}
        <4>1. m \in NotYet /\ indegree[m] = 0 /\ m \in Items
          BY <3>1 DEF Counted, NotYet, Items
        <4>2. Open(m) = {}
          <5>1. Cardinality(Open(m)) = 0
            BY <4>1 DEF Counted
          <5>2. QED
            BY <1>4, <4>1, <5>1, FS_EmptySet
        <4>3. Open(m)' = {}
          BY <1>7, <4>1, <4>2
        <4>4. QED
          BY <1>8, <1>9, <3>1, <4>1, <4>3, FS_EmptySet
      <3>2. CASE m \in Items /\ (\E x \in ArcsInto(m) : ArcFrom(x) = n) /\ indegree'[m] = 0
        <4>1. PICK x \in Arcs : ArcTo(x) = m /\ ArcFrom(x) = n
          BY <3>2 DEF ArcsInto
        <4>2. m \notin walk.done
          BY <1>3, <4>1 DEF Counted
        <4>3. m # n
          BY <1>3, <1>5, <4>1 DEF Open, ArcsInto
        <4>4. QED
          BY <1>9, <3>2, <4>2, <4>3 DEF NotYet, Items
      <3>3. QED
        BY <2>1, <3>1, <3>2 DEF Counts
    <2>2. ASSUME NEW m \in NotYet', indegree'[m] = 0 PROVE m \in queue'
      <3>1. m \in NotYet /\ m # n /\ m \in Items
        BY <1>9 DEF NotYet, Items
      <3>2. CASE \E x \in ArcsInto(m) : ArcFrom(x) = n
        BY <2>2, <3>1, <3>2 DEF Counts
      <3>3. CASE ~\E x \in ArcsInto(m) : ArcFrom(x) = n
        <4>1. {x \in ArcsInto(m) : ArcFrom(x) = n} = {}
          BY <3>3
        <4>2. indegree[m] = 0
          <5>1. Open(m)' = Open(m)
            BY <1>7, <3>1, <4>1
          <5>2. QED
            BY <1>8, <2>2, <3>1, <5>1 DEF Counted
        <4>3. m \in queue
          BY <3>1, <4>2 DEF Counted
        <4>4. QED
          BY <3>1, <4>3 DEF Counts
      <3>4. QED
        BY <3>2, <3>3
    <2>3. QED
      BY <2>1, <2>2
  <1>11. \A x \in Arcs : ArcTo(x) \in walk.done \cup {n} => ArcFrom(x) \in walk.done
    <2> TAKE x \in Arcs
    <2>1. CASE ArcTo(x) = n
      BY <1>5, <2>1 DEF Open, ArcsInto
    <2>2. QED
      BY <2>1 DEF Counted
  <1>12. QED
    BY <1>2, <1>3, <1>8, <1>10, <1>11 DEF Counted

\* What a step counts down was counted.
LEMMA CountedDown ==
    ASSUME WalkTypes, Counted, NEW n \in queue, NEW m \in Items
    PROVE  /\ Cardinality({x \in ArcsInto(m) : ArcFrom(x) = n}) \in Nat
           /\ indegree[m] - Cardinality({x \in ArcsInto(m) : ArcFrom(x) = n}) \in Nat
  <1> DEFINE gone == {x \in ArcsInto(m) : ArcFrom(x) = n}
  <1>1. IsFiniteSet(Arcs)
    BY GraphIsFinite
  <1>2. IsFiniteSet(Open(m))
    <2>1. Open(m) \subseteq Arcs
      BY DEF Open, ArcsInto
    <2>2. QED
      BY <1>1, <2>1, FS_Subset
  <1>3. n \notin walk.done
    BY DEF Counted, NotYet
  <1>4. gone \subseteq Open(m)
    BY <1>3 DEF Open
  <1>5. IsFiniteSet(gone) /\ Cardinality(gone) <= Cardinality(Open(m))
    BY <1>2, <1>4, FS_Subset
  <1>6. Cardinality(gone) \in Nat /\ Cardinality(Open(m)) \in Nat
    BY <1>2, <1>5, FS_CardinalityType
  <1>7. indegree[m] = Cardinality(Open(m))
    BY DEF Counted
  <1>8. QED
    BY <1>5, <1>6, <1>7

\* Both steps count down in this way, parallel edges one by one,
LEMMA EliminateCounts ==
    ASSUME WalkTypes, Counted, NEW n \in Nodes, Eliminate(n)
    PROVE  IsFlow /\ Counts(n) /\ WalkTypes'
  <1> DEFINE left == [m \in Nodes |-> indegree[m] - Cardinality(Outgoing(n) \cap Incoming(m))]
  <1>1. /\ IsFlow /\ n \in queue
        /\ walk' = [walk EXCEPT !.done = walk.done \cup {n}]
        /\ indegree' = left
        /\ queue' = (queue \ {n}) \cup {walk.edges[i].to : i \in {j \in Outgoing(n) : left[walk.edges[j].to] = 0}}
    BY DEF Eliminate, IsFlow
  <1>2. FlowShape /\ Items = Nodes
    BY <1>1 DEF WalkTypes, FlowShape, Items
  <1>3. /\ walk'.over = walk.over /\ walk'.edges = walk.edges /\ walk'.flow = walk.flow
        /\ walk'.done = walk.done \cup {n} /\ DOMAIN walk' = DOMAIN walk
    BY <1>1, <1>2 DEF FlowShape
  <1>4. IsFlow' /\ Arcs = walk.flow /\ Arcs' = walk.flow
    BY <1>1, <1>3 DEF IsFlow, Arcs
  <1>5. \A x : ArcFrom(x) = walk.edges[x].from /\ ArcTo(x) = walk.edges[x].to
    BY <1>1 DEF ArcFrom, ArcTo
  <1>6. \A x : ArcFrom(x)' = walk.edges[x].from /\ ArcTo(x)' = walk.edges[x].to
    BY <1>3, <1>4 DEF ArcFrom, ArcTo
  <1>7. \A m : Outgoing(n) \cap Incoming(m) = {x \in ArcsInto(m) : ArcFrom(x) = n}
    BY <1>4, <1>5 DEF Outgoing, Incoming, ArcsInto
  <1>8. \A m \in Nodes : left[m] = indegree[m] - Cardinality({x \in ArcsInto(m) : ArcFrom(x) = n})
    BY <1>7
  <1>9. left \in [Nodes -> Nat]
    <2>1. \A m \in Nodes : left[m] \in Nat
      BY <1>1, <1>2, <1>8, CountedDown
    <2>2. QED
      BY <2>1
  <1> HIDE DEF left
  <1>10. Items' = Items
    BY <1>1, <1>2, <1>9 DEF Items
  <1>11. queue' = (queue \ {n}) \cup {m \in Items : (\E x \in ArcsInto(m) : ArcFrom(x) = n) /\ indegree'[m] = 0}
    <2>1. \A x \in Arcs : ArcTo(x) \in Items
      BY GraphIsFinite
    <2>2. \A j : j \in Outgoing(n) <=> j \in Arcs /\ ArcFrom(j) = n
      BY <1>4, <1>5 DEF Outgoing
    <2>3. {walk.edges[i].to : i \in {j \in Outgoing(n) : left[walk.edges[j].to] = 0}}
            = {m \in Items : (\E x \in ArcsInto(m) : ArcFrom(x) = n) /\ left[m] = 0}
      BY <1>5, <2>1, <2>2 DEF ArcsInto
    <2>4. QED
      BY <1>1, <2>3
  <1>12. Counts(n)
    <2>1. \A m \in Items : indegree'[m] = indegree[m] - Cardinality({x \in ArcsInto(m) : ArcFrom(x) = n})
      BY <1>1, <1>2, <1>8
    <2>2. \A x \in Arcs : ArcFrom(x)' = ArcFrom(x) /\ ArcTo(x)' = ArcTo(x)
      BY <1>5, <1>6
    <2>3. QED
      BY <1>1, <1>3, <1>4, <1>10, <1>11, <2>1, <2>2 DEF Counts
  <1>13. WalkTypes'
    <2>1. FlowShape'
      BY <1>1, <1>2, <1>3, <1>9 DEF FlowShape
    <2>2. QED
      BY <1>4, <2>1 DEF WalkTypes
  <1>14. QED
    BY <1>1, <1>12, <1>13

\* and pairs, of which there are no two alike, once.
LEMMA ExtendCounts ==
    ASSUME WalkTypes, Counted, NEW a \in Items, Extend(a)
    PROVE  /\ ~IsFlow /\ Counts(a) /\ WalkTypes' /\ walk'.stage = walk.stage
           /\ \A b \in Items : walk'.end[b] = IF <<a, b>> \in walk.pairs
                                              THEN Later(walk.end[b], walk.end[a] + walk.stage.ms[b])
                                              ELSE walk.end[b]
  <1> DEFINE after == {p[2] : p \in {q \in walk.pairs : q[1] = a}}
             left == [b \in Items |-> IF b \in after THEN indegree[b] - 1 ELSE indegree[b]]
             end == [b \in Items |-> IF b \in after THEN Later(walk.end[b], walk.end[a] + walk.stage.ms[b]) ELSE walk.end[b]]
  <1>1. /\ walk.over = "stage" /\ ~IsFlow /\ a \in queue
        /\ walk' = [walk EXCEPT !.done = walk.done \cup {a}, !.end = end]
        /\ indegree' = left
        /\ queue' = (queue \ {a}) \cup {b \in after : left[b] = 0}
    BY DEF Extend, IsFlow, Items
  <1>2. StageShape /\ Items = DOMAIN walk.stage.ms /\ walk.stage.ms \in Seq(Nat)
    BY <1>1 DEF WalkTypes, StageShape, Items
  <1>3. /\ walk'.over = walk.over /\ walk'.stage = walk.stage /\ walk'.pairs = walk.pairs /\ walk'.end = end
        /\ walk'.done = walk.done \cup {a} /\ DOMAIN walk' = DOMAIN walk
    BY <1>1, <1>2 DEF StageShape
  <1>4. ~IsFlow' /\ Arcs = walk.pairs /\ Arcs' = walk.pairs
    BY <1>1, <1>3 DEF IsFlow, Arcs
  <1>5. \A x : ArcFrom(x) = x[1] /\ ArcTo(x) = x[2] /\ ArcFrom(x)' = x[1] /\ ArcTo(x)' = x[2]
    BY <1>1, <1>4 DEF ArcFrom, ArcTo
  <1>6. \A x \in Arcs : x \in Items \X Items
    <2>1. walk.stage \in [ms : Seq(Nat), pairs : Seq(Nat \X Nat)] /\ Arcs = Pairs(walk.stage)
      BY <1>2, <1>4 DEF StageShape
    <2>2. QED
      BY <1>2, <2>1, PairsAreFinite
  <1>7. \A b : b \in after <=> <<a, b>> \in Arcs
    <2>1. \A x \in Arcs : x[1] = a => x = <<a, x[2]>>
      BY <1>6
    <2>2. QED
      BY <1>4, <2>1
  <1>8. \A b \in after : b \in Items
    BY <1>6, <1>7
  <1>9. \A b : {x \in ArcsInto(b) : ArcFrom(x) = a} = IF b \in after THEN {<<a, b>>} ELSE {}
    <2> TAKE b
    <2>1. \A x \in Arcs : x[1] = a /\ x[2] = b => x = <<a, b>>
      BY <1>6
    <2>2. <<a, b>>[1] = a /\ <<a, b>>[2] = b
      OBVIOUS
    <2> HIDE DEF after
    <2>3. {x \in ArcsInto(b) : ArcFrom(x) = a} = {x \in Arcs : x[1] = a /\ x[2] = b}
      BY <1>5 DEF ArcsInto
    <2>4. QED
      BY <1>7, <2>1, <2>2, <2>3
  <1> HIDE DEF after
  <1>10. \A b \in Items : left[b] = indegree[b] - Cardinality({x \in ArcsInto(b) : ArcFrom(x) = a})
    <2> TAKE b \in Items
    <2>1. Cardinality({<<a, b>>}) = 1 /\ Cardinality({}) = 0
      BY FS_Singleton, FS_EmptySet
    <2>2. indegree[b] \in Nat
      BY <1>2 DEF StageShape
    <2>3. CASE b \in after
      BY <1>9, <2>1, <2>3
    <2>4. CASE b \notin after
      <3>1. {x \in ArcsInto(b) : ArcFrom(x) = a} = {}
        BY <1>9, <2>4
      <3>2. left[b] = indegree[b]
        BY <2>4
      <3>3. Cardinality({x \in ArcsInto(b) : ArcFrom(x) = a}) = 0
        BY <2>1, <3>1
      <3> HIDE DEF left
      <3>4. QED
        BY <2>2, <3>2, <3>3
    <2>5. QED
      BY <2>3, <2>4
  <1>11. left \in [Items -> Nat]
    <2>1. \A b \in Items : left[b] \in Nat
      BY <1>1, <1>10, CountedDown
    <2>2. left = [b \in Items |-> left[b]]
      OBVIOUS
    <2> HIDE DEF left
    <2>3. QED
      BY <2>1, <2>2
  <1>12. end \in [Items -> Nat]
    <2>1. \A b \in Items : walk.end[b] \in Nat /\ walk.end[a] \in Nat /\ walk.stage.ms[b] \in Nat
      BY <1>2 DEF StageShape
    <2>2. QED
      BY <2>1 DEF Later
  <1>13. \A b \in Items : end[b] = IF <<a, b>> \in walk.pairs THEN Later(walk.end[b], walk.end[a] + walk.stage.ms[b]) ELSE walk.end[b]
    BY <1>4, <1>7
  <1> HIDE DEF left, end
  <1>14. Items' = Items
    BY <1>1, <1>11 DEF Items
  <1>15. queue' = (queue \ {a}) \cup {b \in Items : (\E x \in ArcsInto(b) : ArcFrom(x) = a) /\ indegree'[b] = 0}
    <2>1. \A b : (\E x \in ArcsInto(b) : ArcFrom(x) = a) <=> b \in after
      <3> TAKE b
      <3>1. (\E x \in ArcsInto(b) : ArcFrom(x) = a) <=> {x \in ArcsInto(b) : ArcFrom(x) = a} # {}
        OBVIOUS
      <3>2. QED
        BY <1>9, <3>1
    <2>2. QED
      BY <1>1, <1>8, <2>1
  <1>16. Counts(a)
    <2>1. \A m \in Items : indegree'[m] = indegree[m] - Cardinality({x \in ArcsInto(m) : ArcFrom(x) = a})
      BY <1>1, <1>10
    <2>2. \A x \in Arcs : ArcFrom(x)' = ArcFrom(x) /\ ArcTo(x)' = ArcTo(x)
      BY <1>5
    <2>3. QED
      BY <1>1, <1>3, <1>4, <1>14, <1>15, <2>1, <2>2 DEF Counts
  <1>17. WalkTypes'
    <2>1. StageShape'
      BY <1>1, <1>2, <1>3, <1>11, <1>12 DEF StageShape
    <2>2. QED
      BY <1>4, <2>1 DEF WalkTypes
  <1>18. QED
    BY <1>1, <1>3, <1>13, <1>16, <1>17

-----------------------------------------------------------------------------
(* The inductive invariant.                                                *)

ArcPairs == {<<ArcFrom(x), ArcTo(x)>> : x \in Arcs}
StagePaths == SimplePaths(Items, walk.pairs)
BeforeEnd(p) == {p[i] : i \in 1..Len(p) - 1}

\* What lies on a cycle is never done.
NoCycleIsDone == CycleNodes(Items, ArcPairs) \cap walk.done = {}
\* The end of an item is that of a path through items that are done, and of the latest one.
EndIsReached == \A b \in Items : \E p \in StagePaths : Final(p) = b /\ BeforeEnd(p) \subseteq walk.done /\ Time(p) = walk.end[b]
EndIsLatest == \A p \in StagePaths : BeforeEnd(p) \subseteq walk.done => Time(p) <= walk.end[Final(p)]
WalkInv == WalkTypes /\ Counted /\ NoCycleIsDone /\ (~IsFlow => EndIsReached /\ EndIsLatest)

\* A node is ready when all that is before it is done.
LEMMA ReadyAfterDone ==
    ASSUME WalkTypes, Counted, NEW n \in queue
    PROVE  n \in Items /\ n \notin walk.done /\ \A u : <<u, n>> \in ArcPairs => u \in walk.done
  <1>1. n \in Items /\ n \notin walk.done /\ indegree[n] = 0
    BY DEF Counted, NotYet, Items
  <1>2. IsFiniteSet(Open(n))
    <2>1. Open(n) \subseteq Arcs /\ IsFiniteSet(Arcs)
      BY GraphIsFinite DEF Open, ArcsInto
    <2>2. QED
      BY <2>1, FS_Subset
  <1>3. Open(n) = {}
    <2>1. Cardinality(Open(n)) = 0
      BY <1>1 DEF Counted
    <2>2. QED
      BY <1>2, <2>1, FS_EmptySet
  <1>4. ASSUME NEW u, <<u, n>> \in ArcPairs PROVE u \in walk.done
    <2>1. PICK x \in Arcs : <<u, n>> = <<ArcFrom(x), ArcTo(x)>>
      BY <1>4 DEF ArcPairs
    <2>2. u = ArcFrom(x) /\ n = ArcTo(x)
      BY <2>1
    <2>3. QED
      BY <1>3, <2>2 DEF Open, ArcsInto
  <1>5. QED
    BY <1>1, <1>4

\* All that is before something done is done.
LEMMA DoneIsClosed ==
    ASSUME Counted
    PROVE  \A u, v : <<u, v>> \in ArcPairs /\ v \in walk.done => u \in walk.done
  <1> SUFFICES ASSUME NEW u, NEW v, <<u, v>> \in ArcPairs, v \in walk.done PROVE u \in walk.done
    OBVIOUS
  <1>1. PICK x \in Arcs : <<u, v>> = <<ArcFrom(x), ArcTo(x)>>
    BY DEF ArcPairs
  <1>2. u = ArcFrom(x) /\ v = ArcTo(x)
    BY <1>1
  <1>3. QED
    BY <1>2 DEF Counted

\* What becomes done lies on no cycle.
LEMMA CountsKeepsCycles ==
    ASSUME WalkTypes, Counted, NoCycleIsDone, NEW n, Counts(n)
    PROVE  NoCycleIsDone'
  <1>1. Items' = Items /\ walk'.done = walk.done \cup {n} /\ n \in queue
    BY DEF Counts
  <1>2. ArcPairs' = ArcPairs
    BY DEF Counts, ArcPairs
  <1>3. n \notin walk.done /\ \A u : <<u, n>> \in ArcPairs => u \in walk.done
    BY <1>1, ReadyAfterDone
  <1>4. \A u, v : <<u, v>> \in ArcPairs /\ v \in walk.done => u \in walk.done
    BY DoneIsClosed
  <1>5. IsFiniteSet(Items)
    BY GraphIsFinite
  <1>6. n \notin CycleNodes(Items, ArcPairs)
    <2> DEFINE V == Items
               E == ArcPairs
               D == walk.done
    <2>1. IsFiniteSet(V) /\ n \notin D /\ (\A u : <<u, n>> \in E => u \in D) /\ (\A u, v : <<u, v>> \in E /\ v \in D => u \in D)
      BY <1>3, <1>4, <1>5
    <2> HIDE DEF V, E, D
    <2>2. n \notin CycleNodes(V, E)
      BY <2>1, CycleNodesStay
    <2>3. QED
      BY <2>2 DEF V, E
  <1>7. CycleNodes(Items, ArcPairs)' = CycleNodes(Items, ArcPairs)
    BY <1>1, <1>2 DEF CycleNodes
  <1>8. QED
    BY <1>1, <1>6, <1>7 DEF NoCycleIsDone

\* The paths of a stage are those of its pairs.
LEMMA StageIs ==
    ASSUME WalkTypes, ~IsFlow
    PROVE  /\ IsFiniteSet(Items) /\ Ms \in Seq(Nat) /\ Items = DOMAIN Ms /\ ArcPairs = walk.pairs
           /\ \A u, v : <<u, v>> \in walk.pairs => u \in Items /\ v \in Items /\ u # v
           /\ walk.end \in [Items -> Nat] /\ \A b \in Items : Ms[b] \in Nat
  <1>1. StageShape /\ Items = DOMAIN Ms /\ Ms \in Seq(Nat)
    BY DEF WalkTypes, StageShape, Items, Ms
  <1>2. walk.pairs = Pairs(walk.stage) /\ walk.end \in [Items -> Nat]
        /\ walk.stage \in [ms : Seq(Nat), pairs : Seq(Nat \X Nat)]
    BY <1>1 DEF StageShape, Ms
  <1>3. \A x \in walk.pairs : x = <<x[1], x[2]>> /\ x[1] # x[2]
    <2>1. walk.pairs \subseteq Items \X Items /\ \A x \in walk.pairs : x[1] # x[2]
      <3>1. Items = DOMAIN walk.stage.ms /\ walk.stage \in [ms : Seq(Nat), pairs : Seq(Nat \X Nat)]
        BY <1>1, <1>2 DEF Ms
      <3>2. Pairs(walk.stage) \subseteq Items \X Items /\ \A x \in Pairs(walk.stage) : x[1] # x[2]
        BY <3>1, PairsAreFinite
      <3>3. QED
        BY <1>2, <3>2
    <2>2. QED
      BY <2>1
  <1>4. Arcs = walk.pairs /\ \A x : ArcFrom(x) = x[1] /\ ArcTo(x) = x[2]
    BY DEF Arcs, ArcFrom, ArcTo
  <1>5. ArcPairs = walk.pairs
    BY <1>3, <1>4 DEF ArcPairs
  <1>6. ASSUME NEW u, NEW v, <<u, v>> \in walk.pairs PROVE u \in Items /\ v \in Items /\ u # v
    <2>1. <<u, v>>[1] = u /\ <<u, v>>[2] = v
      OBVIOUS
    <2>2. \A x \in Arcs : ArcFrom(x) \in Items /\ ArcTo(x) \in Items
      BY GraphIsFinite
    <2>3. QED
      BY <1>3, <1>4, <1>6, <2>1, <2>2
  <1>7. QED
    BY <1>1, <1>2, <1>5, <1>6, GraphIsFinite

LEMMA StagePathIs ==
    ASSUME WalkTypes, ~IsFlow, NEW p
    PROVE  /\ p \in StagePaths => Len(p) \in Nat \ {0} /\ IsPath(p, Len(p), Items, walk.pairs)
           /\ \A n \in Nat \ {0} : IsPath(p, n, Items, walk.pairs) => p \in StagePaths /\ Len(p) = n
  <1>1. IsFiniteSet(Items)
    BY StageIs
  <1> DEFINE V == Items
             E == walk.pairs
  <1>2. IsFiniteSet(V)
    BY <1>1
  <1> HIDE DEF V, E
  <1>3. /\ p \in SimplePaths(V, E) => Len(p) \in Nat \ {0} /\ IsPath(p, Len(p), V, E)
        /\ \A n \in Nat \ {0} : IsPath(p, n, V, E) => p \in SimplePaths(V, E) /\ Len(p) = n
    BY <1>2, PathsAreSimple
  <1>4. QED
    BY <1>3 DEF V, E, StagePaths

\* A step of the stage leaves the paths as they are.
LEMMA ExtendKeepsPaths ==
    ASSUME WalkTypes, Counted, NEW a \in Items, Extend(a)
    PROVE  /\ StagePaths' = StagePaths /\ walk'.done = walk.done \cup {a} /\ Items' = Items
           /\ \A p : Time(p)' = Time(p)
  <1>1. ~IsFlow /\ Counts(a) /\ walk'.stage = walk.stage
    BY ExtendCounts
  <1>2. walk'.pairs = walk.pairs
    <2>1. walk'.pairs = Arcs' /\ walk.pairs = Arcs
      BY <1>1 DEF Counts, Arcs, IsFlow
    <2>2. QED
      BY <1>1, <2>1 DEF Counts
  <1>3. \A p : Time(p)' = Time(p)
    BY <1>1 DEF Time
  <1>4. QED
    BY <1>1, <1>2, <1>3 DEF Counts, StagePaths

\* A new end is that of the path through the item that is done.
LEMMA ExtendReaches ==
    ASSUME WalkTypes, Counted, EndIsReached, NEW a \in Items, Extend(a)
    PROVE  EndIsReached'
  <1>1. ~IsFlow /\ Counts(a)
        /\ \A b \in Items : walk'.end[b] = IF <<a, b>> \in walk.pairs
                                           THEN Later(walk.end[b], walk.end[a] + Ms[b]) ELSE walk.end[b]
    BY ExtendCounts DEF Ms
  <1>2. StagePaths' = StagePaths /\ walk'.done = walk.done \cup {a} /\ Items' = Items /\ \A p : Time(p)' = Time(p)
    BY ExtendKeepsPaths
  <1>3. Ms \in Seq(Nat) /\ Items = DOMAIN Ms /\ ArcPairs = walk.pairs
        /\ \A u, v : <<u, v>> \in walk.pairs => u \in Items /\ v \in Items /\ u # v
    BY <1>1, StageIs
  <1>4. a \notin walk.done /\ \A u, v : <<u, v>> \in walk.pairs /\ v \in walk.done => u \in walk.done
    <2>1. a \in queue
      BY <1>1 DEF Counts
    <2>2. QED
      BY <1>3, <2>1, ReadyAfterDone, DoneIsClosed
  <1>5. ASSUME NEW b \in Items
        PROVE  \E p \in StagePaths : Final(p) = b /\ BeforeEnd(p) \subseteq walk.done \cup {a} /\ Time(p) = walk'.end[b]
    <2>1. CASE walk'.end[b] = walk.end[b]
      <3>1. PICK p \in StagePaths : Final(p) = b /\ BeforeEnd(p) \subseteq walk.done /\ Time(p) = walk.end[b]
        BY DEF EndIsReached
      <3>2. QED
        BY <2>1, <3>1
    <2>2. CASE <<a, b>> \in walk.pairs /\ walk'.end[b] = walk.end[a] + Ms[b]
      <3>1. PICK q \in StagePaths : Final(q) = a /\ BeforeEnd(q) \subseteq walk.done /\ Time(q) = walk.end[a]
        BY DEF EndIsReached
      <3> DEFINE n == Len(q)
                 r == [i \in 1..n + 1 |-> IF i = n + 1 THEN b ELSE q[i]]
      <3>2. n \in Nat \ {0} /\ IsPath(q, n, Items, walk.pairs) /\ q[n] = a
        BY <1>1, <3>1, StagePathIs DEF Final
      <3>3. b \notin walk.done /\ b # a
        BY <1>3, <1>4, <2>2
      <3>4. \A i \in 1..n : q[i] # b
        <4>1. \A i \in 1..n : i = n \/ i \in 1..n - 1
          BY <3>2
        <4>2. \A i \in 1..n - 1 : q[i] \in walk.done
          BY <3>1 DEF BeforeEnd
        <4>3. QED
          BY <3>2, <3>3, <4>1, <4>2
      <3> HIDE DEF n
      <3>5. IsPath(r, n + 1, Items, walk.pairs)
        BY <2>2, <3>2, <3>4, PathGrows
      <3>6. r[n + 1] = b /\ \A i \in 1..n : r[i] = q[i]
        BY <3>2
      <3> HIDE DEF r
      <3>7. n + 1 \in Nat \ {0} /\ r \in StagePaths /\ Len(r) = n + 1
        BY <1>1, <3>2, <3>5, StagePathIs
      <3>8. BeforeEnd(r) \subseteq walk.done \cup {a}
        <4>1. \A i \in 1..n : i = n \/ i \in 1..n - 1
          BY <3>2
        <4>2. \A i \in 1..n - 1 : q[i] \in walk.done
          BY <3>1 DEF BeforeEnd, n
        <4>3. (n + 1) - 1 = n
          BY <3>2
        <4>4. QED
          BY <3>2, <3>6, <3>7, <4>1, <4>2, <4>3 DEF BeforeEnd
      <3>9. Time(r) = Time(q) + Ms[b]
        <4>1. q \in [1..n -> DOMAIN Ms] /\ r \in [1..n + 1 -> DOMAIN Ms]
          BY <1>3, <3>2, <3>5 DEF IsPath
        <4>2. Time(r) = Time(q) + Ms[r[n + 1]]
          BY <1>3, <3>2, <3>6, <4>1, TimeGrows
        <4>3. QED
          BY <3>6, <4>2
      <3>10. QED
        BY <2>2, <3>1, <3>6, <3>7, <3>8, <3>9 DEF Final
    <2>3. QED
      BY <1>1, <2>1, <2>2 DEF Later
  <1>6. QED
    BY <1>2, <1>5 DEF EndIsReached, Final, BeforeEnd

\* A path through the item that is done goes there last, for what comes after it is not done.
LEMMA ExtendIsLatest ==
    ASSUME WalkTypes, Counted, EndIsLatest, NEW a \in Items, Extend(a)
    PROVE  EndIsLatest'
  <1>1. ~IsFlow /\ Counts(a)
        /\ \A b \in Items : walk'.end[b] = IF <<a, b>> \in walk.pairs
                                           THEN Later(walk.end[b], walk.end[a] + Ms[b]) ELSE walk.end[b]
    BY ExtendCounts DEF Ms
  <1>2. StagePaths' = StagePaths /\ walk'.done = walk.done \cup {a} /\ Items' = Items /\ \A p : Time(p)' = Time(p)
    BY ExtendKeepsPaths
  <1>3. Ms \in Seq(Nat) /\ Items = DOMAIN Ms /\ ArcPairs = walk.pairs
        /\ \A b \in Items : walk.end[b] \in Nat /\ Ms[b] \in Nat
    BY <1>1, StageIs
  <1>4. a \notin walk.done /\ \A u, v : <<u, v>> \in walk.pairs /\ v \in walk.done => u \in walk.done
    <2>1. a \in queue
      BY <1>1 DEF Counts
    <2>2. QED
      BY <1>3, <2>1, ReadyAfterDone, DoneIsClosed
  <1>5. \A b \in Items : walk.end[b] <= walk'.end[b] /\ walk'.end[b] \in Nat
                         /\ (<<a, b>> \in walk.pairs => walk.end[a] + Ms[b] <= walk'.end[b])
    <2> TAKE b \in Items
    <2>1. walk.end[b] \in Nat /\ walk.end[a] \in Nat /\ Ms[b] \in Nat
      BY <1>3
    <2>2. walk'.end[b] = IF <<a, b>> \in walk.pairs THEN Later(walk.end[b], walk.end[a] + Ms[b]) ELSE walk.end[b]
      BY <1>1
    <2>3. QED
      BY <2>1, <2>2 DEF Later
  <1>6. ASSUME NEW p \in StagePaths, BeforeEnd(p) \subseteq walk.done \cup {a}
        PROVE  Time(p) <= walk'.end[Final(p)]
    <2> DEFINE n == Len(p)
    <2>1. n \in Nat \ {0} /\ IsPath(p, n, Items, walk.pairs)
      BY <1>1, StagePathIs
    <2>2. p \in [1..n -> Items] /\ Final(p) = p[n] /\ p[n] \in Items
      BY <2>1 DEF IsPath, Final
    <2>3. \A i \in 1..n - 1 : p[i] \in walk.done \cup {a}
      BY <1>6 DEF BeforeEnd
    <2>4. Time(p) \in Nat
      <3>1. p \in [1..n -> DOMAIN Ms] /\ n \in 1..n
        BY <1>3, <2>1, <2>2
      <3>2. \E u \in [1..n -> Nat] : TimesOf(u, p, n) /\ Time(p) = u[n]
        BY <1>3, <2>1, <3>1, TimeHasSteps
      <3>3. QED
        BY <3>1, <3>2
    <2>5. CASE a \notin BeforeEnd(p)
      <3>1. Time(p) <= walk.end[p[n]]
        BY <1>6, <2>2, <2>5 DEF EndIsLatest
      <3>2. walk.end[p[n]] \in Nat /\ walk.end[p[n]] <= walk'.end[p[n]] /\ walk'.end[p[n]] \in Nat
        BY <1>3, <1>5, <2>2
      <3>3. QED
        BY <2>2, <2>4, <3>1, <3>2
    <2>6. CASE a \in BeforeEnd(p)
      <3>1. PICK i \in 1..n - 1 : p[i] = a
        BY <2>6 DEF BeforeEnd
      <3>2. i \in 1..n /\ i + 1 \in 1..n /\ i \in Nat \ {0}
        BY <2>1
      <3>3. <<a, p[i + 1]>> \in walk.pairs
        BY <2>1, <3>1 DEF IsPath
      <3>4. p[i + 1] # a
        <4>1. i # i + 1
          OBVIOUS
        <4>2. QED
          BY <2>1, <3>1, <3>2, <4>1 DEF IsPath
      <3>5. p[i + 1] \notin walk.done
        BY <1>4, <3>3
      <3>6. i + 1 = n
        <4>1. i + 1 = n \/ i + 1 \in 1..n - 1
          BY <2>1
        <4>2. QED
          BY <2>3, <3>4, <3>5, <4>1
      <3> DEFINE q == [k \in 1..i |-> p[k]]
      <3>7. IsPath(q, i, Items, walk.pairs)
        BY <2>1, <3>2, PathStarts
      <3>8. \A k \in 1..i : q[k] = p[k]
        OBVIOUS
      <3> HIDE DEF q
      <3>9. q \in StagePaths /\ Len(q) = i /\ Final(q) = a
        <4>1. q \in StagePaths /\ Len(q) = i
          BY <1>1, <3>2, <3>7, StagePathIs
        <4>2. i \in 1..i
          BY <3>2
        <4>3. QED
          BY <3>1, <3>8, <4>1, <4>2 DEF Final
      <3>10. BeforeEnd(q) \subseteq walk.done
        <4> SUFFICES ASSUME NEW k \in 1..i - 1 PROVE q[k] \in walk.done
          BY <3>9 DEF BeforeEnd
        <4>1. k \in 1..i /\ k \in 1..n - 1 /\ k \in 1..n /\ k # i
          BY <2>1, <3>2
        <4>2. p[k] # a
          BY <2>1, <3>1, <3>2, <4>1 DEF IsPath
        <4>3. QED
          BY <2>3, <3>8, <4>1, <4>2
      <3>11. Time(q) <= walk.end[a]
        BY <3>9, <3>10 DEF EndIsLatest
      <3>12. Time(q) \in Nat /\ Time(p) = Time(q) + Ms[p[n]]
        <4>1. q \in [1..i -> DOMAIN Ms] /\ p \in [1..i + 1 -> DOMAIN Ms]
          BY <1>3, <2>2, <3>6, <3>7 DEF IsPath
        <4>2. \A k \in 1..i : p[k] = q[k]
          BY <3>8
        <4>3. Time(q) \in Nat /\ Time(p) = Time(q) + Ms[p[i + 1]]
          BY <1>3, <3>2, <4>1, <4>2, TimeGrows
        <4>4. QED
          BY <3>6, <4>3
      <3>13. walk.end[a] + Ms[p[n]] <= walk'.end[p[n]]
        BY <1>5, <2>2, <3>3, <3>6
      <3>14. walk.end[a] \in Nat /\ Ms[p[n]] \in Nat /\ walk'.end[p[n]] \in Nat
        BY <1>3, <1>5, <2>2
      <3>15. QED
        BY <2>2, <3>11, <3>12, <3>13, <3>14
    <2>7. QED
      BY <2>5, <2>6
  <1>7. QED
    BY <1>2, <1>6 DEF EndIsLatest, Final, BeforeEnd

\* At first the counts are those of all arcs, and every end is the time of its item.
LEMMA InitCounts ==
    ASSUME WalkTypes, walk.done = {}, \A m \in Items : indegree[m] = Cardinality(ArcsInto(m)),
           queue = {m \in Items : indegree[m] = 0}
    PROVE  Counted /\ NoCycleIsDone
  <1>1. \A m \in Items : Open(m) = ArcsInto(m)
    BY DEF Open
  <1>2. NotYet = Items
    BY DEF NotYet, Items
  <1>3. QED
    BY <1>1, <1>2 DEF Counted, NoCycleIsDone

LEMMA InitEnds ==
    ASSUME WalkTypes, ~IsFlow, walk.done = {}, walk.end = Ms
    PROVE  EndIsReached /\ EndIsLatest
  <1>1. Ms \in Seq(Nat) /\ Items = DOMAIN Ms /\ \A b \in Items : Ms[b] \in Nat
    BY StageIs
  <1>2. ASSUME NEW b \in Items
        PROVE  \E p \in StagePaths : Final(p) = b /\ BeforeEnd(p) \subseteq walk.done /\ Time(p) = walk.end[b]
    <2> DEFINE p == [i \in 1..1 |-> b]
    <2>1. IsPath(p, 1, Items, walk.pairs) /\ p[1] = b /\ 1 \in Nat \ {0}
      BY DEF IsPath
    <2>2. Time(p) = Ms[b]
      BY <1>1, TimeOfOne
    <2> HIDE DEF p
    <2>3. p \in StagePaths /\ Len(p) = 1
      BY <2>1, StagePathIs
    <2>4. BeforeEnd(p) = {}
      BY <2>3 DEF BeforeEnd
    <2>5. QED
      BY <2>1, <2>2, <2>3, <2>4 DEF Final
  <1>3. ASSUME NEW p \in StagePaths, BeforeEnd(p) \subseteq walk.done PROVE Time(p) <= walk.end[Final(p)]
    <2> DEFINE n == Len(p)
    <2>1. n \in Nat \ {0} /\ IsPath(p, n, Items, walk.pairs)
      BY StagePathIs
    <2>2. p \in [1..n -> Items]
      BY <2>1 DEF IsPath
    <2>3. n = 1
      <3> SUFFICES ASSUME n # 1 PROVE FALSE
        OBVIOUS
      <3>1. 1 \in 1..n - 1
        <4>1. n \in Nat \ {0} /\ n # 1
          BY <2>1
        <4> HIDE DEF n
        <4>2. QED
          BY ONLY <4>1
      <3>2. p[1] \in BeforeEnd(p)
        BY <3>1 DEF BeforeEnd
      <3>3. QED
        BY <1>3, <3>2
    <2>4. p = [i \in 1..1 |-> p[1]] /\ p[1] \in DOMAIN Ms
      BY <1>1, <2>2, <2>3
    <2>5. Time(p) = Ms[p[1]] /\ Ms[p[1]] \in Nat
      BY <1>1, <2>4, TimeOfOne
    <2>6. QED
      BY <2>3, <2>5 DEF Final
  <1>4. QED
    BY <1>2, <1>3 DEF EndIsReached, EndIsLatest

\* The invariant holds at first, and every step keeps it.
LEMMA WalkInitInv == WalksInit => WalkInv
  <1> SUFFICES ASSUME WalksInit PROVE WalkInv
    OBVIOUS
  <1>1. ASSUME NEW edges \in Flows,
               walk = [over |-> "flow", edges |-> edges, flow |-> DataFlow(edges), done |-> {}],
               Degrees([n \in Nodes |-> Cardinality(Incoming(n))])
        PROVE  WalkInv
    <2>1. edges \in Seq([from : Nat, to : Nat, type : STRING])
      BY WalkAssumption
    <2>2. IsFiniteSet(DataFlow(edges))
      BY <2>1, DataFlowIsFinite
    <2>3. walk.over = "flow" /\ walk.edges = edges /\ walk.flow = DataFlow(edges) /\ walk.done = {}
          /\ DOMAIN walk = {"over", "edges", "flow", "done"}
      BY <1>1
    <2>4. IsFlow
      BY <2>3 DEF IsFlow
    <2>5. \A n : Cardinality(Incoming(n)) \in Nat
      <3> TAKE n
      <3>1. Incoming(n) \subseteq DataFlow(edges)
        BY <2>3 DEF Incoming
      <3>2. QED
        BY <2>2, <3>1, FS_Subset, FS_CardinalityType
    <2>6. indegree = [n \in Nodes |-> Cardinality(Incoming(n))] /\ queue = {n \in Nodes : indegree[n] = 0}
      BY <1>1 DEF Degrees
    <2>7. indegree \in [Nodes -> Nat]
      BY <2>5, <2>6
    <2>8. FlowShape
      BY <2>1, <2>3, <2>7 DEF FlowShape
    <2>9. WalkTypes
      BY <2>4, <2>8 DEF WalkTypes
    <2>10. Items = Nodes
      BY <2>7 DEF Items
    <2>11. \A m : ArcsInto(m) = Incoming(m)
      BY <2>4 DEF ArcsInto, Incoming, Arcs, ArcTo
    <2>12. \A m \in Items : indegree[m] = Cardinality(ArcsInto(m))
      BY <2>6, <2>10, <2>11
    <2>13. Counted /\ NoCycleIsDone
      BY <2>3, <2>6, <2>9, <2>10, <2>12, InitCounts
    <2>14. QED
      BY <2>4, <2>9, <2>13 DEF WalkInv
  <1>2. ASSUME NEW stage \in Orders,
               walk = [over |-> "stage", stage |-> stage, pairs |-> Pairs(stage), end |-> stage.ms, done |-> {}],
               Degrees([n \in DOMAIN stage.ms |-> Cardinality({p \in Pairs(stage) : p[2] = n})])
        PROVE  WalkInv
    <2>1. stage \in [ms : Seq(Nat), pairs : Seq(Nat \X Nat)]
      BY WalkAssumption
    <2>2. IsFiniteSet(Pairs(stage))
      BY <2>1, PairsAreFinite
    <2>3. walk.over = "stage" /\ walk.stage = stage /\ walk.pairs = Pairs(stage) /\ walk.done = {} /\ walk.end = stage.ms
          /\ DOMAIN walk = {"over", "stage", "pairs", "end", "done"}
      BY <1>2
    <2>4. ~IsFlow
      BY <2>3 DEF IsFlow
    <2>5. \A n : Cardinality({p \in Pairs(stage) : p[2] = n}) \in Nat
      <3> TAKE n
      <3>1. {p \in Pairs(stage) : p[2] = n} \subseteq Pairs(stage)
        OBVIOUS
      <3>2. QED
        BY <2>2, <3>1, FS_Subset, FS_CardinalityType
    <2>6. /\ indegree = [n \in DOMAIN stage.ms |-> Cardinality({p \in Pairs(stage) : p[2] = n})]
          /\ queue = {n \in DOMAIN stage.ms : indegree[n] = 0}
      BY <1>2 DEF Degrees
    <2>7. indegree \in [DOMAIN stage.ms -> Nat]
      BY <2>5, <2>6
    <2>8. stage.ms \in [DOMAIN stage.ms -> Nat]
      <3>1. stage.ms \in Seq(Nat)
        BY <2>1
      <3>2. QED
        BY <3>1
    <2>9. StageShape
      BY <2>1, <2>3, <2>7, <2>8 DEF StageShape
    <2>10. WalkTypes
      BY <2>4, <2>9 DEF WalkTypes
    <2>11. Items = DOMAIN stage.ms
      BY <2>7 DEF Items
    <2>12. \A m : ArcsInto(m) = {p \in Pairs(stage) : p[2] = m}
      BY <2>3, <2>4 DEF ArcsInto, Arcs, ArcTo
    <2>13. \A m \in Items : indegree[m] = Cardinality(ArcsInto(m))
      BY <2>6, <2>11, <2>12
    <2>14. Counted /\ NoCycleIsDone
      BY <2>3, <2>6, <2>10, <2>11, <2>13, InitCounts
    <2>15. EndIsReached /\ EndIsLatest
      BY <2>3, <2>4, <2>10, InitEnds DEF Ms
    <2>16. QED
      BY <2>4, <2>10, <2>14, <2>15 DEF WalkInv
  <1>3. QED
    BY <1>1, <1>2 DEF WalksInit

LEMMA WalkKeepsInv == WalkInv /\ [WalksNext]_walkVars => WalkInv'
  <1> SUFFICES ASSUME WalkInv, [WalksNext]_walkVars PROVE WalkInv'
    OBVIOUS
  <1>1. WalkTypes /\ Counted /\ NoCycleIsDone
    BY DEF WalkInv
  <1>2. ASSUME NEW n \in Nodes, Eliminate(n) PROVE WalkInv'
    <2>1. IsFlow /\ Counts(n) /\ WalkTypes'
      BY <1>1, <1>2, EliminateCounts
    <2>2. Counted' /\ NoCycleIsDone'
      BY <1>1, <2>1, CountsKeepsCounted, CountsKeepsCycles
    <2>3. IsFlow'
      BY <2>1 DEF IsFlow, Counts
    <2>4. QED
      BY <2>1, <2>2, <2>3 DEF WalkInv
  <1>3. ASSUME NEW a \in Items, Extend(a) PROVE WalkInv'
    <2>1. ~IsFlow /\ Counts(a) /\ WalkTypes'
      BY <1>1, <1>3, ExtendCounts
    <2>2. Counted' /\ NoCycleIsDone'
      BY <1>1, <2>1, CountsKeepsCounted, CountsKeepsCycles
    <2>3. EndIsReached /\ EndIsLatest
      BY <2>1 DEF WalkInv
    <2>4. EndIsReached' /\ EndIsLatest'
      BY <1>1, <1>3, <2>3, ExtendReaches, ExtendIsLatest
    <2>5. QED
      BY <2>1, <2>2, <2>4 DEF WalkInv
  <1>4. CASE UNCHANGED walkVars
    <2>1. walk' = walk /\ queue' = queue /\ indegree' = indegree
      BY <1>4 DEF walkVars
    <2>2. IsFlow' = IsFlow /\ Items' = Items /\ Arcs' = Arcs /\ NotYet' = NotYet
      BY <2>1 DEF IsFlow, Items, Arcs, NotYet
    <2>3. \A x : ArcFrom(x)' = ArcFrom(x) /\ ArcTo(x)' = ArcTo(x)
      BY <2>1, <2>2 DEF ArcFrom, ArcTo
    <2>4. \A m : Open(m)' = Open(m)
      BY <2>1, <2>2, <2>3 DEF Open, ArcsInto
    <2>5. Counted'
      BY <1>1, <2>1, <2>2, <2>3, <2>4 DEF Counted
    <2>6. WalkTypes'
      BY <1>1, <2>1, <2>2 DEF WalkTypes, FlowShape, StageShape
    <2>7. NoCycleIsDone'
      <3>1. ArcPairs' = ArcPairs
        BY <2>2, <2>3 DEF ArcPairs
      <3>2. QED
        BY <1>1, <2>1, <2>2, <3>1 DEF NoCycleIsDone, CycleNodes
    <2>8. (~IsFlow => EndIsReached /\ EndIsLatest)'
      <3>1. StagePaths' = StagePaths /\ \A p : Time(p)' = Time(p)
        BY <2>1, <2>2 DEF StagePaths, Time
      <3>2. QED
        BY <2>1, <2>2, <3>1 DEF WalkInv, EndIsReached, EndIsLatest, BeforeEnd, Final
    <2>9. QED
      BY <2>5, <2>6, <2>7, <2>8 DEF WalkInv
  <1>5. QED
    BY <1>2, <1>3, <1>4 DEF WalksNext, Items

-----------------------------------------------------------------------------
(* The answers.                                                            *)

\* What is left when nothing is ready lies on a cycle or behind one.
LEMMA LeftAtTheEnd ==
    ASSUME WalkInv, queue = {}
    PROVE  /\ NotYet = NodesBehind(CycleNodes(Items, ArcPairs), Items, ArcPairs)
           /\ (NotYet = {}) = (CycleNodes(Items, ArcPairs) = {})
           /\ \A n \in NotYet : \E x \in ArcsInto(n) : ArcFrom(x) \in NotYet
  <1>1. WalkTypes /\ Counted /\ NoCycleIsDone
    BY DEF WalkInv
  <1>2. IsFiniteSet(Items) /\ NotYet = Items \ walk.done
    BY <1>1, GraphIsFinite DEF NotYet, Items
  <1>3. ASSUME NEW n \in NotYet PROVE \E x \in ArcsInto(n) : ArcFrom(x) \in NotYet
    <2>1. n \in Items /\ indegree[n] # 0
      BY <1>1, <1>2 DEF Counted
    <2>2. Open(n) # {}
      BY <1>1, <2>1, FS_EmptySet DEF Counted
    <2>3. PICK x \in ArcsInto(n) : ArcFrom(x) \notin walk.done
      BY <2>2 DEF Open
    <2>4. ArcFrom(x) \in Items
      BY <1>1, GraphIsFinite DEF ArcsInto
    <2>5. QED
      BY <1>2, <2>3, <2>4
  <1>4. ASSUME NEW n \in NotYet PROVE \E u \in NotYet : <<u, n>> \in ArcPairs
    <2>1. PICK x \in ArcsInto(n) : ArcFrom(x) \in NotYet
      BY <1>3
    <2>2. x \in Arcs /\ ArcTo(x) = n
      BY DEF ArcsInto
    <2>3. QED
      BY <2>1, <2>2 DEF ArcPairs
  <1> DEFINE V == Items
             E == ArcPairs
             D == walk.done
  <1>5. /\ IsFiniteSet(V) /\ (\A u, v : <<u, v>> \in E /\ v \in D => u \in D)
        /\ CycleNodes(V, E) \cap D = {} /\ \A v \in V \ D : \E u \in V \ D : <<u, v>> \in E
    BY <1>1, <1>2, <1>4, DoneIsClosed DEF NoCycleIsDone
  <1>6. V \ D = NotYet
    BY <1>2
  <1> HIDE DEF V, E, D
  <1>7. V \ D = NodesBehind(CycleNodes(V, E), V, E)
    BY <1>5, LeftOver
  <1>8. (NodesBehind(CycleNodes(V, E), V, E) = {}) = (CycleNodes(V, E) = {})
    BY <1>5, CyclesAreBehind
  <1>9. QED
    BY <1>3, <1>6, <1>7, <1>8 DEF V, E

\* The way back stays among what is left over, against the edges.
LEMMA BackwardsAre ==
    ASSUME WalkInv, IsFlow, queue = {}, NotYet # {}
    PROVE  LET N == Cardinality(Nodes)
           IN  /\ N \in Nat /\ IsFiniteSet(NotYet) /\ Cardinality(NotYet) <= N
               /\ Backwards \in [1..N + 1 -> NotYet]
               /\ \A k \in 2..N + 1 : <<Backwards[k], Backwards[k - 1]>> \in FlowEdges
  <1> DEFINE N == Cardinality(Nodes)
  <1>1. WalkTypes /\ FlowShape
    BY DEF WalkInv, WalkTypes
  <1>2. Items = Nodes /\ Arcs = walk.flow /\ walk.flow \subseteq Nat
    <2>1. walk.flow \subseteq Nat
      BY <1>1, DataFlowIsFinite DEF FlowShape
    <2>2. QED
      BY <1>1, <2>1 DEF FlowShape, Items, Arcs
  <1>3. \A n : ArcsInto(n) = Incoming(n) /\ \A x : ArcFrom(x) = walk.edges[x].from
    BY <1>2 DEF ArcsInto, Incoming, ArcFrom, ArcTo
  <1>4. N \in Nat /\ IsFiniteSet(NotYet) /\ Cardinality(NotYet) <= N /\ NotYet \subseteq Nat
    <2>1. NotYet \subseteq Nodes
      BY <1>2 DEF NotYet, Items
    <2>2. QED
      BY <2>1, WalkAssumption, FS_Subset, FS_CardinalityType
  <1>5. ASSUME NEW n \in NotYet PROVE FirstFrom(n) \in NotYet /\ <<FirstFrom(n), n>> \in FlowEdges
    <2> DEFINE edges == {i \in Incoming(n) : walk.edges[i].from \in NotYet}
    <2>1. edges # {}
      BY <1>3, LeftAtTheEnd
    <2>2. edges \subseteq Nat /\ edges \subseteq walk.flow
      BY <1>2 DEF Incoming
    <2>3. FirstFrom(n) = walk.edges[Least(edges)].from
      BY <2>1 DEF FirstFrom
    <2>4. Least(edges) \in edges
      <3> HIDE DEF edges
      <3>1. QED
        BY <2>1, <2>2, LeastIs
    <2>5. walk.edges[Least(edges)].to = n /\ walk.edges[Least(edges)].from \in NotYet /\ Least(edges) \in walk.flow
      BY <2>2, <2>4 DEF Incoming
    <2> HIDE DEF edges
    <2>6. QED
      BY <2>3, <2>5 DEF FlowEdges
  <1>6. Least(NotYet) \in NotYet
    BY <1>4, LeastIs
  <1> DEFINE Goes(B) == B = [k \in 1..N + 1 |-> IF k = 1 THEN Least(NotYet) ELSE FirstFrom(B[k - 1])]
  <1>7. \E B : Goes(B)
    <2> DEFINE step == [x \in Nat \X NotYet |-> FirstFrom(x[2])]
    <2>1. step \in [Nat \X NotYet -> NotYet]
      BY <1>5
    <2>2. \A k \in Nat, n \in NotYet : step[<<k, n>>] = FirstFrom(n)
      OBVIOUS
    <2>3. N + 1 \in Nat \ {0}
      BY <1>4
    <2> HIDE DEF step, N
    <2>4. PICK B \in [1..N + 1 -> NotYet] : Steps(B, N + 1, Least(NotYet), step)
      BY <1>6, <2>1, <2>3, StepsExist
    <2>5. ASSUME NEW k \in 1..N + 1 PROVE B[k] = IF k = 1 THEN Least(NotYet) ELSE FirstFrom(B[k - 1])
      <3>1. CASE k = 1
        BY <2>4, <3>1 DEF Steps
      <3>2. CASE k # 1
        <4>1. k - 1 \in 1..N + 1 /\ k \in Nat
          BY <2>3, <3>2
        <4>2. B[k - 1] \in NotYet
          BY <4>1
        <4>3. QED
          BY <2>2, <2>4, <3>2, <4>1, <4>2 DEF Steps
      <3>3. QED
        BY <3>1, <3>2
    <2>6. B = [k \in 1..N + 1 |-> IF k = 1 THEN Least(NotYet) ELSE FirstFrom(B[k - 1])]
      BY <2>5
    <2>7. QED
      BY <2>6
  <1>8. Goes(Backwards)
    <2>1. Backwards = CHOOSE B : Goes(B)
      BY DEF Backwards
    <2> HIDE DEF Goes
    <2>2. QED
      BY <1>7, <2>1
  <1> HIDE DEF N
  <1>9. DOMAIN Backwards = 1..N + 1
        /\ \A k \in 1..N + 1 : Backwards[k] = IF k = 1 THEN Least(NotYet) ELSE FirstFrom(Backwards[k - 1])
    BY <1>8
  <1>10. ASSUME NEW k \in 2..N + 1 PROVE Backwards[k] = FirstFrom(Backwards[k - 1])
    <2>1. k \in 1..N + 1 /\ k # 1
      BY <1>4
    <2>2. QED
      BY <1>9, <2>1
  <1>11. N + 1 \in Nat \ {0} /\ Backwards[1] \in NotYet
    <2>1. 1 \in 1..N + 1
      BY <1>4
    <2>2. QED
      BY <1>4, <1>6, <1>9, <2>1
  <1>12. \A k \in 2..N + 1 : Backwards[k - 1] \in NotYet => Backwards[k] \in NotYet
    BY <1>5, <1>10
  <1>13. \A k \in 1..N + 1 : Backwards[k] \in NotYet
    BY <1>11, <1>12, StepsStay
  <1>14. Backwards \in [1..N + 1 -> NotYet]
    <2>1. Backwards = [k \in 1..N + 1 |-> Backwards[k]]
      BY <1>8, <1>9
    <2>2. QED
      BY <1>13, <2>1
  <1>15. ASSUME NEW k \in 2..N + 1 PROVE <<Backwards[k], Backwards[k - 1]>> \in FlowEdges
    <2>1. k - 1 \in 1..N + 1
      BY <1>4
    <2>2. QED
      BY <1>5, <1>10, <1>13, <2>1
  <1>16. QED
    BY <1>4, <1>14, <1>15 DEF N

\* find_data_flow_cycle: the answer is a cycle exactly when there is one.
LEMMA CyclesAnswer == WalkInv => CyclesAreFound
  <1> SUFFICES ASSUME WalkInv, IsFlow, queue = {} PROVE CyclesAreFound
    BY DEF CyclesAreFound, IsFlow
  <1> DEFINE N == Cardinality(Nodes)
             last == Least({k \in 2..N + 1 : \E j \in 1..k - 1 : Backwards[j] = Backwards[k]})
             first == Least({j \in 1..last - 1 : Backwards[j] = Backwards[last]})
             c == FindDataFlowCycle
  <1>1. FlowShape
    BY DEF WalkInv, WalkTypes
  <1>2. Items = Nodes /\ ArcPairs = FlowEdges
    BY <1>1 DEF FlowShape, Items, ArcPairs, FlowEdges, Arcs, ArcFrom, ArcTo
  <1>3. OnACycle = CycleNodes(Items, ArcPairs) /\ Behind(OnACycle) = NodesBehind(OnACycle, Items, ArcPairs)
    BY <1>2 DEF OnACycle, Behind, CycleNodes, NodesBehind, FlowPaths
  <1>4. NotYet = Behind(OnACycle) /\ (NotYet = {}) = (OnACycle = {})
    BY <1>3, LeftAtTheEnd
  <1>5. CASE NotYet = {}
    <2>1. c = <<>>
      BY <1>5 DEF FindDataFlowCycle
    <2>2. QED
      BY <1>4, <1>5, <2>1 DEF CyclesAreFound
  <1>6. CASE NotYet # {}
    <2>1. c = [i \in 1..last - first + 1 |-> Backwards[last - i + 1]]
      BY <1>6 DEF FindDataFlowCycle
    <2>2. /\ N \in Nat /\ IsFiniteSet(NotYet) /\ Cardinality(NotYet) <= N
          /\ Backwards \in [1..N + 1 -> NotYet]
          /\ \A k \in 2..N + 1 : <<Backwards[k], Backwards[k - 1]>> \in FlowEdges
      BY <1>6, BackwardsAre
    <2> DEFINE B == Backwards
               L == NotYet
               E == FlowEdges
    <2>3. /\ N \in Nat /\ IsFiniteSet(L) /\ Cardinality(L) <= N /\ B \in [1..N + 1 -> L]
          /\ \A k \in 2..N + 1 : <<B[k], B[k - 1]>> \in E
      BY <2>2
    <2>4. ClosedBy(B, N, last, first, c)
      BY <2>1 DEF ClosedBy
    <2> HIDE DEF N, B, L, E, c, first, last
    <2>5. IsCycle(c, E)
      BY <2>3, <2>4, WalkCloses
    <2>6. /\ NotYet = Behind(OnACycle)
          /\ (c = <<>>) = (OnACycle = {})
          /\ c # <<>> => /\ Len(c) > 1 /\ c[1] = c[Len(c)]
                         /\ \A i \in 1..Len(c) - 1 : <<c[i], c[i + 1]>> \in FlowEdges
                         /\ \A i, j \in 2..Len(c) : c[i] = c[j] => i = j
      BY <1>4, <1>6, <2>5 DEF E, IsCycle
    <2>7. QED
      BY <2>6 DEF CyclesAreFound, c
  <1>7. QED
    BY <1>5, <1>6

\* A finite set of numbers has a greatest one.
LEMMA HasGreatest ==
    ASSUME NEW S, IsFiniteSet(S), S # {}, S \subseteq Nat
    PROVE  \E t \in S : \A u \in S : u <= t
  <1> DEFINE Above(t) == {u \in S : u > t}
             Sizes == {Cardinality(Above(t)) : t \in S}
  <1>1. \A t : IsFiniteSet(Above(t)) /\ Cardinality(Above(t)) \in Nat
    <2> TAKE t
    <2>1. Above(t) \subseteq S
      OBVIOUS
    <2> HIDE DEF Above
    <2>2. QED
      BY <2>1, FS_Subset, FS_CardinalityType
  <1>2. Sizes \subseteq Nat /\ Sizes # {}
    BY <1>1
  <1>3. PICK m \in Sizes : \A j \in Sizes : m <= j
    BY <1>2, HasLeast
  <1>4. PICK t \in S : m = Cardinality(Above(t))
    BY <1>3
  <1>5. ASSUME NEW u \in S, u > t PROVE FALSE
    <2>1. u \in Nat /\ t \in Nat /\ \A v \in S : v \in Nat
      OBVIOUS
    <2>2. Above(u) \subseteq Above(t) /\ u \in Above(t) /\ u \notin Above(u)
      <3>1. ~(u > u)
        BY <2>1
      <3>2. \A v \in S : v > u => v > t
        BY <1>5, <2>1
      <3>3. QED
        BY <1>5, <3>1, <3>2
    <2>3. Cardinality(Above(t)) <= Cardinality(Above(u))
      BY <1>3, <1>4
    <2> DEFINE Small == Above(u)
               Large == Above(t)
    <2>4. Small \subseteq Large /\ Small # Large /\ IsFiniteSet(Large) /\ Cardinality(Large) <= Cardinality(Small)
          /\ Cardinality(Large) \in Nat /\ Cardinality(Small) \in Nat
      BY <1>1, <2>2, <2>3
    <2> HIDE DEF Small, Large
    <2>5. Cardinality(Small) <= Cardinality(Large) /\ (Cardinality(Large) = Cardinality(Small) => Large = Small)
      BY <2>4, FS_Subset
    <2>6. QED
      BY <2>4, <2>5
  <1>6. \A u \in S : u <= t
    <2>1. \A u \in S : u \in Nat /\ t \in Nat
      OBVIOUS
    <2>2. QED
      BY <1>5, <2>1
  <1>7. QED
    BY <1>6

\* longest_path: without a cycle everything is done, and the latest end is the longest path.
LEMMA StageAnswer == WalkInv => CriticalPathIsLongest
  <1> SUFFICES ASSUME WalkInv, walk.over = "stage", queue = {},
                      SimplePaths(DOMAIN walk.stage.ms, walk.pairs) # {},
                      \A p \in SimplePaths(DOMAIN walk.stage.ms, walk.pairs) : <<Final(p), p[1]>> \notin walk.pairs
               PROVE  /\ LongestPath \in {Time(p) : p \in SimplePaths(DOMAIN walk.stage.ms, walk.pairs)}
                      /\ \A t \in {Time(p) : p \in SimplePaths(DOMAIN walk.stage.ms, walk.pairs)} : t <= LongestPath
    BY DEF CriticalPathIsLongest
  <1>1. ~IsFlow
    BY DEF IsFlow
  <1>2. WalkTypes /\ EndIsReached /\ EndIsLatest
    BY <1>1 DEF WalkInv
  <1>3. Ms \in Seq(Nat) /\ IsFiniteSet(Items) /\ Items = DOMAIN Ms /\ ArcPairs = walk.pairs /\ walk.end \in [Items -> Nat]
    BY <1>1, <1>2, StageIs
  <1>4. SimplePaths(DOMAIN walk.stage.ms, walk.pairs) = StagePaths
    BY <1>3 DEF StagePaths, Ms
  <1>5. CycleNodes(Items, ArcPairs) = {}
    BY <1>3, <1>4 DEF CycleNodes, StagePaths
  <1>6. NotYet = {}
    BY <1>5, LeftAtTheEnd
  <1>7. \A p \in StagePaths : Len(p) \in Nat \ {0} /\ p \in [1..Len(p) -> Items]
    BY <1>1, <1>2, StagePathIs DEF IsPath
  <1>8. \A p \in StagePaths : BeforeEnd(p) \subseteq walk.done /\ Final(p) \in Items
    <2> TAKE p \in StagePaths
    <2>1. Len(p) \in 1..Len(p) /\ \A i \in 1..Len(p) - 1 : i \in 1..Len(p)
      BY <1>7
    <2>2. Items \subseteq walk.done
      BY <1>6 DEF NotYet, Items
    <2>3. QED
      BY <1>7, <2>1, <2>2 DEF BeforeEnd, Final
  <1> DEFINE S == {walk.end[n] : n \in DOMAIN walk.end}
  <1>9. S \subseteq Nat /\ S # {} /\ IsFiniteSet(S)
    <2>1. S = {walk.end[n] : n \in Items} /\ \A n \in Items : walk.end[n] \in Nat
      BY <1>3
    <2>2. Items # {}
      BY <1>4, <1>8
    <2>3. IsFiniteSet(S)
      <3> DEFINE f == [n \in Items |-> walk.end[n]]
      <3>1. f \in [Items -> S] /\ \A s \in S : \E n \in Items : f[n] = s
        BY <2>1
      <3>2. f \in Surjection(Items, S)
        BY <3>1 DEF Surjection
      <3> HIDE DEF S, f
      <3>3. QED
        BY <1>3, <3>2, FS_Surjection
    <2>4. QED
      BY <2>1, <2>2, <2>3
  <1>10. LongestPath \in S /\ \A u \in S : u <= LongestPath
    <2>1. LongestPath = CHOOSE t \in S : \A u \in S : u <= t
      BY <1>9 DEF LongestPath
    <2> HIDE DEF S
    <2>2. \E t \in S : \A u \in S : u <= t
      BY <1>9, HasGreatest
    <2>3. QED
      BY <2>1, <2>2
  <1>11. PICK b \in Items : LongestPath = walk.end[b]
    BY <1>3, <1>10
  <1>12. PICK q \in StagePaths : Final(q) = b /\ Time(q) = walk.end[b]
    BY <1>2 DEF EndIsReached
  <1>13. ASSUME NEW p \in StagePaths PROVE Time(p) <= LongestPath
    <2>1. Time(p) <= walk.end[Final(p)] /\ Final(p) \in Items
      BY <1>2, <1>8 DEF EndIsLatest
    <2>2. walk.end[Final(p)] <= LongestPath /\ walk.end[Final(p)] \in Nat /\ LongestPath \in Nat
      BY <1>3, <1>9, <1>10, <2>1
    <2>3. Time(p) \in Nat
      <3>1. Len(p) \in Nat \ {0} /\ p \in [1..Len(p) -> DOMAIN Ms]
        BY <1>3, <1>7
      <3> DEFINE n == Len(p)
      <3>2. n \in Nat \ {0} /\ p \in [1..n -> DOMAIN Ms] /\ n \in 1..n
        BY <3>1
      <3> HIDE DEF n
      <3>3. \E u \in [1..n -> Nat] : TimesOf(u, p, n) /\ Time(p) = u[n]
        BY <1>3, <3>2, TimeHasSteps
      <3>4. QED
        BY <3>2, <3>3
    <2>4. QED
      BY <2>1, <2>2, <2>3
  <1>14. QED
    BY <1>4, <1>11, <1>12, <1>13

\* At every moment of a walk, the nodes that are ready are those before which nothing is
\* left, no node of a cycle is done, and the end of an item is the longest time of a path
\* to it through items that are done (graph_checks.py and sim/cpu_sched.py).
THEOREM WalkInvHolds == WalksSpec => []WalkInv
  <1>1. WalksInit => WalkInv
    BY WalkInitInv
  <1>2. WalkInv /\ [WalksNext]_walkVars => WalkInv'
    BY WalkKeepsInv
  <1>3. QED
    BY <1>1, <1>2, PTL DEF WalksSpec

\* For every finite set of nodes, all lists of edges and all stages, and whatever the order
\* of the queue is: a cycle of the data flow is found exactly when there is one, and the
\* critical path of a stage without cycles is its longest path.
THEOREM WalksAnswerRight == WalksSpec => []WalksAreRight
  <1>1. WalkInv => WalksAreRight
    BY CyclesAnswer, StageAnswer DEF WalksAreRight
  <1>2. QED
    BY <1>1, WalkInvHolds, PTL
-----------------------------------------------------------------------------
(* VariantResolution.                                                      *)

Conclusions == {"not found", "circular", "parent not found", "resolved"}
Resolving == {"climbing", "merging", "circular", "parent not found", "resolved"}

ReaderTypes ==
    /\ table \in [VariantIds -> {Absent} \cup Writable]
    /\ \A v \in VariantIds : Exists(table[v]) => table[v].id = v
    /\ reader = [at |-> reader.at, wants |-> reader.wants, known |-> reader.known,
                 requested |-> reader.requested, seen |-> reader.seen]
    /\ lookup = [of |-> lookup.of, current |-> lookup.current, chain |-> lookup.chain,
                 next |-> lookup.next, merged |-> lookup.merged]
    /\ reader.at \in {"idle", "fetching"} \cup Resolving \cup Conclusions
    /\ reader.wants \subseteq VariantIds /\ reader.requested \subseteq VariantIds
    /\ reader.known \subseteq Writable

\* The reader knows one row of each variant that it asked for, none that was never
\* committed meanwhile, and when it resolves a variant it has asked for all parents.
KnownOnce == /\ \A r, q \in reader.known : r.id = q.id => r = q
             /\ Ids(reader.known) \subseteq reader.wants \cup reader.requested
KnownSeen == IF reader.at = "idle" THEN reader.known = {}
             ELSE Committed \subseteq reader.seen /\ reader.known \subseteq reader.seen
AllAsked == reader.at \in Conclusions \cup Resolving => Needed = {} /\ lookup.of \in reader.wants
NotFound == reader.at = "not found" => lookup.of \notin Ids(reader.known)

\* The chain leads from the variant to the one whose parent is looked for next.
Leads(known, chain, current, of) ==
    /\ chain \in Seq(Ids(known)) /\ IsInjective(chain)
    /\ \A i \in 2..Len(chain) : RowIn(known, chain[i]).parent = chain[i - 1]
    /\ IF chain = <<>> THEN current = of
       ELSE chain[Len(chain)] = of /\ current = RowIn(known, chain[1]).parent
Climbing ==
    /\ reader.at \in Resolving => /\ lookup.of \in Ids(reader.known)
                                 /\ Leads(reader.known, lookup.chain, lookup.current, lookup.of)
    /\ reader.at \notin Resolving => lookup.chain = <<>>
    /\ reader.at \in {"merging", "resolved"} => lookup.current = Absent
    /\ reader.at = "circular" => lookup.current \in Range(lookup.chain)
    /\ reader.at = "parent not found" => lookup.current \notin Ids(reader.known) \cup {Absent}

IsList(l) == l \in Seq(Range(l))

\* What the first of the chain say is merged.
Told(known, chain, n) == [i \in 1..n |-> RowIn(known, chain[i]).content]
Merging ==
    /\ lookup.next \in 0..Len(lookup.chain)
    /\ Inherits(lookup.merged, Told(reader.known, lookup.chain, lookup.next)) /\ IsList(lookup.merged.patch)
    /\ reader.at \notin {"merging", "resolved"} => lookup.next = 0
    /\ reader.at = "resolved" => lookup.next = Len(lookup.chain)

ResolutionInv == ReaderTypes /\ KnownOnce /\ KnownSeen /\ AllAsked /\ NotFound /\ Climbing /\ Merging

-----------------------------------------------------------------------------
(* Dictionaries laid over each other.                                      *)

IsFamily(f, I) == I \subseteq Nat /\ IsFiniteSet(I) /\ DOMAIN f = I /\ \A i \in I : IsTable(f[i])

\* What is said last of a key that is spoken of.
LEMMA LastOf ==
    ASSUME NEW I, NEW f, IsFamily(f, I), NEW a \in I, NEW k \in DOMAIN f[a]
    PROVE  \E m \in I : /\ k \in DOMAIN f[m] /\ \A i \in I : k \in DOMAIN f[i] => i <= m
                        /\ k \in DOMAIN LastSaid(f) /\ LastSaid(f)[k] = f[m][k]
  <1> DEFINE S == {i \in DOMAIN f : k \in DOMAIN f[i]}
  <1>1. DOMAIN f = I /\ I \subseteq Nat /\ IsFiniteSet(I)
    BY DEF IsFamily
  <1>2. S \subseteq Nat /\ S # {} /\ IsFiniteSet(S)
    BY <1>1, FS_Subset
  <1>3. PICK m \in S : \A i \in S : i <= m
    BY <1>2, HasGreatest
  <1>4. Max(S) = m
    <2>1. \A x \in S : (\A y \in S : x >= y) => x = m
      BY <1>2, <1>3
    <2>2. m \in S /\ \A y \in S : m >= y
      BY <1>2, <1>3
    <2> HIDE DEF S
    <2>3. QED
      BY <2>1, <2>2 DEF Max
  <1>5. k \in DOMAIN LastSaid(f) /\ LastSaid(f)[k] = f[Max(S)][k]
    BY <1>1 DEF LastSaid
  <1>6. m \in I /\ k \in DOMAIN f[m] /\ \A i \in I : k \in DOMAIN f[i] => i <= m
    BY <1>1, <1>3
  <1>7. QED
    BY <1>4, <1>5, <1>6

LEMMA LastDomain ==
    ASSUME NEW f
    PROVE  /\ \A k : k \in DOMAIN LastSaid(f) <=> \E i \in DOMAIN f : k \in DOMAIN f[i]
           /\ IsTable(LastSaid(f))
  BY DEF LastSaid, IsTable

\* One more dictionary, after the others.
LEMMA LastOver ==
    ASSUME NEW I, NEW f, IsFamily(f, I), NEW n \in Nat, \A i \in I : i < n,
           NEW g, IsFamily(g, I \cup {n}), \A i \in I : g[i] = f[i]
    PROVE  LastSaid(g) = Overlaid(LastSaid(f), g[n])
  <1>1. DOMAIN f = I /\ DOMAIN g = I \cup {n} /\ I \subseteq Nat
    BY DEF IsFamily
  <1>2. DOMAIN LastSaid(g) = DOMAIN LastSaid(f) \cup DOMAIN g[n]
    <2>1. \A k : k \in DOMAIN LastSaid(g) <=> \E i \in I \cup {n} : k \in DOMAIN g[i]
      BY <1>1, LastDomain
    <2>2. \A k : k \in DOMAIN LastSaid(f) <=> \E i \in I : k \in DOMAIN f[i]
      BY <1>1, LastDomain
    <2> QED
      BY <2>1, <2>2
  <1>3. ASSUME NEW k \in DOMAIN g[n] PROVE LastSaid(g)[k] = g[n][k]
    <2>1. PICK m \in I \cup {n} : /\ k \in DOMAIN g[m] /\ \A i \in I \cup {n} : k \in DOMAIN g[i] => i <= m
                                  /\ LastSaid(g)[k] = g[m][k]
      BY <1>3, LastOf
    <2>2. n <= m
      BY <1>3, <2>1
    <2>3. m = n
      <3>1. m \in Nat /\ m <= n
        BY <1>1, <2>1
      <3> QED
        BY <2>2, <3>1
    <2> QED
      BY <2>1, <2>3
  <1>4. ASSUME NEW k \in DOMAIN LastSaid(f), k \notin DOMAIN g[n] PROVE LastSaid(g)[k] = LastSaid(f)[k]
    <2>1. PICK a \in I : k \in DOMAIN f[a]
      BY <1>1, LastDomain
    <2>2. PICK m \in I : /\ k \in DOMAIN f[m] /\ \A i \in I : k \in DOMAIN f[i] => i <= m
                         /\ LastSaid(f)[k] = f[m][k]
      BY <2>1, LastOf
    <2>3. a \in I \cup {n} /\ k \in DOMAIN g[a]
      BY <2>1
    <2>4. PICK p \in I \cup {n} : /\ k \in DOMAIN g[p] /\ \A i \in I \cup {n} : k \in DOMAIN g[i] => i <= p
                                  /\ LastSaid(g)[k] = g[p][k]
      BY <2>3, LastOf
    <2>5. p \in I /\ k \in DOMAIN f[p]
      BY <1>4, <2>4
    <2>6. p <= m /\ m <= p
      BY <2>2, <2>4, <2>5
    <2>7. p = m
      <3>1. p \in Nat /\ m \in Nat
        BY <1>1, <2>5
      <3> QED
        BY <2>6, <3>1
    <2> QED
      BY <2>2, <2>4, <2>7
  <1>5. LastSaid(g) = [k \in DOMAIN LastSaid(g) |-> LastSaid(g)[k]]
    BY LastDomain DEF IsTable
  <1>6. Overlaid(LastSaid(f), g[n]) = [k \in DOMAIN LastSaid(g) |-> LastSaid(g)[k]]
    BY <1>2, <1>3, <1>4 DEF Overlaid
  <1> QED
    BY <1>5, <1>6

-----------------------------------------------------------------------------
(* What layers of dictionaries say, and the merge of one more.             *)

IsLayers(s, n) == n \in Nat /\ DOMAIN s = 1..n /\ \A i \in 1..n : IsDictionary(s[i])
Subs(s, k) == [i \in Standing(s, k) |-> s[i][k].sub]

LEMMA LayersFamily ==
    ASSUME NEW n, NEW s, IsLayers(s, n)
    PROVE  IsFamily(s, 1..n) /\ 1..n \subseteq Nat /\ IsFiniteSet(1..n)
  <1>1. n \in Nat /\ 1 \in Int /\ n \in Int
    BY DEF IsLayers
  <1>2. IsFiniteSet(1..n)
    BY <1>1, FS_Interval
  <1> QED
    BY <1>1, <1>2 DEF IsLayers, IsFamily, IsDictionary

LEMMA DictFields == \A f : Dict(f).isDict /\ Dict(f).sub = f
  BY DEF Dict

LEMMA SubsFamily ==
    ASSUME NEW n, NEW s, IsLayers(s, n), NEW k
    PROVE  /\ IsFamily(Subs(s, k), Standing(s, k)) /\ Standing(s, k) \subseteq 1..n
           /\ \A i \in Standing(s, k) : IsTable(s[i][k].sub) /\ Subs(s, k)[i] = s[i][k].sub
  <1>1. DOMAIN s = 1..n /\ n \in Nat
    BY DEF IsLayers
  <1>2. Standing(s, k) \subseteq 1..n
    BY <1>1 DEF Standing
  <1>3. ASSUME NEW i \in Standing(s, k) PROVE IsTable(s[i][k].sub)
    <2>1. i \in 1..n /\ k \in DOMAIN s[i] /\ s[i][k].isDict
      BY <1>1, <1>3 DEF Standing
    <2>2. IsValue(s[i][k])
      BY <2>1 DEF IsLayers, IsDictionary
    <2> QED
      BY <2>1, <2>2 DEF IsValue
  <1>4. IsFiniteSet(Standing(s, k)) /\ Standing(s, k) \subseteq Nat
    BY <1>1, <1>2, LayersFamily, FS_Subset
  <1> QED
    BY <1>2, <1>3, <1>4 DEF IsFamily, Subs

LEMMA SpokenIs ==
    ASSUME NEW s
    PROVE  /\ DOMAIN Spoken(s) = DOMAIN LastSaid(s) /\ IsTable(Spoken(s))
           /\ \A k \in DOMAIN Spoken(s) :
                 Spoken(s)[k] = IF LastSaid(s)[k].isDict THEN Dict(LastSaid(Subs(s, k))) ELSE LastSaid(s)[k]
  BY DEF Spoken, IsTable, Subs

LEMMA OverNothing ==
    ASSUME NEW f, DOMAIN f = {}, NEW g, IsTable(g)
    PROVE  Overlaid(f, g) = g
  BY DEF Overlaid, IsTable

LEMMA SpokenMerge ==
    ASSUME NEW n, NEW s, IsLayers(s, n), NEW t, IsLayers(t, n + 1), \A i \in 1..n : t[i] = s[i]
    PROVE  Spoken(t) = DeepMerge(Spoken(s), t[n + 1])
  <1> DEFINE d == t[n + 1]
  <1>1. n \in Nat /\ DOMAIN s = 1..n /\ DOMAIN t = 1..(n + 1) /\ 1..(n + 1) = (1..n) \cup {n + 1} /\ n + 1 \in Nat
    BY DEF IsLayers
  <1>2. LastSaid(t) = Overlaid(LastSaid(s), d)
    <2>1. IsFamily(s, 1..n) /\ IsFamily(t, (1..n) \cup {n + 1})
      BY <1>1, LayersFamily
    <2>2. \A i \in 1..n : i < n + 1
      BY <1>1
    <2> QED
      BY <1>1, <2>1, <2>2, LastOver
  <1>3. DOMAIN Spoken(t) = DOMAIN Spoken(s) \cup DOMAIN d
    BY <1>2, SpokenIs DEF Overlaid
  <1>4. IsDictionary(d) /\ \A k \in DOMAIN d : IsValue(d[k])
    BY <1>1 DEF IsLayers, IsDictionary
  <1> HIDE DEF d
  <1>5. ASSUME NEW k \in DOMAIN Spoken(s), k \notin DOMAIN d PROVE Spoken(t)[k] = Spoken(s)[k]
    <2>1. LastSaid(t)[k] = LastSaid(s)[k]
      BY <1>2, <1>5, SpokenIs DEF Overlaid
    <2>2. Standing(t, k) = Standing(s, k)
      BY <1>1, <1>5 DEF Standing, d
    <2>3. Subs(t, k) = Subs(s, k)
      <3>1. Standing(s, k) \subseteq 1..n
        BY SubsFamily
      <3> QED
        BY <2>2, <3>1 DEF Subs
    <2> QED
      BY <1>3, <1>5, <2>1, <2>3, SpokenIs
  <1>6. ASSUME NEW k \in DOMAIN d, ~d[k].isDict PROVE Spoken(t)[k] = d[k]
    <2>1. LastSaid(t)[k] = d[k]
      BY <1>2, <1>6 DEF Overlaid
    <2> QED
      BY <1>3, <1>6, <2>1, SpokenIs
  <1>7. ASSUME NEW k \in DOMAIN d, d[k].isDict
        PROVE  Spoken(t)[k] = Dict(Overlaid(LastSaid(Subs(s, k)), d[k].sub))
    <2>1. LastSaid(t)[k] = d[k]
      BY <1>2, <1>7 DEF Overlaid
    <2>2. Standing(t, k) = Standing(s, k) \cup {n + 1}
      <3>1. \A i \in Standing(s, k) : i \in Standing(t, k)
        BY <1>1, <1>7 DEF Standing, d
      <3>2. n + 1 \in Standing(t, k)
        BY <1>1, <1>7 DEF Standing, d
      <3>3. \A i \in Standing(t, k) : i \in Standing(s, k) \cup {n + 1}
        BY <1>1 DEF Standing, d
      <3> QED
        BY <3>1, <3>2, <3>3
    <2>3. /\ IsFamily(Subs(s, k), Standing(s, k)) /\ Standing(s, k) \subseteq 1..n
          /\ \A i \in Standing(s, k) : Subs(s, k)[i] = s[i][k].sub
      BY SubsFamily
    <2>4. /\ IsFamily(Subs(t, k), Standing(s, k) \cup {n + 1})
          /\ \A i \in Standing(t, k) : Subs(t, k)[i] = t[i][k].sub
      <3>1. IsFamily(Subs(t, k), Standing(t, k)) /\ \A i \in Standing(t, k) : Subs(t, k)[i] = t[i][k].sub
        BY <1>1, SubsFamily
      <3> QED
        BY <2>2, <3>1
    <2>5. /\ \A i \in Standing(s, k) : i < n + 1 /\ Subs(t, k)[i] = Subs(s, k)[i]
          /\ Subs(t, k)[n + 1] = d[k].sub
      BY <1>1, <2>2, <2>3, <2>4 DEF d
    <2>6. LastSaid(Subs(t, k)) = Overlaid(LastSaid(Subs(s, k)), d[k].sub)
      <3> DEFINE I == Standing(s, k)
                 f == Subs(s, k)
                 g == Subs(t, k)
                 m == n + 1
      <3>1. IsFamily(f, I) /\ IsFamily(g, I \cup {m}) /\ m \in Nat
        BY <1>1, <2>3, <2>4
      <3>2. (\A i \in I : i < m) /\ (\A i \in I : g[i] = f[i]) /\ g[m] = d[k].sub
        BY <2>5
      <3> HIDE DEF I, f, g, m
      <3>3. LastSaid(g) = Overlaid(LastSaid(f), g[m])
        BY <3>1, <3>2, LastOver
      <3> QED
        BY <3>2, <3>3 DEF f, g
    <2> QED
      BY <1>3, <1>7, <2>1, <2>6, SpokenIs
  <1>8. ASSUME NEW k \in DOMAIN d, d[k].isDict, k \notin DOMAIN Spoken(s) \/ ~Spoken(s)[k].isDict
        PROVE  Spoken(t)[k] = d[k]
    <2>1. Standing(s, k) = {}
      <3> SUFFICES ASSUME NEW i \in Standing(s, k) PROVE FALSE
        OBVIOUS
      <3>1. i \in 1..n /\ k \in DOMAIN s[i] /\ \A j \in 1..n : j >= i /\ k \in DOMAIN s[j] => s[j][k].isDict
        BY <1>1 DEF Standing
      <3>2. PICK m \in 1..n : /\ k \in DOMAIN s[m] /\ \A j \in 1..n : k \in DOMAIN s[j] => j <= m
                              /\ k \in DOMAIN LastSaid(s) /\ LastSaid(s)[k] = s[m][k]
        <4> DEFINE I == 1..n
        <4>1. IsFamily(s, I) /\ i \in I /\ k \in DOMAIN s[i]
          BY <3>1, LayersFamily
        <4> HIDE DEF I
        <4>2. \E m \in I : /\ k \in DOMAIN s[m] /\ \A j \in I : k \in DOMAIN s[j] => j <= m
                           /\ k \in DOMAIN LastSaid(s) /\ LastSaid(s)[k] = s[m][k]
          BY ONLY <4>1, LastOf
        <4> QED
          BY ONLY <4>2 DEF I
      <3>3. m >= i /\ s[m][k].isDict
        BY <1>1, <3>1, <3>2
      <3>4. k \in DOMAIN Spoken(s) /\ Spoken(s)[k].isDict
        BY <3>2, <3>3, SpokenIs, DictFields
      <3> QED
        BY <1>8, <3>4
    <2>2. DOMAIN LastSaid(Subs(s, k)) = {}
      <3>1. DOMAIN Subs(s, k) = {}
        BY <2>1 DEF Subs
      <3> QED
        BY <3>1, LastDomain
    <2>3. IsTable(d[k].sub) /\ d[k] = Dict(d[k].sub)
      BY <1>4, <1>8 DEF IsValue
    <2> QED
      BY <1>7, <1>8, <2>2, <2>3, OverNothing
  <1>9. ASSUME NEW k \in DOMAIN d, d[k].isDict, k \in DOMAIN Spoken(s), Spoken(s)[k].isDict
        PROVE  Spoken(t)[k] = Dict(Overlaid(Spoken(s)[k].sub, d[k].sub))
    <2>1. LastSaid(s)[k].isDict
      BY <1>9, SpokenIs
    <2>2. Spoken(s)[k].sub = LastSaid(Subs(s, k))
      BY <1>9, <2>1, SpokenIs, DictFields
    <2> QED
      BY <1>7, <1>9, <2>2
  <1>10. ASSUME NEW k \in DOMAIN Spoken(s) \cup DOMAIN d
         PROVE  Spoken(t)[k] = DeepMerge(Spoken(s), d)[k]
    <2>1. DeepMerge(Spoken(s), d)[k] =
              IF k \in DOMAIN Spoken(s) \cap DOMAIN d /\ Spoken(s)[k].isDict /\ d[k].isDict
              THEN Dict(Overlaid(Spoken(s)[k].sub, d[k].sub))
              ELSE IF k \in DOMAIN d THEN d[k] ELSE Spoken(s)[k]
      BY DEF DeepMerge, Overlaid
    <2> QED
      BY <1>5, <1>6, <1>8, <1>9, <1>10, <2>1
  <1>11. IsTable(DeepMerge(Spoken(s), d)) /\ DOMAIN DeepMerge(Spoken(s), d) = DOMAIN Spoken(s) \cup DOMAIN d
    BY DEF DeepMerge, IsTable
  <1>12. Spoken(t) = DeepMerge(Spoken(s), d)
    <2>1. Spoken(t) = [k \in DOMAIN Spoken(s) \cup DOMAIN d |-> Spoken(t)[k]]
      BY <1>3, SpokenIs DEF IsTable
    <2>2. DeepMerge(Spoken(s), d) = [k \in DOMAIN Spoken(s) \cup DOMAIN d |-> DeepMerge(Spoken(s), d)[k]]
      BY <1>11 DEF IsTable
    <2> QED
      BY <1>10, <2>1, <2>2
  <1> QED
    BY <1>12 DEF d

-----------------------------------------------------------------------------
(* Lists that name everything once.                                        *)

\* One more mention, after all others: of something that was named, or not.
LEMMA NamedAgain ==
    ASSUME NEW l, NEW told, NEW M, NamesOnce(l, told, M),
           NEW x, \A n \in M : IsBefore(n, x), Item(told, x) \in Range(l)
    PROVE  NamesOnce(l, told, M \cup {x})
  BY DEF NamesOnce

LEMMA NamedNow ==
    ASSUME NEW l, IsList(l), NEW told, NEW M, NamesOnce(l, told, M),
           NEW x, \A n \in M : IsBefore(n, x), Item(told, x) \notin Range(l)
    PROVE  NamesOnce(Append(l, Item(told, x)), told, M \cup {x})
  <1> DEFINE item == Item(told, x)
             k == Append(l, item)
             last == Len(l) + 1
  <1>1. l \in Seq(Range(l) \cup {item})
    BY DEF IsList
  <1>2. /\ Len(l) \in Nat /\ DOMAIN l = 1..Len(l)
        /\ DOMAIN k = 1..last
        /\ k[last] = item /\ \A i \in 1..Len(l) : k[i] = l[i]
    BY <1>1
  <1>3. (1..last) = (1..Len(l)) \cup {last} /\ last \notin 1..Len(l)
    BY <1>2
  <1>4. \A i \in 1..Len(l) : l[i] \in Range(l)
    BY <1>2 DEF Range
  <1>5. IsInjective(k)
    BY <1>2, <1>3, <1>4 DEF NamesOnce, IsInjective
  <1>6. Range(k) = {Item(told, m) : m \in M \cup {x}}
    <2>1. Range(k) = Range(l) \cup {item}
      BY <1>2, <1>3 DEF Range
    <2>2. Range(l) = {Item(told, m) : m \in M}
      BY DEF NamesOnce
    <2> HIDE DEF k
    <2> QED
      BY <2>1, <2>2
  <1>7. ASSUME NEW i \in 1..Len(l)
        PROVE  \E m \in M : Item(told, m) = l[i]
    BY <1>4 DEF NamesOnce
  <1>8. ASSUME NEW i \in 1..last, NEW j \in 1..last, i < j
        PROVE  \E m \in M \cup {x} : Item(told, m) = k[i] /\ \A n \in M \cup {x} : Item(told, n) = k[j] => IsBefore(m, n)
    <2>1. i \in 1..Len(l) /\ k[i] = l[i]
      BY <1>2, <1>3, <1>8
    <2>2. CASE j = last
      <3>1. PICK m \in M : Item(told, m) = l[i]
        BY <1>7, <2>1
      <3>2. \A n \in M : Item(told, n) \in Range(l)
        BY DEF NamesOnce
      <3>3. \A n \in M \cup {x} : Item(told, n) = k[j] => n = x
        BY <1>2, <2>2, <3>2
      <3> QED
        BY <2>1, <3>1, <3>3
    <2>3. CASE j \in 1..Len(l)
      <3>1. PICK m \in M : Item(told, m) = l[i] /\ \A n \in M : Item(told, n) = l[j] => IsBefore(m, n)
        BY <1>2, <1>8, <2>1, <2>3 DEF NamesOnce
      <3>2. k[j] = l[j]
        BY <1>2, <2>3
      <3> QED
        BY <2>1, <3>1, <3>2
    <2> QED
      BY <1>3, <2>2, <2>3
  <1> HIDE DEF k
  <1>9. NamesOnce(k, told, M \cup {x})
    BY <1>2, <1>5, <1>6, <1>8 DEF NamesOnce
  <1> QED
    BY <1>9 DEF k, item

LEMMA AppendList ==
    ASSUME NEW l, IsList(l), NEW item
    PROVE  IsList(Append(l, item)) /\ Len(Append(l, item)) = Len(l) + 1 /\ Len(l) \in Nat
  <1>1. l \in Seq(Range(l) \cup {item})
    BY DEF IsList
  <1>2. Append(l, item) \in Seq(Range(l) \cup {item}) /\ Len(Append(l, item)) = Len(l) + 1 /\ Len(l) \in Nat
    BY <1>1
  <1>3. Append(l, item) \in Seq(Range(Append(l, item)))
    <2> DEFINE k == Append(l, item)
    <2> DEFINE V == Range(l) \cup {item}
    <2>0. k \in Seq(V)
      BY <1>2
    <2> HIDE DEF k, V
    <2>1. Len(k) \in Nat /\ DOMAIN k = 1..Len(k) /\ k = [i \in 1..Len(k) |-> k[i]]
      BY ONLY <2>0
    <2>2. \A i \in 1..Len(k) : k[i] \in Range(k)
      BY <2>1 DEF Range
    <2>3. k \in [1..Len(k) -> Range(k)]
      BY <2>1, <2>2
    <2>4. k \in Seq(Range(k))
      BY <2>1, <2>3
    <2> QED
      BY <2>4 DEF k
  <1> QED
    BY <1>2, <1>3 DEF IsList

\* The recursion of MergeList has a value for every list.
ListStep(l, item) == IF item \in Range(l) THEN l ELSE Append(l, item)
ListRuns(g, base, o, m) == g = [n \in 0..m |-> IF n = 0 THEN base ELSE ListStep(g[n - 1], o[n])]

LEMMA ListsGrow ==
    ASSUME NEW base, NEW o, NEW m \in Nat, NEW g, ListRuns(g, base, o, m)
    PROVE  \E h : ListRuns(h, base, o, m + 1)
  <1> DEFINE h == [n \in 0..m + 1 |-> IF n = m + 1 THEN ListStep(g[m], o[n]) ELSE g[n]]
  <1>1. \A n \in 0..m : g[n] = IF n = 0 THEN base ELSE ListStep(g[n - 1], o[n])
    BY DEF ListRuns
  <1>2. m + 1 \in Nat /\ m + 1 # 0 /\ m \in 0..m /\ \A n \in 0..m + 1 : n = m + 1 \/ (n \in 0..m /\ n # m + 1)
    OBVIOUS
  <1>3. h[m + 1] = ListStep(g[m], o[m + 1]) /\ (\A n \in 0..m : h[n] = g[n]) /\ h = [n \in 0..m + 1 |-> h[n]]
    BY <1>2
  <1> HIDE DEF h
  <1>4. ASSUME NEW n \in 0..m + 1 PROVE h[n] = IF n = 0 THEN base ELSE ListStep(h[n - 1], o[n])
    <2>1. CASE n = m + 1
      <3>1. n # 0 /\ n - 1 = m
        BY <2>1
      <3> QED
        BY <1>2, <1>3, <2>1, <3>1
    <2>2. CASE n \in 0..m
      <3>1. n = 0 \/ (n # 0 /\ n - 1 \in 0..m)
        BY <2>2
      <3> QED
        BY <1>1, <1>3, <2>2, <3>1
    <2> QED
      BY <1>2, <2>1, <2>2
  <1>5. ListRuns(h, base, o, m + 1)
    BY <1>3, <1>4 DEF ListRuns
  <1> QED
    BY <1>5

LEMMA ListsExist ==
    ASSUME NEW base, NEW o, NEW m \in Nat
    PROVE  \E g : ListRuns(g, base, o, m)
  <1> DEFINE Lacking == {k \in Nat : ~\E g : ListRuns(g, base, o, k)}
  <1>1. \E g : ListRuns(g, base, o, 0)
    <2> DEFINE g == [n \in 0..0 |-> base]
    <2>1. \A n \in 0..0 : n = 0
      OBVIOUS
    <2>2. ListRuns(g, base, o, 0)
      BY <2>1 DEF ListRuns
    <2> QED
      BY <2>2
  <1>2. Lacking = {}
    <2> SUFFICES ASSUME Lacking # {} PROVE FALSE
      OBVIOUS
    <2>1. PICK k \in Lacking : \A j \in Lacking : k <= j
      <3>1. Lacking \subseteq Nat
        OBVIOUS
      <3> QED
        BY <3>1, HasLeast
    <2>2. k \in Nat /\ k # 0 /\ ~\E g : ListRuns(g, base, o, k)
      BY <1>1, <2>1
    <2>3. k - 1 \in Nat /\ (k - 1) + 1 = k /\ ~(k <= k - 1)
      BY <2>2
    <2>4. \E g : ListRuns(g, base, o, k - 1)
      BY <2>1, <2>3
    <2> QED
      BY <2>2, <2>3, <2>4, ListsGrow
  <1> QED
    BY <1>2

LEMMA MergeListIs ==
    ASSUME NEW base, NEW o, Len(o) \in Nat
    PROVE  \E g : ListRuns(g, base, o, Len(o)) /\ MergeList(base, o) = g[Len(o)]
  <1>1. \E g : ListRuns(g, base, o, Len(o))
    BY ListsExist
  <1> DEFINE list == CHOOSE g : ListRuns(g, base, o, Len(o))
  <1>2. ListRuns(list, base, o, Len(o))
    BY <1>1
  <1>3. MergeList(base, o) = list[Len(o)]
    BY DEF MergeList, ListRuns, ListStep
  <1> QED
    BY <1>2, <1>3

IsTold(told, m) == m \in Nat /\ Len(told) = m /\ DOMAIN told = 1..m /\ \A i \in 1..m : IsContent(told[i])

\* The list of one more content.
LEMMA ListMerge ==
    ASSUME NEW m, NEW told, IsTold(told, m), NEW more, IsTold(more, m + 1), \A i \in 1..m : more[i] = told[i],
           NEW base, IsList(base), NamesOnce(base, told, Mentions(told))
    PROVE  LET l == MergeList(base, more[m + 1].patch)
           IN  IsList(l) /\ NamesOnce(l, more, Mentions(more))
  <1> DEFINE o == more[m + 1].patch
             M(n) == Mentions(told) \cup {<<m + 1, j>> : j \in 1..n}
  <1>1. m \in Nat /\ m + 1 \in Nat /\ DOMAIN told = 1..m /\ DOMAIN more = 1..(m + 1)
        /\ 1..(m + 1) = (1..m) \cup {m + 1}
    BY DEF IsTold
  <1>2. o \in Seq(Range(o)) /\ Len(o) \in Nat /\ DOMAIN o = 1..Len(o)
    <2>1. o \in Seq(Range(o))
      BY <1>1 DEF IsTold, IsContent
    <2> HIDE DEF o
    <2> QED
      BY <2>1
  <1>3. PICK g : ListRuns(g, base, o, Len(o)) /\ MergeList(base, o) = g[Len(o)]
    BY <1>2, MergeListIs
  <1>4. g[0] = base /\ \A n \in 1..Len(o) : g[n] = ListStep(g[n - 1], o[n])
    <2> HIDE DEF o
    <2>1. \A n \in 0..Len(o) : g[n] = IF n = 0 THEN base ELSE ListStep(g[n - 1], o[n])
      BY <1>3 DEF ListRuns
    <2>2. 0 \in 0..Len(o) /\ \A n \in 1..Len(o) : n \in 0..Len(o) /\ n # 0
      BY <1>2
    <2> QED
      BY <2>1, <2>2
  <1>5. \A n \in Mentions(told) : /\ n = <<n[1], n[2]>> /\ n[1] \in 1..m
                                  /\ Item(more, n) = Item(told, n)
    BY <1>1 DEF Mentions, Item
  <1> DEFINE Good(n) == IsList(g[n]) /\ NamesOnce(g[n], more, M(n))
             Bad == {n \in 0..Len(o) : ~Good(n)}
  <1>6. Good(0)
    <2>1. M(0) = Mentions(told)
      OBVIOUS
    <2>2. NamesOnce(base, more, Mentions(told))
      <3>1. {Item(more, n) : n \in Mentions(told)} = {Item(told, n) : n \in Mentions(told)}
        BY <1>5
      <3> QED
        BY <1>5, <3>1 DEF NamesOnce
    <2> HIDE DEF M
    <2> QED
      BY <1>4, <2>1, <2>2
  <1>7. ASSUME NEW n \in 1..Len(o), Good(n - 1) PROVE Good(n)
    <2> DEFINE x == <<m + 1, n>>
    <2>1. n \in Nat /\ n - 1 \in Nat /\ 1..n = (1..(n - 1)) \cup {n}
      BY <1>2
    <2>2. M(n) = M(n - 1) \cup {x}
      BY <2>1
    <2>3. \A k \in M(n - 1) : IsBefore(k, x)
      <3>1. \A k \in Mentions(told) : k[1] < m + 1
        BY <1>1, <1>5
      <3>2. \A j \in 1..(n - 1) : j < n
        BY <2>1
      <3>3. \A k \in Mentions(told) : IsBefore(k, x)
        BY <3>1 DEF IsBefore
      <3>4. \A j \in 1..(n - 1) : IsBefore(<<m + 1, j>>, x)
        BY <3>2 DEF IsBefore
      <3> HIDE DEF x
      <3> QED
        BY <3>3, <3>4
    <2>4. Item(more, x) = o[n]
      BY DEF Item
    <2> HIDE DEF M, o, x
    <2>5. g[n] = ListStep(g[n - 1], Item(more, x))
      BY <1>4, <2>4
    <2>6. CASE Item(more, x) \in Range(g[n - 1])
      BY <1>7, <2>2, <2>3, <2>5, <2>6, NamedAgain DEF ListStep
    <2>7. CASE Item(more, x) \notin Range(g[n - 1])
      BY <1>7, <2>2, <2>3, <2>5, <2>7, NamedNow, AppendList DEF ListStep
    <2> QED
      BY <2>6, <2>7
  <1> HIDE DEF Good, o
  <1>8. Bad = {}
    <2> SUFFICES ASSUME Bad # {} PROVE FALSE
      OBVIOUS
    <2>1. PICK n \in Bad : \A j \in Bad : n <= j
      <3>1. Bad \subseteq Nat
        BY <1>2
      <3> QED
        BY <3>1, HasLeast
    <2>2. n \in 1..Len(o) /\ n - 1 \in 0..Len(o) /\ ~(n <= n - 1) /\ ~Good(n)
      BY <1>2, <1>6, <2>1
    <2>3. Good(n - 1)
      BY <2>1, <2>2
    <2> QED
      BY <1>7, <2>2, <2>3
  <1>9. Good(Len(o))
    BY <1>2, <1>8
  <1>10. M(Len(o)) = Mentions(more)
    <2>1. Mentions(more) = Mentions(told) \cup {<<m + 1, j>> : j \in DOMAIN o}
      BY <1>1 DEF Mentions, o
    <2> QED
      BY <1>2, <2>1
  <1> HIDE DEF M
  <1>11. IsList(MergeList(base, o)) /\ NamesOnce(MergeList(base, o), more, Mentions(more))
    BY <1>3, <1>9, <1>10 DEF Good
  <1> QED
    BY <1>11 DEF o

-----------------------------------------------------------------------------
(* What a row inherits, merged.                                            *)

LEMMA ConditionsLayers ==
    ASSUME NEW m, NEW told, IsTold(told, m)
    PROVE  /\ IsLayers(Conditions(told), 2 * m) /\ IsLayers(Overrides(told), m)
           /\ \A i \in 1..m : /\ Conditions(told)[2 * i - 1] = told[i].conditions
                              /\ Conditions(told)[2 * i] = told[i].override
                              /\ Overrides(told)[i] = told[i].override
  <1>1. m \in Nat /\ 2 * m \in Nat /\ Len(told) = m /\ DOMAIN told = 1..m
    BY DEF IsTold
  <1>2. \A i \in 1..m : IsDictionary(told[i].conditions) /\ IsDictionary(told[i].override)
    BY DEF IsTold, IsContent
  <1>3. IsLayers(Overrides(told), m) /\ \A i \in 1..m : Overrides(told)[i] = told[i].override
    BY <1>1, <1>2 DEF Overrides, IsLayers
  <1>4. /\ DOMAIN Conditions(told) = 1..(2 * m)
        /\ \A i \in 1..(2 * m) : Conditions(told)[i] = IF i % 2 = 1 THEN told[(i + 1) \div 2].conditions
                                                       ELSE told[i \div 2].override
    BY <1>1 DEF Conditions
  <1>5. ASSUME NEW i \in 1..(2 * m)
        PROVE  \/ i % 2 = 1 /\ (i + 1) \div 2 \in 1..m
               \/ i % 2 # 1 /\ i \div 2 \in 1..m
    BY <1>1
  <1>6. IsLayers(Conditions(told), 2 * m)
    <2> SUFFICES ASSUME NEW i \in 1..(2 * m) PROVE IsDictionary(Conditions(told)[i])
      BY <1>1, <1>4 DEF IsLayers
    <2>1. CASE i % 2 = 1 /\ (i + 1) \div 2 \in 1..m
      BY <1>2, <1>4, <2>1
    <2>2. CASE i % 2 # 1 /\ i \div 2 \in 1..m
      BY <1>2, <1>4, <2>2
    <2> QED
      BY <1>5, <2>1, <2>2
  <1>7. ASSUME NEW i \in 1..m
        PROVE  Conditions(told)[2 * i - 1] = told[i].conditions /\ Conditions(told)[2 * i] = told[i].override
    <2>1. /\ 2 * i - 1 \in 1..(2 * m) /\ (2 * i - 1) % 2 = 1 /\ ((2 * i - 1) + 1) \div 2 = i
          /\ 2 * i \in 1..(2 * m) /\ (2 * i) % 2 = 0 /\ (2 * i) \div 2 = i
      BY <1>1
    <2> QED
      BY <1>4, <2>1
  <1> QED
    BY <1>3, <1>6, <1>7

LEMMA FirstLayers ==
    ASSUME NEW n \in Nat, NEW k, IsLayers(k, n + 1)
    PROVE  LET s == [i \in 1..n |-> k[i]] IN IsLayers(s, n) /\ \A i \in 1..n : k[i] = s[i]
  BY DEF IsLayers

LEMMA ConditionsMore ==
    ASSUME NEW m, NEW told, IsTold(told, m), NEW more, IsTold(more, m + 1), \A i \in 1..m : more[i] = told[i]
    PROVE  /\ Spoken(Conditions(more)) = DeepMerge(DeepMerge(Spoken(Conditions(told)), more[m + 1].conditions),
                                                   more[m + 1].override)
           /\ Spoken(Overrides(more)) = DeepMerge(Spoken(Overrides(told)), more[m + 1].override)
  <1> DEFINE s == Conditions(told)
             t == Conditions(more)
             n == 2 * m
             u == [i \in 1..(n + 1) |-> t[i]]
  <1>1. m \in Nat /\ m + 1 \in Nat /\ n \in Nat /\ n + 1 \in Nat /\ (n + 1) + 1 = 2 * (m + 1) /\ n + 1 = 2 * (m + 1) - 1
    BY DEF IsTold
  <1>2. /\ IsLayers(s, n) /\ IsLayers(t, (n + 1) + 1)
        /\ t[n + 1] = more[m + 1].conditions /\ t[(n + 1) + 1] = more[m + 1].override
        /\ IsLayers(Overrides(told), m) /\ IsLayers(Overrides(more), m + 1)
        /\ Overrides(more)[m + 1] = more[m + 1].override
    <2>1. m + 1 \in 1..(m + 1)
      BY <1>1
    <2> QED
      BY <1>1, <2>1, ConditionsLayers
  <1>3. \A i \in 1..m : Overrides(more)[i] = Overrides(told)[i]
    <2>1. \A i \in 1..m : i \in 1..(m + 1)
      BY <1>1
    <2> QED
      BY <2>1, ConditionsLayers
  <1>4. \A i \in 1..n : t[i] = s[i]
    <2> SUFFICES ASSUME NEW i \in 1..n PROVE t[i] = s[i]
      OBVIOUS
    <2>1. Len(told) = m /\ Len(more) = m + 1 /\ i \in 1..(2 * (m + 1))
      BY <1>1 DEF IsTold
    <2>2. \/ i % 2 = 1 /\ (i + 1) \div 2 \in 1..m
          \/ i % 2 # 1 /\ i \div 2 \in 1..m
      BY <1>1
    <2>3. /\ s[i] = IF i % 2 = 1 THEN told[(i + 1) \div 2].conditions ELSE told[i \div 2].override
          /\ t[i] = IF i % 2 = 1 THEN more[(i + 1) \div 2].conditions ELSE more[i \div 2].override
      BY <2>1 DEF Conditions
    <2> QED
      BY <2>2, <2>3
  <1> HIDE DEF s, t, n
  <1>5. IsLayers(u, n + 1) /\ (\A i \in 1..(n + 1) : t[i] = u[i])
    BY <1>1, <1>2, FirstLayers
  <1>6. u[n + 1] = t[n + 1] /\ \A i \in 1..n : u[i] = s[i]
    BY <1>1, <1>4, <1>5
  <1> HIDE DEF u
  <1>7. Spoken(t) = DeepMerge(Spoken(u), t[(n + 1) + 1])
    BY <1>2, <1>5, SpokenMerge
  <1>8. Spoken(u) = DeepMerge(Spoken(s), t[n + 1])
    BY <1>2, <1>5, <1>6, SpokenMerge
  <1>9. Spoken(Overrides(more)) = DeepMerge(Spoken(Overrides(told)), more[m + 1].override)
    BY <1>2, <1>3, SpokenMerge
  <1> QED
    BY <1>2, <1>7, <1>8, <1>9 DEF s, t

LEMMA InheritsMore ==
    ASSUME NEW m, NEW told, IsTold(told, m), NEW more, IsTold(more, m + 1), \A i \in 1..m : more[i] = told[i],
           NEW value, Inherits(value, told), IsList(value.patch)
    PROVE  LET w == MergeRow(value, more[m + 1]) IN Inherits(w, more) /\ IsList(w.patch)
  <1> DEFINE c == more[m + 1]
             w == MergeRow(value, c)
  <1>1. /\ w.conditions = DeepMerge(DeepMerge(value.conditions, c.conditions), c.override)
        /\ w.override = DeepMerge(value.override, c.override)
        /\ w.patch = MergeList(value.patch, c.patch)
    BY DEF MergeRow
  <1>2. value.conditions = Spoken(Conditions(told)) /\ value.override = Spoken(Overrides(told))
        /\ NamesOnce(value.patch, told, Mentions(told))
    BY DEF Inherits
  <1>3. IsList(MergeList(value.patch, c.patch)) /\ NamesOnce(MergeList(value.patch, c.patch), more, Mentions(more))
    BY <1>2, ListMerge
  <1> HIDE DEF w
  <1>4. Inherits(w, more) /\ IsList(w.patch)
    BY <1>1, <1>2, <1>3, ConditionsMore DEF Inherits
  <1> QED
    BY <1>4 DEF w

LEMMA InheritsNothing ==
    ASSUME NEW told, IsTold(told, 0)
    PROVE  Inherits(Unmerged, told) /\ IsList(Unmerged.patch)
  <1>1. DOMAIN told = {} /\ Len(told) = 0
    BY DEF IsTold
  <1>2. Overrides(told) = NoKeys /\ Conditions(told) = NoKeys /\ DOMAIN NoKeys = {} /\ IsTable(NoKeys)
    BY <1>1 DEF Overrides, Conditions, NoKeys, IsTable
  <1>3. Spoken(NoKeys) = NoKeys
    <2>1. DOMAIN Spoken(NoKeys) = {} /\ IsTable(Spoken(NoKeys))
      BY <1>2, SpokenIs, LastDomain
    <2> QED
      BY <1>2, <2>1 DEF IsTable
  <1>4. Mentions(told) = {}
    BY <1>1 DEF Mentions
  <1>5. NamesOnce(<<>>, told, {}) /\ IsList(<<>>)
    BY DEF NamesOnce, IsList, Range, IsInjective
  <1>6. Unmerged.conditions = NoKeys /\ Unmerged.override = NoKeys /\ Unmerged.patch = <<>>
    BY DEF Unmerged
  <1> QED
    BY <1>2, <1>3, <1>4, <1>5, <1>6 DEF Inherits

-----------------------------------------------------------------------------
(* The rows that are known, and what is told of them.                      *)

LEMMA KnownRow ==
    ASSUME NEW known, known \subseteq Writable, NEW v \in Ids(known)
    PROVE  /\ RowIn(known, v) \in known /\ RowIn(known, v).id = v /\ v \in VariantIds
           /\ IsContent(RowIn(known, v).content)
           /\ RowIn(known, v).parent \in VariantIds \cup {Absent}
  <1>1. \E row \in known : row.id = v
    BY DEF Ids
  <1>2. RowIn(known, v) \in known /\ RowIn(known, v).id = v
    BY <1>1 DEF RowIn
  <1> QED
    BY <1>2, ResolutionAssumption

LEMMA CommittedRow ==
    ASSUME ReaderTypes
    PROVE  /\ Committed \subseteq Writable
           /\ \A row \in Committed : row.id \in VariantIds /\ row = table[row.id] /\ Exists(row)
           /\ \A v \in VariantIds : Exists(table[v]) => table[v] \in Committed /\ table[v].id = v
  BY DEF ReaderTypes, Committed, Exists

LEMMA ToldIs ==
    ASSUME NEW known, known \subseteq Writable, NEW chain \in Seq(Ids(known)), NEW n \in 0..Len(chain)
    PROVE  IsTold(Told(known, chain, n), n)
  <1>1. n \in Nat /\ \A i \in 1..n : i \in 1..Len(chain)
    OBVIOUS
  <1>2. \A i \in 1..n : chain[i] \in Ids(known)
    BY <1>1
  <1>3. DOMAIN Told(known, chain, n) = 1..n /\ Len(Told(known, chain, n)) = n
    BY <1>1 DEF Told
  <1>4. \A i \in 1..n : IsContent(Told(known, chain, n)[i])
    BY <1>2, KnownRow DEF Told
  <1> QED
    BY <1>1, <1>3, <1>4 DEF IsTold

LEMMA NothingTold == \A known, chain : Told(known, chain, 0) = Told({}, <<>>, 0) /\ IsTold(Told(known, chain, 0), 0)
  BY DEF Told, IsTold

\* Before anything is merged.
LEMMA NotMerged ==
    ASSUME lookup'.next = 0, NEW k, Inherits(lookup'.merged, Told(k, <<>>, 0)), IsList(lookup'.merged.patch),
           lookup'.chain \in Seq(VariantIds), reader'.at # "resolved"
    PROVE  Merging'
  <1>1. Len(lookup'.chain) \in Nat
    OBVIOUS
  <1> QED
    BY <1>1, NothingTold DEF Merging

\* What a step that leaves the chain alone keeps.
LEMMA MergingStays ==
    ASSUME Merging, lookup' = lookup, reader'.known = reader.known,
           reader'.at = "resolved" => lookup.next = Len(lookup.chain),
           reader'.at \notin {"merging", "resolved"} => lookup.next = 0
    PROVE  Merging'
  BY DEF Merging

-----------------------------------------------------------------------------
(* The steps.                                                              *)

LEMMA ResolutionInvInit == ResolutionInit => ResolutionInv
  <1> SUFFICES ASSUME ResolutionInit PROVE ResolutionInv
    OBVIOUS
  <1>1. ReaderTypes
    BY DEF ResolutionInit, StoredTables, ReaderTypes, Resolving, Conclusions
  <1>2. KnownOnce /\ KnownSeen /\ AllAsked /\ NotFound
    BY DEF ResolutionInit, KnownOnce, KnownSeen, AllAsked, NotFound, Ids, Resolving, Conclusions
  <1>3. Climbing
    BY DEF ResolutionInit, Climbing, Resolving
  <1>4. Merging
    <2>1. lookup.next = 0 /\ lookup.chain = <<>> /\ lookup.merged = Unmerged /\ reader.at = "idle"
      BY DEF ResolutionInit
    <2>2. Inherits(Unmerged, Told(reader.known, <<>>, 0)) /\ IsList(Unmerged.patch)
      BY NothingTold, InheritsNothing
    <2> QED
      BY <2>1, <2>2 DEF Merging
  <1> QED
    BY <1>1, <1>2, <1>3, <1>4 DEF ResolutionInv

LEMMA OverwriteStep ==
    ASSUME ResolutionInv, Overwrite
    PROVE  ResolutionInv'
  <1> USE DEF ResolutionInv
  <1>1. PICK v \in VariantIds : \E row \in {Absent} \cup RowsFor(v) : table' = [table EXCEPT ![v] = row]
    BY DEF Overwrite
  <1>2. PICK row \in {Absent} \cup RowsFor(v) : table' = [table EXCEPT ![v] = row]
    BY <1>1
  <1>3. /\ reader' = [reader EXCEPT !.seen = @ \cup Committed'] /\ lookup' = lookup
    BY DEF Overwrite
  <1>4. /\ reader'.at = reader.at /\ reader'.wants = reader.wants /\ reader'.known = reader.known
        /\ reader'.requested = reader.requested /\ reader'.seen = reader.seen \cup Committed'
        /\ reader' = [at |-> reader'.at, wants |-> reader'.wants, known |-> reader'.known,
                      requested |-> reader'.requested, seen |-> reader'.seen]
    BY <1>3 DEF ReaderTypes
  <1>5. ReaderTypes'
    <2>1. row = Absent \/ (row \in Writable /\ row.id = v)
      BY <1>2 DEF RowsFor
    <2>2. table' \in [VariantIds -> {Absent} \cup Writable]
      BY <1>2, <2>1 DEF ReaderTypes
    <2>3. \A u \in VariantIds : Exists(table'[u]) => table'[u].id = u
      BY <1>2, <2>1 DEF ReaderTypes, Exists
    <2> QED
      BY <1>3, <1>4, <2>2, <2>3 DEF ReaderTypes
  <1>6. KnownOnce' /\ NotFound'
    BY <1>3, <1>4 DEF KnownOnce, NotFound
  <1>7. KnownSeen'
    BY <1>4 DEF KnownSeen
  <1>8. AllAsked'
    BY <1>3, <1>4 DEF AllAsked, Needed
  <1>9. Climbing'
    BY <1>3, <1>4 DEF Climbing
  <1>10. Merging'
    BY <1>3, <1>4 DEF Merging
  <1> QED
    BY <1>5, <1>6, <1>7, <1>8, <1>9, <1>10

LEMMA RequestVariantsStep ==
    ASSUME ResolutionInv, NEW vs \in SUBSET VariantIds, RequestVariants(vs)
    PROVE  ResolutionInv'
  <1> USE DEF ResolutionInv
  <1>1. /\ reader.at = "idle" /\ table' = table /\ lookup' = lookup
        /\ reader' = [at |-> "fetching", wants |-> vs, known |-> {row \in Committed : row.id \in vs},
                      requested |-> {}, seen |-> Committed]
    BY DEF RequestVariants
  <1>2. /\ reader'.at = "fetching" /\ reader'.wants = vs /\ reader'.known = {row \in Committed : row.id \in vs}
        /\ reader'.requested = {} /\ reader'.seen = Committed
    BY <1>1
  <1>3. Committed' = Committed
    BY <1>1 DEF Committed
  <1>4. ReaderTypes'
    BY <1>1, <1>2, CommittedRow DEF ReaderTypes
  <1>5. KnownOnce'
    BY <1>2, CommittedRow DEF KnownOnce, Ids
  <1>6. KnownSeen'
    BY <1>2, <1>3 DEF KnownSeen
  <1>7. AllAsked' /\ NotFound'
    BY <1>2 DEF AllAsked, NotFound, Conclusions, Resolving
  <1>8. Climbing'
    BY <1>1, <1>2 DEF Climbing, Resolving
  <1>9. Merging'
    <2>1. lookup.chain = <<>> /\ lookup.next = 0
      BY <1>1 DEF Climbing, Merging, Resolving
    <2>2. lookup'.chain \in Seq(VariantIds)
      BY <1>1, <2>1
    <2> QED
      BY <1>1, <1>2, <2>1, <2>2, NotMerged DEF Merging
  <1> QED
    BY <1>4, <1>5, <1>6, <1>7, <1>8, <1>9

LEMMA FetchParentsStep ==
    ASSUME ResolutionInv, FetchParents
    PROVE  ResolutionInv'
  <1> USE DEF ResolutionInv
  <1>1. /\ reader.at = "fetching" /\ table' = table /\ lookup' = lookup
        /\ reader' = [reader EXCEPT !.requested = @ \cup Needed, !.known = @ \cup {row \in Committed : row.id \in Needed}]
    BY DEF FetchParents
  <1>2. /\ reader'.at = "fetching" /\ reader'.wants = reader.wants
        /\ reader'.known = reader.known \cup {row \in Committed : row.id \in Needed}
        /\ reader'.requested = reader.requested \cup Needed /\ reader'.seen = reader.seen
        /\ reader' = [at |-> reader'.at, wants |-> reader'.wants, known |-> reader'.known,
                      requested |-> reader'.requested, seen |-> reader'.seen]
    BY <1>1 DEF ReaderTypes
  <1>3. Committed' = Committed
    BY <1>1 DEF Committed
  <1>4. Needed \subseteq VariantIds /\ Needed \cap Ids(reader.known) = {}
    <2>1. \A row \in reader.known : row.parent \in VariantIds \cup {Absent}
      BY ResolutionAssumption DEF ReaderTypes
    <2> QED
      BY <2>1 DEF Needed
  <1>5. ReaderTypes'
    BY <1>1, <1>2, <1>4, CommittedRow DEF ReaderTypes
  <1>6. KnownOnce'
    <2>1. ASSUME NEW r \in reader'.known, NEW q \in reader'.known, r.id = q.id PROVE r = q
      <3>1. \A a \in reader.known : a.id \notin Needed
        BY <1>4 DEF Ids
      <3>2. (r \in reader.known /\ q \in reader.known) \/ (r \in Committed /\ q \in Committed)
        BY <1>2, <2>1, <3>1
      <3> QED
        BY <2>1, <3>2, CommittedRow DEF KnownOnce
    <2>2. Ids(reader'.known) \subseteq reader'.wants \cup reader'.requested
      BY <1>2 DEF KnownOnce, Ids
    <2> QED
      BY <2>1, <2>2 DEF KnownOnce
  <1>7. KnownSeen'
    BY <1>1, <1>2, <1>3 DEF KnownSeen
  <1>8. AllAsked' /\ NotFound'
    BY <1>2 DEF AllAsked, NotFound, Conclusions, Resolving
  <1>9. Climbing'
    BY <1>1, <1>2 DEF Climbing, Resolving
  <1>10. Merging'
    <2>1. lookup.chain = <<>> /\ lookup.next = 0
      BY <1>1 DEF Climbing, Merging, Resolving
    <2>2. lookup'.chain \in Seq(VariantIds)
      BY <1>1, <2>1
    <2> QED
      BY <1>1, <1>2, <2>1, <2>2, NotMerged DEF Merging
  <1> QED
    BY <1>5, <1>6, <1>7, <1>8, <1>9, <1>10

LEMMA ResolveStep ==
    ASSUME ResolutionInv, NEW v \in VariantIds, Resolve(v)
    PROVE  ResolutionInv'
  <1> USE DEF ResolutionInv
  <1>1. /\ reader.at = "fetching" /\ Needed = {} /\ v \in reader.wants /\ table' = table
        /\ reader' = [reader EXCEPT !.at = IF v \in Ids(reader.known) THEN "climbing" ELSE "not found"]
        /\ lookup' = [lookup EXCEPT !.of = v, !.current = v]
    BY DEF Resolve
  <1>2. /\ reader'.at = IF v \in Ids(reader.known) THEN "climbing" ELSE "not found"
        /\ reader'.wants = reader.wants /\ reader'.known = reader.known
        /\ reader'.requested = reader.requested /\ reader'.seen = reader.seen
        /\ reader' = [at |-> reader'.at, wants |-> reader'.wants, known |-> reader'.known,
                      requested |-> reader'.requested, seen |-> reader'.seen]
    BY <1>1 DEF ReaderTypes
  <1>3. /\ lookup'.of = v /\ lookup'.current = v /\ lookup'.chain = lookup.chain /\ lookup'.next = lookup.next
        /\ lookup'.merged = lookup.merged
        /\ lookup' = [of |-> lookup'.of, current |-> lookup'.current, chain |-> lookup'.chain,
                      next |-> lookup'.next, merged |-> lookup'.merged]
    BY <1>1 DEF ReaderTypes
  <1>4. lookup.chain = <<>> /\ lookup.next = 0
    BY <1>1 DEF Climbing, Merging, Resolving
  <1>5. ReaderTypes'
    BY <1>1, <1>2, <1>3 DEF ReaderTypes, Resolving, Conclusions
  <1>6. KnownOnce' /\ NotFound'
    BY <1>2, <1>3 DEF KnownOnce, NotFound
  <1>7. KnownSeen'
    <2>1. Committed' = Committed
      BY <1>1 DEF Committed
    <2> QED
      BY <1>1, <1>2, <2>1 DEF KnownSeen
  <1>8. AllAsked'
    BY <1>1, <1>2, <1>3 DEF AllAsked, Needed
  <1>9. Climbing'
    <2>1. Leads(reader.known, <<>>, v, v)
      BY DEF Leads, IsInjective
    <2> QED
      BY <1>2, <1>3, <1>4, <2>1 DEF Climbing, Resolving
  <1>10. Merging'
    <2>1. lookup'.chain \in Seq(VariantIds)
      BY <1>3, <1>4
    <2> QED
      BY <1>2, <1>3, <1>4, <2>1, NotMerged DEF Merging
  <1> QED
    BY <1>5, <1>6, <1>7, <1>8, <1>9, <1>10

LEMMA OneMoreUp ==
    ASSUME NEW known, known \subseteq Writable, NEW chain, NEW v, NEW of, Leads(known, chain, v, of),
           v \in Ids(known), v \notin Range(chain)
    PROVE  Leads(known, <<v>> \o chain, RowIn(known, v).parent, of)
  <1> DEFINE k == <<v>> \o chain
             V == Ids(known)
  <1>1. chain \in Seq(V) /\ v \in V /\ IsInjective(chain)
    BY DEF Leads
  <1> HIDE DEF V
  <1>2. /\ Len(chain) \in Nat /\ DOMAIN chain = 1..Len(chain) /\ k \in Seq(V) /\ Len(k) = Len(chain) + 1
        /\ DOMAIN k = 1..(Len(chain) + 1)
        /\ k[1] = v /\ \A i \in 2..(Len(chain) + 1) : k[i] = chain[i - 1]
    BY <1>1
  <1> HIDE DEF k
  <1>3. \A i \in 2..(Len(chain) + 1) : i - 1 \in 1..Len(chain) /\ k[i] \in Range(chain)
    BY <1>2 DEF Range
  <1>4. IsInjective(k)
    <2> SUFFICES ASSUME NEW i \in DOMAIN k, NEW j \in DOMAIN k, k[i] = k[j] PROVE i = j
      BY DEF IsInjective
    <2>1. (i = 1 \/ i \in 2..(Len(chain) + 1)) /\ (j = 1 \/ j \in 2..(Len(chain) + 1))
      BY <1>2
    <2>2. ~(i = 1 /\ j \in 2..(Len(chain) + 1)) /\ ~(j = 1 /\ i \in 2..(Len(chain) + 1))
      BY <1>2, <1>3
    <2>3. ASSUME i \in 2..(Len(chain) + 1), j \in 2..(Len(chain) + 1) PROVE i = j
      <3>1. chain[i - 1] = chain[j - 1] /\ i - 1 \in DOMAIN chain /\ j - 1 \in DOMAIN chain
        BY <1>2, <1>3, <2>3
      <3>2. i - 1 = j - 1
        BY <1>1, <3>1 DEF IsInjective
      <3> QED
        BY <2>3, <3>2
    <2> QED
      BY <2>1, <2>2, <2>3
  <1>5. \A i \in 2..Len(k) : RowIn(known, k[i]).parent = k[i - 1]
    <2> SUFFICES ASSUME NEW i \in 2..Len(k) PROVE RowIn(known, k[i]).parent = k[i - 1]
      OBVIOUS
    <2>1. CASE i = 2
      <3>1. Len(chain) # 0 /\ k[2] = chain[1] /\ k[1] = v
        BY <1>2, <2>1
      <3>2. chain # <<>>
        BY <3>1
      <3>3. v = RowIn(known, chain[1]).parent
        BY <3>2 DEF Leads
      <3> QED
        BY <2>1, <3>1, <3>3
    <2>2. CASE i # 2
      <3>1. i - 1 \in 2..Len(chain) /\ k[i] = chain[i - 1] /\ k[i - 1] = chain[(i - 1) - 1]
        BY <1>2, <2>2
      <3>2. RowIn(known, chain[i - 1]).parent = chain[(i - 1) - 1]
        BY <3>1 DEF Leads
      <3> QED
        BY <3>1, <3>2
    <2> QED
      BY <2>1, <2>2
  <1>6. k[Len(k)] = of
    <2>1. CASE chain = <<>>
      <3>1. Len(k) = 1 /\ v = of
        BY <1>2, <2>1 DEF Leads
      <3> QED
        BY <1>2, <3>1
    <2>2. CASE chain # <<>>
      <3>1. chain[Len(chain)] = of
        BY <2>2 DEF Leads
      <3>2. Len(chain) # 0
        BY <1>1, <2>2
      <3>3. Len(k) \in 2..(Len(chain) + 1) /\ Len(k) - 1 = Len(chain)
        BY <1>2, <3>2
      <3> QED
        BY <1>2, <3>1, <3>3
    <2> QED
      BY <2>1, <2>2
  <1>7. k # <<>> /\ k[1] = v
    BY <1>2
  <1>8. Leads(known, k, RowIn(known, v).parent, of)
    BY <1>2, <1>4, <1>5, <1>6, <1>7 DEF Leads, V
  <1> QED
    BY <1>8 DEF k

LEMMA ClimbStep ==
    ASSUME ResolutionInv, Climb
    PROVE  ResolutionInv'
  <1> USE DEF ResolutionInv
  <1>1. /\ reader.at = "climbing" /\ table' = table /\ reader' = reader
        /\ lookup.current \in Ids(reader.known) \ Range(lookup.chain)
        /\ lookup' = [lookup EXCEPT !.chain = <<lookup.current>> \o @,
                                    !.current = RowIn(reader.known, lookup.current).parent]
    BY DEF Climb
  <1>2. /\ lookup'.of = lookup.of /\ lookup'.next = lookup.next /\ lookup'.merged = lookup.merged
        /\ lookup'.chain = <<lookup.current>> \o lookup.chain
        /\ lookup'.current = RowIn(reader.known, lookup.current).parent
        /\ lookup' = [of |-> lookup'.of, current |-> lookup'.current, chain |-> lookup'.chain,
                      next |-> lookup'.next, merged |-> lookup'.merged]
    BY <1>1 DEF ReaderTypes
  <1>3. ReaderTypes' /\ KnownOnce'
    BY <1>1, <1>2 DEF ReaderTypes, KnownOnce
  <1>4. KnownSeen'
    <2>1. Committed' = Committed
      BY <1>1 DEF Committed
    <2> QED
      BY <1>1, <2>1 DEF KnownSeen
  <1>5. AllAsked' /\ NotFound'
    BY <1>1, <1>2 DEF AllAsked, NotFound, Needed
  <1>6. Leads(reader.known, lookup'.chain, lookup'.current, lookup.of)
    <2>1. reader.known \subseteq Writable /\ Leads(reader.known, lookup.chain, lookup.current, lookup.of)
      BY <1>1 DEF ReaderTypes, Climbing, Resolving
    <2> QED
      BY <1>1, <1>2, <2>1, OneMoreUp
  <1>7. Climbing'
    BY <1>1, <1>2, <1>6 DEF Climbing, Resolving
  <1>8. Merging'
    <2>1. lookup.next = 0 /\ reader'.at = "climbing"
      BY <1>1 DEF Merging
    <2>2. lookup'.chain \in Seq(Ids(reader.known)) /\ Ids(reader.known) \subseteq VariantIds
      BY <1>6, KnownRow DEF Leads, ReaderTypes
    <2>3. lookup'.chain \in Seq(VariantIds)
      BY <2>2
    <2>4. Inherits(lookup'.merged, Told(reader.known, <<>>, 0)) /\ IsList(lookup'.merged.patch)
      BY <1>2, <2>1, NothingTold DEF Merging
    <2> QED
      BY <1>2, <2>1, <2>3, <2>4, NotMerged
  <1> QED
    BY <1>3, <1>4, <1>5, <1>7, <1>8

\* Steps that only say how far the request is.
LEMMA OnlyStage ==
    ASSUME ResolutionInv, reader.at \in Resolving, NEW s \in Resolving, reader' = [reader EXCEPT !.at = s],
           table' = table, lookup' = lookup,
           s \in {"merging", "resolved"} => lookup.current = Absent,
           s = "circular" => lookup.current \in Range(lookup.chain),
           s = "parent not found" => lookup.current \notin Ids(reader.known) \cup {Absent},
           s = "resolved" => lookup.next = Len(lookup.chain),
           s \notin {"merging", "resolved"} => lookup.next = 0
    PROVE  ResolutionInv'
  <1> USE DEF ResolutionInv
  <1>1. /\ reader'.at = s /\ reader'.wants = reader.wants /\ reader'.known = reader.known
        /\ reader'.requested = reader.requested /\ reader'.seen = reader.seen
        /\ reader' = [at |-> reader'.at, wants |-> reader'.wants, known |-> reader'.known,
                      requested |-> reader'.requested, seen |-> reader'.seen]
    BY DEF ReaderTypes
  <1>2. reader.at # "idle" /\ s # "idle" /\ s # "not found"
    BY DEF Resolving
  <1>3. ReaderTypes' /\ KnownOnce'
    BY <1>1 DEF ReaderTypes, KnownOnce
  <1>4. KnownSeen'
    <2>1. Committed' = Committed
      BY DEF Committed
    <2> QED
      BY <1>1, <1>2, <2>1 DEF KnownSeen
  <1>5. AllAsked' /\ NotFound'
    BY <1>1, <1>2 DEF AllAsked, NotFound, Needed
  <1>6. Climbing'
    BY <1>1 DEF Climbing
  <1>7. Merging'
    BY <1>1 DEF Merging
  <1> QED
    BY <1>3, <1>4, <1>5, <1>6, <1>7

LEMMA StopClimbingStep ==
    ASSUME ResolutionInv, StopClimbing
    PROVE  ResolutionInv'
  <1>1. reader.at = "climbing" /\ reader.at \in Resolving /\ table' = table /\ lookup' = lookup /\ lookup.next = 0
    BY DEF StopClimbing, Resolving, ResolutionInv, Merging
  <1>2. ASSUME lookup.current = Absent, reader' = [reader EXCEPT !.at = "merging"] PROVE ResolutionInv'
    <2>1. "merging" \in Resolving
      BY DEF Resolving
    <2> QED
      BY <1>1, <1>2, <2>1, OnlyStage
  <1>3. ASSUME lookup.current \in Range(lookup.chain), reader' = [reader EXCEPT !.at = "circular"] PROVE ResolutionInv'
    <2>1. "circular" \in Resolving
      BY DEF Resolving
    <2> QED
      BY <1>1, <1>3, <2>1, OnlyStage
  <1>4. ASSUME lookup.current \notin {Absent} \cup Range(lookup.chain) \cup Ids(reader.known),
               reader' = [reader EXCEPT !.at = "parent not found"]
        PROVE  ResolutionInv'
    <2>1. "parent not found" \in Resolving
      BY DEF Resolving
    <2> QED
      BY <1>1, <1>4, <2>1, OnlyStage
  <1> QED
    BY <1>2, <1>3, <1>4 DEF StopClimbing

LEMMA MergeStep ==
    ASSUME ResolutionInv, Merge
    PROVE  ResolutionInv'
  <1> USE DEF ResolutionInv
  <1> DEFINE n == lookup.next
             told == Told(reader.known, lookup.chain, n)
             more == Told(reader.known, lookup.chain, n + 1)
  <1>1. /\ reader.at = "merging" /\ table' = table /\ reader' = reader /\ n < Len(lookup.chain)
        /\ lookup' = [lookup EXCEPT !.next = n + 1, !.merged = MergeRow(@, ContentOf(lookup.chain[n + 1]))]
    BY DEF Merge
  <1>2. /\ lookup'.of = lookup.of /\ lookup'.chain = lookup.chain /\ lookup'.current = lookup.current
        /\ lookup'.next = n + 1 /\ lookup'.merged = MergeRow(lookup.merged, ContentOf(lookup.chain[n + 1]))
        /\ lookup' = [of |-> lookup'.of, current |-> lookup'.current, chain |-> lookup'.chain,
                      next |-> lookup'.next, merged |-> lookup'.merged]
    BY <1>1 DEF ReaderTypes
  <1>3. ReaderTypes' /\ KnownOnce'
    BY <1>1, <1>2 DEF ReaderTypes, KnownOnce
  <1>4. KnownSeen'
    <2>1. Committed' = Committed
      BY <1>1 DEF Committed
    <2> QED
      BY <1>1, <2>1 DEF KnownSeen
  <1>5. AllAsked' /\ NotFound'
    BY <1>1, <1>2 DEF AllAsked, NotFound, Needed
  <1>6. Climbing'
    BY <1>1, <1>2 DEF Climbing
  <1>7. /\ reader.known \subseteq Writable /\ lookup.chain \in Seq(Ids(reader.known))
        /\ n \in 0..Len(lookup.chain) /\ Len(lookup.chain) \in Nat /\ n + 1 \in 0..Len(lookup.chain)
    <2>1. lookup.chain \in Seq(Ids(reader.known)) /\ reader.known \subseteq Writable /\ n \in 0..Len(lookup.chain)
      BY <1>1 DEF Climbing, Resolving, Leads, ReaderTypes, Merging
    <2>2. Len(lookup.chain) \in Nat
      BY <2>1
    <2> QED
      BY <1>1, <2>1, <2>2
  <1>8. IsTold(told, n) /\ IsTold(more, n + 1)
    BY <1>7, ToldIs
  <1>9. n \in Nat /\ (\A i \in 1..n : more[i] = told[i]) /\ more[n + 1] = ContentOf(lookup.chain[n + 1])
    BY <1>7 DEF Told, ContentOf
  <1>10. Inherits(lookup.merged, told) /\ IsList(lookup.merged.patch)
    BY DEF Merging
  <1> HIDE DEF told, more
  <1>11. Inherits(lookup'.merged, more) /\ IsList(lookup'.merged.patch)
    BY <1>2, <1>8, <1>9, <1>10, InheritsMore
  <1>12. Merging'
    BY <1>1, <1>2, <1>7, <1>11 DEF Merging, more
  <1> QED
    BY <1>3, <1>4, <1>5, <1>6, <1>12

LEMMA AnswerResolvedStep ==
    ASSUME ResolutionInv, AnswerResolved
    PROVE  ResolutionInv'
  <1>1. /\ reader.at = "merging" /\ lookup.next = Len(lookup.chain) /\ reader' = [reader EXCEPT !.at = "resolved"]
        /\ table' = table /\ lookup' = lookup
    BY DEF AnswerResolved
  <1>2. reader.at \in Resolving /\ "resolved" \in Resolving /\ lookup.current = Absent
    BY <1>1 DEF Resolving, ResolutionInv, Climbing
  <1> QED
    BY <1>1, <1>2, OnlyStage

LEMMA ResolutionInvStep == ResolutionInv /\ [ResolutionNext]_resolutionVars => ResolutionInv'
  <1> SUFFICES ASSUME ResolutionInv, [ResolutionNext]_resolutionVars PROVE ResolutionInv'
    OBVIOUS
  <1>1. CASE UNCHANGED resolutionVars
    <2>1. table' = table /\ reader' = reader /\ lookup' = lookup
      BY <1>1 DEF resolutionVars
    <2> QED
      BY <2>1 DEF ResolutionInv, ReaderTypes, KnownOnce, KnownSeen, AllAsked, NotFound, Climbing, Merging, Needed, Committed
  <1>2. CASE ResolutionNext
    BY <1>2, OverwriteStep, FetchParentsStep, ClimbStep, StopClimbingStep, MergeStep, AnswerResolvedStep,
       RequestVariantsStep, ResolveStep DEF ResolutionNext
  <1> QED
    BY <1>1, <1>2

-----------------------------------------------------------------------------
(* What is answered.                                                       *)

\* What is known is stored, and what was asked for in vain is not.
LEMMA KnownIsStored ==
    ASSUME ResolutionInv, StillStored
    PROVE  /\ \A u \in Ids(reader.known) : u \in VariantIds /\ table[u] = RowIn(reader.known, u) /\ Exists(table[u])
           /\ \A u \in reader.wants \cup reader.requested : u \notin Ids(reader.known) => ~Exists(table[u])
  <1>1. ReaderTypes /\ reader.known \subseteq Writable /\ reader.known \subseteq Committed
    BY DEF ResolutionInv, ReaderTypes, StillStored
  <1>2. ASSUME NEW u \in Ids(reader.known)
        PROVE  u \in VariantIds /\ table[u] = RowIn(reader.known, u) /\ Exists(table[u])
    BY <1>1, <1>2, KnownRow, CommittedRow
  <1>3. ASSUME NEW u \in reader.wants \cup reader.requested, u \notin Ids(reader.known), Exists(table[u]) PROVE FALSE
    <2>1. u \in VariantIds
      BY <1>1 DEF ReaderTypes
    <2>2. table[u] \in Committed /\ table[u].id = u
      BY <1>1, <1>3, <2>1, CommittedRow
    <2>3. u \in Ids(Committed)
      BY <2>2 DEF Ids
    <2> QED
      BY <1>3, <2>3 DEF StillStored
  <1> QED
    BY <1>2, <1>3

\* The chain is a lineage, and so it is with what its eldest derives from.
LEMMA ChainFits ==
    ASSUME NEW n \in Nat, NEW c \in [1..n -> VariantIds], \A i, j \in 1..n : c[i] = c[j] => i = j
    PROVE  n <= Cardinality(VariantIds) /\ Cardinality(VariantIds) \in Nat
  <1>1. IsFiniteSet(VariantIds) /\ IsFiniteSet(1..n) /\ Cardinality(1..n) = n
    BY ResolutionAssumption, FS_Interval
  <1>2. c \in Injection(1..n, VariantIds)
    BY DEF Injection, IsInjective
  <1>3. Cardinality(1..n) <= Cardinality(VariantIds)
    BY <1>1, <1>2, FS_Injection
  <1> QED
    BY <1>1, <1>3, FS_CardinalityType

LEMMA IsLineage ==
    ASSUME NEW v, NEW n \in Nat \ {0}, n <= Cardinality(VariantIds) + 1, Cardinality(VariantIds) \in Nat,
           NEW line \in [1..n -> VariantIds], line[n] = v,
           \A i \in 2..n : Exists(table[line[i]]) /\ table[line[i]].parent = line[i - 1]
    PROVE  line \in Lineages(v)
  <1>1. Len(line) = n
    OBVIOUS
  <1>2. n \in 1..(Cardinality(VariantIds) + 1)
    OBVIOUS
  <1> QED
    BY <1>1, <1>2 DEF Lineages

LEMMA ChainIs ==
    ASSUME ResolutionInv, StillStored, reader.at \in Resolving, lookup.chain # <<>>
    PROVE  LET chain == lookup.chain
               line == <<lookup.current>> \o chain
               n == Len(chain)
           IN  /\ n \in Nat \ {0} /\ DOMAIN chain = 1..n /\ \A i \in 1..n : chain[i] \in Ids(reader.known)
               /\ chain \in Lineages(lookup.of)
               /\ lookup.current \in VariantIds => /\ line \in Lineages(lookup.of) /\ DOMAIN line = 1..(n + 1)
                                                   /\ line[1] = lookup.current
                                                   /\ \A i \in 1..n : line[i + 1] = chain[i]
  <1> DEFINE chain == lookup.chain
             current == lookup.current
             known == reader.known
             line == <<current>> \o chain
             n == Len(chain)
             V == Ids(known)
  <1>1. Leads(known, chain, current, lookup.of)
    BY DEF ResolutionInv, Climbing
  <1>2. /\ chain \in Seq(V) /\ IsInjective(chain) /\ chain # <<>>
        /\ \A i \in 2..Len(chain) : RowIn(known, chain[i]).parent = chain[i - 1]
        /\ chain[Len(chain)] = lookup.of /\ current = RowIn(known, chain[1]).parent
    BY <1>1 DEF Leads
  <1>3. \A u \in V : u \in VariantIds /\ table[u] = RowIn(known, u) /\ Exists(table[u])
    BY KnownIsStored
  <1> HIDE DEF chain, current, known, V
  <1>4. n \in Nat \ {0} /\ DOMAIN chain = 1..n /\ \A i \in 1..n : chain[i] \in V
    BY <1>2
  <1>5. chain \in [1..n -> VariantIds]
    <2>1. chain = [i \in 1..n |-> chain[i]]
      BY <1>2, <1>4
    <2> QED
      BY <1>3, <1>4, <2>1
  <1>6. n <= Cardinality(VariantIds) /\ Cardinality(VariantIds) \in Nat
    <2>1. \A i, j \in 1..n : chain[i] = chain[j] => i = j
      BY <1>2, <1>4 DEF IsInjective
    <2> HIDE DEF n
    <2> QED
      BY <1>4, <1>5, <2>1, ChainFits
  <1>7. \A i \in 2..n : i \in 1..n /\ Exists(table[chain[i]]) /\ table[chain[i]].parent = chain[i - 1]
    BY <1>2, <1>3, <1>4
  <1>8. chain[n] = lookup.of /\ n <= Cardinality(VariantIds) + 1
    BY <1>2, <1>4, <1>6
  <1>9. chain \in Lineages(lookup.of)
    BY <1>4, <1>5, <1>6, <1>7, <1>8, IsLineage
  <1>10. ASSUME current \in VariantIds
         PROVE  /\ line \in Lineages(lookup.of) /\ DOMAIN line = 1..(n + 1) /\ line[1] = current
                /\ \A i \in 1..n : line[i + 1] = chain[i]
    <2>1. /\ DOMAIN line = 1..(n + 1) /\ line[1] = current /\ \A i \in 1..n : line[i + 1] = chain[i]
          /\ \A i \in 2..(n + 1) : i - 1 \in 1..n /\ line[i] = chain[i - 1]
          /\ line = [i \in 1..(n + 1) |-> line[i]] /\ n + 1 \in Nat \ {0}
      BY <1>2, <1>4
    <2> HIDE DEF line, n
    <2>2. \A i \in 1..(n + 1) : i = 1 \/ i \in 2..(n + 1)
      BY <1>4
    <2>3. \A i \in 1..(n + 1) : line[i] \in VariantIds
      BY <1>3, <1>4, <1>10, <2>1, <2>2
    <2>4. line \in [1..(n + 1) -> VariantIds]
      BY <2>1, <2>3
    <2>5. ASSUME NEW i \in 2..(n + 1) PROVE Exists(table[line[i]]) /\ table[line[i]].parent = line[i - 1]
      <3>1. CASE i = 2
        <4>0. 2 \in 2..(n + 1) /\ 1 \in 1..n /\ 2 - 1 = 1
          BY <1>4
        <4>1. line[2] = chain[1] /\ line[2 - 1] = current /\ 1 \in 1..n
          BY <2>1, <4>0
        <4>2. chain[1] \in V
          BY <1>4, <4>1
        <4> QED
          BY <1>2, <1>3, <3>1, <4>1, <4>2
      <3>2. CASE i # 2
        <4>0. i - 1 \in 2..n /\ i - 1 \in 2..(n + 1)
          BY <1>4, <3>2
        <4>1. i - 1 \in 2..n /\ line[i] = chain[i - 1] /\ line[i - 1] = chain[(i - 1) - 1]
          BY <2>1, <4>0
        <4> QED
          BY <1>7, <4>1
      <3> QED
        BY <3>1, <3>2
    <2>6. line[n + 1] = lookup.of /\ n + 1 <= Cardinality(VariantIds) + 1
      <3>1. n \in 1..n
        BY <1>4
      <3>2. line[n + 1] = chain[n]
        BY <2>1, <3>1
      <3>3. n + 1 <= Cardinality(VariantIds) + 1
        BY <1>4, <1>6
      <3> QED
        BY <1>8, <3>2, <3>3
    <2>7. line \in Lineages(lookup.of)
      BY <1>6, <2>1, <2>4, <2>5, <2>6, IsLineage
    <2> QED
      BY <2>1, <2>7
  <1> QED
    BY <1>4, <1>9, <1>10 DEF chain, current, known, V

LEMMA RightAnswer ==
    ASSUME ResolutionInv, HasAnswered, StillStored
    PROVE  IsRight(reader.at, lookup.of, lookup.merged)
  <1> DEFINE v == lookup.of
             known == reader.known
             line == <<lookup.current>> \o lookup.chain
  <1>1. reader.at \in Conclusions /\ v \in reader.wants /\ Needed = {}
    BY DEF HasAnswered, ResolutionInv, AllAsked, Conclusions
  <1>2. reader.wants \subseteq VariantIds /\ reader.requested \subseteq VariantIds /\ known \subseteq Writable
    BY DEF ResolutionInv, ReaderTypes
  <1>3. CASE reader.at = "not found"
    <2>1. v \notin Ids(known)
      BY <1>3 DEF ResolutionInv, NotFound
    <2>2. ~Exists(table[v])
      BY <1>1, <2>1, KnownIsStored
    <2> QED
      BY <1>3, <2>2 DEF IsRight
  <1>4. ASSUME reader.at # "not found"
        PROVE  /\ reader.at \in Resolving /\ v \in Ids(known) /\ v \in VariantIds /\ Exists(table[v])
               /\ lookup.chain # <<>>
    <2>1. reader.at \in Resolving
      BY <1>1, <1>4 DEF Conclusions, Resolving
    <2>2. v \in Ids(known) /\ Leads(known, lookup.chain, lookup.current, v)
      BY <2>1 DEF ResolutionInv, Climbing
    <2>3. v \in VariantIds /\ Exists(table[v])
      BY <2>2, KnownIsStored
    <2>4. ASSUME lookup.chain = <<>> PROVE FALSE
      <3>1. lookup.current = v /\ Range(lookup.chain) = {}
        BY <2>2, <2>4 DEF Leads, Range
      <3>2. /\ reader.at = "circular" => lookup.current \in Range(lookup.chain)
            /\ reader.at = "parent not found" => lookup.current \notin Ids(known)
            /\ reader.at = "resolved" => lookup.current = Absent
        BY DEF ResolutionInv, Climbing
      <3> QED
        BY <1>1, <1>4, <2>2, <2>3, <3>1, <3>2, ResolutionAssumption DEF Conclusions
    <2> QED
      BY <2>1, <2>2, <2>3, <2>4
  <1>5. ASSUME reader.at # "not found"
        PROVE  /\ lookup.current = RowIn(known, lookup.chain[1]).parent /\ lookup.chain[1] \in Ids(known)
               /\ lookup.current \in VariantIds \cup {Absent}
    <2>1. Leads(known, lookup.chain, lookup.current, v)
      BY <1>4, <1>5 DEF ResolutionInv, Climbing
    <2>2. lookup.current = RowIn(known, lookup.chain[1]).parent
      BY <1>4, <1>5, <2>1 DEF Leads
    <2>3. lookup.chain[1] \in Ids(known)
      <3>1. Len(lookup.chain) \in Nat \ {0} /\ \A i \in 1..Len(lookup.chain) : lookup.chain[i] \in Ids(known)
        BY <1>4, <1>5, ChainIs
      <3>2. 1 \in 1..Len(lookup.chain)
        BY <3>1
      <3> QED
        BY <3>1, <3>2
    <2> QED
      BY <1>2, <2>2, <2>3, KnownRow
  <1>6. CASE reader.at = "circular"
    <2>1. lookup.current \in Range(lookup.chain)
      BY <1>6 DEF ResolutionInv, Climbing
    <2>2. PICK i \in DOMAIN lookup.chain : lookup.chain[i] = lookup.current
      BY <2>1 DEF Range
    <2>3. lookup.current \in VariantIds
      BY <1>4, <1>6, <2>2, ChainIs, KnownIsStored
    <2>4. /\ line \in Lineages(v) /\ DOMAIN line = 1..(Len(lookup.chain) + 1)
          /\ line[1] = lookup.current /\ line[i + 1] = lookup.current
          /\ i \in 1..Len(lookup.chain) /\ Len(lookup.chain) \in Nat
      BY <1>4, <1>6, <2>2, <2>3, ChainIs
    <2> HIDE DEF line
    <2>5. ~IsInjective(line)
      <3>1. 1 \in DOMAIN line /\ i + 1 \in DOMAIN line /\ i + 1 # 1
        BY <2>4
      <3> QED
        BY <2>4, <3>1 DEF IsInjective
    <2> QED
      BY <1>6, <2>4, <2>5 DEF IsRight
  <1>7. CASE reader.at = "parent not found"
    <2>1. lookup.current \notin Ids(known) /\ lookup.current # Absent
      BY <1>7 DEF ResolutionInv, Climbing
    <2>2. lookup.current \in VariantIds
      BY <1>5, <1>7, <2>1
    <2>3. lookup.current \in reader.requested
      <3>1. RowIn(known, lookup.chain[1]) \in known
        BY <1>2, <1>5, <1>7, KnownRow
      <3> QED
        BY <1>1, <1>5, <1>7, <2>1, <3>1 DEF Needed
    <2>4. ~Exists(table[lookup.current])
      BY <2>1, <2>3, KnownIsStored
    <2>5. line \in Lineages(v) /\ line[1] = lookup.current
      BY <1>4, <1>7, <2>2, ChainIs
    <2> HIDE DEF line
    <2> QED
      BY <1>4, <1>7, <2>4, <2>5 DEF IsRight
  <1>8. CASE reader.at = "resolved"
    <2> DEFINE chain == lookup.chain
    <2>1. lookup.current = Absent
      BY <1>8 DEF ResolutionInv, Climbing
    <2>2. /\ chain \in Lineages(v) /\ DOMAIN chain = 1..Len(chain) /\ Len(chain) \in Nat \ {0}
          /\ \A i \in 1..Len(chain) : chain[i] \in Ids(known)
      BY <1>4, <1>8, ChainIs
    <2>3. \A i \in 1..Len(chain) : table[chain[i]] = RowIn(known, chain[i]) /\ Exists(table[chain[i]])
      BY <2>2, KnownIsStored
    <2>4. Exists(table[chain[1]]) /\ table[chain[1]].parent = Absent
      BY <1>5, <1>8, <2>1, <2>2, <2>3
    <2>5. Inherits(lookup.merged, Told(known, chain, Len(chain)))
      BY <1>8 DEF ResolutionInv, Merging
    <2>6. Told(known, chain, Len(chain)) = [i \in DOMAIN chain |-> table[chain[i]].content]
      BY <2>2, <2>3 DEF Told
    <2> HIDE DEF chain
    <2> QED
      BY <1>8, <2>2, <2>4, <2>5, <2>6 DEF IsRight
  <1> QED
    BY <1>1, <1>3, <1>6, <1>7, <1>8 DEF Conclusions

LEMMA ResolutionImplies == ResolutionInv => AnswersMatchTheRows
  <1> SUFFICES ASSUME ResolutionInv PROVE AnswersMatchTheRows
    OBVIOUS
  <1>1. reader.known \subseteq reader.seen
    BY DEF ResolutionInv, KnownSeen
  <1>2. \A r, q \in reader.known : r.id = q.id => r = q
    BY DEF ResolutionInv, KnownOnce
  <1>3. HasAnswered /\ StillStored => IsRight(reader.at, lookup.of, lookup.merged)
    BY RightAnswer
  <1> QED
    BY <1>1, <1>2, <1>3 DEF AnswersMatchTheRows

\* A request knows one row of each variant it asked for, follows the chain of parents
\* through them, and merges what is on it (include_variant_parent_rows,
\* resolve_variant_from_rows).
THEOREM ResolutionInvHolds == ResolutionSpec => []ResolutionInv
  BY ResolutionInvInit, ResolutionInvStep, PTL DEF ResolutionSpec

\* Whatever is committed between the rounds of a request: what it answers of a
\* variant is what the rows it read say, and they are rows that were committed
\* meanwhile; if they are still stored, and what it missed is still missing, the
\* answer is that of the database: no such variant, a circle, a missing parent, or
\* all that the lineage says, the latest last (resolve_variant).
THEOREM AnswersAreRight == ResolutionSpec => []AnswersMatchTheRows
  BY ResolutionInvHolds, ResolutionImplies, PTL
=============================================================================
