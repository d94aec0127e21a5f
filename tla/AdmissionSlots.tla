--------------------------- MODULE AdmissionSlots ---------------------------
(***************************************************************************)
(* Who may calculate: admission_slot of api/resource_limits.py, a slot of  *)
(* the process (a semaphore) and one of the host (a locked file of         *)
(* execution_budget_dir).  Nobody waits: a request that finds no slot is   *)
(* refused and may come again.                                             *)
(***************************************************************************)
EXTENDS Naturals, FiniteSets

CONSTANTS Requests,   \* requests that simulate
          Processes,  \* API processes of the host
          NoOne,      \* no request, no process
          Limit,      \* slots of a process
          HostLimit   \* slots of the host, 0 for no budget

\* What the settings guarantee: the limits are numbers and a process has a slot at
\* least; requests come one at a time.
ASSUME SlotsAssumption == /\ IsFiniteSet(Requests) /\ NoOne \notin Requests \cup Processes
                          /\ Limit \in Nat \ {0} /\ HostLimit \in Nat

Files == 0..(HostLimit - 1)

VARIABLES semaphore,  \* free slots of each process
          locked,     \* who holds the lock of each slot file
          request     \* where a request is

slotVars == <<semaphore, locked, request>>

\* next: the slot file to try; releasing: the file is closed, the semaphore is
\* not released yet.
SlotsInit == /\ semaphore = [p \in Processes |-> Limit]
             /\ locked = [f \in Files |-> NoOne]
             /\ request = [r \in Requests |-> [at |-> "idle", in |-> NoOne, next |-> 0]]

-----------------------------------------------------------------------------
\* Operators whose names begin with Faulty are plausible mistakes in the
\* definition they precede; nothing here uses them (README, "Mutants").

AtStage(r, at) == request[r].at = at
GoesTo(r, at) == [request EXCEPT ![r].at = at]

\* The semaphore of the process, which never blocks.
Admit(r, p) ==
    /\ AtStage(r, "idle")
    /\ semaphore[p] > 0
    /\ semaphore' = [semaphore EXCEPT ![p] = @ - 1]
    /\ request' = [request EXCEPT ![r] = [at |-> IF HostLimit = 0 THEN "running" ELSE "trying", in |-> p, next |-> 0]]
    /\ UNCHANGED locked

\* _shared_slot: the files in turn, each locked if it can be at once.
IsFree(f) == locked[f] = NoOne
TryFile(r) ==
    LET f == request[r].next
    IN  /\ AtStage(r, "trying")
        /\ f \in Files
        /\ IF IsFree(f)
           THEN /\ locked' = [locked EXCEPT ![f] = r]
                /\ request' = GoesTo(r, "running")
           ELSE /\ request' = [request EXCEPT ![r].next = f + 1]
                /\ UNCHANGED locked
        /\ UNCHANGED semaphore

\* Every file was locked (429), or one could not be opened or locked (503).
Refuse(r) == /\ AtStage(r, "trying")
             /\ request' = GoesTo(r, "releasing")
             /\ UNCHANGED <<semaphore, locked>>

\* The calculation ends, however it does.
Closed(r) == [f \in Files |-> IF locked[f] = r THEN NoOne ELSE locked[f]]
Finish(r) == /\ AtStage(r, "running")
             /\ locked' = Closed(r)
             /\ request' = GoesTo(r, "releasing")
             /\ UNCHANGED semaphore

FaultyReleased(r) == IF request[r].next \in Files THEN [semaphore EXCEPT ![request[r].in] = @ + 1] ELSE semaphore
Released(r) == [semaphore EXCEPT ![request[r].in] = @ + 1]
Leave(r) == /\ AtStage(r, "releasing")
            /\ semaphore' = Released(r)
            /\ request' = [request EXCEPT ![r] = [at |-> "idle", in |-> NoOne, next |-> 0]]
            /\ UNCHANGED locked

\* The process dies and is started again: the system closes its files.
In(p) == {r \in Requests : request[r].in = p}
Crash(p) == /\ In(p) # {}
            /\ semaphore' = [semaphore EXCEPT ![p] = Limit]
            /\ locked' = [f \in Files |-> IF locked[f] \in In(p) THEN NoOne ELSE locked[f]]
            /\ request' = [r \in Requests |-> IF r \in In(p) THEN [at |-> "idle", in |-> NoOne, next |-> 0] ELSE request[r]]

SlotsNext == \/ \E r \in Requests : TryFile(r) \/ Refuse(r) \/ Finish(r) \/ Leave(r) \/ \E p \in Processes : Admit(r, p)
             \/ \E p \in Processes : Crash(p)

SlotsSpec == SlotsInit /\ [][SlotsNext]_slotVars

-----------------------------------------------------------------------------
(* Properties                                                              *)

Running == {r \in Requests : AtStage(r, "running")}

\* Neither budget is exceeded by the processes together, and no slot is ever
\* lost, whichever step of an admission fails and whoever dies: every slot
\* that is not free is that of a request on its way.
SlotsAreKept ==
    /\ HostLimit > 0 => Cardinality(Running) <= HostLimit
    /\ \A p \in Processes : semaphore[p] + Cardinality(In(p)) = Limit
    /\ \A f \in Files : locked[f] # NoOne => locked[f] \in Running
    /\ HostLimit > 0 => \A r \in Running : \E f \in Files : locked[f] = r
=============================================================================
