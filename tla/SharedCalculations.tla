------------------------- MODULE SharedCalculations -------------------------
(***************************************************************************)
(* How the pages of one browser share calculations (ui/src/lib/            *)
(* calculation.ts) that wait for admission (ui/src/lib/admission.ts).      *)
(*                                                                         *)
(* Everything runs on one thread, in tasks and in the microtasks a task    *)
(* leaves behind; a request is answered, a timer rings and a request that  *)
(* was aborted is rejected only when no microtask is left.  Pages may ask  *)
(* and cancel anywhere between two microtasks, as the continuation of a    *)
(* promise does.                                                           *)
(***************************************************************************)
EXTENDS Naturals, FiniteSets, Sequences

CONSTANTS Subscribers,  \* calls of postCalculation
          Keys,         \* identities with a path and a request
          MaxFlights    \* bound: requests that are sent

ASSUME SharedAssumption == IsFiniteSet(Subscribers) /\ MaxFlights \in Nat

Flights == 1..MaxFlights
NoFlight == 0

VARIABLES flights,  \* the map from keys to the flight that is shared
          flight,   \* every flight: its promise, its controller, its subscribers
          waiting,  \* clients that are queued, as the page shows it
          sub,      \* what a call of postCalculation waits for or got
          micro     \* the microtasks, in order

sharedVars == <<flights, flight, waiting, sub, micro>>

InFlight(f) == flight[f].at \in {"fetching", "sleeping"}

SharedInit == /\ flights = [k \in Keys |-> NoFlight]
              /\ flight = [f \in Flights |-> [at |-> "none", key |-> CHOOSE k \in Keys : TRUE, subscribers |-> 0, order |-> <<>>,
                                              shared |-> FALSE, aborted |-> FALSE, queued |-> FALSE, outcome |-> "none"]]
              /\ waiting = 0
              /\ sub = [s \in Subscribers |-> [at |-> "idle", on |-> NoFlight, gets |-> "nothing"]]
              /\ micro = <<>>

-----------------------------------------------------------------------------
\* Operators whose names begin with Faulty are plausible mistakes in the
\* definition they precede; nothing here uses them (README, "Mutants").

Microtask(what, of) == [what |-> what, of |-> of]
NextFlight == CHOOSE f \in Flights : flight[f].at = "none" /\ \A g \in 1..(f - 1) : flight[g].at # "none"

\* A flight is joined unless it was aborted; its promise may be settled already.
Joinable(k) == flights[k] # NoFlight /\ ~flight[flights[k]].aborted

Joined(f, s) == [flight[f] EXCEPT !.subscribers = @ + 1, !.shared = @ \/ flight[f].subscribers > 0,
                                  !.order = Append(@, s)]
AskFor(s, k) ==
    LET f == flights[k]
    IN  /\ sub[s].at = "idle"
        /\ \/ /\ Joinable(k)
              /\ flight' = [flight EXCEPT ![f] = Joined(f, s)]
              /\ sub' = [sub EXCEPT ![s] = [@ EXCEPT !.at = "waiting", !.on = f]]
              /\ micro' = IF InFlight(f) THEN micro ELSE Append(micro, Microtask("answer", s))
              /\ UNCHANGED flights
           \/ /\ ~Joinable(k)
              /\ \E g \in Flights : flight[g].at = "none"
              /\ flights' = [flights EXCEPT ![k] = NextFlight]
              /\ flight' = [flight EXCEPT ![NextFlight] =
                    [@ EXCEPT !.at = "fetching", !.key = k, !.subscribers = 1, !.order = <<s>>]]
              /\ sub' = [sub EXCEPT ![s] = [@ EXCEPT !.at = "waiting", !.on = NextFlight]]
              /\ UNCHANGED micro
        /\ UNCHANGED waiting

\* finish: the subscriber leaves, and the flight is looked at when this turn is over.
Leaves(s) == [flight EXCEPT ![sub[s].on].subscribers = @ - 1]

Cancel(s) == /\ sub[s].at = "waiting"
             /\ sub' = [sub EXCEPT ![s].at = "cancelled"]
             /\ flight' = Leaves(s)
             /\ micro' = Append(micro, Microtask("check", sub[s].on))
             /\ UNCHANGED <<flights, waiting>>

-----------------------------------------------------------------------------
(* The microtasks.                                                         *)

IsNext(what) == micro # <<>> /\ Head(micro).what = what
Shares(f) == flights[flight[f].key] = f

FaultyAbandoned(f) == Shares(f)
Abandoned(f) == flight[f].subscribers = 0 /\ Shares(f)

Check == LET f == Head(micro).of
         IN  /\ IsNext("check")
             /\ flights' = IF Abandoned(f) THEN [flights EXCEPT ![flight[f].key] = NoFlight] ELSE flights
             /\ flight' = IF Abandoned(f) THEN [flight EXCEPT ![f].aborted = TRUE] ELSE flight
             /\ micro' = Tail(micro)
             /\ UNCHANGED <<waiting, sub>>

Done == LET f == Head(micro).of
        IN  /\ IsNext("done")
            /\ flights' = IF Shares(f) THEN [flights EXCEPT ![flight[f].key] = NoFlight] ELSE flights
            /\ micro' = Tail(micro)
            /\ UNCHANGED <<flight, waiting, sub>>

\* A shared value is cloned for each subscriber.
Copy(f) == IF flight[f].shared THEN "clone" ELSE "original"

Answered == LET s == Head(micro).of
                f == sub[s].on
            IN  /\ IsNext("answer")
                /\ IF sub[s].at = "waiting"
                   THEN /\ sub' = [sub EXCEPT ![s] = [@ EXCEPT !.at = flight[f].outcome,
                                                               !.gets = IF flight[f].outcome = "resolved" THEN Copy(f) ELSE sub[s].gets]]
                        /\ flight' = Leaves(s)
                        /\ micro' = Append(Tail(micro), Microtask("check", f))
                   ELSE micro' = Tail(micro) /\ UNCHANGED <<sub, flight>>
                /\ UNCHANGED <<flights, waiting>>

RunMicrotask == Check \/ Done \/ Answered

-----------------------------------------------------------------------------
(* The request of a flight (fetchAdmitted).                                *)

Quiet == micro = <<>>
OneLess(f) == IF flight[f].queued THEN waiting - 1 ELSE waiting

\* 429: the client is queued, once, and tries again after a while.
Busy(f) == /\ Quiet
           /\ flight[f].at = "fetching"
           /\ flight' = [flight EXCEPT ![f] = [@ EXCEPT !.at = "sleeping", !.queued = TRUE]]
           /\ waiting' = IF flight[f].queued THEN waiting ELSE waiting + 1
           /\ UNCHANGED <<flights, sub, micro>>

MayRetry(f) == ~flight[f].aborted
Retry(f) == /\ Quiet
            /\ flight[f].at = "sleeping"
            /\ MayRetry(f)
            /\ flight' = [flight EXCEPT ![f].at = "fetching"]
            /\ UNCHANGED <<flights, waiting, sub, micro>>

\* An answer, an error, a 429 when the budget is spent; an aborted request or
\* sleep is rejected.  Whatever it is, the client is not queued any more.
Reactions(f) == <<Microtask("done", f)>> \o [i \in 1..Len(flight[f].order) |-> Microtask("answer", flight[f].order[i])]
Settle(f) == /\ Quiet
             /\ InFlight(f)
             /\ \E outcome \in {"resolved", "rejected"} :
                   /\ outcome = "resolved" => flight[f].at = "fetching"
                   /\ flight' = [flight EXCEPT ![f] = [@ EXCEPT !.at = "settled", !.outcome = outcome, !.queued = FALSE]]
             /\ waiting' = OneLess(f)
             /\ micro' = Reactions(f)
             /\ UNCHANGED <<flights, sub>>

SharedNext == \/ \E s \in Subscribers : Cancel(s) \/ \E k \in Keys : AskFor(s, k)
              \/ RunMicrotask
              \/ \E f \in Flights : Busy(f) \/ Retry(f) \/ Settle(f)

SharedSpec == SharedInit /\ [][SharedNext]_sharedVars

-----------------------------------------------------------------------------
(* Properties                                                              *)

On(f) == {s \in Subscribers : sub[s].at = "waiting" /\ sub[s].on = f}

\* "Each subscriber owns its cancellation": a request is aborted only when
\* nobody waits for it, whoever cancelled or joined meanwhile.
CancelsAreOwn == \A f \in Flights : /\ flight[f].subscribers = Cardinality(On(f))
                                    /\ flight[f].aborted => On(f) = {}

\* Nobody retries for nobody, no two requests for the same calculation run side
\* by side, and a settled result is handed to nobody who asks later.
FlightsAreShared ==
    Quiet => /\ \A f \in Flights : InFlight(f) /\ On(f) = {} => flight[f].aborted
             /\ \A f, g \in Flights : InFlight(f) /\ InFlight(g) /\ flight[f].key = flight[g].key =>
                   f = g \/ flight[f].aborted \/ flight[g].aborted
             /\ \A k \in Keys : flights[k] # NoFlight => InFlight(flights[k])
             /\ \A s \in Subscribers : sub[s].at = "waiting" => InFlight(sub[s].on)

\* The page counts the clients that are queued, whatever became of their calls.
WaitingIsCounted == waiting = Cardinality({f \in Flights : flight[f].queued})

\* "Keep that isolation when shared": no two subscribers get the same object.
Isolated == \A s, t \in Subscribers : s # t /\ sub[s].on = sub[t].on =>
               ~(sub[s].gets = "original" /\ sub[t].gets = "original")

\* Calculations are shared fairly: every cancellation is one's own, no request goes
\* on for nobody, and nobody shares an object.
SharedFairly == CancelsAreOwn /\ FlightsAreShared /\ WaitingIsCounted /\ Isolated
=============================================================================
