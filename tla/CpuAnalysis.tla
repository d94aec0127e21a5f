---------------------------- MODULE CpuAnalysis ----------------------------
(***************************************************************************)
(* The CPU what-if page of the browser: createCpuAnalysis of               *)
(* ui/src/lib/cpuAnalysis.ts and the page that drives it.                  *)
(*                                                                         *)
(* A call of execute runs up to four requests one after another: the main  *)
(* one, its comparison, the growth and the comparison of the growth.  New  *)
(* calls, stop and a changed selection overtake the requests in flight,    *)
(* whose answers still arrive; generation and growthToken say which of them*)
(* may still publish.  A call is known by its number, which also stands for*)
(* its inputs, their fingerprint and the results calculated from them.     *)
(***************************************************************************)
EXTENDS Naturals, Sequences

CONSTANTS MaxCalls,    \* bound: calls of execute
          Comparisons, \* whether a call asks for a comparison: a subset of BOOLEAN
          History      \* runs that are kept

ASSUME PageAssumption == MaxCalls \in Nat /\ Comparisons \subseteq BOOLEAN

Calls == 1..MaxCalls
Nobody == [kind |-> "none", id |-> 0]
Main(id) == [kind |-> "main", id |-> id]
Standalone(token) == [kind |-> "growth", id |-> token]

VARIABLES page,   \* the state of the analysis
          call    \* the calls of execute, by number

pageVars == <<page, call>>

Modes == {"sweep", "rebalance", "growth"}

\* Results and errors are the numbers of the calls that published them, 0 for
\* none; aborted: the controllers that were, each a call and its part.
PageInit ==
    /\ page = [generation |-> 0, growthToken |-> 0, owner |-> Nobody, stage |-> "main",
               mainController |-> 0, growthController |-> 0, aborted |-> {},
               result |-> 0, rebalance |-> 0, comparison |-> 0, growth |-> 0, comparisonGrowth |-> 0,
               error |-> 0, comparisonError |-> 0, growthError |-> 0, comparisonGrowthError |-> 0,
               busy |-> FALSE, growthBusy |-> FALSE, snapshot |-> 0,
               sweepKey |-> 0, rebalanceKey |-> 0, growthKey |-> 0,
               runs |-> <<>>, done |-> [call |-> 0, outcome |-> "none", failed |-> {}]]
    /\ call = [w \in Calls |-> [mode |-> "none", cmp |-> FALSE, at |-> "ended", generation |-> 0, token |-> 0,
                                mine |-> Nobody, failed |-> {}]]

-----------------------------------------------------------------------------
\* Operators whose names begin with Faulty are plausible mistakes in the
\* definition they precede; nothing here uses them (README, "Mutants").

\* step and finish: only the owner of the progress reports.
Step(s, owner, stage) == IF s.owner = owner THEN [s EXCEPT !.stage = stage] ELSE s
FinishProgress(s, owner, w, outcome, failed) ==
    IF s.owner # owner THEN s
    ELSE [s EXCEPT !.owner = Nobody, !.stage = "main",
                   !.done = [call |-> w, failed |-> failed,
                             outcome |-> IF outcome = "ok" /\ failed # {} THEN "partial" ELSE outcome]]

Aborted(s, part) ==
    [s EXCEPT !.aborted = @ \cup (IF part = "main" THEN {<<s.mainController, part>>} ELSE {<<s.growthController, part>>})]
CancelledPage(s) == LET t == Aborted(Aborted(s, "main"), "growth")
                    IN  [t EXCEPT !.generation = @ + 1, !.growthToken = @ + 1, !.owner = Nobody, !.stage = "main"]

IsNextCall(w) == call[w].mode = "none" /\ \A u \in Calls : u < w => call[u].mode # "none"

-----------------------------------------------------------------------------
(* runGrowth, up to its first await.                                       *)

\* A growth of its own reports progress unless a workflow does.
Reporter(s, owner) ==
    IF owner # Nobody THEN owner
    ELSE IF s.owner.kind = "main" THEN Nobody ELSE Standalone(s.growthToken + 1)
GrowthBegun(s, w, owner) ==
    LET mine == Reporter(s, owner)
    IN  [Aborted(s, "growth") EXCEPT !.growthToken = @ + 1, !.growthController = w,
                  !.stage = IF mine = Nobody THEN @ ELSE "growth", !.owner = IF mine = Nobody THEN @ ELSE mine,
                  !.growthBusy = TRUE, !.growthError = 0, !.snapshot = 0,
                  !.comparisonGrowth = 0, !.comparisonGrowthError = 0]
\* The fields of the call that depend on it.
InGrowth(s, c, owner) == [c EXCEPT !.at = "growth", !.token = s.growthToken + 1, !.mine = Reporter(s, owner)]

(* execute, up to its first await.                                         *)

Started(s, w, mode) ==
    LET t == Aborted(Aborted(s, "main"), "growth")
        u == [t EXCEPT !.generation = @ + 1, !.mainController = w, !.owner = Main(s.generation + 1), !.stage = "main",
                       !.busy = TRUE, !.error = 0]
    IN  IF mode = "sweep" THEN u
        ELSE [u EXCEPT !.growthToken = @ + 1, !.growthBusy = FALSE, !.snapshot = 0,
                       !.comparisonGrowth = 0, !.comparisonGrowthError = 0]

Called(s, w, mode, cmp) ==
    LET new == [call[w] EXCEPT !.mode = mode, !.cmp = cmp /\ mode # "sweep", !.at = "main"]
    IN  IF mode = "growth"
        THEN /\ page' = GrowthBegun(s, w, Nobody)
             /\ call' = [call EXCEPT ![w] = InGrowth(s, [new EXCEPT !.generation = s.generation], Nobody)]
        ELSE /\ page' = Started(s, w, mode)
             /\ call' = [call EXCEPT ![w] = [new EXCEPT !.generation = s.generation + 1]]

Execute == \E w \in Calls, mode \in Modes, cmp \in Comparisons : IsNextCall(w) /\ Called(page, w, mode, cmp)

-----------------------------------------------------------------------------
(* The answers, each with all that runs before the next await.             *)

IsCurrent(w) == call[w].generation = page.generation
FaultyIsLive(w) == IsCurrent(w)
IsLive(w) == IsCurrent(w) /\ call[w].token = page.growthToken
Ends(c) == [c EXCEPT !.at = "ended"]

\* The finally of execute.
Concluded(s, w, outcome, failed) ==
    IF call[w].generation = s.generation
    THEN FinishProgress([s EXCEPT !.busy = FALSE], Main(s.generation), w, outcome, failed)
    ELSE s

MainAnswers(w, ok) ==
    LET shown == [page EXCEPT !.result = w, !.sweepKey = w]
        failed == IF IsCurrent(w) THEN [page EXCEPT !.error = w] ELSE page
    IN  /\ call[w].at = "main"
        /\ call[w].mode = "sweep" \/ ~ok
        /\ page' = IF ok /\ IsCurrent(w) THEN Concluded(shown, w, "ok", {})
                   ELSE Concluded(failed, w, IF ok THEN "ok" ELSE "error", {})
        /\ call' = [call EXCEPT ![w] = Ends(@)]

\* The history, and the growth of the workflow.
Appended(runs, w, compared) ==
    LET n == IF runs = <<>> THEN 1 ELSE runs[Len(runs)].n + 1
        kept == IF Len(runs) < History THEN runs ELSE SubSeq(runs, Len(runs) - History + 2, Len(runs))
    IN  Append(kept, [n |-> n, call |-> w, compared |-> compared])
GoesOn(s, w, compared, failed) ==
    LET t == [s EXCEPT !.runs = Appended(@, w, compared)]
    IN  /\ page' = GrowthBegun(t, w, Main(s.generation))
        /\ call' = [call EXCEPT ![w] = [InGrowth(t, @, Main(s.generation)) EXCEPT !.failed = failed]]

FaultyWithRebalance(w) == [page EXCEPT !.rebalance = w, !.comparisonError = 0, !.rebalanceKey = w]
\* The comparison of the previous run is shown until the new result arrives.
WithRebalance(w) == [page EXCEPT !.rebalance = w, !.comparison = 0, !.comparisonError = 0, !.rebalanceKey = w]
RebalanceAnswers(w) ==
    LET shown == WithRebalance(w)
    IN  /\ call[w].at = "main"
        /\ call[w].mode = "rebalance"
        /\ \/ /\ ~IsCurrent(w)
              /\ call' = [call EXCEPT ![w] = Ends(@)]
              /\ UNCHANGED page
           \/ /\ IsCurrent(w)
              /\ ~call[w].cmp
              /\ GoesOn(shown, w, FALSE, {})
           \/ /\ IsCurrent(w)
              /\ call[w].cmp
              /\ page' = Step(shown, Main(page.generation), "comparison")
              /\ call' = [call EXCEPT ![w].at = "comparison"]

ComparisonAnswers(w, ok) ==
    /\ call[w].at = "comparison"
    /\ \/ /\ ~IsCurrent(w)
          /\ call' = [call EXCEPT ![w] = Ends(@)]
          /\ UNCHANGED page
       \/ /\ IsCurrent(w)
          /\ GoesOn(IF ok THEN [page EXCEPT !.comparison = w] ELSE [page EXCEPT !.comparisonError = w],
                    w, ok, IF ok THEN {} ELSE {"comparison"})

FaultyIsLast(s, w) == TRUE
IsLast(s, w) == call[w].token = s.growthToken
\* The finally of runGrowth, and of the execute that awaits it.
GrowthEnds(s, w, outcome, failed) ==
    LET c == call[w]
        quiet == IF IsLast(s, w) THEN [s EXCEPT !.growthBusy = FALSE] ELSE s
    IN  /\ page' = IF c.mode = "growth"
                   THEN IF IsLast(s, w) /\ c.mine # Nobody
                        THEN FinishProgress(quiet, c.mine, w, outcome, IF outcome = "ok" THEN failed ELSE {}) ELSE quiet
                   ELSE Concluded(quiet, w, "ok", failed \cup c.failed)
        /\ call' = [call EXCEPT ![w] = Ends(@)]

GrowthAnswers(w, ok) ==
    LET shown == [page EXCEPT !.growth = w, !.snapshot = w, !.growthKey = w]
        failed == [page EXCEPT !.growthError = w, !.growth = 0, !.growthKey = 0]
    IN  /\ call[w].at = "growth"
        /\ \/ /\ ok /\ IsLive(w) /\ call[w].cmp
              /\ page' = Step(shown, call[w].mine, "growthComparison")
              /\ call' = [call EXCEPT ![w].at = "growthComparison"]
           \/ /\ ok /\ ~(IsLive(w) /\ call[w].cmp)
              /\ GrowthEnds(IF IsLive(w) THEN shown ELSE page, w, "ok", {})
           \/ /\ ~ok
              /\ GrowthEnds(IF IsLive(w) THEN failed ELSE page, w, "error", {"growth"})

GrowthComparisonAnswers(w, ok) ==
    LET answer == IF ok THEN [page EXCEPT !.comparisonGrowth = w] ELSE [page EXCEPT !.comparisonGrowthError = w]
    IN  /\ call[w].at = "growthComparison"
        /\ GrowthEnds(IF IsLive(w) THEN answer ELSE page, w, "ok", IF ok THEN {} ELSE {"growthComparison"})

Answer(w) == \/ RebalanceAnswers(w)
             \/ \E ok \in BOOLEAN : \/ MainAnswers(w, ok) \/ ComparisonAnswers(w, ok)
                                    \/ GrowthAnswers(w, ok) \/ GrowthComparisonAnswers(w, ok)

-----------------------------------------------------------------------------
(* The other operations of the page.                                       *)

Reports(w) == page.owner # Nobody /\ IF call[w].mode = "growth" THEN call[w].mine = page.owner
                                     ELSE Main(call[w].generation) = page.owner

\* The page shows the button while something is busy.
StopPage == /\ page.busy \/ page.growthBusy
            /\ page' = [CancelledPage(page) EXCEPT !.busy = FALSE, !.growthBusy = FALSE,
                             !.done = IF page.owner = Nobody THEN @
                                      ELSE [call |-> CHOOSE w \in Calls : Reports(w), outcome |-> "cancelled", failed |-> {}]]
            /\ UNCHANGED call

WasReset(s, keepRebalance) ==
    LET t == Aborted(s, "growth")
    IN  [t EXCEPT !.growthToken = @ + 1,
                  !.owner = IF @.kind = "growth" THEN Nobody ELSE @, !.stage = IF t.owner.kind = "growth" THEN "main" ELSE @,
                  !.result = 0, !.growthBusy = FALSE, !.growthError = 0, !.snapshot = 0,
                  !.comparisonGrowth = 0, !.comparisonGrowthError = 0,
                  !.sweepKey = 0, !.growthKey = 0, !.rebalanceKey = IF keepRebalance THEN @ ELSE 0,
                  !.rebalance = IF keepRebalance THEN @ ELSE 0,
                  !.growth = IF keepRebalance THEN @ ELSE 0]

\* The effect of the page when its selection, its mode or its comparison
\* changes: the clean-up cancels, then the analysis is reset and runs again.
Select == \E w \in Calls, keep \in BOOLEAN, cmp \in Comparisons, mode \in {"sweep", "rebalance"} :
    IsNextCall(w) /\ Called(WasReset(CancelledPage(page), keep), w, mode, cmp)

ClearHistory == /\ page' = [page EXCEPT !.runs = <<>>]
                /\ UNCHANGED call

PageNext == \/ Execute \/ Select \/ ClearHistory
            \/ StopPage
            \/ \E w \in Calls : Answer(w)

PageSpec == PageInit /\ [][PageNext]_pageVars

-----------------------------------------------------------------------------
(* Properties                                                              *)

IsWorkflow(w) == call[w].mode \in {"sweep", "rebalance"}
CallInFlight(w) == call[w].at # "ended"
Growing(w) == call[w].at \in {"growth", "growthComparison"}

\* Busy flags and progress never outlive the work they stand for, nor miss it,
\* however calls overtake each other: what is in flight and was not overtaken.
FlagsAreHonest ==
    /\ page.busy <=> \E w \in Calls : IsWorkflow(w) /\ CallInFlight(w) /\ IsCurrent(w)
    /\ page.growthBusy <=> \E w \in Calls : Growing(w) /\ call[w].token = page.growthToken
    /\ page.busy <=> page.owner.kind = "main"
    /\ page.owner # Nobody => \E w \in Calls : Reports(w) /\ CallInFlight(w) /\ page.stage =
                                  IF call[w].mode = "growth" /\ call[w].at = "main" THEN "growth" ELSE call[w].at

\* "aborts obsolete HTTP work while preserving current results": a request in
\* flight is aborted if and only if nothing waits for its answer any more.
OvertakenIsAborted ==
    \A w \in Calls : CallInFlight(w) =>
        IF Growing(w) THEN IsLive(w) <=> <<w, "growth">> \notin page.aborted
        ELSE IsCurrent(w) <=> <<w, "main">> \notin page.aborted

\* Every fingerprint is that of the result it stands beside, and a comparison, a
\* snapshot or an error is of the call whose result it is shown with.  A growth
\* may stand beside the rebalance of a later call.
ShownTogether ==
    /\ page.sweepKey = page.result /\ page.rebalanceKey = page.rebalance /\ page.growthKey \in {0, page.growth}
    /\ page.rebalance # 0 => /\ page.comparison \in {0, page.rebalance}
                             /\ page.comparisonError \in {0, page.rebalance}
    /\ page.comparison = 0 \/ page.comparisonError = 0
    /\ page.comparisonGrowth \in {0, page.growth} /\ page.comparisonGrowthError \in {0, page.growth}
    /\ page.snapshot \in {0, page.growth}
    /\ page.growthError = 0 \/ page.growth = 0

Published(x) == page'[x] # page[x] /\ page'[x] # 0
NoLaterWorkflow(w) == \A u \in Calls : u > w => ~IsWorkflow(u)

\* What is published is of the newest workflow, and a growth is the growth that
\* started last: no answer of an earlier one ever comes back over it.
NewestPublishes ==
    /\ \A x \in {"result", "rebalance", "comparison", "error"} : Published(x) => NoLaterWorkflow(page'[x])
    /\ \A x \in {"growth", "comparisonGrowth", "growthError"} : Published(x) =>
          NoLaterWorkflow(page'[x]) /\ \A u \in Calls : call[u].token <= call[page'[x]].token

\* A workflow that ended well has published every stage, and one that names
\* failed stages shows their errors, except for a growth that was overtaken.
Ended(w) == page'.done # page.done /\ page'.done.call = w
Overtaken(w) == call[w].token # page.growthToken
Shows(x, w) == page'[x] = w
EndsHonestly ==
    \A w \in Calls : Ended(w) /\ page'.done.outcome \in {"ok", "partial"} =>
          LET failed == page'.done.failed
              Honest(stage, value, error) == IF stage \in failed THEN Shows(error, w) ELSE Shows(value, w)
          IN  /\ call[w].mode = "sweep" => Shows("result", w)
              /\ call[w].mode = "rebalance" =>
                    Shows("rebalance", w) /\ (call[w].cmp => Honest("comparison", "comparison", "comparisonError"))
              /\ call[w].mode # "sweep" =>
                    Overtaken(w) \/ /\ Honest("growth", "growth", "growthError")
                                    /\ (call[w].cmp /\ "growth" \notin failed) =>
                                          Honest("growthComparison", "comparisonGrowth", "comparisonGrowthError")

\* Flags, progress and aborted requests agree with what is in flight, and each
\* result is shown with its own fingerprint, comparison and error.
PagesAreHonest == FlagsAreHonest /\ OvertakenIsAborted /\ ShownTogether

\* Only the newest calculation publishes, and what is reported as done is shown.
PublishesHonestly == [][NewestPublishes /\ EndsHonestly]_pageVars
=============================================================================
