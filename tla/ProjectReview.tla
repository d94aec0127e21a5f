---------------------------- MODULE ProjectReview ----------------------------
(***************************************************************************)
(* The review of one project: the risk register (review_risks.py), the     *)
(* project reports (create_project_report, set_report_status), the CPU     *)
(* snapshots (review_cpu.py) and the reviews of power options              *)
(* (set_option_review).                                                    *)
(*                                                                         *)
(* Requests meet in PostgreSQL: a report locks the project row and every   *)
(* risk row and keeps the locks until it commits; a person's edit locks    *)
(* the one row it edits; a snapshot is recorded under the project lock,    *)
(* and withdrawn without it.                                               *)
(***************************************************************************)
EXTENDS Naturals, Sequences, FiniteSets

CONSTANTS Keys,      \* the risk keys the automatic rules can fire
          Reports,   \* requests for a project report
          Editors,   \* edits of a risk, a report or an option, one row each
          Recorders, \* requests to record a CPU snapshot of one variant
          Withdraw,  \* requests to withdraw a snapshot
          HistoryLimit, \* entries a risk keeps of its history (50 in the code)
          Nobody     \* nobody holds the lock, there is no report before it

Option == "option"   \* the one option that is reviewed; its parent is the scenario
Rows == Keys \cup Reports \cup {Option}
Transactions == Reports \cup Editors \cup Recorders \cup Withdraw

\* Rows and requests have names of their own.
ASSUME ReviewAssumption ==
    /\ IsFiniteSet(Keys) /\ IsFiniteSet(Reports)
    /\ Keys \cap Reports = {} /\ Option \notin Keys \cup Reports /\ "project" \notin Keys \cup Reports
    /\ Reports \cap (Editors \cup Recorders \cup Withdraw) = {}
    /\ Editors \cap (Recorders \cup Withdraw) = {} /\ Recorders \cap Withdraw = {}
    /\ Nobody \notin Transactions
    /\ HistoryLimit \in Nat \ {0}

VARIABLES firing,   \* the risks the current predictions show
          risk,     \* the register
          report,   \* the project reports, committed or in the making
          edited,   \* the history of every row a person can edit: who wrote each entry
          snapshot, \* the CPU snapshots
          rowLock,  \* who has locked the project and the rows
          tx        \* the requests, each one a transaction

reviewVars == <<firing, risk, report, edited, snapshot, rowLock, tx>>

Absent == [seq |-> 0, status |-> "none", auto |-> "none", evidence |-> FALSE]
NoReport == [order |-> 0, register |-> [k \in Keys |-> Absent], previous |-> Nobody]

ReviewInit == /\ firing \in SUBSET Keys
              /\ risk = [k \in Keys |-> Absent]
              /\ report = [r \in Reports |-> NoReport]
              /\ edited = [x \in Rows |-> <<>>]
              /\ snapshot = [c \in Recorders |-> "none"]
              /\ rowLock = [x \in Rows \cup {"project"} |-> Nobody]
              /\ tx = [q \in Transactions |-> [pc |-> "idle", seen |-> {}, row |-> Nobody,
                                                    status |-> "none", history |-> <<>>]]

-----------------------------------------------------------------------------
\* Operators whose names begin with Faulty are plausible mistakes in the
\* definition they precede; nothing here uses them (README, "Mutants").

InStep(q, pc) == tx[q].pc = pc
Free(q, x) == rowLock[x] \in {Nobody, q}
RowsLocked(q, X) == [x \in DOMAIN rowLock |-> IF x \in X THEN q ELSE rowLock[x]]
RowsUnlocked(q) == [x \in DOMAIN rowLock |-> IF rowLock[x] = q THEN Nobody ELSE rowLock[x]]

\* The session of q is closed, with the histories it holds.
Left(q, pc) == [tx EXCEPT ![q] = [@ EXCEPT !.pc = pc, !.history = <<>>]]

\* A risk keeps the newest entries of its history.
Kept(h) == SubSeq(h, IF Len(h) > HistoryLimit THEN Len(h) - HistoryLimit + 1 ELSE 1, Len(h))

\* Request q adds an entry for each of the facts to the history of a risk.
Noted(h, facts, q) == Kept(h \o [i \in 1..Cardinality(facts) |-> q])

\* New registrations change what the rules find.
Recalculate == /\ \E F \in SUBSET Keys \ {firing} : firing' = F
               /\ UNCHANGED <<risk, report, edited, snapshot, rowLock, tx>>

-----------------------------------------------------------------------------
(* Reports (create_project_report, sync_risks).                            *)

Known == {k \in Keys : risk[k].status # "none"}
Committed == {r \in Reports : report[r].order > 0}
LatestSeq == IF Known = {} THEN 0 ELSE CHOOSE n \in {risk[k].seq : k \in Known} : \A k \in Known : risk[k].seq <= n

\* The predictions are read and the rules applied before any lock is taken.
Gather(r) == /\ InStep(r, "idle")
             /\ tx' = [tx EXCEPT ![r] = [@ EXCEPT !.pc = "gathered", !.seen = firing]]
             /\ UNCHANGED <<firing, risk, report, edited, snapshot, rowLock>>

FaultyProjectFree(q) == rowLock["project"] = Nobody \/ Known = {}
ProjectFree(q) == rowLock["project"] = Nobody
FaultyRisksFree(r) == TRUE
RisksFree(r) == \A k \in Known : Free(r, k)

\* A risk that fires again is opened again; one that no longer fires waits for
\* somebody to close it.  New ones are numbered in the order the rules give.
Refired(k) == [risk[k] EXCEPT !.status = IF @ = "closed" THEN "open" ELSE @, !.auto = "active"]
Silent(k) == IF risk[k].status \in {"none", "closed"} THEN risk[k] ELSE [risk[k] EXCEPT !.auto = "resolve_candidate"]
Synced(r, numbers) ==
    [k \in Keys |-> IF k \notin tx[r].seen THEN Silent(k)
                    ELSE IF k \in Known THEN Refired(k)
                    ELSE [seq |-> LatestSeq + numbers[k], status |-> "open", auto |-> "active", evidence |-> FALSE]]

\* What the synchronisation enters into the history of a risk.
Events(r, k, regraded) ==
    {f \in {"opened", "reopened", "severity", "resolve_candidate"} :
        \/ f = "opened" /\ k \in tx[r].seen \ Known
        \/ f = "reopened" /\ k \in tx[r].seen \cap Known
                         /\ (risk[k].auto = "resolve_candidate" \/ risk[k].status = "closed")
        \/ f = "severity" /\ k \in regraded
        \/ f = "resolve_candidate" /\ k \notin tx[r].seen /\ Silent(k) # risk[k]}

Numberings(S) == {n \in [S -> 1..Cardinality(S)] : \A a, b \in S : n[a] = n[b] => a = b}

Newest == {r \in Committed : \A s \in Committed : report[s].order <= report[r].order}

\* The register is brought up to date and the report compared with the one
\* before it, all in the open transaction.
Sync(r) ==
    /\ InStep(r, "gathered")
    /\ ProjectFree(r) /\ RisksFree(r)
    /\ rowLock' = RowsLocked(r, {"project"} \cup Known)
    /\ \E numbers \in Numberings(tx[r].seen \ Known) :
          report' = [report EXCEPT ![r] = [order |-> 0, register |-> Synced(r, numbers),
                                           previous |-> IF Newest = {} THEN Nobody ELSE CHOOSE s \in Newest : TRUE]]
    /\ \E regraded \in SUBSET (tx[r].seen \cap Known) :
          tx' = [tx EXCEPT ![r] = [@ EXCEPT !.pc = "synced",
                   !.history = [k \in Keys |-> Noted(edited[k], Events(r, k, regraded), r)]]]
    /\ UNCHANGED <<firing, risk, edited, snapshot>>

CommitReport(r) == /\ InStep(r, "synced")
                   /\ risk' = report[r].register
                   /\ report' = [report EXCEPT ![r].order = Cardinality(Committed) + 1]
                   /\ edited' = [x \in Rows |-> IF x \in Keys THEN tx[r].history[x] ELSE edited[x]]
                   /\ rowLock' = RowsUnlocked(r)
                   /\ tx' = Left(r, "done")
                   /\ UNCHANGED <<firing, snapshot>>

\* The comparison, the rendering or the commit fails.
RollbackReport(r) == /\ InStep(r, "synced")
                     /\ report' = [report EXCEPT ![r] = NoReport]
                     /\ rowLock' = RowsUnlocked(r)
                     /\ tx' = Left(r, "failed")
                     /\ UNCHANGED <<firing, risk, edited, snapshot>>

-----------------------------------------------------------------------------
(* Edits (update_risk, set_report_status, set_option_review).              *)

Editable == Known \cup Committed \cup {Option}

\* The row is locked and read again under the lock; an option's scenario is
\* locked, for the row may not exist yet.
FaultyLockable(e, x) == x \in Reports \/ Free(e, x)
Lockable(e, x) == Free(e, x)
Open(e, x) == /\ InStep(e, "idle")
              /\ x \in Editable
              /\ Lockable(e, x)
              /\ rowLock' = RowsLocked(e, {x})
              /\ tx' = [tx EXCEPT ![e] = [@ EXCEPT !.pc = "open", !.row = x, !.history = edited[x]]]
              /\ UNCHANGED <<firing, risk, report, edited, snapshot>>

\* A risk is closed only with evidence, which may come with the same edit and
\* is taken away only from a risk that stays open.
MayClose(k, status, evidence) == status = "closed" => evidence
EditedRisk(k, status, evidence) == [risk EXCEPT ![k] = [@ EXCEPT !.status = status, !.evidence = evidence]]

\* Each field of a risk that changes gets an entry; open stands for every status but closed.
Fields == {"owner", "status", "note", "closure_evidence", "due_date"}
Changes(k, status, evidence, changed) == /\ status # risk[k].status => "status" \in changed
                                         /\ evidence # risk[k].evidence => "closure_evidence" \in changed

\* The history of a report or an option gets one entry, whatever changes, and is never cut.
Save(e) ==
    LET x == tx[e].row
        history == tx[e].history
    IN  /\ InStep(e, "open")
        /\ \/ /\ x \in Keys
              /\ \E status \in {"open", "closed"}, evidence \in BOOLEAN, changed \in SUBSET Fields :
                    /\ MayClose(x, status, evidence) /\ Changes(x, status, evidence, changed)
                    /\ risk' = EditedRisk(x, status, evidence)
                    /\ edited' = [edited EXCEPT ![x] = Noted(history, changed, e)]
           \/ /\ x \notin Keys
              /\ edited' = [edited EXCEPT ![x] = Append(history, e)]
              /\ UNCHANGED risk
        /\ rowLock' = RowsUnlocked(e)
        /\ tx' = Left(e, "done")
        /\ UNCHANGED <<firing, report, snapshot>>

\* The edit is invalid, or its commit fails.
RefuseEdit(e) == /\ InStep(e, "open")
                 /\ rowLock' = RowsUnlocked(e)
                 /\ tx' = Left(e, "failed")
                 /\ UNCHANGED <<firing, risk, report, edited, snapshot>>

-----------------------------------------------------------------------------
(* CPU snapshots (record_cpu_snapshot, withdraw_cpu_snapshot).             *)

ActiveSnapshots == {c \in Recorders : snapshot[c] = "active"}

\* The sweep is calculated first; what it replaces is read under the lock.
FaultyBeginRecord(c) == /\ InStep(c, "idle")
                        /\ tx' = [tx EXCEPT ![c] = [@ EXCEPT !.pc = "replacing", !.seen = ActiveSnapshots]]
                        /\ UNCHANGED <<firing, risk, report, edited, snapshot, rowLock>>
BeginRecord(c) == /\ InStep(c, "idle")
                  /\ ProjectFree(c)
                  /\ rowLock' = RowsLocked(c, {"project"})
                  /\ tx' = [tx EXCEPT ![c] = [@ EXCEPT !.pc = "replacing", !.seen = ActiveSnapshots]]
                  /\ UNCHANGED <<firing, risk, report, edited, snapshot>>

\* The unique index admits one active snapshot: a second one is refused.
Replaced(c) == [d \in Recorders |-> IF d = c THEN "active" ELSE IF d \in tx[c].seen THEN "superseded" ELSE snapshot[d]]
IsUnique(t) == Cardinality({d \in Recorders : t[d] = "active"}) <= 1
Record(c) == /\ InStep(c, "replacing")
             /\ IF IsUnique(Replaced(c))
                THEN snapshot' = Replaced(c) /\ tx' = [tx EXCEPT ![c].pc = "done"]
                ELSE UNCHANGED snapshot /\ tx' = [tx EXCEPT ![c].pc = "conflict"]
             /\ rowLock' = RowsUnlocked(c)
             /\ UNCHANGED <<firing, risk, report, edited>>

RefuseRecord(c) == /\ InStep(c, "replacing")
                   /\ rowLock' = RowsUnlocked(c)
                   /\ tx' = [tx EXCEPT ![c].pc = "failed"]
                   /\ UNCHANGED <<firing, risk, report, edited, snapshot>>

\* The status read is not compared again when the new one is written.
BeginWithdraw(w, c) == /\ InStep(w, "idle")
                       /\ snapshot[c] # "none"
                       /\ tx' = [tx EXCEPT ![w] = [@ EXCEPT !.pc = "withdrawing", !.row = c, !.status = snapshot[c]]]
                       /\ UNCHANGED <<firing, risk, report, edited, snapshot, rowLock>>
EndWithdraw(w) == /\ InStep(w, "withdrawing")
                  /\ snapshot' = [snapshot EXCEPT ![tx[w].row] = IF tx[w].status = "withdrawn" THEN @ ELSE "withdrawn"]
                  /\ tx' = [tx EXCEPT ![w].pc = "done"]
                  /\ UNCHANGED <<firing, risk, report, edited, rowLock>>

ReviewNext == \/ Recalculate
              \/ \E r \in Reports : Gather(r) \/ Sync(r) \/ CommitReport(r) \/ RollbackReport(r)
              \/ \E e \in Editors : (\E x \in Rows : Open(e, x)) \/ Save(e) \/ RefuseEdit(e)
              \/ \E c \in Recorders : BeginRecord(c) \/ Record(c) \/ RefuseRecord(c)
              \/ \E w \in Withdraw : (\E c \in Recorders : BeginWithdraw(w, c)) \/ EndWithdraw(w)

ReviewSpec == ReviewInit /\ [][ReviewNext]_reviewVars

-----------------------------------------------------------------------------
(* Properties                                                              *)

\* new begins with what old holds from its n-th entry on; what follows are entries of q.
GoesOn(old, new, n, q) ==
    /\ Len(new) > Len(old) - n
    /\ \A i \in 1..Len(new) : new[i] = IF i <= Len(old) - n THEN old[n + i] ELSE q

\* What an answered edit, or a report that brings the register up to date, enters into
\* the history of a row stays there: whatever changes a risk or a history goes on from
\* the history as it is ("append to the latest history rather than overwriting an
\* earlier review") with an entry of its own.  Only the oldest entries of a full
\* history of a risk make room for it.
HistoryGrows(x) ==
    edited'[x] # edited[x] \/ (x \in Keys /\ risk'[x] # risk[x]) =>
        \E q \in Editors \cup Reports, n \in 0..Len(edited[x]) :
            /\ tx[q].pc # "done" /\ tx'[q].pc = "done"
            /\ GoesOn(edited[x], edited'[x], n, q)
            /\ n > 0 => x \in Keys /\ Len(edited'[x]) = HistoryLimit
EditsSurvive == [][\A x \in Rows : HistoryGrows(x)]_reviewVars

\* A report freezes the register as the committed report leaves it: nobody edits
\* a risk between the synchronisation and the commit, and no edit is undone by it.
FreezesRegister ==
    \A r \in Reports : report'[r].order > report[r].order =>
        \A k \in Known : /\ report[r].register[k].seq = risk[k].seq
                         /\ report[r].register[k].evidence = risk[k].evidence
                         /\ report[r].register[k].status \in {risk[k].status, "open"}
ReportFreezesRegister == [][FreezesRegister]_reviewVars

\* A report is compared with the one that was committed just before it.
PreviousIsNewest ==
    \A r \in Committed : IF report[r].order = 1 THEN report[r].previous = Nobody
                         ELSE \E s \in Committed : s = report[r].previous /\ report[s].order = report[r].order - 1

\* Labels are given once, to one risk, and stay (uq_review_risk_seq).
LabelsStay == /\ \A j, k \in Known : risk[j].seq = risk[k].seq => j = k
              /\ \A r \in Committed, k \in Keys : report[r].register[k].seq \in {0, risk[k].seq}

\* Recording a snapshot never fails on the unique index (review_cpu.py,
\* "Serialize replacement even when no snapshot exists yet").
RecordingNeverConflicts == \A c \in Recorders : ~InStep(c, "conflict")

\* What a reader may rely on: reports follow one another, labels are given once, and
\* recording a snapshot meets no unique index.
ReportsFollow == PreviousIsNewest /\ LabelsStay /\ RecordingNeverConflicts
=============================================================================
