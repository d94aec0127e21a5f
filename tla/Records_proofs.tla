---------------------------- MODULE Records_proofs ----------------------------
(***************************************************************************)
(* Proofs about ProjectReview, SimulationEvidence and PowerFit, three of   *)
(* the components that meet in the database only, for every set of         *)
(* requests, risks, reports, exports and parameters.                       *)
(***************************************************************************)
EXTENDS ProjectReview, SimulationEvidence, PowerFit, FiniteSetTheorems, TLAPS

-----------------------------------------------------------------------------
(* ProjectReview: the inductive invariant.                                 *)

Risk == [seq : Nat, status : {"none", "open", "closed"}, auto : {"none", "active", "resolve_candidate"},
         evidence : BOOLEAN]
Register == [Keys -> Risk]
Report == [order : Nat, register : Register, previous : Reports \cup {Nobody}]
Locks == Rows \cup {"project"}
Writers == Editors \cup Reports
TxFields == {"pc", "seen", "row", "status", "history"}

ReviewTyped ==
    /\ firing \subseteq Keys
    /\ risk \in Register
    /\ report \in [Reports -> Report]
    /\ edited \in [Rows -> Seq(Writers)]
    /\ \A k \in Keys : Len(edited[k]) <= HistoryLimit
    /\ DOMAIN snapshot = Recorders
    /\ DOMAIN rowLock = Locks
    /\ DOMAIN tx = Transactions
    /\ \A q \in Transactions : DOMAIN tx[q] = TxFields

\* A row that is not in the register has no label, one that is in it has a state.
UnknownIsBlank == \A k \in Keys : /\ risk[k].status = "none" => risk[k].seq = 0
                                  /\ risk[k].auto = "none" => risk[k].status = "none"
LabelsDiffer(register) ==
    \A j, k \in Keys : register[j].status # "none" /\ register[k].status # "none" /\ register[j].seq = register[k].seq => j = k

\* What request q may make of the history of row x: its own entries come after what
\* is there, of which only a full history of a risk loses the oldest.
WritesOn(x, h, q) ==
    \E n \in 0..Len(edited[x]) : /\ GoesOn(edited[x], h, n, q)
                                 /\ n > 0 => x \in Keys /\ Len(h) = HistoryLimit

\* What an edit holds while it is open.
EditFits(e) ==
       InStep(e, "open") => /\ tx[e].row \in Rows
                            /\ tx[e].row \in Keys => tx[e].row \in Known
                            /\ rowLock[tx[e].row] = e
                            /\ tx[e].history = edited[tx[e].row]

\* The orders of the committed reports are 1, 2, ... without a gap.
OrdersCount ==
    /\ \A r \in Committed : InStep(r, "done") /\ report[r].order \in 1..Cardinality(Committed)
    /\ \A r, s \in Committed : report[r].order = report[s].order => r = s
    /\ \A n \in 1..Cardinality(Committed) : \E r \in Committed : report[r].order = n

\* A report in the making holds the project and the register it is about to leave,
\* and its predecessor is the last one that was committed.
FollowsOn(register) ==
    /\ \A k \in Known : /\ register[k].seq = risk[k].seq
                        /\ register[k].evidence = risk[k].evidence
                        /\ register[k].status \in {risk[k].status, "open"}
    /\ \A k \in Keys : /\ register[k].status = "none" => register[k].seq = 0
                       /\ register[k].auto = "none" => register[k].status = "none"
    /\ LabelsDiffer(register)
HistoryFits(r, k) ==
    LET h == tx[r].history[k] IN
    /\ h \in Seq(Writers) /\ Len(h) <= HistoryLimit
    /\ h # edited[k] \/ report[r].register[k] # risk[k] => WritesOn(k, h, r)
ReportFits(r) ==
    /\ InStep(r, "gathered") => tx[r].seen \subseteq Keys
    /\ InStep(r, "synced") =>
          /\ rowLock["project"] = r
          /\ \A k \in Known : rowLock[k] = r
          /\ report[r].order = 0
          /\ FollowsOn(report[r].register)
          /\ \A k \in Keys : HistoryFits(r, k)
          /\ IF Committed = {} THEN report[r].previous = Nobody
             ELSE report[r].previous \in Committed /\ report[report[r].previous].order = Cardinality(Committed)

\* Nobody else adds an active snapshot while one is recorded.
RecordFits(c) ==
    /\ InStep(c, "replacing") => rowLock["project"] = c /\ ActiveSnapshots \subseteq tx[c].seen
    /\ ~InStep(c, "conflict")

ReviewInv ==
    /\ ReviewTyped
    /\ UnknownIsBlank /\ LabelsStay
    /\ OrdersCount /\ PreviousIsNewest
    /\ \A r \in Reports : ReportFits(r)
    /\ \A e \in Editors : EditFits(e)
    /\ \A c \in Recorders : RecordFits(c)

-----------------------------------------------------------------------------
(* SimulationEvidence: the inductive invariant.                            *)

RunSteps == {"idle", "lookup", "calculated", "intended", "prepared", "conflict", "cached", "stored", "failed"}
RunRow == [pc : RunSteps, force : BOOLEAN, trace : BOOLEAN, intended : BOOLEAN, insert : BOOLEAN]
ExportSteps == {"idle", "begun", "staged", "published", "named", "committed", "undo"} \cup Ends
ExportRow == [pc : ExportSteps, overwrite : BOOLEAN, previous : Exports \cup {Unset}, unnoticed : BOOLEAN]

EvidenceTyped ==
    /\ row \in [exists : BOOLEAN, writer : Runs \cup {Unset}, trace : BOOLEAN, generation : Exports \cup {Unset}]
    /\ run \in [Runs -> RunRow]
    /\ export \in [Exports -> ExportRow]
    /\ generations \in [Exports -> {"none", "staging", "published", "removed"}]
    /\ calm \in BOOLEAN

\* The steps of an export before its commit.
Early == {"idle", "begun", "refused", "staged", "published", "named"}

ExportFits(x) ==
    /\ export[x].pc \in Early => row.generation # x
    /\ export[x].pc \in {"idle", "begun", "refused"} => generations[x] = "none"
    /\ ExportAt(x, "staged") => generations[x] # "published"
    /\ export[x].pc \in {"published", "named"} => generations[x] = "published"
    /\ ExportAt(x, "undo") /\ ~export[x].unnoticed => row.generation # x
    /\ export[x].previous # Unset => export[export[x].previous].pc \notin Early
    /\ ExportAt(x, "committed") /\ export[x].previous # Unset => row.generation # export[x].previous

\* While nothing goes wrong there is one export at a time, which removes what the
\* row named before it.
CalmExport ==
    /\ \A x, y \in Exports : ~IsOver(x) /\ ~IsOver(y) => x = y
    /\ \A x \in Exports : /\ export[x].pc \in {"begun", "staged", "published", "named"} => export[x].previous = row.generation
                          /\ ExportAt(x, "committed") => row.generation = x
    /\ \A y \in Exports : generations[y] = "published" =>
          \/ y = row.generation \/ ~IsOver(y)
          \/ \E x \in Exports : ExportAt(x, "committed") /\ export[x].previous = y

\* A row that was found, or must have been found, is there.
CalmRun(r) ==
    /\ run[r].pc \in {"intended", "prepared"} /\ ~run[r].intended => row.exists
    /\ RunAt(r, "prepared") /\ ~run[r].insert => row.exists
    /\ RunAt(r, "prepared") /\ run[r].insert => run[r].intended
    /\ RunAt(r, "conflict") => row.exists
    /\ ~RunAt(r, "failed")

EvidenceInv ==
    /\ EvidenceTyped
    /\ ~row.exists => row.generation = Unset
    /\ NamedFilesExist
    /\ \A x \in Exports : ExportFits(x)
    /\ calm => CalmExport /\ \A r \in Runs : CalmRun(r)

-----------------------------------------------------------------------------
(* PowerFit: the inductive invariant.                                      *)

FitFields == {"at", "base", "version", "id", "loaded"}

\* Parameters named as calibrations name theirs have the version of their name.
CalibratedName(p) == \A stem, n : p.id = Cal(<<stem, n>>) => p.version = n

RequestFits(r) ==
    /\ request[r].at \in {"versioned", "named"} => request[r].version \in Nat \ {0}
    /\ FitAt(r, "named") => request[r].id \in {Versioned(request[r].base.id, request[r].version),
                                               Cal(Versioned(request[r].base.id, request[r].version))}

\* VersionsAreSerial, for one request.
Serial(r) ==
    ~request[r].loaded =>
        /\ request[r].at \in {"versioned", "named"} => \A n \in VersionsOf(request[r].base.soc) : n < request[r].version
        /\ FitAt(r, "named") => \A p \in rows : p.id = request[r].id => p.soc # request[r].base.soc

FitInv ==
    /\ IsFiniteSet(rows)
    /\ \A p \in rows : p.version \in Nat /\ CalibratedName(p)
    /\ DOMAIN request = Calibrations
    /\ \A r \in Calibrations : DOMAIN request[r] = FitFields
    /\ \A q, r \in Calibrations : HasLock(q) /\ HasLock(r) /\ request[q].base.soc = request[r].base.soc => q = r
    /\ \A r \in Calibrations : RequestFits(r) /\ Serial(r)

-----------------------------------------------------------------------------
(* SimulationEvidence: how its records change.                             *)

LEMMA RunUpdates ==
    ASSUME NEW a \in RunRow, NEW pc \in RunSteps, NEW b \in BOOLEAN, NEW c \in BOOLEAN
    PROVE  /\ [a EXCEPT !.pc = pc] \in RunRow
           /\ [a EXCEPT !.pc = pc, !.intended = b] \in RunRow
           /\ [a EXCEPT !.pc = pc, !.insert = b] \in RunRow
           /\ [a EXCEPT !.pc = pc, !.force = b, !.trace = c] \in RunRow
  BY DEF RunRow

LEMMA RunMoves ==
    ASSUME EvidenceTyped, NEW r \in Runs, NEW pc \in RunSteps, RunTo(r, pc)
    PROVE  /\ run' \in [Runs -> RunRow]
           /\ \A q \in Runs \ {r} : run'[q] = run[q]
           /\ run'[r].pc = pc
           /\ pc \notin {"cached", "stored", "failed"} => /\ run'[r].intended = run[r].intended
                                                          /\ run'[r].insert = run[r].insert
  <1>1. run \in [Runs -> RunRow]
    BY DEF EvidenceTyped
  <1>2. NewRun \in RunRow
    BY DEF NewRun, RunRow, RunSteps
  <1>3. PICK new \in RunRow : run' = [run EXCEPT ![r] = new] /\ new \in {[NewRun EXCEPT !.pc = pc], [run[r] EXCEPT !.pc = pc]}
                              /\ (pc \notin {"cached", "stored", "failed"} => new = [run[r] EXCEPT !.pc = pc])
    <2>1. CASE pc \in {"cached", "stored", "failed"}
      BY <1>1, <1>2, <2>1, RunUpdates DEF RunTo
    <2>2. CASE pc \notin {"cached", "stored", "failed"}
      BY <1>1, <2>2, RunUpdates DEF RunTo
    <2>3. QED
      BY <2>1, <2>2
  <1>4. new.pc = pc /\ (pc \notin {"cached", "stored", "failed"} => new.intended = run[r].intended /\ new.insert = run[r].insert)
    BY <1>1, <1>2, <1>3 DEF RunRow
  <1>5. QED
    BY <1>1, <1>3, <1>4

LEMMA ExportUpdates ==
    ASSUME NEW a \in ExportRow, NEW pc \in ExportSteps, NEW b \in BOOLEAN, NEW g \in Exports \cup {Unset}
    PROVE  /\ [a EXCEPT !.pc = pc] \in ExportRow
           /\ [a EXCEPT !.pc = pc, !.unnoticed = b] \in ExportRow
           /\ [a EXCEPT !.pc = pc, !.overwrite = b, !.previous = g] \in ExportRow
  BY DEF ExportRow

LEMMA ExportMoves ==
    ASSUME EvidenceTyped, NEW x \in Exports, NEW pc \in ExportSteps, ExportTo(x, pc)
    PROVE  /\ export' \in [Exports -> ExportRow]
           /\ \A y \in Exports \ {x} : export'[y] = export[y]
           /\ export'[x].pc = pc
           /\ export'[x].unnoticed = export[x].unnoticed
           /\ export'[x].previous = IF pc \in Ends THEN Unset ELSE export[x].previous
  <1>1. export \in [Exports -> ExportRow]
    BY DEF EvidenceTyped
  <1>2. PICK new \in ExportRow : /\ export' = [export EXCEPT ![x] = new]
                                 /\ pc \in Ends => new = [export[x] EXCEPT !.pc = pc, !.overwrite = TRUE, !.previous = Unset]
                                 /\ pc \notin Ends => new = [export[x] EXCEPT !.pc = pc]
    <2>1. CASE pc \in Ends
      BY <1>1, <2>1, ExportUpdates DEF ExportTo
    <2>2. CASE pc \notin Ends
      BY <1>1, <2>2, ExportUpdates DEF ExportTo
    <2>3. QED
      BY <2>1, <2>2
  <1>3. /\ new.pc = pc /\ new.unnoticed = export[x].unnoticed
        /\ new.previous = IF pc \in Ends THEN Unset ELSE export[x].previous
    BY <1>1, <1>2 DEF ExportRow
  <1>4. QED
    BY <1>1, <1>2, <1>3

\* A step of a request to simulate leaves the exports and the named generation alone.
LEMMA RunStep ==
    ASSUME EvidenceInv, EvidenceTyped', UNCHANGED <<export, generations, calm>>,
           row'.generation = row.generation, row.exists => row'.exists,
           calm => \A r \in Runs : CalmRun(r)'
    PROVE  EvidenceInv'
  <1>1. NamedFilesExist' /\ (~row.exists => row.generation = Unset)'
    BY DEF EvidenceInv, NamedFilesExist
  <1>2. \A x \in Exports : ExportFits(x)'
    BY DEF EvidenceInv, ExportFits, ExportAt
  <1>3. calm' => CalmExport'
    BY DEF EvidenceInv, CalmExport, ExportAt, IsOver
  <1>4. QED
    BY <1>1, <1>2, <1>3 DEF EvidenceInv

\* A step of an export leaves the requests to simulate and the row they found alone.
LEMMA ExportStep ==
    ASSUME EvidenceInv, EvidenceTyped', run' = run, row'.exists = row.exists, calm' => calm,
           NamedFilesExist', (~row.exists => row.generation = Unset)',
           \A x \in Exports : ExportFits(x)',
           calm' => CalmExport'
    PROVE  EvidenceInv'
  <1>1. ASSUME calm', NEW r \in Runs PROVE CalmRun(r)'
    BY <1>1 DEF EvidenceInv, CalmRun, RunAt
  <1>2. QED
    BY <1>1 DEF EvidenceInv

LEMMA EvidenceStarts == EvidenceInit => EvidenceInv
  <1> SUFFICES ASSUME EvidenceInit PROVE EvidenceInv
    OBVIOUS
  <1>1. EvidenceTyped
    BY DEF EvidenceInit, EvidenceTyped, NoRow, NewRun, RunRow, RunSteps, ExportRow, ExportSteps
  <1>2. NamedFilesExist /\ (~row.exists => row.generation = Unset)
    BY DEF EvidenceInit, NamedFilesExist, NoRow
  <1>3. ASSUME NEW x \in Exports PROVE ExportFits(x)
    <2>1. Unset \notin Exports
      BY EvidenceAssumption
    <2>2. QED
      BY <2>1 DEF EvidenceInit, ExportFits, NoRow, ExportAt
  <1>4. CalmExport /\ \A r \in Runs : CalmRun(r)
    BY DEF EvidenceInit, CalmExport, CalmRun, RunAt, NewRun, IsOver, ExportAt
  <1>5. QED
    BY <1>1, <1>2, <1>3, <1>4 DEF EvidenceInv

LEMMA RunKeepsEvidence ==
    ASSUME EvidenceInv, NEW r \in Runs,
           Ask(r) \/ Lookup(r) \/ Intend(r) \/ Prepare(r) \/ Commit(r) \/ TakeWinner(r)
    PROVE  EvidenceInv'
  <1> DEFINE Calm == \A q \in Runs : CalmRun(q)
  <1>1. EvidenceTyped /\ (calm => Calm)
    BY DEF EvidenceInv
  <1>2. CASE Ask(r)
    <2>1. PICK force, trace \in BOOLEAN :
              run' = [run EXCEPT ![r] = [run[r] EXCEPT !.pc = "lookup", !.force = force, !.trace = trace]]
      BY <1>2 DEF Ask
    <2> DEFINE new == [run[r] EXCEPT !.pc = "lookup", !.force = force, !.trace = trace]
    <2>2. new \in RunRow /\ new.pc = "lookup"
      <3>1. run[r] \in RunRow /\ "lookup" \in RunSteps
        BY <1>1 DEF EvidenceTyped, RunSteps
      <3>2. new \in RunRow
        BY <3>1, RunUpdates
      <3>3. QED
        BY <3>1, <3>2 DEF RunRow
    <2>3. EvidenceTyped'
      BY <1>1, <1>2, <2>1, <2>2 DEF EvidenceTyped, Ask
    <2>4. \A q \in Runs : run'[q] = run[q] \/ (q = r /\ run'[q].pc = "lookup")
      BY <1>1, <2>1, <2>2 DEF EvidenceTyped
    <2>5. calm => Calm'
      BY <1>1, <1>2, <2>4 DEF CalmRun, RunAt, Ask
    <2>6. QED
      BY <1>2, <2>3, <2>5, RunStep DEF Ask
  <1>3. CASE Lookup(r)
    <2> DEFINE pc == IF ~run[r].force /\ HasWanted(r) THEN "cached" ELSE "calculated"
    <2>1. pc \in RunSteps /\ RunTo(r, pc)
      BY <1>3 DEF Lookup, RunSteps
    <2>2. EvidenceTyped'
      BY <1>1, <1>3, <2>1, RunMoves DEF EvidenceTyped, Lookup
    <2>3. run'[r].pc \in {"cached", "calculated"} /\ \A q \in Runs \ {r} : run'[q] = run[q]
      BY <1>1, <2>1, RunMoves
    <2>4. calm => Calm'
      BY <1>1, <1>3, <2>3 DEF CalmRun, RunAt, Lookup
    <2>5. QED
      BY <1>3, <2>2, <2>4, RunStep DEF Lookup
  <1>4. CASE Intend(r)
    <2> DEFINE new == [run[r] EXCEPT !.pc = "intended", !.intended = ~row.exists]
    <2>1. new \in RunRow /\ run' = [run EXCEPT ![r] = new]
      BY <1>1, <1>4, RunUpdates DEF EvidenceTyped, RunSteps, Intend
    <2>2. EvidenceTyped'
      BY <1>1, <1>4, <2>1 DEF EvidenceTyped, Intend
    <2>3. /\ run'[r].pc = "intended" /\ run'[r].intended = ~row.exists
          /\ \A q \in Runs \ {r} : run'[q] = run[q]
      BY <1>1, <2>1 DEF EvidenceTyped, RunRow
    <2>4. calm => Calm'
      BY <1>1, <1>4, <2>3 DEF CalmRun, RunAt, Intend
    <2>5. QED
      BY <1>4, <2>2, <2>4, RunStep DEF Intend
  <1>5. CASE Prepare(r)
    <2> DEFINE new == [run[r] EXCEPT !.pc = "prepared", !.insert = ~row.exists]
    <2>1. new \in RunRow /\ run' = [run EXCEPT ![r] = new]
      BY <1>1, <1>5, RunUpdates DEF EvidenceTyped, RunSteps, Prepare
    <2>2. EvidenceTyped'
      BY <1>1, <1>5, <2>1 DEF EvidenceTyped, Prepare
    <2>3. /\ run'[r].pc = "prepared" /\ run'[r].intended = run[r].intended /\ run'[r].insert = ~row.exists
          /\ \A q \in Runs \ {r} : run'[q] = run[q]
      BY <1>1, <2>1 DEF EvidenceTyped, RunRow
    <2>4. calm => Calm'
      BY <1>1, <1>5, <2>3 DEF CalmRun, RunAt, Prepare
    <2>5. QED
      BY <1>5, <2>2, <2>4, RunStep DEF Prepare
  <1>6. CASE Commit(r)
    <2>1. CASE run[r].insert = ~row.exists
      <3>1. row' = Upserted(r) /\ RunTo(r, "stored") /\ "stored" \in RunSteps
        BY <1>6, <2>1 DEF Commit, RunSteps
      <3>2. row'.exists /\ row'.generation = row.generation
        BY <3>1 DEF Upserted
      <3>3. EvidenceTyped'
        <4>1. run' \in [Runs -> RunRow]
          BY <1>1, <3>1, RunMoves
        <4>2. run[r].trace \in BOOLEAN
          BY <1>1 DEF EvidenceTyped, RunRow
        <4>3. row' \in [exists : BOOLEAN, writer : Runs \cup {Unset}, trace : BOOLEAN, generation : Exports \cup {Unset}]
          BY <1>1, <3>1, <4>2 DEF EvidenceTyped, Upserted
        <4>4. QED
          BY <1>1, <1>6, <4>1, <4>3 DEF EvidenceTyped, Commit
      <3>4. run'[r].pc = "stored" /\ \A q \in Runs \ {r} : run'[q] = run[q]
        BY <1>1, <3>1, RunMoves
      <3>5. calm => Calm'
        BY <1>1, <3>2, <3>4 DEF CalmRun, RunAt
      <3>6. QED
        BY <1>6, <3>2, <3>3, <3>5, RunStep DEF Commit
    <2>2. CASE run[r].insert # ~row.exists
      <3> DEFINE pc == IF run[r].insert THEN Recovered(r) ELSE "failed"
      <3>1. row' = row /\ RunTo(r, pc) /\ pc \in RunSteps
        BY <1>6, <2>2 DEF Commit, RunSteps, Recovered
      <3>2. EvidenceTyped'
        BY <1>1, <1>6, <3>1, RunMoves DEF EvidenceTyped, Commit
      <3>3. run'[r].pc = pc /\ \A q \in Runs \ {r} : run'[q] = run[q]
        BY <1>1, <3>1, RunMoves
      <3>4. calm => pc = "conflict" /\ row.exists
        <4>1. RunAt(r, "prepared") /\ (calm => CalmRun(r))
          BY <1>1, <1>6 DEF Commit
        <4>2. CASE run[r].insert
          BY <2>2, <4>1, <4>2 DEF CalmRun, Recovered
        <4>3. CASE ~run[r].insert
          <5>1. ~row.exists
            BY <1>1, <2>2, <4>3 DEF EvidenceTyped, RunRow
          <5>2. QED
            BY <4>1, <4>3, <5>1 DEF CalmRun
        <4>4. QED
          BY <4>2, <4>3
      <3>5. calm => Calm'
        BY <1>1, <3>1, <3>3, <3>4 DEF CalmRun, RunAt
      <3>6. QED
        BY <1>6, <3>1, <3>2, <3>5, RunStep DEF Commit
    <2>3. QED
      BY <2>1, <2>2
  <1>7. CASE TakeWinner(r)
    <2> DEFINE pc == IF row.exists THEN "cached" ELSE "failed"
    <2>1. RunTo(r, pc) /\ pc \in RunSteps
      BY <1>7 DEF TakeWinner, RunSteps
    <2>2. EvidenceTyped'
      BY <1>1, <1>7, <2>1, RunMoves DEF EvidenceTyped, TakeWinner
    <2>3. run'[r].pc = pc /\ \A q \in Runs \ {r} : run'[q] = run[q]
      BY <1>1, <2>1, RunMoves
    <2>4. calm => Calm'
      BY <1>1, <1>7, <2>3 DEF CalmRun, RunAt, TakeWinner
    <2>5. QED
      BY <1>7, <2>2, <2>4, RunStep DEF TakeWinner
  <1>8. QED
    BY <1>2, <1>3, <1>4, <1>5, <1>6, <1>7

LEMMA DeleteKeepsEvidence ==
    ASSUME EvidenceInv, Delete PROVE EvidenceInv'
  <1>1. EvidenceTyped' /\ ~calm'
    BY DEF EvidenceInv, EvidenceTyped, Delete, NoRow
  <1>2. NamedFilesExist' /\ (~row.exists => row.generation = Unset)'
    BY DEF Delete, NoRow, NamedFilesExist
  <1>3. ASSUME NEW x \in Exports PROVE ExportFits(x)'
    <2>1. Unset # x /\ row'.generation = Unset
      BY EvidenceAssumption DEF Delete, NoRow
    <2>2. QED
      BY <2>1 DEF EvidenceInv, ExportFits, Delete, ExportAt
  <1>4. QED
    BY <1>1, <1>2, <1>3 DEF EvidenceInv

LEMMA StageFilesKeepsEvidence ==
    ASSUME EvidenceInv, NEW x \in Exports, StageFiles(x) PROVE EvidenceInv'
  <1> USE DEF ExportAt
  <1> DEFINE pc == IF ~export[x].overwrite /\ \E y \in Exports : generations[y] = "published" THEN "refused" ELSE "staged"
  <1>1. EvidenceTyped /\ ExportFits(x) /\ Unset \notin Exports
    BY EvidenceAssumption DEF EvidenceInv
  <1>2. pc \in ExportSteps /\ ExportTo(x, pc)
    BY <1>1 DEF StageFiles, ExportSteps, Ends
  <1>3. /\ export' \in [Exports -> ExportRow]
        /\ \A y \in Exports \ {x} : export'[y] = export[y]
        /\ export'[x].pc = pc /\ export'[x].unnoticed = export[x].unnoticed
        /\ export'[x].previous = IF pc \in Ends THEN Unset ELSE export[x].previous
    BY <1>1, <1>2, ExportMoves
  <1>4. EvidenceTyped'
    BY <1>1, <1>3 DEF StageFiles, EvidenceTyped
  <1>5. NamedFilesExist' /\ (~row.exists => row.generation = Unset)'
    BY <1>1, <1>3 DEF EvidenceInv, StageFiles, NamedFilesExist, ExportFits, EvidenceTyped, Early
  <1>6. ASSUME NEW y \in Exports PROVE ExportFits(y)'
    <2>1. ExportFits(y)
      BY DEF EvidenceInv
    <2>2. CASE y = x
      BY <1>1, <1>3, <2>2 DEF StageFiles, ExportFits, EvidenceTyped, ExportRow, Early, Ends
    <2>3. CASE y # x
      BY <1>1, <1>3, <2>1, <2>3 DEF StageFiles, ExportFits, EvidenceTyped, ExportRow, Early, Ends
    <2>4. QED
      BY <2>2, <2>3
  <1>7. calm' => CalmExport'
    BY <1>1, <1>3 DEF EvidenceInv, StageFiles, CalmExport, ExportFits, IsOver, EvidenceTyped, ExportRow, Early, Ends
  <1>8. QED
    BY <1>4, <1>5, <1>6, <1>7, ExportStep DEF StageFiles

LEMMA StagingFailsKeepsEvidence ==
    ASSUME EvidenceInv, NEW x \in Exports, StagingFails(x) PROVE EvidenceInv'
  <1> USE DEF ExportAt
  <1> DEFINE pc == "failed"
  <1>1. EvidenceTyped /\ ExportFits(x) /\ Unset \notin Exports
    BY EvidenceAssumption DEF EvidenceInv
  <1>2. pc \in ExportSteps /\ ExportTo(x, pc)
    BY <1>1 DEF StagingFails, ExportSteps, Ends
  <1>3. /\ export' \in [Exports -> ExportRow]
        /\ \A y \in Exports \ {x} : export'[y] = export[y]
        /\ export'[x].pc = pc /\ export'[x].unnoticed = export[x].unnoticed
        /\ export'[x].previous = IF pc \in Ends THEN Unset ELSE export[x].previous
    BY <1>1, <1>2, ExportMoves
  <1>4. EvidenceTyped'
    BY <1>1, <1>3 DEF StagingFails, EvidenceTyped
  <1>5. NamedFilesExist' /\ (~row.exists => row.generation = Unset)'
    BY <1>1, <1>3 DEF EvidenceInv, StagingFails, NamedFilesExist, ExportFits, EvidenceTyped, Early
  <1>6. ASSUME NEW y \in Exports PROVE ExportFits(y)'
    <2>1. ExportFits(y)
      BY DEF EvidenceInv
    <2>2. CASE y = x
      BY <1>1, <1>3, <2>2 DEF StagingFails, ExportFits, EvidenceTyped, ExportRow, Early, Ends
    <2>3. CASE y # x
      BY <1>1, <1>3, <2>1, <2>3 DEF StagingFails, ExportFits, EvidenceTyped, ExportRow, Early, Ends
    <2>4. QED
      BY <2>2, <2>3
  <1>7. calm' => CalmExport'
    BY <1>1, <1>3 DEF EvidenceInv, StagingFails, CalmExport, ExportFits, IsOver, EvidenceTyped, ExportRow, Early, Ends
  <1>8. QED
    BY <1>4, <1>5, <1>6, <1>7, ExportStep DEF StagingFails

LEMMA PublishKeepsEvidence ==
    ASSUME EvidenceInv, NEW x \in Exports, Publish(x) PROVE EvidenceInv'
  <1> USE DEF ExportAt
  <1> DEFINE pc == IF generations[x] = "staging" THEN "published" ELSE "failed"
  <1>1. EvidenceTyped /\ ExportFits(x) /\ Unset \notin Exports
    BY EvidenceAssumption DEF EvidenceInv
  <1>2. pc \in ExportSteps /\ ExportTo(x, pc)
    BY <1>1 DEF Publish, ExportSteps, Ends
  <1>3. /\ export' \in [Exports -> ExportRow]
        /\ \A y \in Exports \ {x} : export'[y] = export[y]
        /\ export'[x].pc = pc /\ export'[x].unnoticed = export[x].unnoticed
        /\ export'[x].previous = IF pc \in Ends THEN Unset ELSE export[x].previous
    BY <1>1, <1>2, ExportMoves
  <1>4. EvidenceTyped'
    BY <1>1, <1>3 DEF Publish, EvidenceTyped
  <1>5. NamedFilesExist' /\ (~row.exists => row.generation = Unset)'
    BY <1>1, <1>3 DEF EvidenceInv, Publish, NamedFilesExist, ExportFits, EvidenceTyped, Early
  <1>6. ASSUME NEW y \in Exports PROVE ExportFits(y)'
    <2>1. ExportFits(y)
      BY DEF EvidenceInv
    <2>2. CASE y = x
      BY <1>1, <1>3, <2>2 DEF Publish, ExportFits, EvidenceTyped, ExportRow, Early, Ends
    <2>3. CASE y # x
      BY <1>1, <1>3, <2>1, <2>3 DEF Publish, ExportFits, EvidenceTyped, ExportRow, Early, Ends
    <2>4. QED
      BY <2>2, <2>3
  <1>7. calm' => CalmExport'
    BY <1>1, <1>3 DEF EvidenceInv, Publish, CalmExport, ExportFits, IsOver, EvidenceTyped, ExportRow, Early, Ends
  <1>8. QED
    BY <1>4, <1>5, <1>6, <1>7, ExportStep DEF Publish

LEMMA NameFilesKeepsEvidence ==
    ASSUME EvidenceInv, NEW x \in Exports, NameFiles(x) PROVE EvidenceInv'
  <1> USE DEF ExportAt
  <1> DEFINE pc == IF row.exists THEN "named" ELSE "undo"
  <1>1. EvidenceTyped /\ ExportFits(x) /\ Unset \notin Exports
    BY EvidenceAssumption DEF EvidenceInv
  <1>2. pc \in ExportSteps /\ ExportTo(x, pc)
    BY <1>1 DEF NameFiles, ExportSteps, Ends
  <1>3. /\ export' \in [Exports -> ExportRow]
        /\ \A y \in Exports \ {x} : export'[y] = export[y]
        /\ export'[x].pc = pc /\ export'[x].unnoticed = export[x].unnoticed
        /\ export'[x].previous = IF pc \in Ends THEN Unset ELSE export[x].previous
    BY <1>1, <1>2, ExportMoves
  <1>4. EvidenceTyped'
    BY <1>1, <1>3 DEF NameFiles, EvidenceTyped
  <1>5. NamedFilesExist' /\ (~row.exists => row.generation = Unset)'
    BY <1>1, <1>3 DEF EvidenceInv, NameFiles, NamedFilesExist, ExportFits, EvidenceTyped, Early
  <1>6. ASSUME NEW y \in Exports PROVE ExportFits(y)'
    <2>1. ExportFits(y)
      BY DEF EvidenceInv
    <2>2. CASE y = x
      BY <1>1, <1>3, <2>2 DEF NameFiles, ExportFits, EvidenceTyped, ExportRow, Early, Ends
    <2>3. CASE y # x
      BY <1>1, <1>3, <2>1, <2>3 DEF NameFiles, ExportFits, EvidenceTyped, ExportRow, Early, Ends
    <2>4. QED
      BY <2>2, <2>3
  <1>7. calm' => CalmExport'
    BY <1>1, <1>3 DEF EvidenceInv, NameFiles, CalmExport, ExportFits, IsOver, EvidenceTyped, ExportRow, Early, Ends
  <1>8. QED
    BY <1>4, <1>5, <1>6, <1>7, ExportStep DEF NameFiles

LEMMA UndoKeepsEvidence ==
    ASSUME EvidenceInv, NEW x \in Exports, Undo(x) PROVE EvidenceInv'
  <1> USE DEF ExportAt
  <1> DEFINE pc == "failed"
  <1>1. EvidenceTyped /\ ExportFits(x) /\ Unset \notin Exports
    BY EvidenceAssumption DEF EvidenceInv
  <1>2. pc \in ExportSteps /\ ExportTo(x, pc)
    BY <1>1 DEF Undo, ExportSteps, Ends
  <1>3. /\ export' \in [Exports -> ExportRow]
        /\ \A y \in Exports \ {x} : export'[y] = export[y]
        /\ export'[x].pc = pc /\ export'[x].unnoticed = export[x].unnoticed
        /\ export'[x].previous = IF pc \in Ends THEN Unset ELSE export[x].previous
    BY <1>1, <1>2, ExportMoves
  <1>4. EvidenceTyped'
    BY <1>1, <1>3 DEF Undo, EvidenceTyped
  <1>5. NamedFilesExist' /\ (~row.exists => row.generation = Unset)'
    BY <1>1, <1>3 DEF EvidenceInv, Undo, NamedFilesExist, ExportFits, EvidenceTyped, Early
  <1>6. ASSUME NEW y \in Exports PROVE ExportFits(y)'
    <2>1. ExportFits(y)
      BY DEF EvidenceInv
    <2>2. CASE y = x
      BY <1>1, <1>3, <2>2 DEF Undo, ExportFits, EvidenceTyped, ExportRow, Early, Ends
    <2>3. CASE y # x
      BY <1>1, <1>3, <2>1, <2>3 DEF Undo, ExportFits, EvidenceTyped, ExportRow, Early, Ends
    <2>4. QED
      BY <2>2, <2>3
  <1>7. calm' => CalmExport'
    BY <1>1, <1>3 DEF EvidenceInv, Undo, CalmExport, ExportFits, IsOver, EvidenceTyped, ExportRow, Early, Ends
  <1>8. QED
    BY <1>4, <1>5, <1>6, <1>7, ExportStep DEF Undo

LEMMA CleanUpKeepsEvidence ==
    ASSUME EvidenceInv, NEW x \in Exports, CleanUp(x) PROVE EvidenceInv'
  <1> USE DEF ExportAt
  <1> DEFINE pc == "done"
  <1>1. EvidenceTyped /\ ExportFits(x) /\ Unset \notin Exports
    BY EvidenceAssumption DEF EvidenceInv
  <1>2. pc \in ExportSteps /\ ExportTo(x, pc)
    BY <1>1 DEF CleanUp, ExportSteps, Ends
  <1>3. /\ export' \in [Exports -> ExportRow]
        /\ \A y \in Exports \ {x} : export'[y] = export[y]
        /\ export'[x].pc = pc /\ export'[x].unnoticed = export[x].unnoticed
        /\ export'[x].previous = IF pc \in Ends THEN Unset ELSE export[x].previous
    BY <1>1, <1>2, ExportMoves
  <1>4. EvidenceTyped'
    BY <1>1, <1>3 DEF CleanUp, Superseded, EvidenceTyped
  <1>5. NamedFilesExist' /\ (~row.exists => row.generation = Unset)'
    BY <1>1, <1>3 DEF EvidenceInv, CleanUp, Superseded, NamedFilesExist, ExportFits, EvidenceTyped, Early
  <1>6. ASSUME NEW y \in Exports PROVE ExportFits(y)'
    <2>1. ExportFits(y)
      BY DEF EvidenceInv
    <2>2. CASE y = x
      BY <1>1, <1>3, <2>2 DEF CleanUp, Superseded, ExportFits, EvidenceTyped, ExportRow, Early, Ends
    <2>3. CASE y # x
      BY <1>1, <1>3, <2>1, <2>3 DEF CleanUp, Superseded, ExportFits, EvidenceTyped, ExportRow, Early, Ends
    <2>4. QED
      BY <2>2, <2>3
  <1>7. calm' => CalmExport'
    BY <1>1, <1>3 DEF EvidenceInv, CleanUp, Superseded, CalmExport, ExportFits, IsOver, EvidenceTyped, ExportRow, Early, Ends
  <1>8. QED
    BY <1>4, <1>5, <1>6, <1>7, ExportStep DEF CleanUp

LEMMA CrashKeepsEvidence ==
    ASSUME EvidenceInv, NEW x \in Exports, Crash(x) PROVE EvidenceInv'
  <1> USE DEF ExportAt
  <1> DEFINE pc == "crashed"
  <1>1. EvidenceTyped /\ ExportFits(x) /\ Unset \notin Exports
    BY EvidenceAssumption DEF EvidenceInv
  <1>2. pc \in ExportSteps /\ ExportTo(x, pc)
    BY <1>1 DEF Crash, ExportSteps, Ends
  <1>3. /\ export' \in [Exports -> ExportRow]
        /\ \A y \in Exports \ {x} : export'[y] = export[y]
        /\ export'[x].pc = pc /\ export'[x].unnoticed = export[x].unnoticed
        /\ export'[x].previous = IF pc \in Ends THEN Unset ELSE export[x].previous
    BY <1>1, <1>2, ExportMoves
  <1>4. EvidenceTyped'
    BY <1>1, <1>3 DEF Crash, EvidenceTyped
  <1>5. NamedFilesExist' /\ (~row.exists => row.generation = Unset)'
    BY <1>1, <1>3 DEF EvidenceInv, Crash, NamedFilesExist, ExportFits, EvidenceTyped, Early
  <1>6. ASSUME NEW y \in Exports PROVE ExportFits(y)'
    <2>1. ExportFits(y)
      BY DEF EvidenceInv
    <2>2. CASE y = x
      BY <1>1, <1>3, <2>2 DEF Crash, ExportFits, EvidenceTyped, ExportRow, Early, Ends
    <2>3. CASE y # x
      BY <1>1, <1>3, <2>1, <2>3 DEF Crash, ExportFits, EvidenceTyped, ExportRow, Early, Ends
    <2>4. QED
      BY <2>2, <2>3
  <1>7. calm' => CalmExport'
    BY <1>1, <1>3 DEF EvidenceInv, Crash, CalmExport, ExportFits, IsOver, EvidenceTyped, ExportRow, Early, Ends
  <1>8. QED
    BY <1>4, <1>5, <1>6, <1>7, ExportStep DEF Crash

LEMMA CommitExportKeepsEvidence ==
    ASSUME EvidenceInv, NEW x \in Exports, CommitExport(x) PROVE EvidenceInv'
  <1> USE DEF ExportAt
  <1> DEFINE pc == IF row.exists THEN "committed" ELSE "undo"
  <1>1. EvidenceTyped /\ ExportFits(x) /\ Unset \notin Exports
    BY EvidenceAssumption DEF EvidenceInv
  <1>2. pc \in ExportSteps /\ ExportTo(x, pc)
    BY <1>1 DEF CommitExport, ExportSteps, Ends
  <1>3. /\ export' \in [Exports -> ExportRow]
        /\ \A y \in Exports \ {x} : export'[y] = export[y]
        /\ export'[x].pc = pc /\ export'[x].unnoticed = export[x].unnoticed
        /\ export'[x].previous = IF pc \in Ends THEN Unset ELSE export[x].previous
    BY <1>1, <1>2, ExportMoves
  <1>4. EvidenceTyped'
    BY <1>1, <1>3 DEF CommitExport, EvidenceTyped
  <1>5. NamedFilesExist' /\ (~row.exists => row.generation = Unset)'
    BY <1>1, <1>3 DEF EvidenceInv, CommitExport, NamedFilesExist, ExportFits, EvidenceTyped, Early
  <1>6. ASSUME NEW y \in Exports PROVE ExportFits(y)'
    <2>1. ExportFits(y)
      BY DEF EvidenceInv
    <2>2. CASE y = x
      BY <1>1, <1>3, <2>2 DEF CommitExport, ExportFits, EvidenceTyped, ExportRow, Early, Ends
    <2>3. CASE y # x
      BY <1>1, <1>3, <2>1, <2>3 DEF CommitExport, ExportFits, EvidenceTyped, ExportRow, Early, Ends
    <2>4. QED
      BY <2>2, <2>3
  <1>7. calm' => CalmExport'
    BY <1>1, <1>3 DEF EvidenceInv, CommitExport, CalmExport, ExportFits, IsOver, EvidenceTyped, ExportRow, Early, Ends
  <1>8. QED
    BY <1>4, <1>5, <1>6, <1>7, ExportStep DEF CommitExport, EvidenceTyped

LEMMA BeginExportKeepsEvidence ==
    ASSUME EvidenceInv, NEW x \in Exports, BeginExport(x) PROVE EvidenceInv'
  <1> USE DEF ExportAt
  <1> DEFINE pc == IF row.exists THEN "begun" ELSE "refused"
  <1>1. EvidenceTyped /\ ExportFits(x) /\ Unset \notin Exports
    BY EvidenceAssumption DEF EvidenceInv
  <1>2. PICK overwrite \in BOOLEAN :
            export' = [export EXCEPT ![x] = [export[x] EXCEPT !.pc = pc, !.overwrite = overwrite, !.previous = row.generation]]
    BY DEF BeginExport
  <1> DEFINE new == [export[x] EXCEPT !.pc = pc, !.overwrite = overwrite, !.previous = row.generation]
  <1>3. new \in ExportRow
    <2>1. export[x] \in ExportRow /\ pc \in ExportSteps /\ row.generation \in Exports \cup {Unset}
      BY <1>1 DEF EvidenceTyped, ExportSteps, Ends
    <2>2. QED
      BY <2>1, ExportUpdates
  <1>4. /\ export' \in [Exports -> ExportRow]
        /\ \A y \in Exports \ {x} : export'[y] = export[y]
        /\ export'[x].pc = pc /\ export'[x].unnoticed = export[x].unnoticed
        /\ export'[x].previous = row.generation
    <2>1. export'[x] = new /\ \A y \in Exports \ {x} : export'[y] = export[y]
      BY <1>1, <1>2 DEF EvidenceTyped
    <2>2. new.pc = pc /\ new.unnoticed = export[x].unnoticed /\ new.previous = row.generation
      BY <1>1 DEF EvidenceTyped, ExportRow
    <2>3. export' \in [Exports -> ExportRow]
      BY <1>1, <1>2, <1>3 DEF EvidenceTyped
    <2>4. QED
      BY <2>1, <2>2, <2>3
  <1>5. EvidenceTyped'
    <2>1. calm' \in BOOLEAN
      BY DEF BeginExport
    <2>2. QED
      BY <1>1, <1>4, <2>1 DEF BeginExport, EvidenceTyped
  <1>6. NamedFilesExist' /\ (~row.exists => row.generation = Unset)'
    BY <1>1, <1>4 DEF EvidenceInv, BeginExport, NamedFilesExist, EvidenceTyped
  <1>7. ASSUME NEW y \in Exports PROVE ExportFits(y)'
    <2>1. ExportFits(y) /\ \A z \in Exports : z = row.generation => export[z].pc \notin Early /\ z # x
      BY <1>1 DEF EvidenceInv, BeginExport, ExportFits, Early
    <2>2. CASE y = x
      BY <1>1, <1>4, <2>1, <2>2 DEF BeginExport, ExportFits, EvidenceTyped, ExportRow, Early, Ends
    <2>3. CASE y # x
      BY <1>1, <1>4, <2>1, <2>3 DEF BeginExport, ExportFits, EvidenceTyped, ExportRow, Early, Ends
    <2>4. QED
      BY <2>2, <2>3
  <1>8. (calm' => calm) /\ (calm' => \A y \in Exports : IsOver(y))
    BY DEF BeginExport, IsOver
  <1>9. calm' => CalmExport'
    BY <1>1, <1>4, <1>8 DEF EvidenceInv, BeginExport, CalmExport, ExportFits, IsOver, EvidenceTyped, ExportRow, Early, Ends
  <1>10. QED
    BY <1>5, <1>6, <1>7, <1>8, <1>9, ExportStep DEF BeginExport

LEMMA ReconcileKeepsEvidence ==
    ASSUME EvidenceInv, NEW x \in Exports, Reconcile(x) PROVE EvidenceInv'
  <1> USE DEF ExportAt
  <1>1. EvidenceTyped'
    BY DEF EvidenceInv, EvidenceTyped, Reconcile
  <1>2. NamedFilesExist' /\ (~row.exists => row.generation = Unset)'
    BY DEF EvidenceInv, EvidenceTyped, Reconcile, NamedFilesExist
  <1>3. ASSUME NEW y \in Exports PROVE ExportFits(y)'
    BY DEF EvidenceInv, EvidenceTyped, Reconcile, ExportFits
  <1>4. calm' => CalmExport'
    BY DEF EvidenceInv, EvidenceTyped, Reconcile, CalmExport, IsOver
  <1>5. QED
    BY <1>1, <1>2, <1>3, <1>4, ExportStep DEF Reconcile

LEMMA CommitExportFailsKeepsEvidence ==
    ASSUME EvidenceInv, NEW x \in Exports, CommitExportFails(x) PROVE EvidenceInv'
  <1> USE DEF ExportAt
  <1>1. EvidenceTyped /\ ExportFits(x) /\ Unset \notin Exports /\ "undo" \in ExportSteps
    BY EvidenceAssumption DEF EvidenceInv, ExportSteps
  <1>2. CASE ExportTo(x, "undo") /\ UNCHANGED <<row, calm>>
    <2>1. /\ export' \in [Exports -> ExportRow]
          /\ \A y \in Exports \ {x} : export'[y] = export[y]
          /\ export'[x].pc = "undo" /\ export'[x].unnoticed = export[x].unnoticed
          /\ export'[x].previous = export[x].previous
      BY <1>1, <1>2, ExportMoves DEF Ends
    <2>2. EvidenceTyped'
      BY <1>1, <1>2, <2>1 DEF CommitExportFails, EvidenceTyped
    <2>3. NamedFilesExist' /\ (~row.exists => row.generation = Unset)'
      BY <1>1, <1>2, <2>1 DEF EvidenceInv, CommitExportFails, NamedFilesExist, EvidenceTyped
    <2>4. ASSUME NEW y \in Exports PROVE ExportFits(y)'
      <3>1. ExportFits(y)
        BY DEF EvidenceInv
      <3>2. QED
        BY <1>1, <1>2, <2>1, <3>1 DEF CommitExportFails, ExportFits, EvidenceTyped, ExportRow, Early, Ends
    <2>5. calm' => CalmExport'
      BY <1>1, <1>2, <2>1 DEF EvidenceInv, CommitExportFails, CalmExport, IsOver, EvidenceTyped, ExportRow, Ends
    <2>6. QED
      BY <1>2, <2>2, <2>3, <2>4, <2>5, ExportStep DEF CommitExportFails
  <1>3. CASE /\ row.exists
             /\ row' = [row EXCEPT !.generation = x]
             /\ export' = [export EXCEPT ![x] = [export[x] EXCEPT !.pc = "undo", !.unnoticed = TRUE]]
             /\ calm' = FALSE
    <2> DEFINE new == [export[x] EXCEPT !.pc = "undo", !.unnoticed = TRUE]
    <2>1. new \in ExportRow /\ new.pc = "undo" /\ new.unnoticed /\ new.previous = export[x].previous
      <3>1. export[x] \in ExportRow
        BY <1>1 DEF EvidenceTyped
      <3>2. new \in ExportRow
        BY <1>1, <3>1, ExportUpdates
      <3>3. QED
        BY <3>1, <3>2 DEF ExportRow
    <2>2. /\ export'[x] = new
          /\ \A y \in Exports \ {x} : export'[y] = export[y]
          /\ export' \in [Exports -> ExportRow]
      BY <1>1, <1>3, <2>1 DEF EvidenceTyped
    <2>3. row'.exists = row.exists /\ row'.generation = x /\ EvidenceTyped'
      BY <1>1, <1>3, <2>2 DEF CommitExportFails, EvidenceTyped
    <2>4. NamedFilesExist' /\ (~row.exists => row.generation = Unset)'
      BY <1>3, <2>1, <2>2, <2>3 DEF NamedFilesExist
    <2>5. ASSUME NEW y \in Exports PROVE ExportFits(y)'
      <3>1. ExportFits(y)
        BY DEF EvidenceInv
      <3>2. generations' = generations /\ export[x].pc = "named"
        BY DEF CommitExportFails
      <3>3. CASE y = x
        <4> DEFINE p == export[x].previous
        <4>1. p # Unset => p \in Exports /\ p # x /\ export[p].pc \notin Early
          BY <1>1, <3>2 DEF ExportFits, EvidenceTyped, ExportRow, Early
        <4>2. p # Unset => export'[p].pc \notin Early
          BY <2>2, <4>1
        <4>3. export'[x].pc = "undo" /\ export'[x].unnoticed /\ export'[x].previous = p
          BY <2>1, <2>2
        <4>4. QED
          BY <3>3, <4>2, <4>3 DEF ExportFits, Early, Ends
      <3>4. CASE y # x
        BY <1>1, <2>1, <2>2, <2>3, <3>1, <3>2, <3>4 DEF ExportFits, EvidenceTyped, ExportRow, Early, Ends
      <3>5. QED
        BY <3>3, <3>4
    <2>6. QED
      BY <1>3, <2>3, <2>4, <2>5, ExportStep DEF CommitExportFails
  <1>4. QED
    BY <1>2, <1>3 DEF CommitExportFails

LEMMA EvidenceStep ==
    ASSUME EvidenceInv, [EvidenceNext]_evidenceVars PROVE EvidenceInv'
  <1>1. CASE EvidenceNext
    BY <1>1, RunKeepsEvidence, DeleteKeepsEvidence, BeginExportKeepsEvidence, StageFilesKeepsEvidence,
       StagingFailsKeepsEvidence, PublishKeepsEvidence, NameFilesKeepsEvidence, CommitExportKeepsEvidence,
       CommitExportFailsKeepsEvidence, UndoKeepsEvidence, CleanUpKeepsEvidence, CrashKeepsEvidence,
       ReconcileKeepsEvidence
    DEF EvidenceNext
  <1>2. CASE UNCHANGED evidenceVars
    BY <1>2 DEF evidenceVars, EvidenceInv, EvidenceTyped, NamedFilesExist, ExportFits, ExportAt, CalmExport, IsOver,
                CalmRun, RunAt
  <1>3. QED
    BY <1>1, <1>2

LEMMA EvidenceAlways == EvidenceSpec => []EvidenceInv
  <1>1. EvidenceInv /\ [EvidenceNext]_evidenceVars => EvidenceInv'
    BY EvidenceStep
  <1>2. QED
    BY EvidenceStarts, <1>1, PTL DEF EvidenceSpec

\* Evidence and its files agree: for any number of runs and exports, whatever overlaps,
\* fails or crashes, the files a row names are there (write_report_bundle,
\* export_result_artifacts), and without a crash, a deletion, an unnoticed commit or
\* exports that overlap no generation is left that the row does not name.
THEOREM Files == EvidenceSpec => []FilesMatchRows
  <1>1. EvidenceInv => NamedFilesExist
    BY DEF EvidenceInv
  <1>2. EvidenceInv => NothingIsLeft
    <2> SUFFICES ASSUME EvidenceInv, calm, \A x \in Exports : IsOver(x), NEW y \in Exports, generations[y] = "published"
                 PROVE  y = row.generation
      BY DEF NothingIsLeft
    <2>1. ~ \E x \in Exports : ExportAt(x, "committed")
      BY DEF IsOver, ExportAt, Ends
    <2>2. QED
      BY <2>1 DEF EvidenceInv, CalmExport
  <1>3. QED
    BY EvidenceAlways, <1>1, <1>2, PTL DEF FilesMatchRows

\* However many identical requests race, none of them fails unless the evidence was
\* deleted: the loser of an insertion answers with the row of the winner
\* (run_simulation_request, upsert_simulation_evidence).
THEOREM Races == EvidenceSpec => []RacingRunsSucceed
  <1>1. EvidenceInv => RacingRunsSucceed
    BY DEF EvidenceInv, CalmRun, RacingRunsSucceed
  <1>2. QED
    BY EvidenceAlways, <1>1, PTL

-----------------------------------------------------------------------------
(* A function on a finite set takes a largest value.                       *)

LEMMA HasLargest ==
    ASSUME NEW K, IsFiniteSet(K), K # {}, NEW f \in [K -> Nat]
    PROVE  \E k \in K : \A j \in K : f[j] <= f[k]
  <1> DEFINE HasOne(U) == \E k \in U : \A j \in U : f[j] <= f[k]
             Without == {U \in FiniteSubsetsOf(K) : U # {} /\ ~HasOne(U)}
  <1>1. ASSUME NEW U \in Without, \A V \in Without : <<V, U>> \notin StrictSubsetOrdering(K)
        PROVE  FALSE
    <2>1. U \in SUBSET K /\ IsFiniteSet(U) /\ U # {} /\ ~HasOne(U)
      BY DEF FiniteSubsetsOf
    <2>2. PICK x \in U : TRUE
      BY <2>1
    <2> DEFINE V == U \ {x}
    <2>3. V \in SUBSET K /\ IsFiniteSet(V) /\ <<V, U>> \in StrictSubsetOrdering(K)
      BY <2>1, <2>2, FS_Subset DEF StrictSubsetOrdering
    <2>4. V = {} \/ HasOne(V)
      BY <1>1, <2>3 DEF FiniteSubsetsOf
    <2>5. CASE V = {}
      <3>1. \A j \in U : f[j] <= f[x]
        BY <2>1, <2>5
      <3>2. QED
        BY <2>1, <2>2, <3>1
    <2>6. CASE HasOne(V)
      <3>1. PICK m \in V : \A j \in V : f[j] <= f[m]
        BY <2>6
      <3>2. \A j \in U : j = x \/ f[j] <= f[m]
        BY <3>1
      <3>3. f[x] \in Nat /\ f[m] \in Nat /\ \A j \in U : f[j] \in Nat
        BY <2>1, <2>2, <3>1
      <3>4. CASE f[x] <= f[m]
        BY <2>1, <3>1, <3>2, <3>4
      <3>5. CASE f[m] <= f[x]
        <4>1. \A j \in U : f[j] <= f[x]
          BY <3>2, <3>3, <3>5
        <4>2. QED
          BY <2>1, <2>2, <4>1
      <3>6. QED
        BY <3>3, <3>4, <3>5
    <2>7. QED
      BY <2>4, <2>5, <2>6
  <1>2. Without = {}
    <2>1. Without \subseteq FiniteSubsetsOf(K) /\ IsWellFoundedOn(StrictSubsetOrdering(K), FiniteSubsetsOf(K))
      BY FS_StrictSubsetOrderingWellFounded
    <2>2. Without # {} => \E U \in Without : \A V \in Without : <<V, U>> \notin StrictSubsetOrdering(K)
      <3> HIDE DEF Without
      <3> QED
        BY <2>1, WFMin
    <2>3. QED
      BY <1>1, <2>2
  <1>3. K \in FiniteSubsetsOf(K)
    BY DEF FiniteSubsetsOf
  <1>4. QED
    BY <1>2, <1>3

-----------------------------------------------------------------------------
(* ProjectReview: names, locks and transactions.                           *)

LEMMA ReviewNames ==
    /\ "project" \notin Rows /\ Keys \subseteq Rows /\ Rows \subseteq Locks
    /\ Reports \cup Editors \cup Recorders \cup Withdraw = Transactions
    /\ Reports \cap Editors = {} /\ Reports \cap Recorders = {} /\ Reports \cap Withdraw = {}
    /\ Editors \cap Recorders = {} /\ Editors \cap Withdraw = {} /\ Recorders \cap Withdraw = {}
    /\ Nobody \notin Transactions
    /\ IsFiniteSet(Keys) /\ IsFiniteSet(Reports)
  BY ReviewAssumption DEF Rows, Locks, Option, Transactions

\* A lock that somebody else holds stays where it is.
LEMMA LocksKept ==
    ASSUME ReviewTyped, NEW q \in Transactions, NEW X \in SUBSET Locks, \A x \in X : Free(q, x)
    PROVE  /\ DOMAIN RowsLocked(q, X) = Locks
           /\ \A x \in X : RowsLocked(q, X)[x] = q
           /\ \A p \in Transactions \ {q}, x \in Locks : rowLock[x] = p => RowsLocked(q, X)[x] = p
  BY ReviewNames DEF ReviewTyped, RowsLocked, Free

LEMMA UnlocksKept ==
    ASSUME ReviewTyped, NEW q \in Transactions
    PROVE  /\ DOMAIN RowsUnlocked(q) = Locks
           /\ \A p \in Transactions \ {q}, x \in Locks : rowLock[x] = p => RowsUnlocked(q)[x] = p
  BY DEF ReviewTyped, RowsUnlocked

LEMMA TxMoves ==
    ASSUME ReviewTyped, NEW q \in Transactions, NEW new, DOMAIN new = TxFields, tx' = [tx EXCEPT ![q] = new]
    PROVE  /\ DOMAIN tx' = Transactions
           /\ \A p \in Transactions : DOMAIN tx'[p] = TxFields
           /\ tx'[q] = new
           /\ \A p \in Transactions \ {q} : tx'[p] = tx[p]
  BY DEF ReviewTyped

LEMMA TxEnds ==
    ASSUME ReviewTyped, NEW q \in Transactions, NEW pc, tx' = [tx EXCEPT ![q].pc = pc]
    PROVE  /\ DOMAIN tx' = Transactions
           /\ \A p \in Transactions : DOMAIN tx'[p] = TxFields
           /\ tx'[q].pc = pc /\ tx'[q].row = tx[q].row /\ tx'[q].seen = tx[q].seen
           /\ \A p \in Transactions \ {q} : tx'[p] = tx[p]
  BY DEF ReviewTyped, TxFields

LEMMA TxLeaves ==
    ASSUME ReviewTyped, NEW q \in Transactions, NEW pc, tx' = Left(q, pc)
    PROVE  /\ DOMAIN tx' = Transactions
           /\ \A p \in Transactions : DOMAIN tx'[p] = TxFields
           /\ tx'[q].pc = pc
           /\ \A p \in Transactions \ {q} : tx'[p] = tx[p]
  BY DEF ReviewTyped, Left, TxFields

\* What a step of one transaction has to keep when it leaves the register and the
\* histories alone.
LEMMA OneMoves ==
    ASSUME ReviewInv, ReviewTyped', risk' = risk, edited' = edited, NEW q \in Transactions,
           \A s \in Reports \ {q} : report'[s] = report[s],
           q \in Reports => tx[q].pc # "done" /\ report'[q].order = 0 /\ ReportFits(q)',
           q \in Editors => EditFits(q)',
           q \in Recorders => RecordFits(q)',
           \A p \in Transactions \ {q} : tx'[p] = tx[p] /\ \A x \in Locks : rowLock[x] = p => rowLock'[x] = p,
           \A c \in Recorders \ {q} : InStep(c, "replacing") => ActiveSnapshots' \subseteq ActiveSnapshots
    PROVE  ReviewInv'
  <1> USE DEF InStep
  <1>1. Committed' = Committed /\ \A s \in Committed : report'[s] = report[s] /\ s # q
    <2>1. \A s \in Reports : report[s].order \in Nat
      BY DEF ReviewInv, ReviewTyped, Report
    <2>2. q \in Reports => report[q].order = 0
      <3>1. q \notin Committed
        BY DEF ReviewInv, OrdersCount, Committed
      <3>2. QED
        BY <2>1, <3>1 DEF Committed
    <2>3. QED
      BY <2>1, <2>2 DEF Committed
  <1>2. Known' = Known
    BY DEF Known
  <1>3. UnknownIsBlank' /\ LabelsStay'
    BY <1>1, <1>2 DEF ReviewInv, UnknownIsBlank, LabelsStay, Committed
  <1>4. OrdersCount' /\ PreviousIsNewest'
    <2>1. \A s \in Committed : s \in Transactions \ {q}
      BY <1>1, ReviewNames DEF Committed
    <2>2. QED
      BY <1>1, <2>1 DEF ReviewInv, OrdersCount, PreviousIsNewest
  <1>5. ASSUME NEW r \in Reports PROVE ReportFits(r)'
    <2>1. CASE r = q
      BY <2>1
    <2>2. CASE r # q
      <3>1. tx'[r] = tx[r] /\ report'[r] = report[r] /\ \A x \in Locks : rowLock[x] = r => rowLock'[x] = r
        BY <2>2, ReviewNames
      <3>2. ReportFits(r) /\ "project" \in Locks /\ Known \subseteq Locks
        BY ReviewNames DEF ReviewInv, Known, Locks
      <3>3. FollowsOn(report[r].register) => FollowsOn(report[r].register)'
        BY <1>2, <3>1 DEF FollowsOn, LabelsDiffer
      <3>4. QED
        BY <1>1, <1>2, <3>1, <3>2, <3>3 DEF ReportFits, HistoryFits, WritesOn
    <2>3. QED
      BY <2>1, <2>2
  <1>6. ASSUME NEW e \in Editors PROVE EditFits(e)'
    <2>1. CASE e = q
      BY <2>1
    <2>2. CASE e # q
      <3>1. tx'[e] = tx[e] /\ \A x \in Locks : rowLock[x] = e => rowLock'[x] = e
        BY <2>2, ReviewNames
      <3>2. QED
        BY <1>2, <3>1, ReviewNames DEF ReviewInv, EditFits
    <2>3. QED
      BY <2>1, <2>2
  <1>7. ASSUME NEW c \in Recorders PROVE RecordFits(c)'
    <2>1. CASE c = q
      BY <2>1
    <2>2. CASE c # q
      <3>1. tx'[c] = tx[c] /\ \A x \in Locks : rowLock[x] = c => rowLock'[x] = c
        BY <2>2, ReviewNames
      <3>2. QED
        BY <2>2, <3>1 DEF ReviewInv, RecordFits, Locks
    <2>3. QED
      BY <2>1, <2>2
  <1>8. QED
    BY <1>3, <1>4, <1>5, <1>6, <1>7 DEF ReviewInv

-----------------------------------------------------------------------------
(* ProjectReview: the steps that leave the register and the histories.     *)

LEMMA ReviewStarts == ReviewInit => ReviewInv
  <1> SUFFICES ASSUME ReviewInit PROVE ReviewInv
    OBVIOUS
  <1> USE DEF ReviewInit, InStep
  <1>1. ReviewTyped
    <2>1. risk \in Register
      BY DEF Register, Risk, Absent
    <2>2. NoReport \in Report
      BY DEF NoReport, Report, Register, Risk, Absent
    <2>3. \A x \in Rows : edited[x] = <<>> /\ Len(<<>>) = 0 /\ <<>> \in Seq(Writers)
      OBVIOUS
    <2>4. edited \in [Rows -> Seq(Writers)] /\ \A k \in Keys : Len(edited[k]) <= HistoryLimit
      BY <2>3, ReviewNames, ReviewAssumption
    <2>5. QED
      BY <2>1, <2>2, <2>4 DEF ReviewTyped, Locks, TxFields
  <1>2. Known = {} /\ Committed = {}
    BY DEF Known, Committed, Absent, NoReport
  <1>3. UnknownIsBlank /\ LabelsStay /\ PreviousIsNewest
    BY <1>2 DEF UnknownIsBlank, LabelsStay, PreviousIsNewest, Absent
  <1>4. OrdersCount
    BY <1>2, FS_EmptySet DEF OrdersCount
  <1>5. /\ \A r \in Reports : ReportFits(r)
        /\ \A e \in Editors : EditFits(e)
        /\ \A c \in Recorders : RecordFits(c)
    BY ReviewNames DEF ReportFits, EditFits, RecordFits
  <1>6. QED
    BY <1>1, <1>3, <1>4, <1>5 DEF ReviewInv

LEMMA RecalculateKeepsReview == ASSUME ReviewInv, Recalculate PROVE ReviewInv'
  <1>1. UNCHANGED <<risk, report, edited, snapshot, rowLock, tx>>
    BY DEF Recalculate
  <1>2. Known' = Known /\ Committed' = Committed /\ ActiveSnapshots' = ActiveSnapshots
    BY <1>1 DEF Known, Committed, ActiveSnapshots
  <1>3. firing' \subseteq Keys
    BY DEF Recalculate
  <1>4. QED
    BY <1>1, <1>2, <1>3 DEF ReviewInv, ReviewTyped, UnknownIsBlank, LabelsStay, OrdersCount, PreviousIsNewest, ReportFits,
                      FollowsOn, LabelsDiffer, HistoryFits, WritesOn, EditFits, RecordFits, InStep

LEMMA GatherKeepsReview == ASSUME ReviewInv, NEW r \in Reports, Gather(r) PROVE ReviewInv'
  <1>1. ReviewTyped /\ r \in Transactions /\ UNCHANGED <<risk, report, edited, snapshot, rowLock>> /\ tx[r].pc = "idle"
    BY ReviewNames DEF ReviewInv, Gather, InStep
  <1> DEFINE new == [tx[r] EXCEPT !.pc = "gathered", !.seen = firing]
  <1>2. DOMAIN new = TxFields /\ tx' = [tx EXCEPT ![r] = new] /\ new.pc = "gathered" /\ new.seen = firing
    BY <1>1 DEF ReviewTyped, Gather, TxFields
  <1> HIDE DEF new
  <1>3. tx'[r] = new /\ \A p \in Transactions \ {r} : tx'[p] = tx[p]
    BY <1>1, <1>2, TxMoves
  <1>4. ReviewTyped'
    BY <1>1, <1>2, TxMoves DEF ReviewTyped, Gather
  <1>5. report'[r].order = 0
    <2>1. r \notin Committed
      BY <1>1 DEF ReviewInv, OrdersCount, InStep
    <2>2. report[r].order \in Nat
      BY <1>1 DEF ReviewTyped, Report
    <2>3. QED
      BY <1>1, <2>1, <2>2 DEF Committed
  <1>6. ReportFits(r)'
    BY <1>1, <1>2, <1>3 DEF ReportFits, InStep, ReviewTyped
  <1>7. ActiveSnapshots' = ActiveSnapshots
    BY <1>1 DEF ActiveSnapshots
  <1>8. QED
    BY <1>1, <1>3, <1>4, <1>5, <1>6, <1>7, ReviewNames, OneMoves

LEMMA OpenKeepsReview == ASSUME ReviewInv, NEW e \in Editors, NEW x \in Rows, Open(e, x) PROVE ReviewInv'
  <1>1. ReviewTyped /\ e \in Transactions /\ UNCHANGED <<risk, report, edited, snapshot>> /\ x \in Locks
    BY ReviewNames DEF ReviewInv, Open
  <1> DEFINE new == [tx[e] EXCEPT !.pc = "open", !.row = x, !.history = edited[x]]
  <1>2. /\ DOMAIN new = TxFields /\ tx' = [tx EXCEPT ![e] = new]
        /\ new.pc = "open" /\ new.row = x /\ new.history = edited[x]
    BY <1>1 DEF ReviewTyped, Open, TxFields
  <1> HIDE DEF new
  <1>3. tx'[e] = new /\ \A p \in Transactions \ {e} : tx'[p] = tx[p]
    BY <1>1, <1>2, TxMoves
  <1>4. rowLock' = RowsLocked(e, {x}) /\ \A y \in {x} : Free(e, y)
    BY DEF Open, Lockable
  <1>5. /\ DOMAIN rowLock' = Locks /\ rowLock'[x] = e
        /\ \A p \in Transactions \ {e}, y \in Locks : rowLock[y] = p => rowLock'[y] = p
    BY <1>1, <1>4, LocksKept
  <1>6. ReviewTyped'
    BY <1>1, <1>2, <1>5, TxMoves DEF ReviewTyped, Open
  <1>7. x \in Keys => x \in Known
    BY ReviewNames, ReviewAssumption DEF Open, Editable, Committed, Known
  <1>8. EditFits(e)'
    BY <1>1, <1>2, <1>3, <1>5, <1>7 DEF EditFits, InStep, Known
  <1>9. ActiveSnapshots' = ActiveSnapshots
    BY <1>1 DEF ActiveSnapshots
  <1>10. QED
    BY <1>1, <1>3, <1>5, <1>6, <1>8, <1>9, ReviewNames, OneMoves

LEMMA RefuseEditKeepsReview == ASSUME ReviewInv, NEW e \in Editors, RefuseEdit(e) PROVE ReviewInv'
  <1>1. ReviewTyped /\ e \in Transactions /\ UNCHANGED <<risk, report, edited, snapshot>>
    BY ReviewNames DEF ReviewInv, RefuseEdit
  <1>2. tx' = Left(e, "failed") /\ rowLock' = RowsUnlocked(e)
    BY DEF RefuseEdit
  <1>3. tx'[e].pc = "failed" /\ \A p \in Transactions \ {e} : tx'[p] = tx[p]
    BY <1>1, <1>2, TxLeaves
  <1>4. DOMAIN rowLock' = Locks /\ \A p \in Transactions \ {e}, y \in Locks : rowLock[y] = p => rowLock'[y] = p
    BY <1>1, <1>2, UnlocksKept
  <1>5. ReviewTyped'
    BY <1>1, <1>2, <1>4, TxLeaves DEF ReviewTyped, RefuseEdit
  <1>6. EditFits(e)' /\ ActiveSnapshots' = ActiveSnapshots
    BY <1>1, <1>3 DEF EditFits, InStep, ActiveSnapshots
  <1>7. QED
    BY <1>1, <1>3, <1>4, <1>5, <1>6, ReviewNames, OneMoves

LEMMA BeginRecordKeepsReview == ASSUME ReviewInv, NEW c \in Recorders, BeginRecord(c) PROVE ReviewInv'
  <1>1. ReviewTyped /\ c \in Transactions /\ UNCHANGED <<risk, report, edited, snapshot>> /\ "project" \in Locks
    BY ReviewNames DEF ReviewInv, BeginRecord, Locks
  <1> DEFINE new == [tx[c] EXCEPT !.pc = "replacing", !.seen = ActiveSnapshots]
  <1>2. DOMAIN new = TxFields /\ tx' = [tx EXCEPT ![c] = new] /\ new.pc = "replacing" /\ new.seen = ActiveSnapshots
    BY <1>1 DEF ReviewTyped, BeginRecord, TxFields
  <1> HIDE DEF new
  <1>3. tx'[c] = new /\ \A p \in Transactions \ {c} : tx'[p] = tx[p]
    BY <1>1, <1>2, TxMoves
  <1>4. rowLock' = RowsLocked(c, {"project"}) /\ \A y \in {"project"} : Free(c, y)
    BY DEF BeginRecord, ProjectFree, Free
  <1>5. /\ DOMAIN rowLock' = Locks /\ rowLock'["project"] = c
        /\ \A p \in Transactions \ {c}, y \in Locks : rowLock[y] = p => rowLock'[y] = p
    BY <1>1, <1>4, LocksKept
  <1>6. ReviewTyped'
    BY <1>1, <1>2, <1>5, TxMoves DEF ReviewTyped, BeginRecord
  <1>7. ActiveSnapshots' = ActiveSnapshots
    BY <1>1 DEF ActiveSnapshots
  <1>8. RecordFits(c)'
    BY <1>2, <1>3, <1>5, <1>7 DEF RecordFits, InStep
  <1>9. QED
    BY <1>1, <1>3, <1>5, <1>6, <1>7, <1>8, ReviewNames, OneMoves

\* The recorder that holds the project is the only one that replaces.
LEMMA RecordKeepsReview == ASSUME ReviewInv, NEW c \in Recorders, Record(c) PROVE ReviewInv'
  <1>1. /\ ReviewTyped /\ c \in Transactions /\ UNCHANGED <<risk, report, edited>>
        /\ RecordFits(c) /\ InStep(c, "replacing") /\ "project" \in Locks
    BY ReviewNames DEF ReviewInv, Record, Locks
  <1>2. IsUnique(Replaced(c))
    <2>1. {d \in Recorders : Replaced(c)[d] = "active"} = {c}
      BY <1>1 DEF Replaced, RecordFits, ActiveSnapshots
    <2>2. QED
      BY <2>1, FS_Singleton DEF IsUnique
  <1>3. snapshot' = Replaced(c) /\ tx' = [tx EXCEPT ![c].pc = "done"] /\ rowLock' = RowsUnlocked(c)
    BY <1>2 DEF Record
  <1>4. tx'[c].pc = "done" /\ \A p \in Transactions \ {c} : tx'[p] = tx[p]
    BY <1>1, <1>3, TxEnds
  <1>5. DOMAIN rowLock' = Locks /\ \A p \in Transactions \ {c}, y \in Locks : rowLock[y] = p => rowLock'[y] = p
    BY <1>1, <1>3, UnlocksKept
  <1>6. ReviewTyped'
    BY <1>1, <1>3, <1>5, TxEnds DEF ReviewTyped, Record, Replaced
  <1>7. \A d \in Recorders \ {c} : ~InStep(d, "replacing")
    BY <1>1 DEF ReviewInv, RecordFits
  <1>8. RecordFits(c)'
    BY <1>4 DEF RecordFits, InStep
  <1>9. QED
    BY <1>1, <1>4, <1>5, <1>6, <1>7, <1>8, ReviewNames, OneMoves

LEMMA RefuseRecordKeepsReview == ASSUME ReviewInv, NEW c \in Recorders, RefuseRecord(c) PROVE ReviewInv'
  <1>1. ReviewTyped /\ c \in Transactions /\ UNCHANGED <<risk, report, edited, snapshot>>
    BY ReviewNames DEF ReviewInv, RefuseRecord
  <1>2. tx' = [tx EXCEPT ![c].pc = "failed"] /\ rowLock' = RowsUnlocked(c)
    BY DEF RefuseRecord
  <1>3. tx'[c].pc = "failed" /\ \A p \in Transactions \ {c} : tx'[p] = tx[p]
    BY <1>1, <1>2, TxEnds
  <1>4. DOMAIN rowLock' = Locks /\ \A p \in Transactions \ {c}, y \in Locks : rowLock[y] = p => rowLock'[y] = p
    BY <1>1, <1>2, UnlocksKept
  <1>5. ReviewTyped'
    BY <1>1, <1>2, <1>4, TxEnds DEF ReviewTyped, RefuseRecord
  <1>6. RecordFits(c)' /\ ActiveSnapshots' = ActiveSnapshots
    BY <1>1, <1>3 DEF RecordFits, InStep, ActiveSnapshots
  <1>7. QED
    BY <1>1, <1>3, <1>4, <1>5, <1>6, ReviewNames, OneMoves

LEMMA BeginWithdrawKeepsReview ==
    ASSUME ReviewInv, NEW w \in Withdraw, NEW c \in Recorders, BeginWithdraw(w, c) PROVE ReviewInv'
  <1>1. ReviewTyped /\ w \in Transactions /\ UNCHANGED <<risk, report, edited, snapshot, rowLock>>
    BY ReviewNames DEF ReviewInv, BeginWithdraw
  <1> DEFINE new == [tx[w] EXCEPT !.pc = "withdrawing", !.row = c, !.status = snapshot[c]]
  <1>2. DOMAIN new = TxFields /\ tx' = [tx EXCEPT ![w] = new]
    BY <1>1 DEF ReviewTyped, BeginWithdraw, TxFields
  <1> HIDE DEF new
  <1>3. \A p \in Transactions \ {w} : tx'[p] = tx[p]
    BY <1>1, <1>2, TxMoves
  <1>4. ReviewTyped'
    BY <1>1, <1>2, TxMoves DEF ReviewTyped, BeginWithdraw
  <1>5. ActiveSnapshots' = ActiveSnapshots
    BY <1>1 DEF ActiveSnapshots
  <1>6. QED
    BY <1>1, <1>3, <1>4, <1>5, ReviewNames, OneMoves

LEMMA EndWithdrawKeepsReview == ASSUME ReviewInv, NEW w \in Withdraw, EndWithdraw(w) PROVE ReviewInv'
  <1>1. ReviewTyped /\ w \in Transactions /\ UNCHANGED <<risk, report, edited, rowLock>>
    BY ReviewNames DEF ReviewInv, EndWithdraw
  <1>2. tx' = [tx EXCEPT ![w].pc = "done"]
    BY DEF EndWithdraw
  <1>3. \A p \in Transactions \ {w} : tx'[p] = tx[p]
    BY <1>1, <1>2, TxEnds
  <1>4. DOMAIN snapshot' = Recorders /\ ActiveSnapshots' \subseteq ActiveSnapshots
    BY <1>1 DEF ReviewTyped, EndWithdraw, ActiveSnapshots
  <1>5. ReviewTyped'
    BY <1>1, <1>2, <1>4, TxEnds DEF ReviewTyped, EndWithdraw
  <1>6. QED
    BY <1>1, <1>3, <1>4, <1>5, ReviewNames, OneMoves

-----------------------------------------------------------------------------
(* ProjectReview: reports and saved edits.                                 *)

\* A set of at most five facts is counted by a number.
LEMMA FactsCount ==
    ASSUME NEW a, NEW b, NEW c, NEW d, NEW f, NEW S \in SUBSET {a, b, c, d, f}
    PROVE  Cardinality(S) \in Nat /\ (S = {} <=> Cardinality(S) = 0)
  <1>1. IsFiniteSet({a}) /\ IsFiniteSet({b}) /\ IsFiniteSet({c}) /\ IsFiniteSet({d}) /\ IsFiniteSet({f})
    BY FS_Singleton
  <1>2. IsFiniteSet({a} \cup {b}) /\ IsFiniteSet({c} \cup {d})
    BY <1>1, FS_Union
  <1>3. IsFiniteSet(({a} \cup {b}) \cup ({c} \cup {d}))
    BY <1>2, FS_Union
  <1>4. IsFiniteSet((({a} \cup {b}) \cup ({c} \cup {d})) \cup {f})
    BY <1>1, <1>3, FS_Union
  <1>5. {a, b, c, d, f} = (({a} \cup {b}) \cup ({c} \cup {d})) \cup {f}
    OBVIOUS
  <1>6. IsFiniteSet({a, b, c, d, f})
    BY <1>4, <1>5
  <1>7. IsFiniteSet(S)
    BY <1>6, FS_Subset
  <1>8. QED
    BY <1>7, FS_CardinalityType, FS_EmptySet

\* Cutting a history to its newest entries.
LEMMA KeptNewest ==
    ASSUME NEW S, NEW h \in Seq(S)
    PROVE  LET cut == IF Len(h) > HistoryLimit THEN Len(h) - HistoryLimit ELSE 0 IN
           /\ Kept(h) \in Seq(S) /\ Len(Kept(h)) = Len(h) - cut /\ Len(Kept(h)) <= HistoryLimit
           /\ \A i \in 1..(Len(h) - cut) : Kept(h)[i] = h[cut + i]
  <1> DEFINE cut == IF Len(h) > HistoryLimit THEN Len(h) - HistoryLimit ELSE 0
  <1>1. HistoryLimit \in Nat /\ HistoryLimit > 0 /\ Len(h) \in Nat
    BY ReviewAssumption
  <1>2. cut \in 0..Len(h) /\ Len(h) - cut <= HistoryLimit
    BY <1>1
  <1>3. Kept(h) = SubSeq(h, cut + 1, Len(h))
    BY <1>1 DEF Kept
  <1> HIDE DEF cut
  <1>4. /\ SubSeq(h, cut + 1, Len(h)) \in Seq(S) /\ Len(SubSeq(h, cut + 1, Len(h))) = Len(h) - cut
        /\ \A i \in 1..(Len(h) - cut) : SubSeq(h, cut + 1, Len(h))[i] = h[cut + i]
    BY <1>1, <1>2
  <1>5. QED
    BY <1>2, <1>3, <1>4 DEF cut

\* What Noted makes of the history of a risk: nothing without a fact, and otherwise
\* what goes on from it.
LEMMA NotedGoesOn ==
    ASSUME NEW h \in Seq(Writers), Len(h) <= HistoryLimit, NEW q \in Writers, NEW facts,
           Cardinality(facts) \in Nat, facts = {} <=> Cardinality(facts) = 0
    PROVE  /\ Noted(h, facts, q) \in Seq(Writers) /\ Len(Noted(h, facts, q)) <= HistoryLimit
           /\ facts = {} => Noted(h, facts, q) = h
           /\ facts # {} => \E n \in 0..Len(h) : /\ GoesOn(h, Noted(h, facts, q), n, q)
                                                 /\ n > 0 => Len(Noted(h, facts, q)) = HistoryLimit
  <1> DEFINE m == Cardinality(facts)
             own == [i \in 1..m |-> q]
             all == h \o own
             cut == IF Len(all) > HistoryLimit THEN Len(all) - HistoryLimit ELSE 0
             new == Kept(all)
  <1>1. HistoryLimit \in Nat /\ HistoryLimit > 0 /\ Len(h) \in Nat /\ m \in Nat /\ (facts = {} <=> m = 0)
    BY ReviewAssumption
  <1>2. new = Noted(h, facts, q)
    BY DEF Noted
  <1> HIDE DEF m
  <1>3. own \in Seq(Writers) /\ Len(own) = m /\ \A i \in 1..m : own[i] = q
    BY <1>1
  <1> HIDE DEF own
  <1>4. /\ all \in Seq(Writers) /\ Len(all) = Len(h) + m
        /\ \A i \in 1..Len(all) : all[i] = IF i <= Len(h) THEN h[i] ELSE q
    BY <1>1, <1>3
  <1> HIDE DEF all
  <1>5. /\ new \in Seq(Writers) /\ Len(new) = Len(all) - cut /\ Len(new) <= HistoryLimit
        /\ \A i \in 1..(Len(all) - cut) : new[i] = all[cut + i]
    BY <1>4, KeptNewest
  <1> HIDE DEF new
  <1>6. CASE facts = {}
    <2>1. cut = 0 /\ Len(all) = Len(h)
      BY <1>1, <1>4, <1>6
    <2>2. Len(new) = Len(h) /\ \A i \in 1..Len(h) : new[i] = h[i]
      BY <1>1, <1>4, <1>5, <2>1
    <2>3. new = h
      BY <1>5, <2>2
    <2>4. QED
      BY <1>2, <1>5, <1>6, <2>3
  <1>7. CASE facts # {}
    <2> DEFINE n == IF cut <= Len(h) THEN cut ELSE Len(h)
    <2>1. m > 0 /\ cut \in Nat /\ cut <= Len(all) /\ n \in 0..Len(h) /\ n <= cut /\ (cut > 0 => Len(all) - cut = HistoryLimit)
      BY <1>1, <1>4, <1>7
    <2>2. n > 0 => Len(new) = HistoryLimit
      BY <1>5, <2>1
    <2>3. cut # n => n = Len(h) /\ cut > Len(h)
      BY <1>1, <2>1
    <2> HIDE DEF cut, n
    <2>4. Len(new) > Len(h) - n
      <3>1. /\ cut \in Nat /\ n \in Nat /\ Len(new) = Len(h) + m - cut /\ Len(new) \in Nat
            /\ cut > 0 => Len(new) = HistoryLimit
        BY <1>1, <1>4, <1>5, <2>1
      <3>2. CASE cut = n
        BY <1>1, <2>1, <3>1, <3>2
      <3>3. CASE cut # n
        BY <1>1, <2>3, <3>1, <3>3
      <3>4. QED
        BY <3>2, <3>3
    <2>5. ASSUME NEW i \in 1..Len(new) PROVE new[i] = IF i <= Len(h) - n THEN h[n + i] ELSE q
      <3>1. i \in Nat /\ i > 0 /\ i <= Len(all) - cut /\ cut + i \in 1..Len(all) /\ new[i] = all[cut + i]
        BY <1>1, <1>4, <1>5, <2>1
      <3>2. new[i] = IF cut + i <= Len(h) THEN h[cut + i] ELSE q
        BY <1>4, <3>1
      <3>3. CASE cut = n
        BY <1>1, <2>1, <3>1, <3>2, <3>3
      <3>4. CASE cut # n
        BY <1>1, <2>1, <2>3, <3>1, <3>2, <3>4
      <3>5. QED
        BY <3>3, <3>4
    <2>6. GoesOn(h, new, n, q)
      BY <2>4, <2>5 DEF GoesOn
    <2>7. QED
      BY <1>2, <1>5, <1>7, <2>1, <2>2, <2>6
  <1>8. QED
    BY <1>6, <1>7

\* The largest label is one of the register.
LEMMA LatestIsLargest ==
    ASSUME ReviewTyped
    PROVE  LatestSeq \in Nat /\ \A k \in Known : risk[k].seq <= LatestSeq
  <1>1. CASE Known = {}
    BY <1>1 DEF LatestSeq
  <1>2. CASE Known # {}
    <2> DEFINE f == [k \in Known |-> risk[k].seq]
               seqs == {risk[k].seq : k \in Known}
    <2>1. Known \in SUBSET Keys /\ IsFiniteSet(Known)
      BY ReviewNames, FS_Subset DEF Known
    <2>2. \A k \in Known : risk[k].seq \in Nat
      BY <2>1 DEF ReviewTyped, Register, Risk
    <2>3. f \in [Known -> Nat]
      BY <2>2
    <2>4. \E k \in Known : \A j \in Known : f[j] <= f[k]
      BY <1>2, <2>1, <2>3, HasLargest
    <2>5. \E n \in seqs : \A k \in Known : risk[k].seq <= n
      BY <2>4
    <2>6. LatestSeq \in seqs /\ \A k \in Known : risk[k].seq <= LatestSeq
      BY <1>2, <2>5 DEF LatestSeq
    <2>7. QED
      BY <2>2, <2>6
  <1>3. QED
    BY <1>1, <1>2

\* What the synchronisation makes of the register: known risks keep their labels and
\* evidence, new ones get labels nobody has.
LEMMA SyncedFollows ==
    ASSUME ReviewTyped, UnknownIsBlank, LabelsStay, NEW r \in Reports, tx[r].seen \subseteq Keys,
           NEW numbers \in Numberings(tx[r].seen \ Known)
    PROVE  Synced(r, numbers) \in Register /\ FollowsOn(Synced(r, numbers))
  <1> DEFINE new == Synced(r, numbers)
             fresh == tx[r].seen \ Known
  <1>1. LatestSeq \in Nat /\ \A k \in Known : risk[k].seq <= LatestSeq
    BY LatestIsLargest
  <1>2. \A k \in Keys : risk[k] \in Risk
    BY DEF ReviewTyped, Register
  <1>3. /\ \A k \in fresh : numbers[k] \in Nat /\ numbers[k] > 0
        /\ \A j, k \in fresh : numbers[j] = numbers[k] => j = k
    BY DEF Numberings
  <1>4. ASSUME NEW k \in Known
        PROVE  /\ new[k] \in Risk /\ new[k].seq = risk[k].seq /\ new[k].evidence = risk[k].evidence
               /\ new[k].status \in {risk[k].status, "open"} /\ new[k].status # "none" /\ new[k].auto # "none"
    <2>1. /\ k \in Keys /\ risk[k] \in Risk /\ risk[k].status # "none" /\ risk[k].auto # "none"
          /\ new[k] \in {Silent(k), Refired(k)}
      BY <1>2, <1>4 DEF Synced, Known, UnknownIsBlank
    <2>2. CASE new[k] = Silent(k)
      BY <2>1, <2>2 DEF Silent, Risk
    <2>3. CASE new[k] = Refired(k)
      <3>1. PICK status \in {"open", "closed"} :
                /\ Refired(k) = [risk[k] EXCEPT !.status = status, !.auto = "active"]
                /\ status \in {risk[k].status, "open"}
        BY <2>1 DEF Refired, Risk
      <3>2. QED
        BY <2>1, <2>3, <3>1 DEF Risk
    <2>4. QED
      BY <2>1, <2>2, <2>3
  <1>5. ASSUME NEW k \in fresh
        PROVE  /\ k \in Keys /\ new[k] \in Risk
               /\ new[k].seq = LatestSeq + numbers[k] /\ new[k].seq > LatestSeq /\ new[k].status = "open"
               /\ new[k].auto = "active"
    BY <1>1, <1>3, <1>5 DEF Synced, Risk
  <1>6. ASSUME NEW k \in Keys, k \notin Known, k \notin fresh
        PROVE  new[k] \in Risk /\ new[k].seq = 0 /\ new[k].status = "none"
    BY <1>2, <1>6 DEF Synced, Silent, Known, UnknownIsBlank
  <1>7. new \in Register
    <2>1. \A k \in Keys : new[k] \in Risk
      BY <1>4, <1>5, <1>6
    <2>2. QED
      BY <2>1 DEF Synced, Register
  <1>8. LabelsDiffer(new)
    <2> SUFFICES ASSUME NEW j \in Keys, NEW k \in Keys,
                        new[j].status # "none", new[k].status # "none", new[j].seq = new[k].seq
                 PROVE  j = k
      BY DEF LabelsDiffer
    <2> HIDE DEF new
    <2>1. (j \in Known \/ j \in fresh) /\ (k \in Known \/ k \in fresh)
      BY <1>6
    <2>2. CASE j \in Known /\ k \in Known
      BY <1>4, <2>2 DEF LabelsStay
    <2>3. CASE j \in fresh /\ k \in fresh
      BY <1>1, <1>3, <1>5, <2>3
    <2>4. ASSUME NEW a \in Known, NEW b \in fresh PROVE new[a].seq # new[b].seq
      <3>1. risk[a].seq \in Nat /\ risk[a].seq <= LatestSeq /\ new[b].seq > LatestSeq /\ numbers[b] \in Nat
        BY <1>1, <1>2, <1>3, <1>5 DEF Known, Risk
      <3>2. QED
        BY <1>1, <1>4, <1>5, <3>1
    <2>5. QED
      BY <2>1, <2>2, <2>3, <2>4
  <1>9. QED
    BY <1>4, <1>5, <1>6, <1>7, <1>8 DEF FollowsOn

\* A risk without an entry for this synchronisation is left as it is.
LEMMA SyncedNotes ==
    ASSUME ReviewTyped, UnknownIsBlank, NEW r \in Reports, NEW numbers, NEW regraded, NEW k \in Keys,
           Events(r, k, regraded) = {}
    PROVE  Synced(r, numbers)[k] = risk[k]
  <1>1. /\ "opened" \notin Events(r, k, regraded) /\ "reopened" \notin Events(r, k, regraded)
        /\ "resolve_candidate" \notin Events(r, k, regraded)
    OBVIOUS
  <1>2. CASE k \notin tx[r].seen
    <2>1. Silent(k) = risk[k]
      BY <1>1, <1>2 DEF Events
    <2>2. QED
      BY <1>2, <2>1 DEF Synced
  <1>3. CASE k \in tx[r].seen
    <2>1. k \in Known /\ risk[k].auto # "resolve_candidate" /\ risk[k].status # "closed"
      BY <1>1, <1>3 DEF Events
    <2>2. risk[k] \in Risk /\ risk[k].auto = "active"
      BY <2>1 DEF ReviewTyped, Register, Risk, UnknownIsBlank, Known
    <2>3. Refired(k) = [risk[k] EXCEPT !.status = risk[k].status, !.auto = risk[k].auto]
      BY <2>1, <2>2 DEF Refired
    <2>4. [risk[k] EXCEPT !.status = risk[k].status, !.auto = risk[k].auto] = risk[k]
      BY <2>2 DEF Risk
    <2>5. Synced(r, numbers)[k] = Refired(k)
      BY <1>3, <2>1 DEF Synced
    <2>6. QED
      BY <2>3, <2>4, <2>5
  <1>4. QED
    BY <1>2, <1>3

LEMMA SyncKeepsReview == ASSUME ReviewInv, NEW r \in Reports, Sync(r) PROVE ReviewInv'
  <1>1. /\ ReviewTyped /\ r \in Transactions /\ ReportFits(r) /\ tx[r].pc = "gathered"
        /\ UNCHANGED <<firing, risk, edited, snapshot>> /\ Known \subseteq Rows
    BY ReviewNames DEF ReviewInv, Sync, InStep, Known
  <1> DEFINE previous == IF Newest = {} THEN Nobody ELSE CHOOSE s \in Newest : TRUE
  <1>2. PICK numbers \in Numberings(tx[r].seen \ Known) :
            report' = [report EXCEPT ![r] = [order |-> 0, register |-> Synced(r, numbers), previous |-> previous]]
    BY DEF Sync
  <1> DEFINE new == [order |-> 0, register |-> Synced(r, numbers), previous |-> previous]
  <1>3. Synced(r, numbers) \in Register /\ FollowsOn(Synced(r, numbers))
    BY <1>1, SyncedFollows DEF ReviewInv, ReportFits, InStep
  <1>4. IF Committed = {} THEN previous = Nobody
        ELSE previous \in Committed /\ report[previous].order = Cardinality(Committed)
    <2>1. CASE Committed = {}
      BY <2>1 DEF Newest
    <2>2. CASE Committed # {}
      <3>1. IsFiniteSet(Committed) /\ Cardinality(Committed) \in Nat /\ Cardinality(Committed) # 0
        <4>1. Committed \in SUBSET Reports
          BY DEF Committed
        <4>2. QED
          BY <2>2, <4>1, ReviewNames, FS_Subset, FS_CardinalityType, FS_EmptySet
      <3>2. PICK s \in Committed : report[s].order = Cardinality(Committed)
        BY <3>1 DEF ReviewInv, OrdersCount
      <3>3. \A p \in Committed : report[p].order <= report[s].order /\ report[p].order \in Nat
        BY <3>1, <3>2 DEF ReviewInv, OrdersCount
      <3>4. s \in Newest /\ \A p \in Newest : p \in Committed /\ report[p].order = report[s].order
        BY <3>2, <3>3 DEF Newest
      <3>5. QED
        BY <2>2, <3>2, <3>4
    <2>3. QED
      BY <2>1, <2>2
  <1> HIDE DEF previous
  <1>5. new \in Report /\ new.order = 0 /\ new.register = Synced(r, numbers) /\ new.previous = previous
    BY <1>3, <1>4 DEF Report, Committed
  <1> HIDE DEF new
  <1>6. /\ report' \in [Reports -> Report] /\ report'[r] = new
        /\ \A s \in Reports \ {r} : report'[s] = report[s]
    BY <1>1, <1>2, <1>5 DEF ReviewTyped, new
  <1>7. rowLock' = RowsLocked(r, {"project"} \cup Known)
    BY DEF Sync
  <1>7a. PICK regraded \in SUBSET (tx[r].seen \cap Known) :
            tx' = [tx EXCEPT ![r] = [tx[r] EXCEPT !.pc = "synced",
                     !.history = [k \in Keys |-> Noted(edited[k], Events(r, k, regraded), r)]]]
    BY DEF Sync
  <1> DEFINE session == [tx[r] EXCEPT !.pc = "synced",
                           !.history = [k \in Keys |-> Noted(edited[k], Events(r, k, regraded), r)]]
  <1>7b. /\ DOMAIN session = TxFields /\ tx' = [tx EXCEPT ![r] = session] /\ session.pc = "synced"
         /\ session.history = [k \in Keys |-> Noted(edited[k], Events(r, k, regraded), r)]
    BY <1>1, <1>7a DEF ReviewTyped, TxFields
  <1> HIDE DEF session
  <1>8. {"project"} \cup Known \in SUBSET Locks /\ \A x \in {"project"} \cup Known : Free(r, x)
    BY <1>1 DEF Sync, ProjectFree, RisksFree, Free, Locks
  <1>9. /\ DOMAIN rowLock' = Locks /\ \A x \in {"project"} \cup Known : rowLock'[x] = r
        /\ \A p \in Transactions \ {r}, y \in Locks : rowLock[y] = p => rowLock'[y] = p
    BY <1>1, <1>7, <1>8, LocksKept
  <1>10. /\ DOMAIN tx' = Transactions /\ \A p \in Transactions : DOMAIN tx'[p] = TxFields
         /\ tx'[r] = session /\ \A p \in Transactions \ {r} : tx'[p] = tx[p]
    BY <1>1, <1>7b, TxMoves
  <1>11. ReviewTyped'
    BY <1>1, <1>6, <1>9, <1>10 DEF ReviewTyped
  <1>12. Committed' = Committed /\ Known' = Known /\ ActiveSnapshots' = ActiveSnapshots
         /\ \A s \in Committed : s # r
    <2>1. r \notin Committed
      BY <1>1 DEF ReviewInv, OrdersCount, InStep
    <2>2. \A s \in Reports : report[s].order \in Nat
      BY <1>1 DEF ReviewTyped, Report
    <2>3. r \notin Committed' /\ Committed' = Committed
      BY <1>5, <1>6, <2>1, <2>2 DEF Committed
    <2>4. QED
      BY <1>1, <2>1, <2>3 DEF Known, ActiveSnapshots
  <1>13. ReportFits(r)'
    <2>1. FollowsOn(report[r].register)'
      BY <1>1, <1>3, <1>5, <1>6, <1>12 DEF FollowsOn, LabelsDiffer
    <2>2. IF Committed' = {} THEN report'[r].previous = Nobody
          ELSE report'[r].previous \in Committed' /\ report'[report'[r].previous].order = Cardinality(Committed')
      BY <1>4, <1>5, <1>6, <1>12 DEF Committed
    <2>3. ASSUME NEW k \in Keys PROVE HistoryFits(r, k)'
      <3> DEFINE facts == Events(r, k, regraded)
      <3>1. tx'[r].history[k] = Noted(edited[k], facts, r) /\ report'[r].register[k] = Synced(r, numbers)[k]
        BY <1>5, <1>6, <1>10, <1>7b
      <3>2. edited[k] \in Seq(Writers) /\ Len(edited[k]) <= HistoryLimit /\ r \in Writers
        BY <1>1, ReviewNames DEF ReviewTyped, Writers
      <3>3. facts \in SUBSET {"opened", "reopened", "severity", "resolve_candidate", "resolve_candidate"}
        BY DEF Events
      <3>4. Cardinality(facts) \in Nat /\ (facts = {} <=> Cardinality(facts) = 0)
        BY <3>3, FactsCount
      <3>5. facts = {} => Synced(r, numbers)[k] = risk[k]
        BY <1>1, SyncedNotes DEF ReviewInv
      <3> HIDE DEF facts
      <3>6. PICK h : h = Noted(edited[k], facts, r)
        OBVIOUS
      <3>7. /\ h \in Seq(Writers) /\ Len(h) <= HistoryLimit
            /\ facts = {} => h = edited[k]
            /\ facts # {} => \E n \in 0..Len(edited[k]) : /\ GoesOn(edited[k], h, n, r)
                                                          /\ n > 0 => Len(h) = HistoryLimit
        BY <3>2, <3>4, <3>6, NotedGoesOn
      <3>8. h # edited[k] \/ Synced(r, numbers)[k] # risk[k] => WritesOn(k, h, r)
        BY <3>5, <3>7 DEF WritesOn
      <3>9. tx'[r].history[k] = h /\ report'[r].register[k] = Synced(r, numbers)[k]
        BY <3>1, <3>6
      <3>10. QED
        BY <1>1, <3>7, <3>8, <3>9 DEF HistoryFits, WritesOn
    <2>4. QED
      BY <1>5, <1>6, <1>9, <1>10, <1>12, <1>7b, <2>1, <2>2, <2>3 DEF ReportFits, InStep
  <1>14. QED
    BY <1>1, <1>5, <1>6, <1>9, <1>10, <1>11, <1>12, <1>13, ReviewNames, OneMoves

LEMMA RollbackReportKeepsReview == ASSUME ReviewInv, NEW r \in Reports, RollbackReport(r) PROVE ReviewInv'
  <1>1. /\ ReviewTyped /\ r \in Transactions /\ tx[r].pc = "synced"
        /\ UNCHANGED <<firing, risk, edited, snapshot>>
    BY ReviewNames DEF ReviewInv, RollbackReport, InStep
  <1>2. /\ report' = [report EXCEPT ![r] = NoReport] /\ rowLock' = RowsUnlocked(r)
        /\ tx' = Left(r, "failed")
    BY DEF RollbackReport
  <1>3. NoReport \in Report /\ NoReport.order = 0
    BY DEF NoReport, Report, Register, Risk, Absent
  <1>4. /\ report' \in [Reports -> Report] /\ report'[r] = NoReport
        /\ \A s \in Reports \ {r} : report'[s] = report[s]
    BY <1>1, <1>2, <1>3 DEF ReviewTyped
  <1>5. DOMAIN rowLock' = Locks /\ \A p \in Transactions \ {r}, y \in Locks : rowLock[y] = p => rowLock'[y] = p
    BY <1>1, <1>2, UnlocksKept
  <1>6. tx'[r].pc = "failed" /\ \A p \in Transactions \ {r} : tx'[p] = tx[p]
    BY <1>1, <1>2, TxLeaves
  <1>7. ReviewTyped'
    BY <1>1, <1>2, <1>4, <1>5, TxLeaves DEF ReviewTyped
  <1>8. ReportFits(r)' /\ ActiveSnapshots' = ActiveSnapshots
    BY <1>1, <1>6 DEF ReportFits, InStep, ActiveSnapshots
  <1>9. QED
    BY <1>1, <1>3, <1>4, <1>5, <1>6, <1>7, <1>8, ReviewNames, OneMoves

\* Nobody else is in the middle of a report or of a recording.
LEMMA CommitReportKeepsReview == ASSUME ReviewInv, NEW r \in Reports, CommitReport(r) PROVE ReviewInv'
  <1> USE DEF InStep
  <1> DEFINE register == report[r].register
             n == Cardinality(Committed)
  <1>1. /\ ReviewTyped /\ r \in Transactions /\ tx[r].pc = "synced" /\ ReportFits(r)
        /\ UNCHANGED <<firing, snapshot>> /\ "project" \in Locks
    BY ReviewNames DEF ReviewInv, CommitReport, Locks
  <1>2. /\ risk' = register /\ rowLock' = RowsUnlocked(r)
        /\ report' = [report EXCEPT ![r].order = n + 1] /\ tx' = Left(r, "done")
        /\ edited' = [x \in Rows |-> IF x \in Keys THEN tx[r].history[x] ELSE edited[x]]
    BY DEF CommitReport
  <1>3. FollowsOn(register) /\ rowLock["project"] = r /\ report[r].order = 0
    BY <1>1 DEF ReportFits
  <1>4. IsFiniteSet(Committed) /\ n \in Nat /\ r \notin Committed
    <2>1. Committed \in SUBSET Reports /\ r \notin Committed
      BY <1>3 DEF Committed
    <2>2. QED
      BY <2>1, ReviewNames, FS_Subset, FS_CardinalityType
  <1>5. /\ report' \in [Reports -> Report] /\ report'[r].order = n + 1
        /\ \A s \in Reports \ {r} : report'[s] = report[s]
        /\ \A s \in Reports : report'[s].register = report[s].register /\ report'[s].previous = report[s].previous
    <2> DEFINE new == [report[r] EXCEPT !.order = n + 1]
    <2>1. report[r] \in Report /\ report' = [report EXCEPT ![r] = new]
      BY <1>1, <1>2 DEF ReviewTyped
    <2>2. /\ new \in Report /\ new.order = n + 1
          /\ new.register = report[r].register /\ new.previous = report[r].previous
      BY <1>4, <2>1 DEF Report
    <2> HIDE DEF new
    <2>3. QED
      BY <1>1, <2>1, <2>2 DEF ReviewTyped
  <1>6. DOMAIN rowLock' = Locks /\ \A p \in Transactions \ {r}, y \in Locks : rowLock[y] = p => rowLock'[y] = p
    BY <1>1, <1>2, UnlocksKept
  <1>7. tx'[r].pc = "done" /\ \A p \in Transactions \ {r} : tx'[p] = tx[p]
    BY <1>1, <1>2, TxLeaves
  <1>8. register \in Register
    BY <1>1 DEF ReviewTyped, Report
  <1>9. ReviewTyped'
    <2>1. \A k \in Keys : /\ k \in Rows /\ edited'[k] = tx[r].history[k]
                          /\ tx[r].history[k] \in Seq(Writers) /\ Len(tx[r].history[k]) <= HistoryLimit
      BY <1>1, <1>2, ReviewNames DEF ReportFits, HistoryFits
    <2>2. edited' \in [Rows -> Seq(Writers)] /\ \A k \in Keys : Len(edited'[k]) <= HistoryLimit
      BY <1>1, <1>2, <2>1 DEF ReviewTyped
    <2>3. QED
      BY <1>1, <1>2, <1>5, <1>6, <1>8, <2>2, TxLeaves DEF ReviewTyped
  <1>10. Committed' = Committed \cup {r} /\ Cardinality(Committed') = n + 1
    <2>1. Committed' = Committed \cup {r}
      BY <1>4, <1>5 DEF Committed
    <2>2. QED
      BY <1>4, <2>1, FS_AddElement
  <1>11. Known \subseteq Known' /\ \A k \in Known : risk'[k].seq = risk[k].seq
    <2>1. \A k \in Known : k \in Keys /\ register[k].status # "none" /\ register[k].seq = risk[k].seq
      BY <1>3 DEF FollowsOn, Known
    <2>2. QED
      BY <1>2, <2>1 DEF Known
  <1>12. UnknownIsBlank'
    BY <1>2, <1>3 DEF FollowsOn, UnknownIsBlank
  <1>13. LabelsStay'
    <2>1. \A j, k \in Known' : risk'[j].seq = risk'[k].seq => j = k
      BY <1>2, <1>3 DEF FollowsOn, LabelsDiffer, Known
    <2>2. ASSUME NEW s \in Committed, NEW k \in Keys PROVE report'[s].register[k].seq \in {0, risk'[k].seq}
      <3>1. report'[s].register[k].seq \in {0, risk[k].seq}
        BY <1>5 DEF ReviewInv, LabelsStay, Committed
      <3>2. k \in Known => risk'[k].seq = risk[k].seq
        BY <1>11
      <3>3. k \notin Known => risk[k].seq = 0
        BY DEF ReviewInv, UnknownIsBlank, Known
      <3>4. QED
        BY <3>1, <3>2, <3>3
    <2>3. \A k \in Keys : report'[r].register[k].seq = risk'[k].seq
      BY <1>2, <1>5
    <2>4. QED
      BY <1>10, <2>1, <2>2, <2>3 DEF LabelsStay
  <1>14. OrdersCount'
    <2>1. ASSUME NEW s \in Committed
          PROVE  /\ s # r /\ s \in Reports /\ report'[s] = report[s] /\ tx'[s].pc = "done"
                 /\ report[s].order \in 1..n /\ report[s].order \in Nat
      <3>1. s # r /\ s \in Reports /\ s \in Transactions
        BY <1>4, ReviewNames DEF Committed
      <3>2. tx[s].pc = "done" /\ report[s].order \in 1..n
        BY DEF ReviewInv, OrdersCount
      <3>3. QED
        BY <1>4, <1>5, <1>7, <3>1, <3>2
    <2>2. \A s \in Committed' : tx'[s].pc = "done" /\ report'[s].order \in 1..(n + 1)
      BY <1>4, <1>5, <1>7, <1>10, <2>1
    <2>3. \A s, u \in Committed' : report'[s].order = report'[u].order => s = u
      <3>1. \A s, u \in Committed : report[s].order = report[u].order => s = u
        BY DEF ReviewInv, OrdersCount
      <3>2. \A s \in Committed : report'[s].order # report'[r].order
        BY <1>4, <1>5, <2>1
      <3>3. QED
        BY <1>10, <2>1, <3>1, <3>2
    <2>4. \A m \in 1..(n + 1) : \E s \in Committed' : report'[s].order = m
      <3>1. \A m \in 1..n : \E s \in Committed : report[s].order = m
        BY DEF ReviewInv, OrdersCount
      <3>2. \A m \in 1..(n + 1) : m \in 1..n \/ m = n + 1
        BY <1>4
      <3>3. QED
        BY <1>5, <1>10, <2>1, <3>1, <3>2
    <2>5. QED
      BY <1>10, <2>2, <2>3, <2>4 DEF OrdersCount
  <1>15. PreviousIsNewest'
    <2>1. ASSUME NEW s \in Committed
          PROVE  IF report'[s].order = 1 THEN report'[s].previous = Nobody
                 ELSE \E u \in Committed' : u = report'[s].previous /\ report'[u].order = report'[s].order - 1
      <3>1. report'[s] = report[s] /\ \A u \in Committed : report'[u] = report[u]
        BY <1>4, <1>5 DEF Committed
      <3>2. QED
        BY <1>10, <3>1 DEF ReviewInv, PreviousIsNewest
    <2>2. IF report'[r].order = 1 THEN report'[r].previous = Nobody
          ELSE \E u \in Committed' : u = report'[r].previous /\ report'[u].order = report'[r].order - 1
      <3>1. CASE Committed = {}
        <4>1. n = 0 /\ report[r].previous = Nobody
          BY <1>1, <3>1, FS_EmptySet DEF ReportFits
        <4>2. QED
          BY <1>5, <4>1
      <3>2. CASE Committed # {}
        <4>1. n # 0 /\ report[r].previous \in Committed /\ report[report[r].previous].order = n
          BY <1>1, <1>4, <3>2, FS_EmptySet DEF ReportFits
        <4>2. report'[report[r].previous].order = n
          BY <1>4, <1>5, <4>1 DEF Committed
        <4>3. QED
          BY <1>4, <1>5, <1>10, <4>1, <4>2
      <3>3. QED
        BY <3>1, <3>2
    <2>3. QED
      BY <1>10, <2>1, <2>2 DEF PreviousIsNewest
  <1>16. ASSUME NEW s \in Reports PROVE ReportFits(s)'
    <2>1. CASE s = r
      BY <1>7, <2>1 DEF ReportFits
    <2>2. CASE s # r
      <3>1. tx'[s] = tx[s] /\ ReportFits(s) /\ rowLock["project"] # s
        BY <1>3, <1>7, <2>2, ReviewNames DEF ReviewInv
      <3>2. QED
        BY <3>1 DEF ReportFits
    <2>3. QED
      BY <2>1, <2>2
  <1>17. ASSUME NEW e \in Editors PROVE EditFits(e)'
    <2>1. e \in Transactions /\ e # r
      BY ReviewNames
    <2>2. tx'[e] = tx[e] /\ \A x \in Locks : rowLock[x] = e => rowLock'[x] = e
      BY <1>6, <1>7, <2>1
    <2>3. CASE tx[e].pc = "open"
      <3>1. /\ tx[e].row \in Rows /\ tx[e].row \in Locks /\ rowLock[tx[e].row] = e
            /\ (tx[e].row \in Keys => tx[e].row \in Known) /\ tx[e].history = edited[tx[e].row]
        BY <2>3, ReviewNames DEF ReviewInv, EditFits
      <3>2. tx[e].row \notin Keys
        BY <1>1, <2>1, <3>1 DEF ReportFits
      <3>3. edited'[tx[e].row] = edited[tx[e].row]
        BY <1>2, <3>1, <3>2
      <3>4. QED
        BY <2>2, <2>3, <3>1, <3>2, <3>3 DEF EditFits
    <2>4. CASE tx[e].pc # "open"
      BY <2>2, <2>4 DEF EditFits
    <2>5. QED
      BY <2>3, <2>4
  <1>18. ASSUME NEW c \in Recorders PROVE RecordFits(c)'
    <2>1. c \in Transactions /\ c # r
      BY ReviewNames
    <2>2. tx'[c] = tx[c] /\ RecordFits(c)
      BY <1>7, <2>1 DEF ReviewInv
    <2>3. QED
      BY <1>3, <2>1, <2>2 DEF RecordFits
  <1>19. QED
    BY <1>9, <1>12, <1>13, <1>14, <1>15, <1>16, <1>17, <1>18 DEF ReviewInv

\* The history that was read under the lock is still the history of the row.
LEMMA SaveKeepsReview == ASSUME ReviewInv, NEW e \in Editors, Save(e) PROVE ReviewInv'
  <1> USE DEF InStep
  <1> DEFINE x == tx[e].row
  <1>1. /\ ReviewTyped /\ e \in Transactions /\ tx[e].pc = "open" /\ EditFits(e)
        /\ UNCHANGED <<firing, report, snapshot>>
    BY ReviewNames DEF ReviewInv, Save
  <1>2. x \in Rows /\ (x \in Keys => x \in Known) /\ rowLock[x] = e /\ x \in Locks /\ tx[e].history = edited[x]
    BY <1>1, ReviewNames DEF EditFits
  <1>3. rowLock' = RowsUnlocked(e) /\ tx' = Left(e, "done")
    BY DEF Save
  <1>4. tx'[e].pc = "done" /\ \A p \in Transactions \ {e} : tx'[p] = tx[p]
    BY <1>1, <1>3, TxLeaves
  <1>5. DOMAIN rowLock' = Locks /\ \A p \in Transactions \ {e}, y \in Locks : rowLock[y] = p => rowLock'[y] = p
    BY <1>1, <1>3, UnlocksKept
  <1>6. /\ risk' \in Register
        /\ \A k \in Keys : /\ risk'[k].seq = risk[k].seq /\ risk'[k].auto = risk[k].auto
                           /\ risk'[k].status = "none" <=> risk[k].status = "none"
        /\ x \notin Keys => risk' = risk
    <2>1. CASE x \in Keys
      <3>1. PICK status \in {"open", "closed"}, evidence \in BOOLEAN :
                risk' = [risk EXCEPT ![x] = [risk[x] EXCEPT !.status = status, !.evidence = evidence]]
        BY <2>1 DEF Save, EditedRisk
      <3> DEFINE new == [risk[x] EXCEPT !.status = status, !.evidence = evidence]
      <3>2. risk[x] \in Risk /\ risk[x].status # "none"
        BY <1>1, <1>2, <2>1 DEF ReviewTyped, Register, Known
      <3>3. new \in Risk /\ new.seq = risk[x].seq /\ new.auto = risk[x].auto /\ new.status # "none"
        BY <3>2 DEF Risk
      <3> HIDE DEF new
      <3>4. QED
        BY <1>1, <2>1, <3>1, <3>2, <3>3 DEF ReviewTyped, Register, new
    <2>2. CASE x \notin Keys
      BY <1>1, <2>2 DEF Save, ReviewTyped
    <2>3. QED
      BY <2>1, <2>2
  <1>7. /\ edited' \in [Rows -> Seq(Writers)] /\ \A k \in Keys : Len(edited'[k]) <= HistoryLimit
        /\ \A y \in Rows \ {x} : edited'[y] = edited[y]
    <2>1. edited[x] \in Seq(Writers) /\ e \in Writers
      BY <1>1, <1>2 DEF ReviewTyped, Writers
    <2>2. CASE x \in Keys
      <3>1. PICK changed \in SUBSET Fields : edited' = [edited EXCEPT ![x] = Noted(edited[x], changed, e)]
        BY <1>2, <2>2 DEF Save
      <3>2. Cardinality(changed) \in Nat /\ (changed = {} <=> Cardinality(changed) = 0)
        BY FactsCount DEF Fields
      <3>3. Len(edited[x]) <= HistoryLimit
        BY <1>1, <2>2 DEF ReviewTyped
      <3>4. Noted(edited[x], changed, e) \in Seq(Writers) /\ Len(Noted(edited[x], changed, e)) <= HistoryLimit
        BY <2>1, <3>2, <3>3, NotedGoesOn
      <3>5. QED
        BY <1>1, <1>2, <3>1, <3>4, ReviewNames DEF ReviewTyped
    <2>3. CASE x \notin Keys
      <3>1. edited' = [edited EXCEPT ![x] = Append(edited[x], e)]
        BY <1>2, <2>3 DEF Save
      <3>2. Append(edited[x], e) \in Seq(Writers)
        BY <2>1
      <3>3. QED
        BY <1>1, <1>2, <2>3, <3>1, <3>2, ReviewNames DEF ReviewTyped
    <2>4. QED
      BY <2>2, <2>3
  <1>8. ReviewTyped'
    BY <1>1, <1>3, <1>5, <1>6, <1>7, TxLeaves DEF ReviewTyped
  <1>9. Known' = Known /\ Committed' = Committed /\ ActiveSnapshots' = ActiveSnapshots
    BY <1>1, <1>6 DEF Known, Committed, ActiveSnapshots
  <1>10. UnknownIsBlank' /\ LabelsStay'
    <2>1. \A k \in Known : k \in Keys
      BY DEF Known
    <2>2. QED
      BY <1>1, <1>6, <1>9, <2>1 DEF ReviewInv, UnknownIsBlank, LabelsStay
  <1>11. OrdersCount' /\ PreviousIsNewest'
    <2>1. \A s \in Committed : s \in Transactions \ {e}
      BY ReviewNames DEF Committed
    <2>2. QED
      BY <1>1, <1>4, <1>9, <2>1 DEF ReviewInv, OrdersCount, PreviousIsNewest
  <1>12. ASSUME NEW r \in Reports PROVE ReportFits(r)'
    <2>1. r \in Transactions /\ r # e /\ tx'[r] = tx[r] /\ ReportFits(r)
      BY <1>4, ReviewNames DEF ReviewInv
    <2>2. CASE tx[r].pc = "synced"
      <3>1. x \notin Keys
        BY <1>2, <2>1, <2>2 DEF ReportFits
      <3>2. risk' = risk /\ "project" \in Locks /\ Known \subseteq Locks
        BY <1>6, <3>1, ReviewNames DEF Known, Locks
      <3>3. FollowsOn(report[r].register)'
        BY <1>1, <1>9, <2>1, <2>2, <3>2 DEF ReportFits, FollowsOn, LabelsDiffer
      <3>4. ASSUME NEW k \in Keys PROVE HistoryFits(r, k)'
        <4>1. HistoryFits(r, k) /\ edited'[k] = edited[k]
          BY <1>7, <2>1, <2>2, <3>1, ReviewNames DEF ReportFits
        <4>2. QED
          BY <1>1, <2>1, <3>2, <4>1 DEF HistoryFits, WritesOn
      <3>5. QED
        BY <1>1, <1>5, <1>9, <2>1, <2>2, <3>2, <3>3, <3>4 DEF ReportFits
    <2>3. CASE tx[r].pc # "synced"
      BY <2>1, <2>3 DEF ReportFits
    <2>4. QED
      BY <2>2, <2>3
  <1>13. ASSUME NEW f \in Editors PROVE EditFits(f)'
    <2>1. CASE f = e
      BY <1>4, <2>1 DEF EditFits
    <2>2. CASE f # e
      <3>1. f \in Transactions /\ tx'[f] = tx[f] /\ EditFits(f)
        BY <1>4, <2>2, ReviewNames DEF ReviewInv
      <3>2. CASE tx[f].pc = "open"
        <4>1. tx[f].row # x /\ tx[f].row \in Rows
          BY <1>2, <2>2, <3>1, <3>2 DEF EditFits
        <4>2. QED
          BY <1>5, <1>7, <1>9, <2>2, <3>1, <3>2, <4>1, ReviewNames DEF EditFits
      <3>3. CASE tx[f].pc # "open"
        BY <3>1, <3>3 DEF EditFits
      <3>4. QED
        BY <3>2, <3>3
    <2>3. QED
      BY <2>1, <2>2
  <1>14. ASSUME NEW c \in Recorders PROVE RecordFits(c)'
    <2>1. c \in Transactions \ {e} /\ tx'[c] = tx[c] /\ RecordFits(c) /\ "project" \in Locks
      BY <1>4, ReviewNames DEF ReviewInv, Locks
    <2>2. QED
      BY <1>5, <1>9, <2>1 DEF RecordFits
  <1>15. QED
    BY <1>8, <1>10, <1>11, <1>12, <1>13, <1>14 DEF ReviewInv

-----------------------------------------------------------------------------
LEMMA ReviewStep ==
    ASSUME ReviewInv, [ReviewNext]_reviewVars PROVE ReviewInv'
  <1>1. CASE ReviewNext
    BY <1>1, RecalculateKeepsReview, GatherKeepsReview, SyncKeepsReview, CommitReportKeepsReview,
       RollbackReportKeepsReview, OpenKeepsReview, SaveKeepsReview, RefuseEditKeepsReview, BeginRecordKeepsReview,
       RecordKeepsReview, RefuseRecordKeepsReview, BeginWithdrawKeepsReview, EndWithdrawKeepsReview
    DEF ReviewNext
  <1>2. CASE UNCHANGED reviewVars
    <2>1. UNCHANGED <<firing, risk, report, edited, snapshot, rowLock, tx>>
      BY <1>2 DEF reviewVars
    <2>2. Known' = Known /\ Committed' = Committed /\ ActiveSnapshots' = ActiveSnapshots
      BY <2>1 DEF Known, Committed, ActiveSnapshots
    <2>3. QED
      BY <2>1, <2>2 DEF ReviewInv, ReviewTyped, UnknownIsBlank, LabelsStay, OrdersCount, PreviousIsNewest, ReportFits,
                        FollowsOn, LabelsDiffer, HistoryFits, WritesOn, EditFits, RecordFits, InStep
  <1>3. QED
    BY <1>1, <1>2

LEMMA ReviewAlways == ReviewSpec => []ReviewInv
  <1>1. ReviewInv /\ [ReviewNext]_reviewVars => ReviewInv'
    BY ReviewStep
  <1>2. QED
    BY ReviewStarts, <1>1, PTL DEF ReviewSpec

\* What changes a risk, or the history of a row, goes on from the history as it is and
\* adds an entry, for any number of edits, reports and entries a history may keep: an
\* edit reads the history under the lock it writes it under, and a report holds every
\* row of the register it brings up to date.  Only a full history of a risk drops
\* entries, its oldest (update_risk, set_report_status, set_option_review, sync_risks).
THEOREM Edits == ReviewSpec => EditsSurvive
  <1> DEFINE Grows == \A x \in Rows : HistoryGrows(x)
  <1>1. ASSUME ReviewInv, [ReviewNext]_reviewVars PROVE [Grows]_reviewVars
    <2> SUFFICES ASSUME ReviewNext, NEW x \in Rows, edited'[x] # edited[x] \/ (x \in Keys /\ risk'[x] # risk[x])
                 PROVE  \E q \in Editors \cup Reports :
                            tx[q].pc # "done" /\ tx'[q].pc = "done" /\ WritesOn(x, edited'[x], q)
      BY <1>1 DEF HistoryGrows, WritesOn
    <2>1. ReviewTyped /\ ~UNCHANGED <<risk, edited>>
      BY <1>1 DEF ReviewInv
    <2>2. \/ \E r \in Reports : CommitReport(r)
          \/ \E e \in Editors : Save(e)
      BY <2>1 DEF ReviewNext, Recalculate, Gather, Sync, RollbackReport, Open, RefuseEdit, BeginRecord, Record,
                  RefuseRecord, BeginWithdraw, EndWithdraw
    <2>3. ASSUME NEW r \in Reports, CommitReport(r)
          PROVE  tx[r].pc # "done" /\ tx'[r].pc = "done" /\ WritesOn(x, edited'[x], r)
      <3>1. tx[r].pc = "synced" /\ ReportFits(r) /\ tx' = Left(r, "done") /\ r \in Transactions
        BY <1>1, <2>3, ReviewNames DEF ReviewInv, CommitReport, InStep
      <3>2. edited'[x] = (IF x \in Keys THEN tx[r].history[x] ELSE edited[x]) /\ risk' = report[r].register
        BY <2>3 DEF CommitReport
      <3>3. x \in Keys
        BY <3>2
      <3>4. HistoryFits(r, x)
        BY <3>1, <3>3 DEF ReportFits, InStep
      <3>5. WritesOn(x, edited'[x], r)
        BY <3>2, <3>3, <3>4 DEF HistoryFits
      <3>6. QED
        BY <2>1, <3>1, <3>5, TxLeaves
    <2>4. ASSUME NEW e \in Editors, Save(e)
          PROVE  tx[e].pc # "done" /\ tx'[e].pc = "done" /\ WritesOn(x, edited'[x], e)
      <3>1. /\ tx[e].pc = "open" /\ EditFits(e) /\ tx' = Left(e, "done") /\ e \in Transactions
            /\ e \in Writers
        BY <1>1, <2>4, ReviewNames DEF ReviewInv, Save, InStep, Writers
      <3>2. tx[e].row \in Rows /\ tx[e].history = edited[tx[e].row]
        BY <3>1 DEF EditFits, InStep
      <3>3. WritesOn(x, edited'[x], e)
        <4>1. CASE tx[e].row \in Keys
          <5>1. PICK status \in {"open", "closed"}, evidence \in BOOLEAN, changed \in SUBSET Fields :
                    /\ Changes(tx[e].row, status, evidence, changed)
                    /\ risk' = EditedRisk(tx[e].row, status, evidence)
                    /\ edited' = [edited EXCEPT ![tx[e].row] = Noted(edited[tx[e].row], changed, e)]
            BY <2>4, <3>2, <4>1 DEF Save
          <5>2. x = tx[e].row
            BY <2>1, <5>1 DEF EditedRisk, ReviewTyped, Register
          <5>3. Cardinality(changed) \in Nat /\ (changed = {} <=> Cardinality(changed) = 0)
            BY FactsCount DEF Fields
          <5>4. edited[x] \in Seq(Writers) /\ Len(edited[x]) <= HistoryLimit /\ edited'[x] = Noted(edited[x], changed, e)
            BY <2>1, <4>1, <5>1, <5>2 DEF ReviewTyped
          <5>5. changed = {} => risk'[x] = risk[x]
            <6>1. risk[x] \in Risk /\ DOMAIN risk = Keys
              BY <2>1, <4>1, <5>2 DEF ReviewTyped, Register
            <6>2. changed = {} => status = risk[x].status /\ evidence = risk[x].evidence
              BY <5>1, <5>2 DEF Changes
            <6>3. risk'[x] = [risk[x] EXCEPT !.status = status, !.evidence = evidence]
              BY <4>1, <5>1, <5>2, <6>1 DEF EditedRisk
            <6>4. QED
              BY <6>1, <6>2, <6>3 DEF Risk
          <5>6. changed # {}
            BY <3>1, <5>3, <5>4, <5>5, NotedGoesOn
          <5>7. PICK new : new = Noted(edited[x], changed, e)
            OBVIOUS
          <5>8. \E n \in 0..Len(edited[x]) : GoesOn(edited[x], new, n, e) /\ (n > 0 => Len(new) = HistoryLimit)
            BY <3>1, <5>3, <5>4, <5>6, <5>7, NotedGoesOn
          <5>9. QED
            BY <4>1, <5>2, <5>4, <5>7, <5>8 DEF WritesOn
        <4>2. CASE tx[e].row \notin Keys
          <5>1. edited' = [edited EXCEPT ![tx[e].row] = Append(edited[tx[e].row], e)] /\ risk' = risk
            BY <2>4, <3>2, <4>2 DEF Save
          <5>2. x = tx[e].row
            BY <2>1, <5>1 DEF ReviewTyped
          <5>3. edited[x] \in Seq(Writers) /\ edited'[x] = Append(edited[x], e)
            BY <2>1, <5>1, <5>2 DEF ReviewTyped
          <5>4. GoesOn(edited[x], edited'[x], 0, e) /\ 0 \in 0..Len(edited[x])
            BY <3>1, <5>3 DEF GoesOn
          <5>5. QED
            BY <5>4 DEF WritesOn
        <4>3. QED
          BY <4>1, <4>2
      <3>4. QED
        BY <2>1, <3>1, <3>3, TxLeaves
    <2>5. QED
      BY <2>2, <2>3, <2>4
  <1>2. QED
    BY ReviewAlways, <1>1, PTL DEF ReviewSpec, EditsSurvive

\* Reports follow one another without a gap or a fork, every label belongs to one
\* risk for good, and recording a snapshot never meets the unique index
\* (create_project_report, sync_risks, record_cpu_snapshot).
THEOREM Reporting == ReviewSpec => []ReportsFollow
  <1>1. ReviewInv => ReportsFollow
    BY DEF ReviewInv, RecordFits, ReportsFollow, RecordingNeverConflicts
  <1>2. QED
    BY ReviewAlways, <1>1, PTL

\* The register a report shows is the one its commit leaves: no edit comes between
\* the synchronisation and the commit (sync_risks, create_project_report).
THEOREM Freezing == ReviewSpec => ReportFreezesRegister
  <1>1. ASSUME ReviewInv, [ReviewNext]_reviewVars PROVE [FreezesRegister]_reviewVars
    <2> SUFFICES ASSUME ReviewNext, NEW r \in Reports, report'[r].order > report[r].order, NEW k \in Known
                 PROVE  /\ report[r].register[k].seq = risk[k].seq
                        /\ report[r].register[k].evidence = risk[k].evidence
                        /\ report[r].register[k].status \in {risk[k].status, "open"}
      BY <1>1 DEF FreezesRegister
    <2>1. report \in [Reports -> Report] /\ report[r].order \in Nat
      BY <1>1 DEF ReviewInv, ReviewTyped, Report
    <2>2. PICK s \in Reports : Sync(s) \/ CommitReport(s) \/ RollbackReport(s)
      <3>1. report' # report
        BY <2>1
      <3>2. QED
        BY <3>1 DEF ReviewNext, Recalculate, Gather, Open, Save, RefuseEdit, BeginRecord, Record, RefuseRecord,
                    BeginWithdraw, EndWithdraw
    <2>3. ~Sync(s) /\ ~RollbackReport(s)
      <3>1. ASSUME Sync(s) PROVE FALSE
        <4>1. \E new : new.order = 0 /\ report' = [report EXCEPT ![s] = new]
          BY <3>1 DEF Sync
        <4>2. QED
          BY <2>1, <4>1
      <3>2. QED
        BY <2>1, <3>1 DEF RollbackReport, NoReport
    <2>4. CommitReport(s)
      BY <2>2, <2>3
    <2>5. r = s
      BY <2>1, <2>4 DEF CommitReport
    <2>6. ReportFits(r) /\ InStep(r, "synced")
      BY <1>1, <2>4, <2>5 DEF ReviewInv, CommitReport
    <2>7. QED
      BY <2>6 DEF ReportFits, FollowsOn
  <1>2. QED
    BY ReviewAlways, <1>1, PTL DEF ReviewSpec, ReportFreezesRegister

-----------------------------------------------------------------------------
(* PowerFit: versions.                                                     *)

LEMMA LargestVersion ==
    ASSUME IsFiniteSet(rows), \A p \in rows : p.version \in Nat, NEW soc
    PROVE  LET m == Max(VersionsOf(soc) \cup {0}) IN m \in Nat /\ \A n \in VersionsOf(soc) : n <= m
  <1> DEFINE K == {p \in rows : p.soc = soc}
             f == [p \in K |-> p.version]
             S == VersionsOf(soc) \cup {0}
  <1>1. IsFiniteSet(K) /\ f \in [K -> Nat]
    BY FS_Subset
  <1>2. \A n : n \in S <=> n = 0 \/ \E p \in K : n = f[p]
    BY DEF VersionsOf
  <1> HIDE DEF S, K, f
  <1>3. \E m \in S : \A n \in S : m >= n
    <2>1. CASE K = {}
      BY <1>2, <2>1
    <2>2. CASE K # {}
      <3>1. PICK k \in K : \A j \in K : f[j] <= f[k]
        BY <1>1, <2>2, HasLargest
      <3>2. f[k] \in S /\ f[k] >= 0 /\ \A j \in K : f[k] >= f[j]
        BY <1>1, <1>2, <3>1
      <3>3. QED
        BY <1>1, <1>2, <3>2
    <2>3. QED
      BY <2>1, <2>2
  <1>4. Max(S) \in S /\ \A n \in S : Max(S) >= n
    BY <1>3 DEF Max
  <1>5. \A n \in S : n \in Nat
    BY <1>1, <1>2
  <1>6. QED
    BY <1>4, <1>5 DEF S

\* What a step of one request has to keep when it stores nothing.
LEMMA OneGoes ==
    ASSUME FitInv, NEW r \in Calibrations, NEW new, DOMAIN new = FitFields, Goes(r, new),
           new.at \in {"locked", "versioned", "named"} =>
               \A q \in Calibrations \ {r} : HasLock(q) => request[q].base.soc # new.base.soc,
           RequestFits(r)', Serial(r)'
    PROVE  FitInv'
  <1>1. rows' = rows /\ request' = [request EXCEPT ![r] = new]
    BY DEF Goes
  <1>2. DOMAIN request' = Calibrations /\ request'[r] = new /\ \A q \in Calibrations \ {r} : request'[q] = request[q]
    BY <1>1 DEF FitInv
  <1>3. \A q \in Calibrations : DOMAIN request'[q] = FitFields
    BY <1>2 DEF FitInv
  <1>4. \A q \in Calibrations \ {r} : RequestFits(q)' /\ Serial(q)' /\ (HasLock(q)' <=> HasLock(q))
    BY <1>1, <1>2 DEF FitInv, RequestFits, Serial, FitAt, VersionsOf, HasLock
  <1>5. \A q, s \in Calibrations : HasLock(q)' /\ HasLock(s)' /\ request'[q].base.soc = request'[s].base.soc => q = s
    BY <1>2, <1>4 DEF FitInv, HasLock
  <1>6. QED
    BY <1>1, <1>2, <1>3, <1>4, <1>5 DEF FitInv

LEMMA FitStarts == ASSUME \A d \in Stored : CalibratedName(d), FitInit PROVE FitInv
  <1>1. IsFiniteSet(rows) /\ \A p \in rows : p.version \in Nat /\ CalibratedName(p)
    BY FitAssumption DEF FitInit
  <1>2. DOMAIN request = Calibrations /\ \A r \in Calibrations : DOMAIN request[r] = FitFields /\ request[r].at = "idle"
    BY DEF FitInit, FitFields
  <1>3. QED
    BY <1>1, <1>2 DEF FitInv, RequestFits, Serial, FitAt, HasLock

LEMMA BeginFitKeeps == ASSUME FitInv, NEW r \in Calibrations, BeginFit(r) PROVE FitInv'
  <1>1. PICK p \in rows : Goes(r, [request[r] EXCEPT !.at = "waiting", !.base = p])
    BY DEF BeginFit
  <1> DEFINE new == [request[r] EXCEPT !.at = "waiting", !.base = p]
  <1>2. DOMAIN new = FitFields /\ new.at = "waiting"
    BY DEF FitInv, FitFields
  <1> HIDE DEF new
  <1>3. request'[r] = new
    BY <1>1 DEF FitInv, Goes, new
  <1>4. RequestFits(r)' /\ Serial(r)'
    BY <1>2, <1>3 DEF RequestFits, Serial, FitAt
  <1>5. QED
    BY <1>1, <1>2, <1>4, OneGoes DEF new

LEMMA RefuseFitKeeps == ASSUME FitInv, NEW r \in Calibrations, RefuseFit(r) PROVE FitInv'
  <1> DEFINE new == [request[r] EXCEPT !.at = "refused"]
  <1>1. DOMAIN new = FitFields /\ new.at = "refused" /\ Goes(r, new)
    BY DEF FitInv, FitFields, RefuseFit
  <1> HIDE DEF new
  <1>2. request'[r] = new
    BY <1>1 DEF FitInv, Goes
  <1>3. RequestFits(r)' /\ Serial(r)'
    BY <1>1, <1>2 DEF RequestFits, Serial, FitAt
  <1>4. QED
    BY <1>1, <1>3, OneGoes

LEMMA LockKeeps == ASSUME FitInv, NEW r \in Calibrations, Lock(r) PROVE FitInv'
  <1> DEFINE new == [request[r] EXCEPT !.at = "locked"]
  <1>1. DOMAIN new = FitFields /\ new.at = "locked" /\ new.base = request[r].base /\ Goes(r, new)
    BY DEF FitInv, FitFields, Lock
  <1> HIDE DEF new
  <1>2. request'[r] = new
    BY <1>1 DEF FitInv, Goes
  <1>3. RequestFits(r)' /\ Serial(r)'
    BY <1>1, <1>2 DEF RequestFits, Serial, FitAt
  <1>4. \A q \in Calibrations \ {r} : HasLock(q) => request[q].base.soc # new.base.soc
    BY <1>1 DEF Lock, LockFree
  <1>5. QED
    BY <1>1, <1>3, <1>4, OneGoes

LEMMA AllocateKeeps == ASSUME FitInv, NEW r \in Calibrations, Allocate(r) PROVE FitInv'
  <1> DEFINE m == Max(VersionsOf(request[r].base.soc) \cup {0})
             new == [request[r] EXCEPT !.at = "versioned", !.version = 1 + m]
  <1>1. m \in Nat /\ \A n \in VersionsOf(request[r].base.soc) : n <= m
    BY LargestVersion DEF FitInv
  <1>2. \A n \in VersionsOf(request[r].base.soc) : n \in Nat
    BY DEF FitInv, VersionsOf
  <1> HIDE DEF m
  <1>3. /\ DOMAIN new = FitFields /\ new.at = "versioned" /\ new.base = request[r].base /\ new.version = 1 + m
        /\ Goes(r, new) /\ FitAt(r, "locked")
    BY DEF FitInv, FitFields, Allocate, m
  <1> HIDE DEF new
  <1>4. request'[r] = new /\ rows' = rows
    BY <1>3 DEF FitInv, Goes
  <1>5. RequestFits(r)' /\ Serial(r)'
    <2>1. VersionsOf(request[r].base.soc)' = VersionsOf(new.base.soc)
      BY <1>4 DEF VersionsOf
    <2>2. \A n \in VersionsOf(new.base.soc) : n < new.version
      BY <1>1, <1>2, <1>3
    <2>3. new.version \in Nat \ {0}
      BY <1>1, <1>3
    <2>4. QED
      BY <1>3, <1>4, <2>1, <2>2, <2>3 DEF RequestFits, Serial, FitAt
  <1>6. \A q \in Calibrations \ {r} : HasLock(q) => request[q].base.soc # new.base.soc
    BY <1>3 DEF FitInv, HasLock, FitAt
  <1>7. QED
    BY <1>3, <1>5, <1>6, OneGoes

\* An id that is taken was given by a calibration of another SoC: one of this SoC has
\* a version below the one allocated.
LEMMA ChooseIdKeeps == ASSUME FitInv, NEW r \in Calibrations, ChooseId(r) PROVE FitInv'
  <1> DEFINE id == Versioned(request[r].base.id, request[r].version)
             chosen == IF id \in Ids THEN Cal(id) ELSE id
             new == [request[r] EXCEPT !.at = "named", !.id = chosen]
  <1>1. FitAt(r, "versioned") /\ Goes(r, new) /\ RequestFits(r) /\ Serial(r)
    BY DEF FitInv, ChooseId
  <1> HIDE DEF id
  <1>2. /\ DOMAIN new = FitFields /\ new.at = "named" /\ new.base = request[r].base
        /\ new.version = request[r].version /\ new.id = chosen /\ new.loaded = request[r].loaded
    BY DEF FitInv, FitFields
  <1> HIDE DEF new
  <1>3. request'[r] = new /\ rows' = rows
    BY <1>1 DEF FitInv, Goes
  <1>4. RequestFits(r)'
    BY <1>1, <1>2, <1>3 DEF RequestFits, FitAt, id
  <1>5. Serial(r)'
    <2> SUFFICES ASSUME ~new.loaded
                 PROVE  /\ \A n \in VersionsOf(new.base.soc) : n < new.version
                        /\ \A p \in rows : p.id = new.id => p.soc # new.base.soc
      BY <1>3 DEF Serial, VersionsOf, FitAt
    <2>1. \A n \in VersionsOf(new.base.soc) : n < new.version
      BY <1>1, <1>2 DEF Serial, FitAt
    <2>2. ASSUME NEW p \in rows, p.id = new.id, p.soc = new.base.soc PROVE FALSE
      <3>1. p.version \in VersionsOf(new.base.soc) /\ p.version \in Nat /\ new.version \in Nat
        BY <1>1, <1>2, <2>2 DEF FitInv, VersionsOf, RequestFits, FitAt
      <3>2. CASE id \in Ids
        <4>1. p.id = Cal(<<request[r].base.id[1], request[r].version>>)
          BY <1>2, <2>2, <3>2 DEF id, Versioned
        <4>2. p.version = request[r].version
          BY <4>1 DEF FitInv, CalibratedName
        <4>3. QED
          BY <1>2, <2>1, <3>1, <4>2
      <3>3. CASE id \notin Ids
        BY <1>2, <2>2, <3>3 DEF Ids
      <3>4. QED
        BY <3>2, <3>3
    <2>3. QED
      BY <2>1, <2>2
  <1>6. \A q \in Calibrations \ {r} : HasLock(q) => request[q].base.soc # new.base.soc
    BY <1>1, <1>2 DEF FitInv, HasLock, FitAt
  <1>7. QED
    BY <1>1, <1>2, <1>4, <1>5, <1>6, OneGoes

LEMMA InsertKeeps == ASSUME FitInv, NEW r \in Calibrations, Insert(r) PROVE FitInv'
  <1> DEFINE new == Row(request[r].id, request[r].base.soc, request[r].version)
             at == IF Fits(new, rows) THEN "created" ELSE "conflict"
  <1>1. /\ FitAt(r, "named") /\ request' = [request EXCEPT ![r].at = at] /\ RequestFits(r)
        /\ rows' = rows \/ rows' = rows \cup {new}
    BY DEF FitInv, Insert
  <1>2. new.id = request[r].id /\ new.soc = request[r].base.soc /\ new.version = request[r].version
    BY DEF Row
  <1> HIDE DEF new
  <1>3. new.version \in Nat /\ CalibratedName(new)
    <2>1. new.version \in Nat \ {0} /\ new.id \in {Versioned(request[r].base.id, new.version), Cal(Versioned(request[r].base.id, new.version))}
      BY <1>1, <1>2 DEF RequestFits, FitAt
    <2>2. ASSUME NEW stem, NEW n, new.id = Cal(<<stem, n>>) PROVE new.version = n
      BY <2>1, <2>2 DEF Cal, Versioned
    <2>3. QED
      BY <2>1, <2>2 DEF CalibratedName
  <1>4. IsFiniteSet(rows') /\ \A p \in rows' : p.version \in Nat /\ CalibratedName(p)
    BY <1>1, <1>3, FS_AddElement DEF FitInv
  <1>5. /\ DOMAIN request' = Calibrations /\ request'[r].at \in {"created", "conflict"}
        /\ \A q \in Calibrations \ {r} : request'[q] = request[q]
        /\ \A q \in Calibrations : DOMAIN request'[q] = FitFields
    BY <1>1 DEF FitInv, FitFields
  <1>6. RequestFits(r)' /\ Serial(r)' /\ ~HasLock(r)'
    BY <1>5 DEF RequestFits, Serial, FitAt, HasLock
  <1>7. ASSUME NEW q \in Calibrations \ {r} PROVE RequestFits(q)' /\ Serial(q)'
    <2>1. request'[q] = request[q] /\ RequestFits(q) /\ Serial(q)
      BY <1>5 DEF FitInv
    <2>2. CASE HasLock(q)
      <3>1. new.soc # request[q].base.soc
        BY <1>1, <1>2, <2>2 DEF FitInv, HasLock, FitAt
      <3>2. VersionsOf(request[q].base.soc)' = VersionsOf(request[q].base.soc)
        BY <1>1, <2>1, <3>1 DEF VersionsOf
      <3>3. QED
        BY <1>1, <2>1, <3>1, <3>2 DEF RequestFits, Serial, FitAt
    <2>3. CASE ~HasLock(q)
      BY <2>1, <2>3 DEF RequestFits, Serial, FitAt, HasLock
    <2>4. QED
      BY <2>2, <2>3
  <1>8. \A q, s \in Calibrations : HasLock(q)' /\ HasLock(s)' /\ request'[q].base.soc = request'[s].base.soc => q = s
    BY <1>5, <1>6 DEF FitInv, HasLock
  <1>9. QED
    BY <1>4, <1>5, <1>6, <1>7, <1>8 DEF FitInv

LEMMA LoadParamsKeeps == ASSUME \A d \in Authored : CalibratedName(d), FitInv, LoadParams PROVE FitInv'
  <1>1. PICK d \in Authored : rows' = {x \in rows : x.id # d.id} \cup {d}
    BY DEF LoadParams
  <1>2. request' = [r \in Calibrations |-> [request[r] EXCEPT !.loaded = request[r].loaded \/ HasLock(r)]]
    BY DEF LoadParams
  <1>3. IsFiniteSet(rows') /\ \A p \in rows' : p.version \in Nat /\ CalibratedName(p)
    <2>1. {x \in rows : x.id # d.id} \in SUBSET rows
      OBVIOUS
    <2>2. IsFiniteSet({x \in rows : x.id # d.id})
      BY <2>1, FS_Subset DEF FitInv
    <2>3. QED
      BY <1>1, <2>2, FS_AddElement, FitAssumption DEF FitInv
  <1>4. ASSUME NEW r \in Calibrations
        PROVE  /\ DOMAIN request'[r] = FitFields
               /\ request'[r].at = request[r].at /\ request'[r].base = request[r].base
               /\ request'[r].version = request[r].version /\ request'[r].id = request[r].id
               /\ request'[r].loaded = (request[r].loaded \/ HasLock(r))
    BY <1>2, <1>4 DEF FitInv, FitFields
  <1>5. ASSUME NEW r \in Calibrations PROVE RequestFits(r)' /\ Serial(r)' /\ (HasLock(r)' <=> HasLock(r))
    <2>1. RequestFits(r)' /\ (HasLock(r)' <=> HasLock(r))
      BY <1>4 DEF FitInv, RequestFits, FitAt, HasLock
    <2>2. HasLock(r) => request'[r].loaded
      BY <1>4
    <2>3. Serial(r)'
      BY <1>4, <2>2 DEF Serial, FitAt, HasLock
    <2>4. QED
      BY <2>1, <2>3
  <1>6. QED
    BY <1>2, <1>3, <1>4, <1>5 DEF FitInv

\* Versions of one SoC are allocated one after another, for any number of
\* calibrations: a version stays above all of its SoC and its id free in it until the
\* commit, unless a load stored something (create_calibrated_params).  Documents that
\* are named as calibrations name theirs are taken to have the version of their name.
THEOREM Versions ==
    ASSUME \A d \in Stored \cup Authored : CalibratedName(d)
    PROVE  FitSpec => []VersionsAreSerial
  <1>1. FitInit => FitInv
    BY FitStarts
  <1>2. FitInv /\ [FitNext]_fitVars => FitInv'
    <2> SUFFICES ASSUME FitInv, [FitNext]_fitVars PROVE FitInv'
      OBVIOUS
    <2>1. CASE FitNext
      BY <2>1, BeginFitKeeps, LockKeeps, AllocateKeeps, ChooseIdKeeps, InsertKeeps, RefuseFitKeeps, LoadParamsKeeps
      DEF FitNext
    <2>2. CASE UNCHANGED fitVars
      BY <2>2 DEF fitVars, FitInv, RequestFits, Serial, FitAt, VersionsOf, HasLock
    <2>3. QED
      BY <2>1, <2>2
  <1>3. FitInv => VersionsAreSerial
    BY DEF FitInv, Serial, VersionsAreSerial
  <1>4. QED
    BY <1>1, <1>2, <1>3, PTL DEF FitSpec
=============================================================================
