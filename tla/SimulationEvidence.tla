------------------------- MODULE SimulationEvidence -------------------------
(***************************************************************************)
(* One row of simulation evidence and the report files that belong to it:  *)
(* sim/service.py (run_simulation_request), db/repositories/evidence.py,   *)
(* api/routers/simulation.py and reporting/exporter.py.                    *)
(*                                                                         *)
(* The requests of Runs have the same inputs, hence the same params hash   *)
(* and the same evidence id; they meet in the database only.  An export    *)
(* writes one generation of files, named after the export, which the row   *)
(* names once the export has committed.  A process may die at any step of  *)
(* an export, and a commit may fail or succeed unnoticed.                  *)
(***************************************************************************)
EXTENDS Naturals, FiniteSets

CONSTANTS Runs,    \* requests of POST /simulation/run with persist
          Exports, \* requests of POST .../artifacts/export
          Unset    \* no writer, no generation

ASSUME EvidenceAssumption == Unset \notin Runs \cup Exports

VARIABLES row,         \* the evidence row: who wrote it, with a trace, its generation
          run,         \* the simulation requests
          export,      \* the export requests
          generations, \* the generations on disk
          calm         \* history: no deletion, crash or unnoticed commit, no two exports at a time

evidenceVars == <<row, run, export, generations, calm>>

NoRow == [exists |-> FALSE, writer |-> Unset, trace |-> FALSE, generation |-> Unset]
NewRun == [pc |-> "idle", force |-> FALSE, trace |-> FALSE, intended |-> FALSE, insert |-> FALSE]

EvidenceInit == /\ row = NoRow
                /\ run = [r \in Runs |-> NewRun]
                /\ export = [x \in Exports |-> [pc |-> "idle", overwrite |-> TRUE, previous |-> Unset, unnoticed |-> FALSE]]
                /\ generations = [x \in Exports |-> "none"]
                /\ calm = TRUE

-----------------------------------------------------------------------------
\* Operators whose names begin with Faulty are plausible mistakes in the
\* definition they precede; nothing here uses them (README, "Mutants").

RunAt(r, pc) == run[r].pc = pc
RunTo(r, pc) ==
    run' = [run EXCEPT ![r] = IF pc \in {"cached", "stored", "failed"} THEN [NewRun EXCEPT !.pc = pc]
                              ELSE [@ EXCEPT !.pc = pc]]

Ask(r) == /\ RunAt(r, "idle")
          /\ \E force, trace \in BOOLEAN :
                run' = [run EXCEPT ![r] = [@ EXCEPT !.pc = "lookup", !.force = force, !.trace = trace]]
          /\ UNCHANGED <<row, export, generations, calm>>

\* The stored evidence answers, if it has the trace that is asked for.
HasWanted(r) == row.exists /\ (run[r].trace => row.trace)
Lookup(r) == /\ RunAt(r, "lookup")
             /\ RunTo(r, IF ~run[r].force /\ HasWanted(r) THEN "cached" ELSE "calculated")
             /\ UNCHANGED <<row, export, generations, calm>>

\* After the calculation: insert_intended, then upsert_simulation_evidence
\* looks for the row once more.
Intend(r) == /\ RunAt(r, "calculated")
             /\ run' = [run EXCEPT ![r] = [@ EXCEPT !.pc = "intended", !.intended = ~row.exists]]
             /\ UNCHANGED <<row, export, generations, calm>>

Prepare(r) == /\ RunAt(r, "intended")
              /\ run' = [run EXCEPT ![r] = [@ EXCEPT !.pc = "prepared", !.insert = ~row.exists]]
              /\ UNCHANGED <<row, export, generations, calm>>

\* A rerun comes without artifacts and keeps those of the row.
Upserted(r) == [exists |-> TRUE, writer |-> r, trace |-> run[r].trace, generation |-> row.generation]

FaultyRecovered(r) == "failed"
Recovered(r) == IF run[r].intended THEN "conflict" ELSE "failed"

\* An insert meets the primary key of another one, an update a row that is gone.
Commit(r) == /\ RunAt(r, "prepared")
             /\ IF run[r].insert = ~row.exists
                THEN row' = Upserted(r) /\ RunTo(r, "stored")
                ELSE /\ UNCHANGED row
                     /\ RunTo(r, IF run[r].insert THEN Recovered(r) ELSE "failed")
             /\ UNCHANGED <<export, generations, calm>>

\* The row that won the race is the answer.
TakeWinner(r) == /\ RunAt(r, "conflict")
                 /\ RunTo(r, IF row.exists THEN "cached" ELSE "failed")
                 /\ UNCHANGED <<row, export, generations, calm>>

\* delete_result; the files stay.
Delete == /\ row.exists
          /\ row' = NoRow
          /\ calm' = FALSE
          /\ UNCHANGED <<run, export, generations>>

-----------------------------------------------------------------------------
(* Exports (export_result_artifacts).                                      *)

ExportAt(x, pc) == export[x].pc = pc
Ends == {"done", "refused", "failed", "crashed"}
ExportTo(x, pc) ==
    export' = [export EXCEPT ![x] = IF pc \in Ends THEN [@ EXCEPT !.pc = pc, !.overwrite = TRUE, !.previous = Unset]
                                    ELSE [@ EXCEPT !.pc = pc]]
IsOver(x) == export[x].pc \in Ends \cup {"idle"}

BeginExport(x) ==
    /\ ExportAt(x, "idle")
    /\ \E overwrite \in BOOLEAN :
          export' = [export EXCEPT ![x] = [@ EXCEPT !.pc = IF row.exists THEN "begun" ELSE "refused",
                                                    !.overwrite = overwrite, !.previous = row.generation]]
    /\ calm' = (calm /\ \A y \in Exports \ {x} : IsOver(y))
    /\ UNCHANGED <<row, run, generations>>

\* write_report_bundle: the files are staged, then renamed into their place.
StageFiles(x) ==
    /\ ExportAt(x, "begun")
    /\ IF ~export[x].overwrite /\ \E y \in Exports : generations[y] = "published"
       THEN ExportTo(x, "refused") /\ UNCHANGED generations
       ELSE ExportTo(x, "staged") /\ generations' = [generations EXCEPT ![x] = "staging"]
    /\ UNCHANGED <<row, run, calm>>

StagingFails(x) == /\ ExportAt(x, "begun")
                   /\ ExportTo(x, "failed")
                   /\ UNCHANGED <<row, run, generations, calm>>

Publish(x) == /\ ExportAt(x, "staged")
              /\ IF generations[x] = "staging"
                 THEN ExportTo(x, "published") /\ generations' = [generations EXCEPT ![x] = "published"]
                 ELSE ExportTo(x, "failed") /\ UNCHANGED generations
              /\ UNCHANGED <<row, run, calm>>

\* update_simulation_artifacts looks for the row; the update may still miss it.
NameFiles(x) == /\ ExportAt(x, "published")
                /\ ExportTo(x, IF row.exists THEN "named" ELSE "undo")
                /\ UNCHANGED <<row, run, generations, calm>>

CommitExport(x) == /\ ExportAt(x, "named")
                   /\ IF row.exists
                      THEN row' = [row EXCEPT !.generation = x] /\ ExportTo(x, "committed")
                      ELSE UNCHANGED row /\ ExportTo(x, "undo")
                   /\ UNCHANGED <<run, generations, calm>>

\* The commit reports a failure, truly or not.
CommitExportFails(x) ==
    /\ ExportAt(x, "named")
    /\ \/ ExportTo(x, "undo") /\ UNCHANGED <<row, calm>>
       \/ /\ row.exists
          /\ row' = [row EXCEPT !.generation = x]
          /\ export' = [export EXCEPT ![x] = [@ EXCEPT !.pc = "undo", !.unnoticed = TRUE]]
          /\ calm' = FALSE
    /\ UNCHANGED <<run, generations>>

\* cleanup_report_bundle
Undo(x) == /\ ExportAt(x, "undo")
           /\ ExportTo(x, "failed")
           /\ generations' = [generations EXCEPT ![x] = "removed"]
           /\ UNCHANGED <<row, run, calm>>

\* cleanup_artifact_generations: what the row named when the export began.
FaultySuperseded(x) == {y \in Exports \ {x} : generations[y] = "published"}
Superseded(x) == {export[x].previous} \ {Unset}
CleanUp(x) == /\ ExportAt(x, "committed")
              /\ ExportTo(x, "done")
              /\ generations' = [y \in Exports |-> IF y \in Superseded(x) THEN "removed" ELSE generations[y]]
              /\ UNCHANGED <<row, run, calm>>

Crash(x) == /\ ~IsOver(x)
            /\ ExportTo(x, "crashed")
            /\ calm' = FALSE
            /\ UNCHANGED <<row, run, generations>>

\* reconcile_artifacts --apply-stale-staging removes old staging directories.
Reconcile(x) == /\ generations[x] = "staging"
                /\ generations' = [generations EXCEPT ![x] = "removed"]
                /\ UNCHANGED <<row, run, export, calm>>

EvidenceNext == \/ \E r \in Runs : Ask(r) \/ Lookup(r) \/ Intend(r) \/ Prepare(r) \/ Commit(r) \/ TakeWinner(r)
                \/ \E x \in Exports : \/ BeginExport(x) \/ StageFiles(x) \/ StagingFails(x) \/ Publish(x) \/ NameFiles(x)
                                      \/ CommitExport(x) \/ CommitExportFails(x) \/ Undo(x) \/ CleanUp(x)
                                      \/ Crash(x) \/ Reconcile(x)
                \/ Delete

EvidenceSpec == EvidenceInit /\ [][EvidenceNext]_evidenceVars

-----------------------------------------------------------------------------
(* Properties                                                              *)

\* The files a row names are there, whatever exports, reruns, deletions, crashes
\* and reconciliations overlap; a commit that succeeded and was reported as
\* failed is the exception (its generation is removed as README.md says).
NamedFilesExist ==
    row.generation # Unset => generations[row.generation] = "published" \/ export[row.generation].unnoticed

\* Without a crash, a deletion, an unnoticed commit or exports that overlap, the
\* only files left when the exports are over are those the row names; exports that
\* fail at any step leave none.
NothingIsLeft ==
    calm /\ (\A x \in Exports : IsOver(x)) => \A x \in Exports : generations[x] = "published" => x = row.generation

\* Evidence and its files agree.
FilesMatchRows == NamedFilesExist /\ NothingIsLeft

\* "Deterministic evidence ids make identical requests converge": a request fails
\* for no other reason than a deletion, however many of them race.
RacingRunsSucceed == calm => \A r \in Runs : ~RunAt(r, "failed")
=============================================================================
