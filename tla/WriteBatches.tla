---------------------------- MODULE WriteBatches ----------------------------
(***************************************************************************)
(* Reviewed writes of canonical scenarios: src/scenario_db/write/service.py *)
(* on PostgreSQL (READ COMMITTED), with the ETL loader as the other writer  *)
(* of the same rows.                                                        *)
(*                                                                          *)
(* A batch is staged, validated, previewed (diff) and applied.  Diff and    *)
(* apply are transactions that take the row of the batch, then the global   *)
(* advisory lock, then the rows of their targets; what they do under all of *)
(* these locks is one action here, except that an application checks and    *)
(* writes in two, because a scenario that did not exist when the rows were  *)
(* locked is not locked.                                                    *)
(***************************************************************************)
CONSTANTS Scenarios, Variants, Nodes,
          Batches,    \* bound of the model: batches ever staged
          Requests,   \* diff and apply requests served at the same time
          Payloads,   \* what may be staged
          Documents,  \* scenario documents (usecase YAML)
          AuthoredFiles,  \* those among them that are files the loader reads
          Loader,     \* the ETL process
          None        \* no row, no lock, no parent

Overlay == [refs : SUBSET Nodes, parent : Variants \cup {None}]

\* The contents of a scenario: its base pipeline, of which only the node ids
\* matter here, and its variants, of which the base nodes that node_configs
\* configures (checked on every path) and the variant it derives from do.
Doc == [base : SUBSET Nodes, variants : [Variants -> Overlay \cup {None}]]

Present(d) == {v \in Variants : d.variants[v] # None}

RefsFit(d) == \A v \in Present(d) : d.variants[v].refs \subseteq d.base

ParentsExist(d) == \A v \in Present(d) : d.variants[v].parent \in Present(d) \cup {None}

\* No variant is its own ancestor: no set of variants is closed under taking the parent.
Acyclic(d) == ~ \E S \in SUBSET Present(d) : S # {} /\ \A v \in S : d.variants[v].parent \in S

OverlayWrites == [kind : {"overlay"}, scenario : Scenarios, variant : Variants, overlay : Overlay]
PatchWrites == [kind : {"patch"}, scenario : Scenarios, remove : SUBSET Nodes, add : SUBSET Nodes]
ImportWrites == [kind : {"import"}, docs : UNION {[S -> Documents] : S \in SUBSET Scenarios \ {{}}}]

\* The loader stores a document whose references do not fit and reports it
\* (validate_loaded_db); its files are taken to be ones it has nothing to say of.
ASSUME WriteAssumption ==
    /\ Documents \subseteq Doc
    /\ AuthoredFiles \subseteq Documents
    /\ \A d \in AuthoredFiles : RefsFit(d) /\ Acyclic(d)
    /\ Payloads \subseteq OverlayWrites \cup PatchWrites \cup ImportWrites
    /\ Loader \notin Requests
    /\ None \notin Requests \cup {Loader} \cup Batches \cup Variants \cup Overlay \cup Doc
    /\ None \notin {"file", "import"} \X Documents

VARIABLES scenario,  \* canonical rows: scenarios with their scenario_variants
          digest,    \* yaml_sha256 of the scenario row
          status, payload, reviewed,  \* write_batches; reviewed is what diff_result was computed from
          at, on, does,  \* each request: how far it is, its batch, diff or apply
          want,      \* target rows the locking statement of a request has still to lock
          serial,    \* holder of the advisory lock
          holder,    \* holder of each scenario row lock
          files, todo, seen, wrote, kept  \* the transaction of the loader

batchVars == <<status, payload, reviewed>>
requestVars == <<at, on, does, want, serial>>
loadVars == <<files, todo, seen, wrote, kept>>
vars == <<scenario, digest, batchVars, requestVars, holder, loadVars>>

Statuses == {"staged", "validated", "validation_failed", "diff_ready", "applied"}

\* The digest of a row tells the document it was written from and how that was
\* hashed: the loader hashes the file, an import the document, and overlay and
\* patch store the hash of their payload, which is no document's (None).
Digests == ({"file", "import"} \X Documents) \cup {None}

TypeOK ==
    /\ scenario \in [Scenarios -> Doc \cup {None}]
    /\ digest \in [Scenarios -> Digests]
    /\ status \in [Batches -> Statuses \cup {"none"}]
    /\ payload \in [Batches -> Payloads \cup {None}]
    /\ \A b \in Batches : status[b] # "none" => payload[b] \in Payloads
    /\ DOMAIN reviewed = Batches
    /\ at \in [Requests -> {"idle", "begun", "locking", "checked"}]
    /\ on \in [Requests -> Batches \cup {None}]
    /\ does \in [Requests -> {"diff", "apply", "nothing"}]
    /\ want \in [Requests -> SUBSET Scenarios]
    /\ serial \in Requests \cup {None}
    /\ holder \in [Scenarios -> Requests \cup {Loader, None}]
    /\ files \in [Scenarios -> AuthoredFiles \cup {None}]
    /\ todo \subseteq {s \in Scenarios : files[s] # None}
    /\ seen = None \/ (seen.id \in todo /\ seen.row \in Doc \cup {None})
    /\ wrote \subseteq {s \in Scenarios : files[s] # None}
    /\ kept \subseteq wrote

Init ==
    /\ scenario = [s \in Scenarios |-> None]
    /\ digest = [s \in Scenarios |-> None]
    /\ status = [b \in Batches |-> "none"]
    /\ payload = [b \in Batches |-> None]
    /\ reviewed = [b \in Batches |-> None]
    /\ at = [r \in Requests |-> "idle"]
    /\ on = [r \in Requests |-> None]
    /\ does = [r \in Requests |-> "nothing"]
    /\ want = [r \in Requests |-> {}]
    /\ serial = None
    /\ holder = [s \in Scenarios |-> None]
    /\ files = [s \in Scenarios |-> None]
    /\ todo = {} /\ seen = None /\ wrote = {} /\ kept = {}

-----------------------------------------------------------------------------
(* What a payload asks for, when it is valid, and what a review shows.     *)

Targets(p) == IF p.kind = "import" THEN DOMAIN p.docs ELSE {p.scenario}

Patched(base, p) == (base \ p.remove) \cup p.add

\* validate_variant_overlay looks for the parent of the variant, not for cycles.
ValidOverlay(p) == LET d == scenario[p.scenario] IN
    /\ d # None
    /\ p.overlay.refs \subseteq d.base
    /\ p.overlay.parent \in Present(d) \cup {None}

FaultyValidPatch(p) == LET d == scenario[p.scenario] IN d # None /\ p.remove \subseteq d.base /\ p.add \cap d.base = {}
ValidPatch(p) == LET d == scenario[p.scenario] IN
    /\ d # None
    /\ p.remove \subseteq d.base
    /\ p.add \cap d.base = {}
    /\ \A v \in Present(d) : d.variants[v].refs \subseteq Patched(d.base, p)

\* The schema rejects cycles; nothing looks for the parents of imported variants.
ValidImport(p) == \A s \in DOMAIN p.docs : RefsFit(p.docs[s]) /\ Acyclic(p.docs[s])

Valid(p) == \/ p.kind = "overlay" /\ ValidOverlay(p)
            \/ p.kind = "patch" /\ ValidPatch(p)
            \/ p.kind = "import" /\ ValidImport(p)

\* The target rows as a review or an application finds them.
Found(p) == [s \in Targets(p) |-> scenario[s]]

\* build_import_bundle_diff and _import_bundle_impact: which documents are new or
\* differ, which variants exist and which of them differ; no contents.
ImportChange(d, doc) ==
    [change |-> IF d = None THEN "added" ELSE IF d = doc THEN "unchanged" ELSE "modified",
     existing |-> IF d = None THEN {} ELSE Present(d),
     updated |-> IF d = None THEN {} ELSE {v \in Present(d) \cap Present(doc) : d.variants[v] # doc.variants[v]}]

\* What target_revision hashes, of the rows c found: the present fields of the one
\* variant, the present pipeline with the variants it affects, or the changes of a bundle.
Revision(p, c) ==
    CASE p.kind = "overlay" -> c[p.scenario].variants[p.variant]
      [] p.kind = "patch" -> <<c[p.scenario].base, Present(c[p.scenario])>>
      [] p.kind = "import" -> [s \in DOMAIN p.docs |-> ImportChange(c[s], p.docs[s])]

FaultyOverlaid(d, p) == [d EXCEPT !.variants = [v \in {p.variant} |-> p.overlay]]
Overlaid(d, p) == [d EXCEPT !.variants = [@ EXCEPT ![p.variant] = p.overlay]]

\* upsert_usecase returns early for a document whose digest the row carries.
Unchanged(p, s) == digest[s] = <<"import", p.docs[s]>>

\* _apply_variant_overlay, _apply_pipeline_patch, _apply_import_bundle
Written(p, s) ==
    CASE p.kind = "overlay" -> Overlaid(scenario[s], p)
      [] p.kind = "patch" -> [scenario[s] EXCEPT !.base = Patched(@, p)]
      [] p.kind = "import" -> IF Unchanged(p, s) THEN scenario[s] ELSE p.docs[s]

FaultyDigestOf(p, s) == IF p.kind = "import" THEN <<"import", p.docs[s]>> ELSE digest[s]
DigestOf(p, s) == IF p.kind = "import" THEN <<"import", p.docs[s]>> ELSE None

-----------------------------------------------------------------------------
(* Requests.                                                               *)

FaultyRowFree(b) == b \in Batches
\* get_batch_or_404(for_update=True) waits while another request holds the row.
RowFree(b) == \A r \in Requests : on[r] # b

Stage(b) ==
    /\ status[b] = "none"
    /\ \E p \in Payloads : payload' = [payload EXCEPT ![b] = p]
    /\ status' = [status EXCEPT ![b] = "staged"]
    /\ UNCHANGED <<scenario, digest, reviewed, requestVars, holder, loadVars>>

ValidateBatch(b) ==
    /\ RowFree(b)
    /\ status[b] \in {"staged", "validated", "validation_failed"}
    /\ status' = [status EXCEPT ![b] = IF Valid(payload[b]) THEN "validated" ELSE "validation_failed"]
    /\ UNCHANGED <<scenario, digest, payload, reviewed, requestVars, holder, loadVars>>

\* diff_batch or apply_batch has the row of the batch and found its status allowed.
Begin(r, b, what) ==
    /\ at[r] = "idle"
    /\ RowFree(b)
    /\ at' = [at EXCEPT ![r] = "begun"]
    /\ on' = [on EXCEPT ![r] = b]
    /\ does' = [does EXCEPT ![r] = what]
    /\ UNCHANGED <<scenario, digest, batchVars, want, serial, holder, loadVars>>

DiffBatch(r, b) == status[b] \in {"validated", "diff_ready"} /\ Begin(r, b, "diff")
ApplyBatch(r, b) == status[b] = "diff_ready" /\ Begin(r, b, "apply")

\* _acquire_write_serialization_lock; the statement of _lock_write_targets that
\* follows sees the rows that exist now.
TakeSerialLock(r) ==
    /\ at[r] = "begun"
    /\ serial = None
    /\ serial' = r
    /\ at' = [at EXCEPT ![r] = "locking"]
    /\ want' = [want EXCEPT ![r] = {s \in Targets(payload[on[r]]) : scenario[s] # None}]
    /\ UNCHANGED <<scenario, digest, batchVars, on, does, holder, loadVars>>

FaultyLockTarget(r, s) ==
    /\ at[r] = "locking"
    /\ s \in want[r]
    /\ want' = [want EXCEPT ![r] = @ \ {s}]
    /\ UNCHANGED <<scenario, digest, batchVars, at, on, does, serial, holder, loadVars>>
\* FOR UPDATE on the scenario, which its variants' foreign keys extend to new variants.
LockTarget(r, s) ==
    /\ at[r] = "locking"
    /\ s \in want[r]
    /\ holder[s] = None
    /\ holder' = [holder EXCEPT ![s] = r]
    /\ want' = [want EXCEPT ![r] = @ \ {s}]
    /\ UNCHANGED <<scenario, digest, batchVars, at, on, does, serial, loadVars>>

FaultyRelease(r) ==
    /\ at' = [at EXCEPT ![r] = "idle"]
    /\ on' = [on EXCEPT ![r] = None]
    /\ does' = [does EXCEPT ![r] = "nothing"]
    /\ want' = [want EXCEPT ![r] = {}]
    /\ holder' = [s \in Scenarios |-> IF holder[s] = r THEN None ELSE holder[s]]
    /\ UNCHANGED serial
\* Commit and rollback give back every lock of the transaction.
Release(r) ==
    /\ at' = [at EXCEPT ![r] = "idle"]
    /\ on' = [on EXCEPT ![r] = None]
    /\ does' = [does EXCEPT ![r] = "nothing"]
    /\ want' = [want EXCEPT ![r] = {}]
    /\ serial' = IF serial = r THEN None ELSE serial
    /\ holder' = [s \in Scenarios |-> IF holder[s] = r THEN None ELSE holder[s]]

Locked(r, what) == at[r] = "locking" /\ want[r] = {} /\ does[r] = what

SetStatus(r, st) == status' = [status EXCEPT ![on[r]] = st]

\* The validation rerun under the locks fails: commit the new status, answer 409.
Invalid(r, what) ==
    /\ Locked(r, what)
    /\ ~Valid(payload[on[r]])
    /\ SetStatus(r, "validation_failed")
    /\ Release(r)
    /\ UNCHANGED <<scenario, digest, payload, reviewed, loadVars>>

Preview(r) ==
    /\ Locked(r, "diff")
    /\ Valid(payload[on[r]])
    /\ reviewed' = [reviewed EXCEPT ![on[r]] = Found(payload[on[r]])]
    /\ SetStatus(r, "diff_ready")
    /\ Release(r)
    /\ UNCHANGED <<scenario, digest, payload, loadVars>>

Stale(r) == LET p == payload[on[r]] IN Revision(p, reviewed[on[r]]) # Revision(p, Found(p))

\* The revision differs from the reviewed one: forget the review, answer 409.
RefuseStale(r) ==
    /\ Locked(r, "apply")
    /\ Valid(payload[on[r]])
    /\ Stale(r)
    /\ reviewed' = [reviewed EXCEPT ![on[r]] = None]
    /\ SetStatus(r, "validated")
    /\ Release(r)
    /\ UNCHANGED <<scenario, digest, payload, loadVars>>

Check(r) ==
    /\ Locked(r, "apply")
    /\ Valid(payload[on[r]])
    /\ ~Stale(r)
    /\ at' = [at EXCEPT ![r] = "checked"]
    /\ UNCHANGED <<scenario, digest, batchVars, on, does, want, serial, holder, loadVars>>

\* A scenario that appeared since the rows were locked is overwritten, once its creator committed.
Apply(r) == LET p == payload[on[r]] IN
    /\ at[r] = "checked"
    /\ \A s \in Targets(p) : holder[s] \in {r, None}
    /\ scenario' = [s \in Scenarios |-> IF s \in Targets(p) THEN Written(p, s) ELSE scenario[s]]
    /\ digest' = [s \in Scenarios |-> IF s \in Targets(p) THEN DigestOf(p, s) ELSE digest[s]]
    /\ SetStatus(r, "applied")
    /\ Release(r)
    /\ UNCHANGED <<payload, reviewed, loadVars>>

\* Crash, lost connection, an exception of the database (for one, the insert of a
\* scenario somebody else has just created): nothing of the transaction stays.
Rollback(r) ==
    /\ at[r] # "idle"
    /\ Release(r)
    /\ UNCHANGED <<scenario, digest, batchVars, loadVars>>

-----------------------------------------------------------------------------
(* The loader: one transaction over the files of a directory.              *)

LoadBegin ==
    /\ \A s \in Scenarios : files[s] = None
    /\ \E f \in [Scenarios -> AuthoredFiles \cup {None}] :
         /\ \E s \in Scenarios : f[s] # None
         /\ files' = f
         /\ todo' = {s \in Scenarios : f[s] # None}
    /\ UNCHANGED <<scenario, digest, batchVars, requestVars, holder, seen, wrote, kept>>

\* session.get of upsert_usecase, without a lock; a row with the digest of the file is left alone.
LoadRead(s) ==
    /\ s \in todo /\ seen = None
    /\ IF digest[s] = <<"file", files[s]>>
       THEN todo' = todo \ {s} /\ UNCHANGED seen
       ELSE seen' = [id |-> s, row |-> scenario[s]] /\ UNCHANGED todo
    /\ UNCHANGED <<scenario, digest, batchVars, requestVars, holder, files, wrote, kept>>

\* The flush of upsert_usecase.  It waits for the row, which applications may have
\* changed since it was read; the insert of a row that exists by now fails and its
\* savepoint is rolled back.  The ORM updates the columns that differ from what was
\* read, so that a pipeline equal to the one read is not written, whatever the row
\* holds by now; variants are always deleted and written anew.
LoadWrite == LET s == seen.id IN
    /\ seen # None
    /\ holder[s] = None
    /\ IF seen.row = None /\ scenario[s] # None
       THEN UNCHANGED <<holder, wrote, kept>>
       ELSE /\ holder' = [holder EXCEPT ![s] = Loader]
            /\ wrote' = wrote \cup {s}
            /\ kept' = IF seen.row # None /\ seen.row.base = files[s].base THEN kept \cup {s} ELSE kept
    /\ todo' = todo \ {s}
    /\ seen' = None
    /\ UNCHANGED <<scenario, digest, batchVars, requestVars, files>>

\* An exception in upsert_usecase (a deadlock, a lost project, a collision): the
\* savepoint of the file is rolled back and the load goes on with the next.
LoadSkip ==
    /\ seen # None
    /\ todo' = todo \ {seen.id}
    /\ seen' = None
    /\ UNCHANGED <<scenario, digest, batchVars, requestVars, holder, files, wrote, kept>>

LoadEnds ==
    /\ files' = [s \in Scenarios |-> None]
    /\ todo' = {} /\ seen' = None /\ wrote' = {} /\ kept' = {}
    /\ holder' = [s \in Scenarios |-> IF holder[s] = Loader THEN None ELSE holder[s]]

Loaded(s) == IF s \in kept THEN [files[s] EXCEPT !.base = scenario[s].base] ELSE files[s]

LoadCommit ==
    /\ \E s \in Scenarios : files[s] # None
    /\ todo = {}
    /\ scenario' = [s \in Scenarios |-> IF s \in wrote THEN Loaded(s) ELSE scenario[s]]
    /\ digest' = [s \in Scenarios |-> IF s \in wrote THEN <<"file", files[s]>> ELSE digest[s]]
    /\ LoadEnds
    /\ UNCHANGED <<batchVars, requestVars>>

\* A strict load with a bad file, a crash, a lost connection.
LoadAbort ==
    /\ \E s \in Scenarios : files[s] # None
    /\ LoadEnds
    /\ UNCHANGED <<scenario, digest, batchVars, requestVars>>

\* Request and loader wait for a row of the other; PostgreSQL fails the statement of one.
Deadlocked(r) ==
    /\ \E s \in Scenarios : holder[s] = Loader /\ \/ s \in want[r]
                                                  \/ at[r] = "checked" /\ s \in Targets(payload[on[r]])
    /\ seen # None /\ holder[seen.id] = r

DeadlockVictim(r) == Deadlocked(r) /\ (Rollback(r) \/ LoadSkip)

-----------------------------------------------------------------------------
\* The next statement of a transaction that has begun.
Proceed(r) == \/ TakeSerialLock(r)
              \/ \E s \in Scenarios : LockTarget(r, s)
              \/ Invalid(r, "diff") \/ Preview(r)
              \/ Invalid(r, "apply") \/ RefuseStale(r) \/ Check(r) \/ Apply(r)

LoadProceeds == (\E s \in Scenarios : LoadRead(s)) \/ LoadWrite \/ LoadCommit

Request(r) == \/ \E b \in Batches : DiffBatch(r, b) \/ ApplyBatch(r, b)
              \/ Proceed(r)
              \/ Rollback(r)

Load == LoadBegin \/ LoadProceeds \/ LoadSkip \/ LoadAbort

Next == \/ \E b \in Batches : Stage(b) \/ ValidateBatch(b)
        \/ \E r \in Requests : Request(r)
        \/ Load

Spec == Init /\ [][Next]_vars

\* A transaction goes on.  It has one statement to run at a time; PostgreSQL
\* queues those that wait for a lock, so that nobody is overtaken for ever, and
\* ends a deadlock.  Requests, loads, crashes and failures may happen or not.
Fairness == /\ \A r \in Requests : SF_vars(Proceed(r)) /\ WF_vars(DeadlockVictim(r))
            /\ SF_vars(LoadProceeds)

FairSpec == Spec /\ Fairness

-----------------------------------------------------------------------------
(* What should hold.                                                       *)

\* Every variant refers to nodes its base pipeline has.
VariantsFit(s) == scenario[s] # None => RefsFit(scenario[s])

\* write-api-contract.md, "Pipeline Patch": "Existing variant overlays must remain valid
\* after the base patch."  A load that read its row before the patch was committed breaks it.
OverlaysFit == \A s \in Scenarios : VariantsFit(s)

\* A row that carries the digest of a document holds that document.
Tells(s) == digest[s] # None => scenario[s] = digest[s][2]

\* The commit of a load that left the pipeline of the row as it is, because it had
\* read the one of its file, while an application committed another one meanwhile.
OvertakenLoad(s) == /\ s \in kept
                    /\ scenario[s].base # files[s].base
                    /\ digest'[s] = <<"file", files[s]>>

\* Whatever overlays, patches, imports and loads come together, no step leaves a
\* variant that refers to a node its pipeline no longer has, except for the commit of
\* an overtaken load.
OverlaysStayFit == [][\A s \in Scenarios : VariantsFit(s) /\ ~VariantsFit(s)' => OvertakenLoad(s)]_vars

\* The early return of upsert_usecase (definition.py:34) skips only what is there
\* already: no step makes a digest untrue but the commit of an overtaken load.
DigestsStayTrue == [][\A s \in Scenarios : Tells(s) /\ ~Tells(s)' => OvertakenLoad(s)]_vars

\* At most one transaction holds the advisory lock, a batch has one, and no lock
\* outlives the transaction it was taken in.
LocksBelong ==
    /\ \A r \in Requests : serial = r <=> at[r] \in {"locking", "checked"}
    /\ \A r \in Requests : at[r] = "idle" <=> on[r] = None
    /\ \A r, q \in Requests : r # q /\ on[r] # None => on[r] # on[q]
    /\ \A s \in Scenarios : /\ holder[s] \in Requests => serial = holder[s]
                            /\ holder[s] = Loader <=> s \in wrote

\* Applied is final: no later request validates, previews or applies the batch again.
AppliedIsFinal ==
    [][\A b \in Batches : status[b] = "applied" => status'[b] = "applied" /\ reviewed'[b] = reviewed[b]]_vars

Applies(b) == status[b] # "applied" /\ status'[b] = "applied"

\* What an overlay or a patch replaces is, at the moment it is replaced, what its
\* review showed: the variant it overwrites, the pipeline it edits and the
\* variants it affects.
AppliedAsReviewed ==
    [][\A b \in Batches : Applies(b) /\ payload[b].kind # "import"
         => Revision(payload[b], reviewed[b]) = Revision(payload[b], Found(payload[b]))]_vars

\* write-api-contract.md, "Reviewed Target Revision": a target that changed after
\* the review is refused.  For bundles, the rows found are those reviewed.
ImportedAsReviewed ==
    [][\A b \in Batches : Applies(b) /\ payload[b].kind = "import" => reviewed[b] = Found(payload[b])]_vars

\* system-architecture.md, core invariant 4: overlays are validated against the
\* inheritance rules; no variant comes to be its own ancestor.
InheritanceIsAcyclic == \A s \in Scenarios : scenario[s] # None => Acyclic(scenario[s])

\* Every request comes to an end: nobody waits for a lock for ever.
RequestsEnd == \A r \in Requests : at[r] # "idle" ~> at[r] = "idle"
=============================================================================
