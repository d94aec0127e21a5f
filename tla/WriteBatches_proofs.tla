------------------------- MODULE WriteBatches_proofs -------------------------
(***************************************************************************)
(* Proofs about WriteBatches for every set of scenarios, variants, nodes,  *)
(* batches, requests, payloads and documents.                              *)
(***************************************************************************)
EXTENDS WriteBatches, TLAPS

-----------------------------------------------------------------------------
(* Payloads and contents.                                                  *)

\* What a payload of each kind is made of, and that it names scenarios.
LEMMA PayloadFacts ==
    ASSUME NEW p \in Payloads
    PROVE  /\ p.kind \in {"overlay", "patch", "import"}
           /\ p.kind # "import" => p.scenario \in Scenarios
           /\ p.kind = "overlay" => p.variant \in Variants /\ p.overlay \in Overlay
           /\ p.kind = "patch" => p.remove \subseteq Nodes /\ p.add \subseteq Nodes
           /\ p.kind = "import" => /\ DOMAIN p.docs \subseteq Scenarios
                                   /\ \A s \in DOMAIN p.docs : p.docs[s] \in Documents
           /\ Targets(p) \subseteq Scenarios
  <1>1. CASE p \in OverlayWrites
    BY <1>1 DEF OverlayWrites, Targets
  <1>2. CASE p \in PatchWrites
    BY <1>2 DEF PatchWrites, Targets
  <1>3. CASE p \in ImportWrites
    <2>1. p.kind = "import" /\ p.docs \in UNION {[S -> Documents] : S \in SUBSET Scenarios \ {{}}}
      BY <1>3 DEF ImportWrites
    <2>2. PICK S \in SUBSET Scenarios : p.docs \in [S -> Documents]
      BY <2>1
    <2>3. QED
      BY <2>1, <2>2 DEF Targets
  <1>4. QED
    BY <1>1, <1>2, <1>3, WriteAssumption

\* Replacing a document's base, or one of its variants, gives a document with just that changed.
LEMMA NewBase ==
    ASSUME NEW d \in Doc, NEW ns \in SUBSET Nodes
    PROVE  /\ [d EXCEPT !.base = ns] \in Doc
           /\ [d EXCEPT !.base = ns].base = ns
           /\ [d EXCEPT !.base = ns].variants = d.variants
  BY DEF Doc

LEMMA NewVariant ==
    ASSUME NEW d \in Doc, NEW v \in Variants, NEW o \in Overlay
    PROVE  /\ [d EXCEPT !.variants = [@ EXCEPT ![v] = o]] \in Doc
           /\ [d EXCEPT !.variants = [@ EXCEPT ![v] = o]].base = d.base
           /\ [d EXCEPT !.variants = [@ EXCEPT ![v] = o]].variants = [d.variants EXCEPT ![v] = o]
  <1>1. [d.variants EXCEPT ![v] = o] \in [Variants -> Overlay \cup {None}]
    BY DEF Doc
  <1>2. QED
    BY <1>1 DEF Doc

\* A document with its own base put in is that document.
LEMMA SameBase ==
    ASSUME NEW d \in Doc
    PROVE  [d EXCEPT !.base = d.base] = d
  BY DEF Doc

\* The two kinds of document a write that passed validation leaves.
LEMMA WrittenTyped ==
    ASSUME TypeOK, NEW p \in Payloads, Valid(p), NEW s \in Targets(p)
    PROVE  /\ Written(p, s) \in Doc \cup {None}
           /\ scenario[s] # None => Written(p, s) # None
           /\ DigestOf(p, s) \in Digests
  <1> USE PayloadFacts, WriteAssumption
  <1>1. CASE p.kind = "overlay"
    <2>1. s = p.scenario /\ s \in Scenarios /\ scenario[s] # None
      BY <1>1 DEF Targets, Valid, ValidOverlay
    <2>2. scenario[s] \in Doc
      BY <2>1 DEF TypeOK
    <2>3. Overlaid(scenario[s], p) \in Doc
      BY <1>1, <2>2, NewVariant DEF Overlaid
    <2>4. QED
      BY <1>1, <2>3 DEF Written, DigestOf, Digests
  <1>2. CASE p.kind = "patch"
    <2>1. s = p.scenario /\ s \in Scenarios /\ scenario[s] # None
      BY <1>2 DEF Targets, Valid, ValidPatch
    <2>2. scenario[s] \in Doc
      BY <2>1 DEF TypeOK
    <2>3. Patched(scenario[s].base, p) \in SUBSET Nodes
      BY <1>2, <2>2 DEF Patched, Doc
    <2>4. [scenario[s] EXCEPT !.base = Patched(@, p)] \in Doc
      BY <2>2, <2>3, NewBase
    <2>5. QED
      BY <1>2, <2>4 DEF Written, DigestOf, Digests
  <1>3. CASE p.kind = "import"
    <2>1. s \in DOMAIN p.docs /\ s \in Scenarios /\ p.docs[s] \in Documents
      BY <1>3 DEF Targets
    <2>2. p.docs[s] \in Doc
      BY <2>1
    <2>3. <<"import", p.docs[s]>> \in Digests
      BY <2>1 DEF Digests
    <2>4. scenario[s] \in Doc \cup {None}
      BY <2>1 DEF TypeOK
    <2>5. QED
      BY <1>3, <2>2, <2>3, <2>4 DEF Written, DigestOf
  <1>4. QED
    BY <1>1, <1>2, <1>3

-----------------------------------------------------------------------------
(* The inductive invariant: what is known of the batch, of the locks and   *)
(* of the outcome of the check while a request is under way.               *)

\* A request found its batch in a status that allows it, and the row lock keeps it there.
Undertaken ==
    \A r \in Requests :
      /\ at[r] = "idle" <=> does[r] = "nothing"
      /\ at[r] = "checked" => does[r] = "apply"
      /\ at[r] # "locking" => want[r] = {}
      /\ does[r] = "diff" => status[on[r]] \in {"validated", "diff_ready"}
      /\ does[r] = "apply" => status[on[r]] = "diff_ready"

\* Scenarios are not deleted, so that one that was reviewed is there to be locked.
ReviewedExists ==
    \A b \in Batches : status[b] = "diff_ready" /\ payload[b].kind # "import"
                         => scenario[payload[b].scenario] # None

TargetHeld ==
    \A r \in Requests : does[r] = "apply" /\ at[r] \in {"locking", "checked"} /\ payload[on[r]].kind # "import"
       => LET s == payload[on[r]].scenario IN s \in want[r] \/ holder[s] = r

\* What the check established still holds when the application writes.
CheckHolds ==
    \A r \in Requests : at[r] = "checked" =>
       /\ Valid(payload[on[r]])
       /\ payload[on[r]].kind # "import" => ~Stale(r)

\* What the loader read, and whose pipeline it keeps, is still there.
LoadedExists == /\ seen # None /\ seen.row # None => scenario[seen.id] # None
                /\ \A s \in kept : scenario[s] # None

Discipline == LocksBelong /\ Undertaken /\ ReviewedExists /\ TargetHeld /\ CheckHolds /\ LoadedExists

\* A digest belongs to a row.
DigestHasRow == \A s \in Scenarios : digest[s] # None => scenario[s] # None

IInv == TypeOK /\ Discipline /\ DigestHasRow

\* A request under way has a batch with a payload.
LEMMA OnBatch ==
    ASSUME TypeOK, LocksBelong, Undertaken, NEW r \in Requests, at[r] # "idle"
    PROVE  /\ on[r] \in Batches
           /\ payload[on[r]] \in Payloads
           /\ status[on[r]] \in {"validated", "diff_ready"}
  <1>1. on[r] \in Batches
    BY DEF TypeOK, LocksBelong
  <1>2. does[r] \in {"diff", "apply"}
    BY DEF TypeOK, Undertaken
  <1>3. status[on[r]] \in {"validated", "diff_ready"}
    BY <1>2 DEF Undertaken
  <1>4. QED
    BY <1>1, <1>3 DEF TypeOK

\* What giving back the locks of r leaves.
LEMMA Released ==
    ASSUME TypeOK, LocksBelong, NEW r \in Requests, Release(r)
    PROVE  /\ at' \in [Requests -> {"idle", "begun", "locking", "checked"}]
           /\ on' \in [Requests -> Batches \cup {None}]
           /\ does' \in [Requests -> {"diff", "apply", "nothing"}]
           /\ want' \in [Requests -> SUBSET Scenarios]
           /\ serial' \in Requests \cup {None}
           /\ holder' \in [Scenarios -> Requests \cup {Loader, None}]
           /\ at'[r] = "idle" /\ on'[r] = None /\ does'[r] = "nothing" /\ want'[r] = {}
           /\ \A q \in Requests : q # r => /\ at'[q] = at[q] /\ on'[q] = on[q]
                                           /\ does'[q] = does[q] /\ want'[q] = want[q]
           /\ serial' = IF serial = r THEN None ELSE serial
           /\ \A s \in Scenarios : holder'[s] = IF holder[s] = r THEN None ELSE holder[s]
  BY DEF Release, TypeOK

\* What a load writes is a document.
LEMMA LoadedTyped ==
    ASSUME TypeOK, LoadedExists, NEW s \in wrote
    PROVE  Loaded(s) \in Doc /\ <<"file", files[s]>> \in Digests
  <1>1. s \in Scenarios /\ files[s] \in Documents /\ files[s] \in Doc
    BY WriteAssumption DEF TypeOK
  <1>2. CASE s \in kept
    <2>1. scenario[s] \in Doc
      BY <1>1, <1>2 DEF TypeOK, LoadedExists
    <2>2. scenario[s].base \in SUBSET Nodes
      BY <2>1 DEF Doc
    <2>3. QED
      BY <1>1, <1>2, <2>2, NewBase DEF Loaded, Digests
  <1>3. CASE s \notin kept
    BY <1>1, <1>3 DEF Loaded, Digests
  <1>4. QED
    BY <1>2, <1>3

LEMMA TypeStep == ASSUME TypeOK, Discipline, [Next]_vars PROVE TypeOK'
  <1> USE WriteAssumption
  <1>1. ASSUME NEW b \in Batches, Stage(b) PROVE TypeOK'
    BY <1>1 DEF Stage, TypeOK, Statuses, requestVars, loadVars
  <1>2. ASSUME NEW b \in Batches, ValidateBatch(b) PROVE TypeOK'
    <2>1. status' \in [Batches -> Statuses \cup {"none"}]
      BY <1>2 DEF ValidateBatch, TypeOK, Statuses
    <2>2. \A c \in Batches : status'[c] # "none" => status[c] # "none"
      BY <1>2 DEF ValidateBatch, TypeOK
    <2>3. QED
      BY <1>2, <2>1, <2>2 DEF ValidateBatch, TypeOK, requestVars, loadVars
  <1>3. ASSUME NEW r \in Requests, NEW b \in Batches, DiffBatch(r, b) \/ ApplyBatch(r, b) PROVE TypeOK'
    <2>1. PICK what \in {"diff", "apply"} : Begin(r, b, what)
      BY <1>3 DEF DiffBatch, ApplyBatch
    <2>2. QED
      BY <2>1 DEF Begin, TypeOK, batchVars, loadVars
  <1>4. ASSUME NEW r \in Requests, TakeSerialLock(r) PROVE TypeOK'
    <2>1. {s \in Targets(payload[on[r]]) : scenario[s] # None} \subseteq Scenarios
      BY <1>4, OnBatch, PayloadFacts DEF TakeSerialLock, Discipline
    <2>2. want' \in [Requests -> SUBSET Scenarios]
      BY <1>4, <2>1 DEF TakeSerialLock, TypeOK
    <2>3. QED
      BY <1>4, <2>2 DEF TakeSerialLock, TypeOK, batchVars, loadVars
  <1>5. ASSUME NEW r \in Requests, NEW s \in Scenarios, LockTarget(r, s) PROVE TypeOK'
    BY <1>5 DEF LockTarget, TypeOK, batchVars, loadVars
  <1>6. ASSUME NEW r \in Requests, Check(r) PROVE TypeOK'
    BY <1>6 DEF Check, TypeOK, batchVars, loadVars
  <1>7. ASSUME NEW r \in Requests, at[r] # "idle", Release(r), UNCHANGED <<payload, loadVars>>, DOMAIN reviewed' = Batches,
               scenario' \in [Scenarios -> Doc \cup {None}], digest' \in [Scenarios -> Digests],
               \/ UNCHANGED status
               \/ \E st \in Statuses : SetStatus(r, st)
        PROVE  TypeOK'
    <2>1. on[r] \in Batches /\ payload[on[r]] \in Payloads
      BY <1>7, OnBatch DEF Discipline
    <2>2. status' \in [Batches -> Statuses \cup {"none"}]
      BY <1>7, <2>1 DEF SetStatus, TypeOK, Statuses
    <2>3. \A c \in Batches : status'[c] # "none" => payload[c] \in Payloads
      BY <1>7, <2>1 DEF SetStatus, TypeOK
    <2>4. QED
      BY <1>7, <2>2, <2>3, Released DEF TypeOK, loadVars, Discipline
  <1>8. ASSUME NEW r \in Requests, NEW what \in {"diff", "apply"}, Invalid(r, what) PROVE TypeOK'
    BY <1>7, <1>8 DEF Invalid, Locked, TypeOK, Statuses
  <1>9. ASSUME NEW r \in Requests, Preview(r) \/ RefuseStale(r) PROVE TypeOK'
    BY <1>7, <1>9 DEF Preview, RefuseStale, Locked, TypeOK, Statuses
  <1>10. ASSUME NEW r \in Requests, Rollback(r) PROVE TypeOK'
    BY <1>7, <1>10 DEF Rollback, batchVars, TypeOK
  <1>11. ASSUME NEW r \in Requests, Apply(r) PROVE TypeOK'
    <2> DEFINE p == payload[on[r]]
    <2>1. at[r] = "checked" /\ p \in Payloads /\ Valid(p)
      BY <1>11, OnBatch DEF Apply, Discipline, CheckHolds
    <2>2. \A s \in Targets(p) : Written(p, s) \in Doc \cup {None} /\ DigestOf(p, s) \in Digests
      BY <2>1, WrittenTyped
    <2>3. scenario' \in [Scenarios -> Doc \cup {None}] /\ digest' \in [Scenarios -> Digests]
      BY <1>11, <2>2 DEF Apply, TypeOK
    <2>4. QED
      BY <1>7, <1>11, <2>1, <2>3 DEF Apply, TypeOK, Statuses
  <1>12. CASE LoadBegin
    BY <1>12 DEF LoadBegin, TypeOK, batchVars, requestVars
  <1>13. ASSUME NEW s \in Scenarios, LoadRead(s) PROVE TypeOK'
    BY <1>13 DEF LoadRead, TypeOK, batchVars, requestVars
  <1>14. CASE LoadWrite
    BY <1>14 DEF LoadWrite, TypeOK, batchVars, requestVars
  <1>15. ASSUME LoadEnds, UNCHANGED <<batchVars, requestVars>>,
                scenario' \in [Scenarios -> Doc \cup {None}], digest' \in [Scenarios -> Digests]
         PROVE  TypeOK'
    BY <1>15 DEF LoadEnds, TypeOK, batchVars, requestVars
  <1>16. CASE LoadCommit
    <2>1. \A s \in wrote : Loaded(s) \in Doc /\ <<"file", files[s]>> \in Digests
      BY LoadedTyped DEF Discipline
    <2>2. QED
      BY <1>15, <1>16, <2>1 DEF LoadCommit, TypeOK
  <1>17. CASE LoadAbort
    BY <1>15, <1>17 DEF LoadAbort, TypeOK
  <1>18. CASE LoadSkip
    BY <1>18 DEF LoadSkip, TypeOK, batchVars, requestVars
  <1>19. CASE UNCHANGED vars
    BY <1>19 DEF vars, TypeOK, batchVars, requestVars, loadVars
  <1>20. QED
    BY <1>1, <1>2, <1>3, <1>4, <1>5, <1>6, <1>8, <1>9, <1>10, <1>11, <1>12, <1>13, <1>14, <1>16, <1>17, <1>18, <1>19
       DEF Next, Request, Proceed, Load, LoadProceeds

\* Scenarios are not deleted.
LEMMA ScenariosStay ==
    ASSUME TypeOK, Discipline, [Next]_vars, NEW s \in Scenarios, scenario[s] # None
    PROVE  scenario'[s] # None
  <1>1. ASSUME NEW r \in Requests, Apply(r) PROVE scenario'[s] # None
    <2>1. at[r] = "checked" /\ payload[on[r]] \in Payloads /\ Valid(payload[on[r]])
      BY <1>1, OnBatch DEF Apply, Discipline, CheckHolds
    <2>2. s \in Targets(payload[on[r]]) => Written(payload[on[r]], s) # None
      BY <2>1, WrittenTyped
    <2>3. QED
      BY <1>1, <2>2 DEF Apply
  <1>2. CASE LoadCommit
    <2>1. \A x \in wrote : Loaded(x) # None
      BY LoadedTyped, WriteAssumption DEF Discipline
    <2>2. QED
      BY <1>2, <2>1 DEF LoadCommit
  <1>3. CASE UNCHANGED scenario
    BY <1>3
  <1>4. QED
    BY <1>1, <1>2, <1>3
       DEF Next, Request, Proceed, Load, LoadProceeds, Stage, ValidateBatch, DiffBatch, ApplyBatch, Begin,
           TakeSerialLock, LockTarget, Invalid, Preview, RefuseStale, Check, Rollback, LoadBegin, LoadRead,
           LoadWrite, LoadSkip, LoadAbort, vars

\* The locks stay with the transactions that took them.
LEMMA LocksStep == ASSUME TypeOK, Discipline, [Next]_vars PROVE LocksBelong'
  <1>0. LocksBelong /\ Undertaken
    BY DEF Discipline
  <1>1. CASE UNCHANGED <<at, on, serial, holder, wrote>>
    BY <1>0, <1>1 DEF LocksBelong
  <1>2. ASSUME NEW r \in Requests, NEW b \in Batches, DiffBatch(r, b) \/ ApplyBatch(r, b) PROVE LocksBelong'
    <2>1. PICK what \in {"diff", "apply"} : Begin(r, b, what)
      BY <1>2 DEF DiffBatch, ApplyBatch
    <2>2. b # None
      BY WriteAssumption
    <2>3. QED
      BY <1>0, <2>1, <2>2 DEF Begin, RowFree, LocksBelong, TypeOK, loadVars
  <1>3. ASSUME NEW r \in Requests, TakeSerialLock(r) PROVE LocksBelong'
    <2>1. None \notin Requests
      BY WriteAssumption
    <2>2. serial = None /\ serial' = r /\ at[r] = "begun" /\ at'[r] = "locking"
      BY <1>3 DEF TakeSerialLock, TypeOK
    <2>3. \A q \in Requests \ {r} : at'[q] = at[q]
      BY <1>3 DEF TakeSerialLock, TypeOK
    <2>4. UNCHANGED <<on, holder, wrote>>
      BY <1>3 DEF TakeSerialLock, loadVars
    <2>5. \A q \in Requests : serial' = q <=> at'[q] \in {"locking", "checked"}
      BY <1>0, <2>1, <2>2, <2>3 DEF LocksBelong
    <2>6. \A q \in Requests : at'[q] = "idle" <=> on'[q] = None
      BY <1>0, <2>2, <2>3, <2>4 DEF LocksBelong
    <2>7. \A s \in Scenarios : holder[s] \notin Requests
      BY <1>0, <2>1, <2>2 DEF LocksBelong
    <2>8. QED
      BY <1>0, <2>4, <2>5, <2>6, <2>7 DEF LocksBelong
  <1>4. ASSUME NEW r \in Requests, NEW s \in Scenarios, LockTarget(r, s) PROVE LocksBelong'
    BY <1>0, <1>4, WriteAssumption DEF LockTarget, LocksBelong, TypeOK, loadVars
  <1>5. ASSUME NEW r \in Requests, Check(r) PROVE LocksBelong'
    BY <1>0, <1>5 DEF Check, Locked, LocksBelong, TypeOK, loadVars
  <1>6. ASSUME NEW r \in Requests, Release(r), UNCHANGED wrote PROVE LocksBelong'
    <2>1. None \notin Requests /\ Loader \notin Requests /\ Loader # None
      BY WriteAssumption
    <2>2. QED
      BY <1>0, <1>6, <2>1, Released DEF LocksBelong
  <1>7. CASE LoadWrite
    <2>1. Loader \notin Requests /\ None \notin Requests
      BY WriteAssumption
    <2>2. QED
      BY <1>0, <1>7, <2>1 DEF LoadWrite, LocksBelong, TypeOK, requestVars
  <1>8. ASSUME LoadEnds, UNCHANGED requestVars PROVE LocksBelong'
    BY <1>0, <1>8, WriteAssumption DEF LoadEnds, LocksBelong, TypeOK, requestVars
  <1>9. QED
    BY <1>1, <1>2, <1>3, <1>4, <1>5, <1>6, <1>7, <1>8
       DEF Next, Request, Proceed, Load, LoadProceeds, Stage, ValidateBatch, Invalid, Preview, RefuseStale,
           Apply, Rollback, LoadBegin, LoadRead, LoadCommit, LoadSkip, LoadAbort, vars, requestVars, loadVars

\* Only the request that has a batch changes its status.
LEMMA UndertakenStep == ASSUME TypeOK, Discipline, [Next]_vars PROVE Undertaken'
  <1>0. LocksBelong /\ Undertaken
    BY DEF Discipline
  <1>1. CASE UNCHANGED <<at, on, does, want, status>>
    BY <1>0, <1>1 DEF Undertaken
  <1>2. ASSUME NEW b \in Batches, RowFree(b), UNCHANGED requestVars, NEW st, status' = [status EXCEPT ![b] = st]
        PROVE  Undertaken'
    BY <1>0, <1>2 DEF RowFree, Undertaken, TypeOK, LocksBelong, requestVars
  <1>3. ASSUME NEW b \in Batches, Stage(b) PROVE Undertaken'
    <2>1. RowFree(b)
      <3> SUFFICES ASSUME NEW r \in Requests, on[r] = b PROVE FALSE
        BY DEF RowFree
      <3>1. at[r] # "idle"
        BY <1>0, WriteAssumption DEF LocksBelong
      <3>2. QED
        BY <1>0, <1>3, <3>1, OnBatch DEF Stage
    <2>2. QED
      BY <1>2, <1>3, <2>1 DEF Stage
  <1>4. ASSUME NEW b \in Batches, ValidateBatch(b) PROVE Undertaken'
    BY <1>2, <1>4 DEF ValidateBatch
  <1>5. ASSUME NEW r \in Requests, NEW b \in Batches, DiffBatch(r, b) \/ ApplyBatch(r, b) PROVE Undertaken'
    BY <1>0, <1>5 DEF DiffBatch, ApplyBatch, Begin, Undertaken, TypeOK, batchVars
  <1>6. ASSUME NEW r \in Requests, TakeSerialLock(r) PROVE Undertaken'
    BY <1>0, <1>6 DEF TakeSerialLock, Undertaken, TypeOK, batchVars
  <1>7. ASSUME NEW r \in Requests, NEW s \in Scenarios, LockTarget(r, s) PROVE Undertaken'
    BY <1>0, <1>7 DEF LockTarget, Undertaken, TypeOK, batchVars
  <1>8. ASSUME NEW r \in Requests, Check(r) PROVE Undertaken'
    BY <1>0, <1>8 DEF Check, Locked, Undertaken, TypeOK, batchVars
  <1>9. ASSUME NEW r \in Requests, at[r] # "idle", Release(r), UNCHANGED status \/ \E st \in Statuses : SetStatus(r, st)
        PROVE  Undertaken'
    <2>1. \A q \in Requests : q # r => status'[on[q]] = status[on[q]] \/ at[q] = "idle"
      BY <1>0, <1>9, OnBatch DEF SetStatus, LocksBelong, TypeOK
    <2>2. QED
      BY <1>0, <1>9, <2>1, Released DEF Undertaken
  <1>10. QED
    BY <1>1, <1>3, <1>4, <1>5, <1>6, <1>7, <1>8, <1>9
       DEF Next, Request, Proceed, Load, LoadProceeds, Invalid, Preview, RefuseStale, Locked,
           Apply, Rollback, LoadBegin, LoadRead, LoadWrite, LoadCommit, LoadSkip, LoadAbort,
           vars, requestVars, batchVars, Statuses

\* A request that has its targets, or is getting them, loses none.
LEMMA TargetsStep == ASSUME TypeOK, Discipline, [Next]_vars PROVE ReviewedExists' /\ TargetHeld' /\ LoadedExists'
  <1>0. LocksBelong /\ Undertaken /\ ReviewedExists /\ TargetHeld /\ LoadedExists
    BY DEF Discipline
  <1>1. ASSUME NEW b \in Batches, status'[b] = "diff_ready", payload'[b].kind # "import",
               status[b] = "diff_ready", payload'[b] = payload[b]
        PROVE  scenario'[payload'[b].scenario] # None
    <2>1. payload[b] \in Payloads
      BY <1>1 DEF TypeOK
    <2>2. payload[b].scenario \in Scenarios /\ scenario[payload[b].scenario] # None
      BY <1>0, <1>1, <2>1, PayloadFacts DEF ReviewedExists
    <2>3. QED
      BY <1>1, <2>2, ScenariosStay
  <1>2. ASSUME NEW r \in Requests, Preview(r), payload[on[r]].kind # "import"
        PROVE  scenario[payload[on[r]].scenario] # None
    <2>1. payload[on[r]] \in Payloads
      BY <1>0, <1>2, OnBatch DEF Preview, Locked
    <2>2. QED
      BY <1>2, <2>1, PayloadFacts DEF Preview, Valid, ValidOverlay, ValidPatch
  <1>3. ReviewedExists'
    <2> SUFFICES ASSUME NEW b \in Batches, status'[b] = "diff_ready", payload'[b].kind # "import"
                 PROVE  scenario'[payload'[b].scenario] # None
      BY DEF ReviewedExists
    <2>1. \/ status[b] = "diff_ready" /\ payload'[b] = payload[b]
          \/ \E r \in Requests : Preview(r) /\ on[r] = b
      BY DEF Next, Request, Proceed, Load, LoadProceeds, Stage, ValidateBatch, DiffBatch, ApplyBatch, Begin,
           TakeSerialLock, LockTarget, Invalid, Preview, RefuseStale, Check, Apply, Rollback, LoadBegin, LoadRead,
           LoadWrite, LoadCommit, LoadSkip, LoadAbort, vars, batchVars, SetStatus, TypeOK
    <2>2. QED
      BY <1>1, <1>2, <2>1 DEF Preview
  <1>4. LoadedExists'
    <2>1. \A s \in Scenarios : scenario[s] # None => scenario'[s] # None
      BY ScenariosStay
    <2>2. todo \subseteq Scenarios /\ kept \subseteq Scenarios
      BY DEF TypeOK
    <2>3. CASE UNCHANGED <<seen, kept>>
      BY <1>0, <2>1, <2>2, <2>3 DEF LoadedExists, TypeOK
    <2>4. ASSUME NEW s \in Scenarios, LoadRead(s) PROVE LoadedExists'
      BY <1>0, <2>4 DEF LoadRead, LoadedExists
    <2>5. CASE LoadWrite \/ LoadSkip
      BY <1>0, <2>5 DEF LoadWrite, LoadSkip, LoadedExists
    <2>6. CASE LoadEnds
      BY <2>6 DEF LoadEnds, LoadedExists
    <2>7. QED
      BY <2>3, <2>4, <2>5, <2>6 DEF Next, Request, Proceed, Load, LoadProceeds, Stage, ValidateBatch,
           DiffBatch, ApplyBatch, Begin, TakeSerialLock, LockTarget, Invalid, Preview, RefuseStale, Check,
           Apply, Rollback, LoadBegin, LoadCommit, LoadAbort, vars, loadVars
  <1>5. TargetHeld'
    <2> SUFFICES ASSUME NEW r \in Requests, does'[r] = "apply", at'[r] \in {"locking", "checked"},
                        payload'[on'[r]].kind # "import"
                 PROVE  payload'[on'[r]].scenario \in want'[r] \/ holder'[payload'[on'[r]].scenario] = r
      BY DEF TargetHeld
    <2> DEFINE s == payload[on[r]].scenario
    <2>1. ASSUME at[r] # "idle", on'[r] = on[r], does'[r] = does[r]
          PROVE  payload'[on[r]] = payload[on[r]] /\ payload[on[r]] \in Payloads
      <3>1. on[r] \in Batches /\ payload[on[r]] \in Payloads /\ status[on[r]] # "none"
        BY <1>0, <2>1, OnBatch
      <3>2. QED
        BY <3>1 DEF Next, Request, Proceed, Load, LoadProceeds, Stage, ValidateBatch, DiffBatch, ApplyBatch, Begin,
           TakeSerialLock, LockTarget, Invalid, Preview, RefuseStale, Check, Apply, Rollback, LoadBegin, LoadRead,
           LoadWrite, LoadCommit, LoadSkip, LoadAbort, vars, batchVars, TypeOK
    <2>2. CASE TakeSerialLock(r)
      <3>1. payload'[on'[r]] = payload[on[r]] /\ does[r] = "apply" /\ at[r] # "idle"
        BY <2>2 DEF TakeSerialLock, batchVars
      <3>2. on[r] \in Batches /\ status[on[r]] = "diff_ready" /\ payload[on[r]] \in Payloads
        BY <1>0, <3>1, OnBatch DEF Undertaken
      <3>3. s \in Scenarios /\ scenario[s] # None /\ s \in Targets(payload[on[r]])
        BY <1>0, <3>1, <3>2, PayloadFacts DEF ReviewedExists, Targets
      <3>4. s \in want'[r]
        BY <2>2, <3>3 DEF TakeSerialLock, TypeOK
      <3>5. QED
        BY <3>1, <3>4
    <2>3. ASSUME at[r] \in {"locking", "checked"}, on'[r] = on[r], does'[r] = does[r],
                 \A x \in Scenarios : /\ x \in want[r] => x \in want'[r] \/ holder'[x] = r
                                      /\ holder[x] = r => holder'[x] = r
          PROVE  payload'[on'[r]].scenario \in want'[r] \/ holder'[payload'[on'[r]].scenario] = r
      <3>1. payload'[on[r]] = payload[on[r]] /\ payload[on[r]] \in Payloads
        BY <2>1, <2>3
      <3>2. s \in want[r] \/ holder[s] = r
        BY <1>0, <2>3, <3>1 DEF TargetHeld
      <3>3. s \in Scenarios
        BY <3>1, <2>3, PayloadFacts
      <3>4. QED
        BY <2>3, <3>1, <3>2, <3>3
    <2>4. CASE UNCHANGED <<at, on, does, want, holder>>
      BY <2>3, <2>4
    <2>5. ASSUME NEW q \in Requests, q # r \/ ~TakeSerialLock(q), TakeSerialLock(q) \/ Check(q)
          PROVE  payload'[on'[r]].scenario \in want'[r] \/ holder'[payload'[on'[r]].scenario] = r
      <3>1. at[r] \in {"locking", "checked"} /\ on'[r] = on[r] /\ does'[r] = does[r] /\ UNCHANGED holder
        BY <2>5 DEF TakeSerialLock, Check, Locked, TypeOK
      <3>2. want'[r] = want[r]
        BY <2>5 DEF TakeSerialLock, Check, TypeOK
      <3>3. QED
        BY <2>3, <3>1, <3>2
    <2>6. ASSUME NEW q \in Requests, NEW x \in Scenarios, LockTarget(q, x)
          PROVE  payload'[on'[r]].scenario \in want'[r] \/ holder'[payload'[on'[r]].scenario] = r
      <3>1. at[r] \in {"locking", "checked"} /\ on'[r] = on[r] /\ does'[r] = does[r]
        BY <2>6 DEF LockTarget
      <3>2. r # None
        BY WriteAssumption
      <3>3. \A y \in Scenarios : /\ y \in want[r] => y \in want'[r] \/ holder'[y] = r
                                 /\ holder[y] = r => holder'[y] = r
        BY <2>6, <3>2 DEF LockTarget, TypeOK
      <3>4. QED
        BY <2>3, <3>1, <3>3
    <2>7. ASSUME NEW q \in Requests, Release(q)
          PROVE  payload'[on'[r]].scenario \in want'[r] \/ holder'[payload'[on'[r]].scenario] = r
      <3>1. q # r
        BY <1>0, <2>7, Released
      <3>2. QED
        BY <1>0, <2>3, <2>7, <3>1, Released
    <2>8. CASE LoadWrite
      <3>1. r # None /\ UNCHANGED <<at, on, does, want>>
        BY <2>8, WriteAssumption DEF LoadWrite, requestVars
      <3>2. \A y \in Scenarios : holder[y] = r => holder'[y] = r
        BY <2>8, <3>1 DEF LoadWrite, TypeOK
      <3>3. QED
        BY <2>3, <3>1, <3>2
    <2>9. ASSUME LoadEnds, UNCHANGED requestVars
          PROVE  payload'[on'[r]].scenario \in want'[r] \/ holder'[payload'[on'[r]].scenario] = r
      <3>1. r # Loader /\ UNCHANGED <<at, on, does, want>>
        BY <2>9, WriteAssumption DEF requestVars
      <3>2. \A y \in Scenarios : holder[y] = r => holder'[y] = r
        BY <2>9, <3>1 DEF LoadEnds
      <3>3. QED
        BY <2>3, <3>1, <3>2
    <2>10. ASSUME NEW q \in Requests, NEW b \in Batches, DiffBatch(q, b) \/ ApplyBatch(q, b)
           PROVE  payload'[on'[r]].scenario \in want'[r] \/ holder'[payload'[on'[r]].scenario] = r
      <3>1. at[r] \in {"locking", "checked"} /\ on'[r] = on[r] /\ does'[r] = does[r] /\ UNCHANGED <<holder, want>>
        BY <2>10 DEF DiffBatch, ApplyBatch, Begin, TypeOK
      <3>2. QED
        BY <2>3, <3>1
    <2>11. QED
      BY <2>2, <2>4, <2>5, <2>6, <2>7, <2>8, <2>9, <2>10
         DEF Next, Request, Proceed, Load, LoadProceeds, Stage, ValidateBatch, Invalid, Preview, RefuseStale,
             Apply, Rollback, LoadBegin, LoadRead, LoadCommit, LoadSkip, LoadAbort, vars, requestVars
  <1>6. QED
    BY <1>3, <1>4, <1>5

\* The rows an overlay or a patch was checked against do not change before it is written.
LEMMA CheckStep == ASSUME TypeOK, Discipline, [Next]_vars PROVE CheckHolds'
  <1>0. LocksBelong /\ Undertaken /\ ReviewedExists /\ TargetHeld /\ CheckHolds
    BY DEF Discipline
  <1> SUFFICES ASSUME NEW r \in Requests, at'[r] = "checked"
               PROVE  /\ Valid(payload[on[r]])'
                      /\ payload'[on'[r]].kind # "import" => ~Stale(r)'
    BY DEF CheckHolds
  <1> DEFINE p == payload[on[r]]
  <1>1. ASSUME Valid(p), p \in Payloads, p.kind # "import" => ~Stale(r),
               on'[r] = on[r], payload'[on[r]] = p, reviewed'[on[r]] = reviewed[on[r]],
               p.kind # "import" => scenario'[p.scenario] = scenario[p.scenario]
        PROVE  /\ Valid(payload[on[r]])'
               /\ payload'[on'[r]].kind # "import" => ~Stale(r)'
    <2>1. CASE p.kind = "import"
      BY <1>1, <2>1 DEF Valid, ValidImport
    <2>2. CASE p.kind # "import"
      <3>1. Valid(p)'
        BY <1>1, <2>2 DEF Valid, ValidOverlay, ValidPatch, Patched
      <3>2. Found(p)' = Found(p)
        BY <1>1, <2>2 DEF Found, Targets
      <3>3. QED
        BY <1>1, <3>1, <3>2 DEF Stale
    <2>3. QED
      BY <2>1, <2>2
  <1>2. CASE Check(r)
    <2>1. UNCHANGED <<payload, on, scenario, reviewed>> /\ Valid(p) /\ ~Stale(r) /\ p \in Payloads
      BY <1>0, <1>2, OnBatch DEF Check, Locked, batchVars
    <2>2. QED
      BY <1>1, <2>1
  <1>3. ASSUME at[r] = "checked" 
        PROVE  /\ on[r] \in Batches /\ p \in Payloads /\ status[on[r]] = "diff_ready"
               /\ Valid(p) /\ (p.kind # "import" => ~Stale(r))
    BY <1>0, <1>3, OnBatch DEF Undertaken, CheckHolds
  <1>4. ASSUME NEW b \in Batches, Stage(b)
        PROVE  /\ Valid(payload[on[r]])'
               /\ payload'[on'[r]].kind # "import" => ~Stale(r)'
    <2>1. at[r] = "checked" /\ UNCHANGED <<on, reviewed, scenario>>
      BY <1>4 DEF Stage, requestVars
    <2>2. b # on[r]
      BY <1>3, <1>4, <2>1 DEF Stage
    <2>3. UNCHANGED scenario /\ payload'[on[r]] = payload[on[r]]
      BY <1>3, <1>4, <2>1, <2>2 DEF Stage, TypeOK
    <2>4. QED
      BY <1>1, <1>3, <2>1, <2>3
  <1>5. ASSUME at[r] = "checked", UNCHANGED <<payload, reviewed, scenario>>, on'[r] = on[r]
        PROVE  /\ Valid(payload[on[r]])'
               /\ payload'[on'[r]].kind # "import" => ~Stale(r)'
    BY <1>1, <1>3, <1>5
  <1>6. ASSUME NEW q \in Requests, q # r,
               \/ \E b \in Batches : DiffBatch(q, b) \/ ApplyBatch(q, b)
               \/ TakeSerialLock(q) \/ Rollback(q) \/ Check(q)
               \/ \E s \in Scenarios : LockTarget(q, s)
        PROVE  /\ Valid(payload[on[r]])'
               /\ payload'[on'[r]].kind # "import" => ~Stale(r)'
    <2>1. at[r] = "checked" /\ UNCHANGED <<payload, reviewed, scenario>> /\ on'[r] = on[r]
      BY <1>6 DEF DiffBatch, ApplyBatch, Begin, TakeSerialLock, Rollback, Release, Check, LockTarget, TypeOK, batchVars
    <2>2. QED
      BY <1>5, <2>1
  <1>7. ASSUME NEW q \in Requests, Release(q), at[q] \in {"locking", "checked"} PROVE FALSE
    <2>1. q # r /\ at[r] = "checked"
      BY <1>0, <1>7, Released
    <2>2. QED
      BY <1>0, <1>7, <2>1 DEF LocksBelong
  <1>8. CASE LoadCommit
    <2>1. at[r] = "checked" /\ UNCHANGED <<payload, on, reviewed>>
      BY <1>8 DEF LoadCommit, batchVars, requestVars
    <2>2. p.kind # "import" => p.scenario \in Scenarios /\ holder[p.scenario] = r
      BY <1>0, <1>3, <2>1, PayloadFacts DEF TargetHeld, Undertaken
    <2>3. p.kind # "import" => p.scenario \notin wrote
      BY <1>0, <2>2, WriteAssumption DEF LocksBelong
    <2>4. p.kind # "import" => scenario'[p.scenario] = scenario[p.scenario]
      BY <1>8, <2>2, <2>3 DEF LoadCommit
    <2>5. QED
      BY <1>1, <1>3, <2>1, <2>4
  <1>9. CASE UNCHANGED <<at, on, payload, reviewed, scenario>>
    BY <1>5, <1>9
  <1>10. ASSUME NEW q \in Requests,
                \/ \E b \in Batches : DiffBatch(q, b) \/ ApplyBatch(q, b)
                \/ TakeSerialLock(q) \/ Rollback(q)
                \/ \E s \in Scenarios : LockTarget(q, s)
         PROVE  q # r
    <2>1. CASE Rollback(q)
      BY <1>0, <2>1, Released DEF Rollback
    <2>2. CASE \E s \in Scenarios : LockTarget(q, s)
      BY <2>2 DEF LockTarget
    <2>3. QED
      BY <1>10, <2>1, <2>2 DEF DiffBatch, ApplyBatch, Begin, TakeSerialLock, TypeOK
  <1>11. QED
    BY <1>2, <1>4, <1>6, <1>7, <1>8, <1>9, <1>10
       DEF Next, Request, Proceed, Load, LoadProceeds, ValidateBatch, Invalid, Preview, RefuseStale, Locked,
           Apply, LoadBegin, LoadRead, LoadWrite, LoadSkip, LoadAbort, vars, requestVars, batchVars

\* A digest is written together with a document, and no row goes away.
LEMMA RowStep == ASSUME IInv, [Next]_vars PROVE DigestHasRow'
  <1>0. TypeOK /\ LocksBelong /\ Undertaken /\ CheckHolds /\ LoadedExists /\ DigestHasRow
    BY DEF IInv, Discipline
  <1> SUFFICES ASSUME NEW s \in Scenarios, digest'[s] # None PROVE scenario'[s] # None
    BY DEF DigestHasRow
  <1>1. ASSUME NEW r \in Requests, Apply(r), s \in Targets(payload[on[r]]) PROVE scenario'[s] # None
    <2> DEFINE p == payload[on[r]]
    <2>1. p \in Payloads /\ scenario'[s] = Written(p, s) /\ digest'[s] = DigestOf(p, s)
      BY <1>0, <1>1, OnBatch DEF Apply
    <2>2. p.kind = "import" /\ s \in DOMAIN p.docs /\ p.docs[s] \in Documents /\ p.docs[s] \in Doc
      BY <2>1, <1>1, PayloadFacts, WriteAssumption DEF DigestOf, Targets
    <2>3. CASE Unchanged(p, s)
      <3>1. digest[s] # None
        BY <2>2, <2>3, WriteAssumption DEF Unchanged
      <3>2. QED
        BY <1>0, <2>1, <2>2, <2>3, <3>1 DEF Written, DigestHasRow
    <2>4. CASE ~Unchanged(p, s)
      BY <2>1, <2>2, <2>4, WriteAssumption DEF Written
    <2>5. QED
      BY <2>3, <2>4
  <1>2. CASE LoadCommit /\ s \in wrote
    <2>1. scenario'[s] = Loaded(s)
      BY <1>2 DEF LoadCommit
    <2>2. Loaded(s) \in Doc
      BY <1>0, <1>2, LoadedTyped
    <2>3. QED
      BY <2>1, <2>2, WriteAssumption
  <1>3. CASE scenario'[s] = scenario[s] /\ digest'[s] = digest[s]
    BY <1>0, <1>3 DEF DigestHasRow
  <1>4. ASSUME NEW r \in Requests, Apply(r), s \notin Targets(payload[on[r]]) PROVE scenario'[s] # None
    BY <1>3, <1>4 DEF Apply
  <1>5. CASE LoadCommit /\ s \notin wrote
    BY <1>3, <1>5 DEF LoadCommit
  <1>6. QED
    BY <1>1, <1>2, <1>3, <1>4, <1>5
       DEF Next, Request, Proceed, Load, LoadProceeds, Stage, ValidateBatch, DiffBatch, ApplyBatch, Begin,
           TakeSerialLock, LockTarget, Invalid, Preview, RefuseStale, Check, Rollback, LoadBegin, LoadRead,
           LoadWrite, LoadSkip, LoadAbort, vars

\* Nothing is staged, requested or loaded in the beginning.
LEMMA InitHolds == ASSUME Init PROVE IInv
  <1>1. TypeOK
    BY WriteAssumption DEF Init, TypeOK, Digests
  <1>2. LocksBelong /\ Undertaken
    BY WriteAssumption DEF Init, LocksBelong, Undertaken
  <1>3. ReviewedExists /\ TargetHeld /\ CheckHolds /\ LoadedExists
    BY DEF Init, ReviewedExists, TargetHeld, CheckHolds, LoadedExists
  <1>4. DigestHasRow
    BY DEF Init, DigestHasRow
  <1>5. QED
    BY <1>1, <1>2, <1>3, <1>4 DEF IInv, Discipline

\* Every step keeps the invariant.
LEMMA StepHolds == ASSUME IInv, [Next]_vars PROVE IInv'
  BY TypeStep, LocksStep, UndertakenStep, TargetsStep, CheckStep, RowStep DEF IInv, Discipline

LEMMA Invariance == Spec => []IInv
  BY InitHolds, StepHolds, PTL DEF Spec

-----------------------------------------------------------------------------
(* Locks, and what a batch may do once.                                    *)

\* The type invariant.
THEOREM TypeCorrect == Spec => []TypeOK
  <1>1. IInv => TypeOK
    BY DEF IInv
  <1>2. QED
    BY <1>1, Invariance, PTL

\* At most one request is past the advisory lock (_acquire_write_serialization_lock),
\* at most one works on a batch, and no lock outlives its transaction.
THEOREM LockDiscipline == Spec => []LocksBelong
  <1>1. IInv => LocksBelong
    BY DEF IInv, Discipline
  <1>2. QED
    BY <1>1, Invariance, PTL

\* Only the request that has the batch, in a status short of applied, changes it.
LEMMA StatusStep ==
    ASSUME IInv, [Next]_vars, NEW b \in Batches, status'[b] # status[b] \/ reviewed'[b] # reviewed[b]
    PROVE  /\ status[b] # "applied"
           /\ status'[b] = "applied" => \E r \in Requests : Apply(r) /\ on[r] = b
  <1>0. TypeOK /\ LocksBelong /\ Undertaken
    BY DEF IInv, Discipline
  <1>1. ASSUME NEW c \in Batches, Stage(c) \/ ValidateBatch(c)
        PROVE  status[b] # "applied" /\ status'[b] # "applied"
    BY <1>0, <1>1 DEF Stage, ValidateBatch, TypeOK
  <1>2. ASSUME NEW r \in Requests, at[r] # "idle", NEW st, SetStatus(r, st),
               UNCHANGED reviewed \/ \E x : reviewed' = [reviewed EXCEPT ![on[r]] = x]
        PROVE  on[r] = b /\ status[b] # "applied" /\ status'[b] = st
    BY <1>0, <1>2, OnBatch DEF SetStatus, TypeOK
  <1>3. ASSUME NEW r \in Requests, NEW what \in {"diff", "apply"}, Invalid(r, what)
        PROVE  status[b] # "applied" /\ status'[b] # "applied"
    BY <1>2, <1>3 DEF Invalid, Locked
  <1>4. ASSUME NEW r \in Requests, Preview(r) \/ RefuseStale(r)
        PROVE  status[b] # "applied" /\ status'[b] # "applied"
    BY <1>2, <1>4 DEF Preview, RefuseStale, Locked
  <1>5. ASSUME NEW r \in Requests, Apply(r) PROVE status[b] # "applied" /\ on[r] = b
    BY <1>2, <1>5 DEF Apply
  <1>6. CASE UNCHANGED <<status, reviewed>>
    BY <1>6
  <1>7. QED
    BY <1>1, <1>3, <1>4, <1>5, <1>6
       DEF Next, Request, Proceed, Load, LoadProceeds, DiffBatch, ApplyBatch, Begin, TakeSerialLock, LockTarget,
           Check, Rollback, LoadBegin, LoadRead, LoadWrite, LoadCommit, LoadSkip, LoadAbort, vars, batchVars

\* Applied is final: _ensure_batch_status under the row lock of the batch lets no
\* later request touch it.
THEOREM AppliedFinal == Spec => AppliedIsFinal
  <1>1. ASSUME IInv, [Next]_vars
        PROVE  \A b \in Batches : status[b] = "applied" => status'[b] = "applied" /\ reviewed'[b] = reviewed[b]
    BY <1>1, StatusStep
  <1>2. QED
    BY <1>1, Invariance, PTL DEF Spec, AppliedIsFinal

\* An overlay or a patch is applied to the rows its review showed: the target stays
\* locked from the comparison of the revisions (service.py:264-290) to the commit.
THEOREM ReviewedIsApplied == Spec => AppliedAsReviewed
  <1> DEFINE Same(b) == Applies(b) /\ payload[b].kind # "import"
                          => Revision(payload[b], reviewed[b]) = Revision(payload[b], Found(payload[b]))
  <1>1. ASSUME IInv, [Next]_vars PROVE \A b \in Batches : Same(b)
    <2> SUFFICES ASSUME NEW b \in Batches, Applies(b), payload[b].kind # "import"
                 PROVE  Revision(payload[b], reviewed[b]) = Revision(payload[b], Found(payload[b]))
      OBVIOUS
    <2>1. PICK r \in Requests : Apply(r) /\ on[r] = b
      BY <1>1, StatusStep DEF Applies
    <2>2. ~Stale(r)
      BY <1>1, <2>1 DEF Apply, IInv, Discipline, CheckHolds
    <2>3. QED
      BY <2>1, <2>2 DEF Stale
  <1>2. QED
    BY <1>1, Invariance, PTL DEF Spec, AppliedAsReviewed

-----------------------------------------------------------------------------
(* Contents.  No state is wrong before an overtaken load, so there is      *)
(* nothing to carry along: each step keeps what fits and what is told.     *)

\* What a valid write leaves fits if the row did, and is what the digest says if it was.
LEMMA WrittenFits ==
    ASSUME TypeOK, DigestHasRow, NEW p \in Payloads, Valid(p), NEW s \in Targets(p)
    PROVE  /\ VariantsFit(s) => RefsFit(Written(p, s))
           /\ Tells(s) /\ DigestOf(p, s) # None => Written(p, s) = DigestOf(p, s)[2]
  <1> DEFINE d == scenario[s]
  <1>0. s \in Scenarios
    BY PayloadFacts
  <1>1. CASE p.kind = "overlay"
    <2>1. s = p.scenario /\ p.variant \in Variants /\ p.overlay \in Overlay
      BY <1>1, PayloadFacts DEF Targets
    <2>2. d # None /\ p.overlay.refs \subseteq d.base
      BY <1>1, <2>1 DEF Valid, ValidOverlay
    <2>3. d \in Doc /\ (VariantsFit(s) => RefsFit(d))
      BY <1>0, <2>2 DEF TypeOK, VariantsFit
    <2> DEFINE w == Overlaid(d, p)
    <2>4. w.base = d.base /\ w.variants = [d.variants EXCEPT ![p.variant] = p.overlay]
      BY <2>1, <2>3, NewVariant DEF Overlaid
    <2>5. d.variants \in [Variants -> Overlay \cup {None}] /\ p.overlay # None
      BY <2>1, <2>3, WriteAssumption DEF Doc
    <2>6. /\ w.variants[p.variant] = p.overlay
          /\ \A v \in Variants \ {p.variant} : w.variants[v] = d.variants[v]
      BY <2>1, <2>4, <2>5
    <2> HIDE DEF w, d
    <2>7. Present(w) = Present(d) \cup {p.variant}
      BY <2>1, <2>5, <2>6 DEF Present
    <2>8. VariantsFit(s) => RefsFit(w)
      BY <2>2, <2>3, <2>4, <2>6, <2>7 DEF RefsFit, Present
    <2>9. QED
      BY <1>1, <2>8 DEF Written, DigestOf, w, d
  <1>2. CASE p.kind = "patch"
    <2>1. s = p.scenario
      BY <1>2 DEF Targets
    <2>2. d # None /\ \A v \in Present(d) : d.variants[v].refs \subseteq Patched(d.base, p)
      BY <1>2, <2>1 DEF Valid, ValidPatch
    <2>3. d \in Doc
      BY <1>0, <2>2 DEF TypeOK
    <2>4. Patched(d.base, p) \in SUBSET Nodes
      BY <1>2, <2>3, PayloadFacts DEF Patched, Doc
    <2> DEFINE w == [d EXCEPT !.base = Patched(@, p)]
    <2>5. w.base = Patched(d.base, p) /\ w.variants = d.variants
      BY <2>3, <2>4, NewBase
    <2> HIDE DEF w, d
    <2>6. RefsFit(w)
      BY <2>2, <2>5 DEF RefsFit, Present
    <2>7. QED
      BY <1>2, <2>6 DEF Written, DigestOf, w, d
  <1>3. CASE p.kind = "import"
    <2>1. s \in DOMAIN p.docs /\ p.docs[s] \in Documents
      BY <1>3, PayloadFacts DEF Targets
    <2>2. RefsFit(p.docs[s])
      BY <1>3, <2>1 DEF Valid, ValidImport
    <2>3. Unchanged(p, s) /\ Tells(s) => d = p.docs[s]
      <3>1. <<"import", p.docs[s]>> # None
        BY <2>1, WriteAssumption
      <3>2. QED
        BY <1>0, <3>1 DEF Unchanged, Tells
    <2>4. Unchanged(p, s) /\ VariantsFit(s) => RefsFit(d)
      <3>1. <<"import", p.docs[s]>> # None
        BY <2>1, WriteAssumption
      <3>2. QED
        BY <1>0, <3>1 DEF Unchanged, VariantsFit, DigestHasRow
    <2>5. Written(p, s) = IF Unchanged(p, s) THEN d ELSE p.docs[s]
      BY <1>3 DEF Written
    <2>6. QED
      BY <1>3, <2>2, <2>3, <2>4, <2>5 DEF DigestOf
  <1>4. QED
    BY <1>1, <1>2, <1>3, PayloadFacts

\* A load that nobody overtook writes its file.
LEMMA LoadedIsFiled ==
    ASSUME TypeOK, NEW s \in wrote, s \in kept => scenario[s] # None /\ scenario[s].base = files[s].base
    PROVE  Loaded(s) = files[s] /\ files[s] \in AuthoredFiles
  <1>1. s \in Scenarios /\ files[s] \in AuthoredFiles /\ files[s] \in Doc
    BY WriteAssumption DEF TypeOK
  <1>2. CASE s \in kept
    BY <1>1, <1>2, SameBase DEF Loaded
  <1>3. CASE s \notin kept
    BY <1>1, <1>3 DEF Loaded
  <1>4. QED
    BY <1>1, <1>2, <1>3

\* The rows change only when a batch is applied or a load commits.
LEMMA ContentsStep ==
    ASSUME IInv, [Next]_vars, NEW s \in Scenarios, ~OvertakenLoad(s)
    PROVE  /\ VariantsFit(s) => VariantsFit(s)'
           /\ Tells(s) => Tells(s)'
  <1>0. TypeOK /\ CheckHolds /\ LoadedExists /\ DigestHasRow
    BY DEF IInv, Discipline
  <1>1. ASSUME scenario'[s] = scenario[s], digest'[s] = digest[s]
        PROVE  (VariantsFit(s) => VariantsFit(s)') /\ (Tells(s) => Tells(s)')
    BY <1>1 DEF VariantsFit, Tells, RefsFit, Present
  <1>2. ASSUME NEW r \in Requests, Apply(r) PROVE (VariantsFit(s) => VariantsFit(s)') /\ (Tells(s) => Tells(s)')
    <2> DEFINE p == payload[on[r]]
    <2>1. at[r] = "checked" /\ p \in Payloads /\ Valid(p)
      BY <1>2, OnBatch DEF Apply, IInv, Discipline, CheckHolds
    <2>2. CASE s \in Targets(p)
      <3>1. scenario'[s] = Written(p, s) /\ digest'[s] = DigestOf(p, s)
        BY <1>2, <2>2 DEF Apply
      <3>2. /\ VariantsFit(s) => RefsFit(scenario'[s])
            /\ Tells(s) /\ digest'[s] # None => scenario'[s] = digest'[s][2]
        BY <1>0, <2>1, <2>2, <3>1, WrittenFits
      <3>3. QED
        BY <3>2 DEF VariantsFit, Tells, RefsFit, Present
    <2>3. CASE s \notin Targets(p)
      BY <1>1, <1>2, <2>3 DEF Apply
    <2>4. QED
      BY <2>2, <2>3
  <1>3. CASE LoadCommit
    <2>1. CASE s \in wrote
      <3>1. digest'[s] = <<"file", files[s]>> /\ scenario'[s] = Loaded(s)
        BY <1>3, <2>1 DEF LoadCommit
      <3>2. s \in kept => scenario[s] # None /\ scenario[s].base = files[s].base
        BY <1>0, <3>1 DEF OvertakenLoad, LoadedExists
      <3>3. scenario'[s] = files[s] /\ files[s] \in AuthoredFiles
        BY <1>0, <2>1, <3>1, <3>2, LoadedIsFiled
      <3>4. RefsFit(scenario'[s])
        BY <3>3, WriteAssumption
      <3>5. QED
        BY <3>1, <3>3, <3>4 DEF VariantsFit, Tells, RefsFit, Present
    <2>2. CASE s \notin wrote
      BY <1>1, <1>3, <2>2 DEF LoadCommit
    <2>3. QED
      BY <2>1, <2>2
  <1>4. CASE UNCHANGED <<scenario, digest>>
    BY <1>1, <1>4
  <1>5. QED
    BY <1>2, <1>3, <1>4
       DEF Next, Request, Proceed, Load, LoadProceeds, Stage, ValidateBatch, DiffBatch, ApplyBatch, Begin,
           TakeSerialLock, LockTarget, Invalid, Preview, RefuseStale, Check, Rollback, LoadBegin, LoadRead,
           LoadWrite, LoadSkip, LoadAbort, vars

\* Whatever batches and loads are interleaved, every variant goes on referring to
\* nodes its pipeline has, for the validation is run again under the locks
\* (_validate_in_place in apply_batch); only the commit of a load that had read the
\* row before an application changed it breaks that (definition.py:33).
THEOREM OverlaysAlwaysFit == Spec => OverlaysStayFit
  <1>1. ASSUME IInv, [Next]_vars PROVE \A s \in Scenarios : VariantsFit(s) /\ ~VariantsFit(s)' => OvertakenLoad(s)
    BY <1>1, ContentsStep
  <1>2. QED
    BY <1>1, Invariance, PTL DEF Spec, OverlaysStayFit

\* The digest of a row stays that of what the row holds, so the early return of
\* upsert_usecase loses nothing, with the same exception.
THEOREM DigestsTrue == Spec => DigestsStayTrue
  <1>1. ASSUME IInv, [Next]_vars PROVE \A s \in Scenarios : Tells(s) /\ ~Tells(s)' => OvertakenLoad(s)
    BY <1>1, ContentsStep
  <1>2. QED
    BY <1>1, Invariance, PTL DEF Spec, DigestsStayTrue
=============================================================================
