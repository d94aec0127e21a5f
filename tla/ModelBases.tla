----------------------------- MODULE ModelBases -----------------------------
(***************************************************************************)
(* Model bases and the prediction register of one project:                 *)
(* api/services/model_basis.py with promote of                             *)
(* api/services/arch_exploration.py and recompute_prediction.              *)
(*                                                                         *)
(* A basis freezes the model inputs of the project; at most one is active. *)
(* A variant has a history of predictions whose last one is current.  A    *)
(* registration replaces the current prediction of its variants, either    *)
(* directly (promote) or as the last step of promoting a draft basis, which*)
(* registers what its trial computed.  A registration locks one variant    *)
(* row after another and commits once; what a request does while it holds  *)
(* the project row from its first statement to its commit is one action,   *)
(* except for promote_basis, which waits for variant rows in between.      *)
(*                                                                         *)
(* Variants are numbered in the canonical order of their keys, bases by    *)
(* seq, predictions in the order of their registration.                    *)
(***************************************************************************)
EXTENDS Naturals, FiniteSets, FiniteSetsExt

CONSTANTS Sessions,   \* each handles one request at a time
          NoSession,
          NVariants,  \* explored variants of the project
          Contents,   \* config profile, power params, DVFS table and engine of a basis
          MaxBases, MaxPreds, MaxTrials, MaxInputs,  \* bounds of the model
          Promotions  \* may promote_basis be called?

ASSUME BasesAssumption ==
    /\ NoSession \notin Sessions /\ IsFiniteSet(Sessions)
    /\ NVariants \in Nat \ {0} /\ Contents # {}
    /\ MaxBases \in Nat /\ MaxPreds \in Nat /\ MaxTrials \in Nat /\ MaxInputs \in Nat
    /\ Promotions \in BOOLEAN

VariantKeys == 1..NVariants
Bases == 1..MaxBases
Preds == 1..MaxPreds

VARIABLES inputs,   \* revision of the rows the bases name: every edit makes a new one
          basis,    \* the model_bases table
          pred,     \* the predictions table
          project,  \* holder of the lock of the project row
          lock,     \* holders of the locks of the variant rows
          req       \* the requests in flight

basesVars == <<inputs, basis, pred, project, lock, req>>

\* A trial item is stored under the prediction it is about; a trial has at
\* most one per variant.  run is the trial during which its run was
\* calculated, under the inputs found then.
Item == [pred : Preds \cup {0}, status : {"out", "pending", "ok", "kept"},
         run : 0..MaxTrials, under : 0..MaxInputs]
NoItem == [pred |-> 0, status |-> "out", run |-> 0, under |-> 0]

Basis == [status : {"absent", "draft", "active", "retired"}, content : Contents, stamp : 0..MaxInputs,
          trial : 0..MaxTrials, items : [VariantKeys -> Item]]

\* basis is the basis whose promotion registered the row (0: none did), under
\* the inputs its run was calculated with.
Prediction == [variant : VariantKeys, status : {"absent", "current", "superseded"},
               supersedes : Preds \cup {0}, basis : Bases \cup {0}, under : 0..MaxInputs]

\* todo: variants still to lock; want: the row a statement waits for; seen:
\* the current predictions the request goes on with (0: none); reviewed: those
\* its caller saw, when it said so; staged: variants of the items to register.
Session == [pc : {"idle", "trying", "tried", "choosing", "locking", "locked", "read"},
            basis : Bases \cup {0}, trial : 0..MaxTrials, todo : SUBSET VariantKeys, want : VariantKeys \cup {0},
            guarded : BOOLEAN, reviewed : [VariantKeys -> Preds \cup {0}], seen : [VariantKeys -> Preds \cup {0}],
            staged : SUBSET VariantKeys, item : Item]
Fresh == [pc |-> "idle", basis |-> 0, trial |-> 0, todo |-> {}, want |-> 0, guarded |-> FALSE,
          reviewed |-> [v \in VariantKeys |-> 0], seen |-> [v \in VariantKeys |-> 0], staged |-> {}, item |-> NoItem]

BasesTypeOK == /\ inputs \in 0..MaxInputs
               /\ basis \in [Bases -> Basis]
               /\ pred \in [Preds -> Prediction]
               /\ project \in Sessions \cup {NoSession}
               /\ lock \in [VariantKeys -> Sessions \cup {NoSession}]
               /\ req \in [Sessions -> Session]

BasesInit == /\ inputs = 0
             /\ basis = [b \in Bases |-> [status |-> "absent", content |-> CHOOSE c \in Contents : TRUE, stamp |-> 0,
                                          trial |-> 0, items |-> [v \in VariantKeys |-> NoItem]]]
             /\ pred = [p \in Preds |-> [variant |-> 1, status |-> "absent", supersedes |-> 0, basis |-> 0, under |-> 0]]
             /\ project = NoSession
             /\ lock = [v \in VariantKeys |-> NoSession]
             /\ req = [r \in Sessions |-> Fresh]

-----------------------------------------------------------------------------
(* The rows a query finds.                                                 *)
(* Operators whose names begin with Faulty are plausible mistakes in the   *)
(* definition they precede; nothing here uses them (README, "Mutants").    *)

CurrentRows(v) == {p \in Preds : pred[p].variant = v /\ pred[p].status = "current"}
Current(v) == IF CurrentRows(v) = {} THEN 0 ELSE CHOOSE p \in CurrentRows(v) : TRUE

Active == {b \in Bases : basis[b].status = "active"}
Live == {b \in Bases : basis[b].status \in {"draft", "active"}}
Held(r) == {v \in VariantKeys : lock[v] = r}

FaultyInputsUnchanged(b) == basis[b].stamp <= inputs
\* _assert_inputs: what the basis froze is what the rows say today.
InputsUnchanged(b) == basis[b].stamp = inputs

FaultyReleasedPartly(r) == [v \in VariantKeys |-> IF lock[v] = r /\ req[r].pc = "read" THEN NoSession ELSE lock[v]]
Released(r) == [v \in VariantKeys |-> IF lock[v] = r THEN NoSession ELSE lock[v]]

\* The transaction is over and the session is free for the next request.
Ended(r) == /\ req' = [req EXCEPT ![r] = Fresh]
            /\ lock' = Released(r)
            /\ project' = IF project = r THEN NoSession ELSE project

\* A profile, the power params or the DVFS table is edited, or the engine is
\* replaced.  The stamp includes their contents, so it changes; an edit that
\* brings back earlier contents, and with them an earlier stamp, is left out.
EditInputs == /\ inputs < MaxInputs
              /\ inputs' = inputs + 1
              /\ UNCHANGED <<basis, pred, project, lock, req>>

-----------------------------------------------------------------------------
(* Requests that hold the project row for a single transaction.            *)

\* create_basis.  An unchanged live basis with the same content is returned
\* instead of a new one.
SameContent(c) == {b \in Live : basis[b].content = c /\ basis[b].stamp = inputs}

CreateBasis(c) ==
    /\ project = NoSession
    /\ SameContent(c) = {}
    /\ \E b \in Bases :
          /\ \A a \in Bases : (basis[a].status = "absent") <=> (a >= b)
          /\ basis' = [basis EXCEPT ![b] = [@ EXCEPT !.status = "draft", !.content = c, !.stamp = inputs]]
    /\ UNCHANGED <<inputs, pred, project, lock, req>>

\* The rows after b became the active basis and its predecessor was retired.
FaultyActivated(b) == [basis EXCEPT ![b].status = "active"]
Activated(b) == [a \in Bases |->
    IF a = b THEN [basis[a] EXCEPT !.status = "active"]
    ELSE IF basis[a].status = "active" THEN [basis[a] EXCEPT !.status = "retired"] ELSE basis[a]]

MayActivate(b) == basis[b].status \in {"draft", "active"}

ActivateBasis(b) ==
    /\ project = NoSession
    /\ MayActivate(b)
    /\ InputsUnchanged(b)
    /\ basis' = Activated(b)
    /\ UNCHANGED <<inputs, pred, project, lock, req>>

MayRetire(b) == basis[b].status \in {"draft", "retired"}

RetireBasis(b) ==
    /\ project = NoSession
    /\ MayRetire(b)
    /\ basis' = [basis EXCEPT ![b].status = "retired"]
    /\ UNCHANGED <<inputs, pred, project, lock, req>>

\* start_trial replaces the whole trial by a snapshot of the current rows.
StartTrial(b) ==
    /\ project = NoSession
    /\ basis[b].status = "draft"
    /\ InputsUnchanged(b)
    /\ basis[b].trial < MaxTrials
    /\ basis' = [basis EXCEPT ![b].trial = @ + 1,
           ![b].items = [v \in VariantKeys |-> IF Current(v) = 0 THEN NoItem
                                            ELSE [NoItem EXCEPT !.pred = Current(v), !.status = "pending"]]]
    /\ UNCHANGED <<inputs, pred, project, lock, req>>

-----------------------------------------------------------------------------
(* run_trial_item: read without a lock, calculate, store under the lock.   *)

BeginTrialItem(r, b, v) ==
    /\ req[r].pc = "idle"
    /\ basis[b].status = "draft"
    /\ InputsUnchanged(b)
    /\ basis[b].items[v].pred # 0
    /\ req' = [req EXCEPT ![r] = [@ EXCEPT !.pc = "trying", !.basis = b, !.trial = basis[b].trial,
                                           !.want = v, !.item = basis[b].items[v]]]
    /\ UNCHANGED <<inputs, basis, pred, project, lock>>

\* recompute_prediction under the basis, without registration.  kept stands for
\* an error, as when the prediction is no longer current, and for a skip, as
\* when no case is eligible: neither is promoted.
Results(p) == IF pred[p].status = "current" THEN {"ok", "kept"} ELSE {"kept"}

CalculateItem(r) ==
    /\ req[r].pc = "trying"
    /\ \E result \in Results(req[r].item.pred) :
          req' = [req EXCEPT ![r].pc = "tried",
                             ![r].item = [@ EXCEPT !.status = result, !.run = req[r].trial,
                                          !.under = IF result = "ok" THEN inputs ELSE 0]]
    /\ UNCHANGED <<inputs, basis, pred, project, lock>>

SameTrial(r) == basis[req[r].basis].trial = req[r].trial

StoreTrialItem(r) ==
    /\ req[r].pc = "tried"
    /\ project = NoSession
    /\ IF basis[req[r].basis].status = "draft" /\ SameTrial(r)
          THEN /\ basis' = [basis EXCEPT ![req[r].basis].items[req[r].want] = req[r].item]
          ELSE UNCHANGED basis
    /\ Ended(r)
    /\ UNCHANGED <<inputs, pred>>

-----------------------------------------------------------------------------
(* promote, called by a registration and by promote_basis.                 *)

Promoting(r) == req[r].basis # 0
FaultyVariantFree(r, v) == lock[v] \in Sessions \cup {NoSession}
VariantFree(r, v) == lock[v] \in {NoSession, r}
AsTried(r, v) == Current(v) = basis[req[r].basis].items[v].pred
NextInOrder(todo) == IF todo = {} THEN 0 ELSE Min(todo)

\* One statement locks the rows of a registration in canonical order.
Register(r, vs, guarded) ==
    /\ req[r].pc = "idle"
    /\ vs # {}
    /\ req' = [req EXCEPT ![r] = [@ EXCEPT !.pc = "locking", !.todo = vs, !.want = NextInOrder(vs), !.guarded = guarded,
                                           !.reviewed = [v \in VariantKeys |-> IF v \in vs THEN Current(v) ELSE 0]]]
    /\ UNCHANGED <<inputs, basis, pred, project, lock>>

\* The row lock is granted.  A registration goes on to its next row; an item
\* of a promotion is compared with the current prediction at once, and is kept
\* out when another registration came after its trial.
LockVariant(r) ==
    LET v == req[r].want
        todo == req[r].todo \ {v}
    IN  /\ req[r].pc = "locking"
        /\ VariantFree(r, v)
        /\ lock' = [lock EXCEPT ![v] = r]
        /\ req' = [req EXCEPT ![r] =
              IF Promoting(r)
              THEN [@ EXCEPT !.pc = "choosing", !.todo = todo, !.want = 0, !.seen[v] = Current(v),
                             !.staged = IF AsTried(r, v) THEN req[r].staged \cup {v} ELSE req[r].staged]
              ELSE [@ EXCEPT !.pc = IF todo = {} THEN "locked" ELSE "locking",
                             !.todo = todo, !.want = NextInOrder(todo)]]
        /\ UNCHANGED <<inputs, basis, pred, project>>

\* With every row locked the current predictions are read and, when the caller
\* said which ones it reviewed, compared with those.
FaultyChanged(r, seen) == req[r].guarded /\ \E v \in VariantKeys : req[r].reviewed[v] # 0 /\ seen[v] # req[r].reviewed[v]
Changed(r, seen) == req[r].guarded /\ seen # req[r].reviewed

ReadCurrent(r) ==
    LET seen == [v \in VariantKeys |-> IF v \in Held(r) THEN Current(v) ELSE 0]
    IN  /\ req[r].pc = "locked"
        /\ IF Changed(r, seen)
              THEN Ended(r)
              ELSE req' = [req EXCEPT ![r].pc = "read", ![r].seen = seen] /\ UNCHANGED <<project, lock>>
        /\ UNCHANGED <<inputs, basis, pred>>

\* The predictions table after the variants vs got new rows: the rows the
\* request saw are superseded first.
Rank(vs, v) == Cardinality({u \in vs : u <= v})
Registered(r, vs, origin) ==
    LET n == Cardinality({p \in Preds : pred[p].status # "absent"})
        id(v) == n + Rank(vs, v)
    IN  [p \in Preds |->
          IF \E v \in vs : p = id(v)
          THEN LET v == CHOOSE v \in vs : p = id(v)
               IN  [variant |-> v, status |-> "current", supersedes |-> req[r].seen[v],
                    basis |-> req[r].basis, under |-> origin[v]]
          ELSE IF \E v \in vs : p = req[r].seen[v] THEN [pred[p] EXCEPT !.status = "superseded"] ELSE pred[p]]

Room(vs) == Cardinality({p \in Preds : pred[p].status # "absent"}) + Cardinality(vs) <= MaxPreds

\* Variants without an eligible case are skipped.
CommitRegistration(r) ==
    /\ req[r].pc = "read"
    /\ \E vs \in SUBSET Held(r) :
          /\ Room(vs)
          /\ pred' = Registered(r, vs, [v \in vs |-> 0])
    /\ Ended(r)
    /\ UNCHANGED <<inputs, basis>>

\* A request is refused or loses its connection: its transaction is undone.
Abort(r) == /\ req[r].pc # "idle"
               /\ Ended(r)
               /\ UNCHANGED <<inputs, basis, pred>>

-----------------------------------------------------------------------------
(* promote_basis: every successful item and the activation, in one          *)
(* transaction that holds the project row.                                  *)

Successful(b) == {v \in VariantKeys : basis[b].items[v].status = "ok"}

BeginPromotion(r, b) ==
    /\ Promotions
    /\ req[r].pc = "idle"
    /\ project = NoSession
    /\ basis[b].status = "draft"
    /\ InputsUnchanged(b)
    /\ Successful(b) # {}
    /\ project' = r
    /\ req' = [req EXCEPT ![r] = [@ EXCEPT !.pc = "choosing", !.basis = b, !.todo = Successful(b)]]
    /\ UNCHANGED <<inputs, basis, pred, lock>>

\* The items are stored under prediction ids, which are random: their order
\* says nothing about the order of the variants.
NextItem(r) ==
    /\ req[r].pc = "choosing"
    /\ \E v \in req[r].todo : req' = [req EXCEPT ![r] = [@ EXCEPT !.pc = "locking", !.want = v]]
    /\ UNCHANGED <<inputs, basis, pred, project, lock>>

\* activate_basis checks the inputs again before everything is committed.
FinishPromotion(r) ==
    LET b == req[r].basis
    IN  /\ req[r].pc = "choosing"
        /\ req[r].todo = {}
        /\ IF InputsUnchanged(b) /\ Room(req[r].staged)
              THEN /\ pred' = Registered(r, req[r].staged, [v \in req[r].staged |-> basis[b].items[v].under])
                   /\ basis' = Activated(b)
              ELSE UNCHANGED <<basis, pred>>
        /\ Ended(r)
        /\ UNCHANGED inputs

-----------------------------------------------------------------------------
(* PostgreSQL ends one of the requests that wait for one another.          *)

WaitsFor(r, s) == req[r].pc = "locking" /\ r # s /\ lock[req[r].want] = s
InDeadlock == {r \in Sessions : \E rs \in SUBSET Sessions :
                  r \in rs /\ \A s \in rs : \E t \in rs : WaitsFor(s, t)}
EndDeadlock(r) == r \in InDeadlock /\ Abort(r)

LockStep(r) == StoreTrialItem(r) \/ LockVariant(r)
RequestStep(r) == \/ CalculateItem(r) \/ ReadCurrent(r) \/ CommitRegistration(r)
                  \/ NextItem(r) \/ FinishPromotion(r)

BasesNext == \/ EditInputs
             \/ \E c \in Contents : CreateBasis(c)
             \/ \E b \in Bases : ActivateBasis(b) \/ RetireBasis(b) \/ StartTrial(b)
             \/ \E r \in Sessions :
                   \/ \E b \in Bases, v \in VariantKeys : BeginTrialItem(r, b, v)
                   \/ \E b \in Bases : BeginPromotion(r, b)
                   \/ \E vs \in SUBSET VariantKeys, g \in BOOLEAN : Register(r, vs, g)
                   \/ LockStep(r) \/ RequestStep(r)
                   \/ Abort(r)
                   \/ EndDeadlock(r)

BasesSpec == BasesInit /\ [][BasesNext]_basesVars

\* A request in flight goes on: its thread runs, its database answers, who
\* waits for a row gets it in turn (PostgreSQL queues the waiters), and the
\* deadlock detector ends a circle of waiting requests.
BasesFairness == \A r \in Sessions : /\ WF_basesVars(RequestStep(r)) /\ SF_basesVars(LockStep(r))
                                     /\ WF_basesVars(EndDeadlock(r))
BasesFairSpec == BasesSpec /\ BasesFairness

-----------------------------------------------------------------------------
(* Properties                                                              *)

\* The predictions of a variant form one chain: every superseded row was
\* replaced by exactly one other row of its variant and only the last row is
\* current, whatever registrations and promotions overlap (promote; the unique
\* index uq_prediction_current never has to refuse a commit).
HistoryIsAChain ==
    /\ \A v \in VariantKeys : Cardinality(CurrentRows(v)) <= 1
    /\ \A p \in Preds :
          Cardinality({q \in Preds : pred[q].supersedes = p /\ pred[q].variant = pred[p].variant})
             = IF pred[p].status = "superseded" THEN 1 ELSE 0

\* What a request compared with its review, or with its trial, is still the
\* current prediction when it commits: nobody registers between the comparison
\* and the commit (promote under the locks of the variant rows).
ReviewStands ==
    \A r \in Sessions :
        /\ req[r].pc = "read" => \A v \in Held(r) : /\ req[r].seen[v] = Current(v)
                                                    /\ req[r].guarded => req[r].reviewed[v] = Current(v)
        /\ req[r].pc \in {"choosing", "locking"} =>
              \A v \in req[r].staged : Current(v) = basis[req[r].basis].items[v].pred

\* A number registered by promoting a basis was calculated under the very
\* inputs the basis froze, replaced the prediction it was tried for, and its
\* basis did become active (promote_basis, run_trial_item, _assert_inputs).
PromotedAsTried ==
    \A p \in Preds : pred[p].basis # 0 =>
        LET b == basis[pred[p].basis]
        IN  /\ pred[p].under = b.stamp
            /\ pred[p].supersedes = b.items[pred[p].variant].pred
            /\ b.status \in {"active", "retired"}

\* A result calculated for an earlier trial never enters the trial that
\* replaced it (the check of trial_id in run_trial_item).
TrialsAreNotMixed ==
    \A b \in Bases, v \in VariantKeys :
        basis[b].items[v].run # 0 => basis[b].items[v].run = basis[b].trial

TrialsHold == PromotedAsTried /\ TrialsAreNotMixed

\* Overlapping activations and promotions leave one active basis
\* (activate_basis under the project row lock), and two bases that can still be
\* used never have the same content and inputs: concurrent creations converge on
\* one row and nothing revives a retired twin.
OneActiveBasis ==
    /\ Cardinality(Active) <= 1
    /\ \A a, b \in Live : a # b => basis[a].content # basis[b].content \/ basis[a].stamp # basis[b].stamp

\* Every request ends, also when promotions and registrations wait for one
\* another's rows.
SessionsEnd == \A r \in Sessions : req[r].pc # "idle" ~> req[r].pc = "idle"

\* promote: "Acquire all locks in canonical order to avoid deadlocks between
\* overlapping requests".
NoDeadlock == InDeadlock = {}
=============================================================================
