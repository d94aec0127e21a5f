-------------------------- MODULE ModelBases_proofs --------------------------
(***************************************************************************)
(* Proofs about ModelBases for every set of requests, every number of      *)
(* variants, and every bound on bases, predictions, trials and edits.      *)
(***************************************************************************)
EXTENDS ModelBases, FiniteSetTheorems, TLAPS

-----------------------------------------------------------------------------
(* The inductive invariant.  The rows of the predictions table are those up *)
(* to some number; together with Chained this is HistoryIsAChain without    *)
(* cardinalities.                                                           *)

Used == {p \in Preds : pred[p].status # "absent"}
Numbered == \E n \in 0..MaxPreds : Used = 1..n

AtMostOneCurrent ==
    \A p, q \in Preds :
        pred[p].status = "current" /\ pred[q].status = "current" /\ pred[p].variant = pred[q].variant => p = q
AbsentIsBlank == \A p \in Preds : pred[p].status = "absent" => pred[p].supersedes = 0 /\ pred[p].basis = 0
LinksGoBack ==
    \A q \in Preds : pred[q].supersedes # 0 =>
        LET p == pred[q].supersedes IN pred[p].status = "superseded" /\ pred[p].variant = pred[q].variant
LinksDiffer ==
    \A q, u \in Preds : pred[q].supersedes # 0 /\ pred[q].supersedes = pred[u].supersedes => q = u
SupersededAreLinked ==
    \A p \in Preds : pred[p].status = "superseded" => \E q \in Preds : pred[q].supersedes = p

Chained == AtMostOneCurrent /\ AbsentIsBlank /\ LinksGoBack /\ LinksDiffer /\ SupersededAreLinked

\* What a request knows of the database.  A promotion holds the project row, its
\* basis stays a draft, and what it staged, under row locks, is still current.
PromotionFits(r) ==
    LET b == req[r].basis
    IN  /\ project = r
        /\ basis[b].status = "draft"
        /\ req[r].todo \subseteq Successful(b) /\ req[r].staged \subseteq Successful(b)
        /\ req[r].pc = "locking" => req[r].want \in Successful(b)
        /\ req[r].staged \subseteq Held(r)
        /\ \A v \in req[r].staged : /\ req[r].seen[v] = Current(v)
                                    /\ Current(v) = basis[b].items[v].pred

TrialFits(r) ==
    LET b == req[r].basis
    IN  /\ b # 0
        /\ basis[b].status # "absent"
        /\ req[r].pc = "tried" =>
              /\ req[r].item.run = req[r].trial
              /\ req[r].item.status = "ok" => basis[b].stamp <= req[r].item.under /\ req[r].item.under <= inputs

RequestFits(r) ==
    /\ req[r].pc = "idle" => req[r] = Fresh
    /\ req[r].pc \in {"locked", "read"} => req[r].basis = 0
    /\ req[r].pc = "choosing" => req[r].basis # 0
    /\ req[r].pc \in {"trying", "tried"} => TrialFits(r)
    /\ req[r].pc \in {"choosing", "locking"} /\ req[r].basis # 0 => PromotionFits(r)
    /\ req[r].pc = "locking" => req[r].want # 0
    /\ req[r].pc \in {"locking", "locked", "read"} /\ req[r].basis = 0 => req[r].staged = {}
    /\ req[r].pc = "read" => /\ \A v \in Held(r) : req[r].seen[v] = Current(v)
                             /\ req[r].guarded => req[r].seen = req[r].reviewed

\* What a trial stored was calculated after the basis froze its inputs.
ItemsTrue ==
    \A b \in Bases :
        /\ basis[b].stamp <= inputs
        /\ \A v \in VariantKeys : LET i == basis[b].items[v] IN
              i.status = "ok" => /\ basis[b].status # "absent"
                                 /\ basis[b].stamp <= i.under /\ i.under <= inputs

ActiveIsOne == \A a, b \in Active : a = b
LiveDiffer == \A a, b \in Live : basis[a].content = basis[b].content /\ basis[a].stamp = basis[b].stamp => a = b

BasesFit == ItemsTrue /\ TrialsAreNotMixed /\ PromotedAsTried /\ ActiveIsOne /\ LiveDiffer
RowsFit == Numbered /\ Chained
RequestsFit == \A r \in Sessions : RequestFits(r)

BasesInv == BasesTypeOK /\ RowsFit /\ BasesFit /\ RequestsFit

-----------------------------------------------------------------------------
(* Numbers and sets of variants.                                           *)

LEMMA Numbers ==
    /\ NVariants \in Nat /\ NVariants > 0 /\ MaxBases \in Nat /\ MaxPreds \in Nat
    /\ MaxTrials \in Nat /\ MaxInputs \in Nat
    /\ NoSession \notin Sessions
    /\ 1 \in VariantKeys /\ \A v \in VariantKeys : v \in Nat /\ v # 0
    /\ \A p \in Preds : p \in Nat /\ p # 0
    /\ \A b \in Bases : b \in Nat /\ b # 0
  BY BasesAssumption DEF VariantKeys, Preds, Bases

LEMMA VariantsFinite ==
    ASSUME NEW vs \in SUBSET VariantKeys
    PROVE  IsFiniteSet(vs) /\ Cardinality(vs) \in Nat
  <1>1. IsFiniteSet(VariantKeys)
    BY Numbers, FS_Interval DEF VariantKeys
  <1>2. QED
    BY <1>1, FS_Subset, FS_CardinalityType

\* Rank numbers the variants of a set from 1 on.
LEMMA RankNumbers ==
    ASSUME NEW vs \in SUBSET VariantKeys
    PROVE  /\ \A v \in vs : Rank(vs, v) \in 1..Cardinality(vs)
           /\ \A u, v \in vs : Rank(vs, u) = Rank(vs, v) => u = v
           /\ \A i \in 1..Cardinality(vs) : \E v \in vs : Rank(vs, v) = i
  <1> DEFINE n == Cardinality(vs)
             upto(v) == {u \in vs : u <= v}
             f == [v \in vs |-> Rank(vs, v)]
  <1>1. IsFiniteSet(vs) /\ n \in Nat
    BY VariantsFinite
  <1>2. ASSUME NEW v \in vs
        PROVE  /\ IsFiniteSet(upto(v)) /\ v \in upto(v)
               /\ Rank(vs, v) \in 1..n
    <2>1. upto(v) \in SUBSET vs /\ v \in upto(v)
      BY Numbers
    <2>2. IsFiniteSet(upto(v)) /\ Cardinality(upto(v)) <= n
      BY <1>1, <2>1, FS_Subset
    <2>3. Cardinality(upto(v)) \in Nat /\ Cardinality(upto(v)) # 0
      BY <2>1, <2>2, FS_CardinalityType, FS_EmptySet
    <2>4. QED
      BY <1>1, <2>1, <2>2, <2>3 DEF Rank
  <1>3. ASSUME NEW u \in vs, NEW v \in vs, u < v PROVE Rank(vs, u) # Rank(vs, v)
    <2>1. u \in Nat /\ v \in Nat
      BY Numbers
    <2>2. upto(u) \in SUBSET upto(v) /\ v \notin upto(u)
      <3>1. \A x \in vs : x <= u => x <= v
        BY <1>3, <2>1, Numbers
      <3>2. ~(v <= u)
        BY <1>3, <2>1
      <3>3. QED
        BY <3>1, <3>2
    <2>3. Cardinality(upto(u)) # Cardinality(upto(v))
      BY <1>2, <2>2, FS_Subset
    <2>4. QED
      BY <2>3 DEF Rank
  <1>4. \A u, v \in vs : Rank(vs, u) = Rank(vs, v) => u = v
    BY <1>3, Numbers
  <1>5. f \in Injection(vs, 1..n)
    BY <1>2, <1>4 DEF Injection, IsInjective
  <1>6. IsFiniteSet(1..n) /\ Cardinality(1..n) = n
    BY <1>1, FS_Interval
  <1>7. f \in Surjection(vs, 1..n)
    BY <1>5, <1>6, FS_Injection
  <1>8. QED
    BY <1>2, <1>4, <1>7 DEF Surjection

\* A set of variants has a least one: the first of its ranks.
LEMMA LeastVariant ==
    ASSUME NEW vs \in SUBSET VariantKeys, vs # {}
    PROVE  Min(vs) \in vs /\ Min(vs) # 0
  <1>1. IsFiniteSet(vs) /\ Cardinality(vs) \in Nat /\ Cardinality(vs) # 0
    BY VariantsFinite, FS_EmptySet
  <1>2. PICK v \in vs : Rank(vs, v) = 1
    BY <1>1, RankNumbers
  <1>3. ASSUME NEW u \in vs, u < v PROVE FALSE
    <2> DEFINE S == {x \in vs : x <= v}
    <2>1. S \in SUBSET vs /\ u \in S /\ v \in S /\ u # v
      BY <1>3, Numbers
    <2>2. IsFiniteSet(S) /\ Cardinality(S) = 1
      BY <1>1, <1>2, <2>1, FS_Subset DEF Rank
    <2>3. PICK x : S = {x}
      BY <2>2, FS_Singleton
    <2>4. QED
      BY <2>1, <2>3
  <1>4. \A u \in vs : v <= u
    BY <1>3, Numbers
  <1>5. QED
    BY <1>4, Numbers DEF Min

-----------------------------------------------------------------------------
(* The rows of the predictions table.                                      *)

LEMMA CurrentRow ==
    ASSUME BasesTypeOK, AtMostOneCurrent, NEW v \in VariantKeys
    PROVE  /\ Current(v) \in Preds \cup {0}
           /\ Current(v) # 0 => pred[Current(v)].status = "current" /\ pred[Current(v)].variant = v
           /\ \A p \in Preds : pred[p].status = "current" /\ pred[p].variant = v => Current(v) = p
  <1>1. CASE CurrentRows(v) = {}
    BY <1>1 DEF Current, CurrentRows
  <1>2. CASE CurrentRows(v) # {}
    <2>1. Current(v) \in CurrentRows(v)
      BY <1>2 DEF Current
    <2>2. QED
      BY <2>1, Numbers DEF CurrentRows, AtMostOneCurrent
  <1>3. QED
    BY <1>1, <1>2

\* What the table looks like after a registration: id names the new rows.
NewRow(r, v, origin) == [variant |-> v, status |-> "current", supersedes |-> req[r].seen[v],
                         basis |-> req[r].basis, under |-> origin[v]]

RegisteredUnder(r, vs, origin, id) ==
    /\ \A v \in vs : id[v] \in Preds /\ pred[id[v]].status = "absent" /\ pred'[id[v]] = NewRow(r, v, origin)
    /\ \A u, v \in vs : id[u] = id[v] => u = v
    /\ \A p \in Preds : (\A v \in vs : p # id[v]) =>
          pred'[p] = IF \E v \in vs : p = req[r].seen[v] THEN [pred[p] EXCEPT !.status = "superseded"] ELSE pred[p]

LEMMA Registration ==
    ASSUME BasesTypeOK, Numbered, NEW r \in Sessions, NEW vs \in SUBSET VariantKeys, Room(vs),
           NEW origin \in [vs -> 0..MaxInputs], pred' = Registered(r, vs, origin)
    PROVE  \E id \in [vs -> Preds] : /\ RegisteredUnder(r, vs, origin, id)
                                     /\ \E n \in 0..MaxPreds : Used \cup {id[v] : v \in vs} = 1..n
  <1>1. PICK n \in 0..MaxPreds : Used = 1..n
    BY DEF Numbered
  <1>2. Cardinality(Used) = n
    BY <1>1, FS_Interval
  <1>3. {p \in Preds : pred[p].status # "absent"} = Used
    BY DEF Used
  <1> DEFINE k == Cardinality(vs)
             id == [v \in vs |-> n + Rank(vs, v)]
  <1>4. k \in Nat /\ n + k <= MaxPreds
    BY <1>2, <1>3, VariantsFinite DEF Room
  <1>5. /\ \A v \in vs : Rank(vs, v) \in 1..k
        /\ \A u, v \in vs : Rank(vs, u) = Rank(vs, v) => u = v
        /\ \A i \in 1..k : \E v \in vs : Rank(vs, v) = i
    BY RankNumbers
  <1>6. id \in [vs -> Preds]
    BY <1>4, <1>5, Numbers DEF Preds
  <1>7. \A v \in vs : id[v] \notin Used
    BY <1>1, <1>5
  <1>8. \A u, v \in vs : id[u] = id[v] => u = v
    BY <1>1, <1>5
  <1>9. pred' = [p \in Preds |->
          IF \E v \in vs : p = id[v]
          THEN LET v == CHOOSE v \in vs : p = id[v]
               IN  [variant |-> v, status |-> "current", supersedes |-> req[r].seen[v],
                    basis |-> req[r].basis, under |-> origin[v]]
          ELSE IF \E v \in vs : p = req[r].seen[v] THEN [pred[p] EXCEPT !.status = "superseded"] ELSE pred[p]]
    BY <1>2, <1>3 DEF Registered
  <1>10. Used \cup {id[v] : v \in vs} = 1..(n + k)
    <2>1. ASSUME NEW i \in (n + 1)..(n + k) PROVE \E v \in vs : id[v] = i
      <3>1. i - n \in 1..k
        BY <1>1, <1>4, <2>1
      <3>2. PICK v \in vs : Rank(vs, v) = i - n
        BY <1>5, <3>1
      <3>3. n + (i - n) = i
        BY <1>1, <2>1
      <3>4. QED
        BY <3>2, <3>3
    <2>2. \A v \in vs : id[v] \in (n + 1)..(n + k)
      BY <1>1, <1>4, <1>5
    <2>3. 1..(n + k) = (1..n) \cup ((n + 1)..(n + k))
      BY <1>1, <1>4
    <2> HIDE DEF id
    <2>4. QED
      BY <1>1, <2>1, <2>2, <2>3
  <1>11. \A v \in vs : (CHOOSE u \in vs : id[v] = id[u]) = v
    <2> HIDE DEF id
    <2> QED
      BY <1>8
  <1> HIDE DEF id
  <1>12. ASSUME NEW v \in vs PROVE pred'[id[v]] = NewRow(r, v, origin)
    <2>1. id[v] \in Preds
      BY <1>6
    <2>2. (CHOOSE u \in vs : id[v] = id[u]) = v
      BY <1>11
    <2>3. QED
      BY <1>9, <2>1, <2>2 DEF NewRow
  <1>13. RegisteredUnder(r, vs, origin, id)
    <2>1. \A v \in vs : id[v] \in Preds /\ pred[id[v]].status = "absent"
      BY <1>6, <1>7 DEF Used
    <2>2. ASSUME NEW p \in Preds, \A v \in vs : p # id[v]
          PROVE  pred'[p] = IF \E v \in vs : p = req[r].seen[v] THEN [pred[p] EXCEPT !.status = "superseded"] ELSE pred[p]
      BY <1>9, <2>2
    <2>3. QED
      BY <1>8, <1>12, <2>1, <2>2 DEF RegisteredUnder
  <1>14. n + k \in 0..MaxPreds
    BY <1>1, <1>4
  <1>15. QED
    BY <1>6, <1>10, <1>13, <1>14

\* A registration of variants whose current rows it saw keeps the histories.
LEMMA RegistrationKeepsRows ==
    ASSUME BasesTypeOK, RowsFit, NEW r \in Sessions, NEW vs \in SUBSET VariantKeys, Room(vs),
           NEW origin \in [vs -> 0..MaxInputs], pred' = Registered(r, vs, origin),
           \A v \in vs : req[r].seen[v] = Current(v)
    PROVE  /\ pred' \in [Preds -> Prediction]
           /\ RowsFit'
           /\ \A u \in VariantKeys \ vs : Current(u)' = Current(u)
           /\ \A p \in Preds : \/ /\ pred'[p].basis = pred[p].basis /\ pred'[p].under = pred[p].under
                                  /\ pred'[p].supersedes = pred[p].supersedes /\ pred'[p].variant = pred[p].variant
                               \/ \E v \in vs : pred'[p] = NewRow(r, v, origin)
  <1>0. pred \in [Preds -> Prediction] /\ req[r] \in Session
    BY DEF BasesTypeOK
  <1>1. PICK id \in [vs -> Preds] : /\ RegisteredUnder(r, vs, origin, id)
                                    /\ \E n \in 0..MaxPreds : Used \cup {id[v] : v \in vs} = 1..n
    BY Registration DEF RowsFit
  <1> DEFINE isNew(p) == \E v \in vs : p = id[v]
             isOld(p) == \E v \in vs : p = req[r].seen[v]
  <1>2. \A v \in vs : /\ req[r].seen[v] \in Preds \cup {0}
                      /\ req[r].seen[v] # 0 => pred[req[r].seen[v]].status = "current" /\ pred[req[r].seen[v]].variant = v
                      /\ \A p \in Preds : pred[p].status = "current" /\ pred[p].variant = v => req[r].seen[v] = p
    BY CurrentRow DEF RowsFit, Chained
  <1>3. \A v \in vs : /\ id[v] \in Preds /\ pred[id[v]].status = "absent"
                      /\ pred'[id[v]].variant = v /\ pred'[id[v]].status = "current"
                      /\ pred'[id[v]].supersedes = req[r].seen[v]
    <2>1. ASSUME NEW v \in vs
          PROVE  /\ id[v] \in Preds /\ pred[id[v]].status = "absent"
                 /\ pred'[id[v]] = NewRow(r, v, origin)
      BY <1>1 DEF RegisteredUnder
    <2>2. ASSUME NEW v \in vs
          PROVE  /\ NewRow(r, v, origin).variant = v /\ NewRow(r, v, origin).status = "current"
                 /\ NewRow(r, v, origin).supersedes = req[r].seen[v]
      BY DEF NewRow
    <2>3. QED
      BY <2>1, <2>2
  <1>4. ASSUME NEW p \in Preds, ~isNew(p)
        PROVE  /\ pred'[p].variant = pred[p].variant /\ pred'[p].supersedes = pred[p].supersedes
               /\ pred'[p].basis = pred[p].basis /\ pred'[p].under = pred[p].under
               /\ pred'[p].status = IF isOld(p) THEN "superseded" ELSE pred[p].status
               /\ pred'[p] \in Prediction
    <2>1. pred'[p] = IF isOld(p) THEN [pred[p] EXCEPT !.status = "superseded"] ELSE pred[p]
      BY <1>1, <1>4 DEF RegisteredUnder
    <2>2. pred[p] \in Prediction
      BY <1>0
    <2>3. QED
      BY <2>1, <2>2 DEF Prediction
  <1>5. pred' \in [Preds -> Prediction]
    <2>1. \A v \in vs : NewRow(r, v, origin) \in Prediction
      BY <1>0, <1>2 DEF NewRow, Prediction, Session
    <2>2. \A p \in Preds : pred'[p] \in Prediction
      BY <1>1, <1>4, <2>1 DEF RegisteredUnder
    <2>3. DOMAIN pred' = Preds /\ pred' = [p \in Preds |-> pred'[p]]
      BY DEF Registered
    <2>4. QED
      BY <2>2, <2>3
  <1>6. \A v \in vs : req[r].seen[v] # 0 => ~isNew(req[r].seen[v])
    BY <1>2, <1>3
  <1>7. Numbered'
    <2>1. Used' = Used \cup {id[v] : v \in vs}
      <3>1. \A p \in Preds : isNew(p) => pred'[p].status # "absent"
        BY <1>3
      <3>2. ASSUME NEW p \in Preds, ~isNew(p) PROVE pred'[p].status # "absent" <=> pred[p].status # "absent"
        <4>1. isOld(p) => pred[p].status # "absent"
          BY <1>2, <3>2, Numbers
        <4>2. QED
          BY <1>4, <3>2, <4>1
      <3>3. QED
        BY <1>3, <3>1, <3>2 DEF Used
    <2>2. QED
      BY <1>1, <2>1 DEF Numbered
  <1>8. AtMostOneCurrent'
    <2>1. ASSUME NEW p \in Preds, NEW q \in Preds, pred'[p].status = "current", pred'[q].status = "current",
                 pred'[p].variant = pred'[q].variant, isNew(p), ~isNew(q)
          PROVE  FALSE
      <3>1. PICK v \in vs : p = id[v]
        BY <2>1
      <3>2. pred[q].status = "current" /\ pred[q].variant = v /\ ~isOld(q)
        BY <1>3, <1>4, <2>1, <3>1
      <3>3. QED
        BY <1>2, <3>2
    <2>2. \A p, q \in Preds : isNew(p) /\ isNew(q) /\ pred'[p].variant = pred'[q].variant => p = q
      BY <1>3
    <2>3. ASSUME NEW p \in Preds, NEW q \in Preds, pred'[p].status = "current", pred'[q].status = "current",
                 pred'[p].variant = pred'[q].variant, ~isNew(p), ~isNew(q)
          PROVE  p = q
      <3>1. /\ pred[p].status = "current" /\ pred[q].status = "current"
            /\ pred[p].variant = pred[q].variant
        BY <1>4, <2>3
      <3>2. QED
        BY <3>1 DEF RowsFit, Chained, AtMostOneCurrent
    <2>4. QED
      BY <2>1, <2>2, <2>3 DEF AtMostOneCurrent
  <1>9. AbsentIsBlank'
    BY <1>3, <1>4 DEF RowsFit, Chained, AbsentIsBlank
  <1>10. ASSUME NEW p \in Preds, pred[p].status = "superseded"
         PROVE  ~isNew(p) /\ pred'[p].status = "superseded" /\ pred'[p].variant = pred[p].variant
    BY <1>3, <1>4, <1>10
  <1>11. \A v \in vs : req[r].seen[v] # 0 =>
            pred'[req[r].seen[v]].status = "superseded" /\ pred'[req[r].seen[v]].variant = v
    BY <1>2, <1>4, <1>6
  <1>12. \A q \in Preds : pred[q].supersedes # 0 => pred[q].supersedes \in Preds /\ pred[pred[q].supersedes].status = "superseded"
    BY <1>0 DEF RowsFit, Chained, LinksGoBack, Prediction
  <1>13. LinksGoBack'
    <2>1. ASSUME NEW q \in Preds, pred'[q].supersedes # 0
          PROVE  /\ pred'[pred'[q].supersedes].status = "superseded"
                 /\ pred'[pred'[q].supersedes].variant = pred'[q].variant
      <3>1. CASE isNew(q)
        BY <1>3, <1>11, <2>1, <3>1
      <3>2. CASE ~isNew(q)
        BY <1>4, <1>10, <1>12, <2>1, <3>2 DEF RowsFit, Chained, LinksGoBack
      <3>3. QED
        BY <3>1, <3>2
    <2>2. QED
      BY <2>1 DEF LinksGoBack
  <1>14. LinksDiffer'
    <2>1. ASSUME NEW p \in Preds, NEW q \in Preds, pred'[p].supersedes # 0, pred'[p].supersedes = pred'[q].supersedes
          PROVE  p = q
      <3>1. CASE isNew(p) /\ isNew(q)
        BY <1>2, <1>3, <2>1, <3>1
      <3>2. CASE ~isNew(p) /\ ~isNew(q)
        BY <1>4, <2>1, <3>2 DEF RowsFit, Chained, LinksDiffer
      <3>3. CASE isNew(p) /\ ~isNew(q)
        BY <1>2, <1>3, <1>4, <1>12, <2>1, <3>3
      <3>4. CASE ~isNew(p) /\ isNew(q)
        BY <1>2, <1>3, <1>4, <1>12, <2>1, <3>4
      <3>5. QED
        BY <3>1, <3>2, <3>3, <3>4
    <2>2. QED
      BY <2>1 DEF LinksDiffer
  <1>15. SupersededAreLinked'
    <2>1. ASSUME NEW p \in Preds, pred'[p].status = "superseded" PROVE \E q \in Preds : pred'[q].supersedes = p
      <3>1. ~isNew(p)
        BY <1>3, <2>1
      <3>2. CASE isOld(p)
        BY <1>3, <3>2
      <3>3. CASE ~isOld(p)
        <4>1. pred[p].status = "superseded"
          BY <1>4, <2>1, <3>1, <3>3
        <4>2. PICK q \in Preds : pred[q].supersedes = p
          BY <4>1 DEF RowsFit, Chained, SupersededAreLinked
        <4>3. pred[q].status # "absent"
          BY <4>2, Numbers DEF RowsFit, Chained, AbsentIsBlank
        <4>4. ~isNew(q)
          BY <1>3, <4>3
        <4>5. QED
          BY <1>4, <4>2, <4>4
      <3>4. QED
        BY <3>2, <3>3
    <2>2. QED
      BY <2>1 DEF SupersededAreLinked
  <1>16. ASSUME NEW u \in VariantKeys \ vs PROVE Current(u)' = Current(u)
    <2>1. ASSUME NEW p \in Preds
          PROVE  (pred'[p].variant = u /\ pred'[p].status = "current") <=> (pred[p].variant = u /\ pred[p].status = "current")
      <3>1. CASE isNew(p)
        BY <1>3, <1>16, <3>1
      <3>2. CASE ~isNew(p)
        <4>1. isOld(p) => pred[p].variant # u
          BY <1>2, <1>16, <2>1, Numbers
        <4>2. QED
          BY <1>4, <3>2, <4>1
      <3>3. QED
        BY <3>1, <3>2
    <2>2. CurrentRows(u)' = CurrentRows(u)
      BY <2>1 DEF CurrentRows
    <2>3. QED
      BY <2>2 DEF Current
  <1>17. RowsFit'
    BY <1>7, <1>8, <1>9, <1>13, <1>14, <1>15 DEF RowsFit, Chained
  <1>18. \A p \in Preds : isNew(p) => \E v \in vs : pred'[p] = NewRow(r, v, origin)
    BY <1>1 DEF RegisteredUnder
  <1>19. QED
    BY <1>4, <1>5, <1>16, <1>17, <1>18

-----------------------------------------------------------------------------
(* What a step leaves alone.                                               *)

LEMMA Typed ==
    ASSUME BasesTypeOK
    PROVE  /\ inputs \in Nat
           /\ \A b \in Bases : /\ basis[b].stamp \in Nat /\ basis[b].items \in [VariantKeys -> Item]
                               /\ basis[b].trial \in 0..MaxTrials
                               /\ \A v \in VariantKeys : basis[b].items[v] \in Item
                                                         /\ basis[b].items[v].under \in 0..MaxInputs
           /\ \A r \in Sessions : /\ req[r] \in Session
                                  /\ req[r].basis \in Bases \cup {0} /\ req[r].want \in VariantKeys \cup {0}
                                  /\ req[r].todo \subseteq VariantKeys /\ req[r].staged \subseteq VariantKeys
                                  /\ req[r].trial \in 0..MaxTrials /\ req[r].item \in Item
                                  /\ req[r].seen \in [VariantKeys -> Preds \cup {0}]
                                  /\ req[r].pc \in {"idle", "trying", "tried", "choosing", "locking", "locked", "read"}
           /\ \A p \in Preds : /\ pred[p].basis \in Bases \cup {0} /\ pred[p].variant \in VariantKeys
  <1>1. inputs \in Nat
    BY Numbers DEF BasesTypeOK
  <1>2. ASSUME NEW b \in Bases
        PROVE  /\ basis[b].stamp \in Nat /\ basis[b].items \in [VariantKeys -> Item]
               /\ basis[b].trial \in 0..MaxTrials
    BY Numbers DEF BasesTypeOK, Basis
  <1>3. ASSUME NEW i \in Item PROVE i.under \in 0..MaxInputs
    BY DEF Item
  <1>4. ASSUME NEW r \in Sessions
        PROVE  /\ req[r] \in Session
               /\ req[r].basis \in Bases \cup {0} /\ req[r].want \in VariantKeys \cup {0}
               /\ req[r].todo \subseteq VariantKeys /\ req[r].staged \subseteq VariantKeys
               /\ req[r].trial \in 0..MaxTrials /\ req[r].item \in Item
               /\ req[r].seen \in [VariantKeys -> Preds \cup {0}]
               /\ req[r].pc \in {"idle", "trying", "tried", "choosing", "locking", "locked", "read"}
    BY DEF BasesTypeOK, Session
  <1>5. ASSUME NEW p \in Preds PROVE pred[p].basis \in Bases \cup {0} /\ pred[p].variant \in VariantKeys
    BY DEF BasesTypeOK, Prediction
  <1>6. QED
    BY <1>1, <1>2, <1>3, <1>4, <1>5

\* A request keeps its view of the database through the steps of others: they
\* change no basis while it holds the project row and no current prediction of
\* a variant whose row it holds.
LEMMA Undisturbed ==
    ASSUME BasesTypeOK, NEW s \in Sessions, RequestFits(s), req'[s] = req[s],
           inputs' \in Nat, inputs <= inputs',
           \A b \in Bases : basis[b].status # "absent" =>
               basis'[b].status # "absent" /\ basis'[b].stamp = basis[b].stamp,
           project = s => project' = s /\ \A b \in Bases : basis'[b] = basis[b],
           Held(s)' = Held(s),
           \A v \in Held(s) : Current(v)' = Current(v)
    PROVE  RequestFits(s)'
  <1>1. Fresh' = Fresh /\ NoItem' = NoItem
    BY DEF Fresh, NoItem
  <1>2. /\ req[s].basis \in Bases \cup {0} /\ req[s].item \in Item
        /\ inputs \in Nat
    BY Typed
  <1>3. TrialFits(s) => TrialFits(s)'
    <2> SUFFICES ASSUME TrialFits(s) PROVE TrialFits(s)'
      OBVIOUS
    <2> DEFINE b == req[s].basis
    <2>1. b \in Bases /\ basis[b].status # "absent"
      BY <1>2 DEF TrialFits
    <2>2. basis'[b].status # "absent" /\ basis'[b].stamp = basis[b].stamp
      BY <2>1
    <2>3. req[s].item.under \in Nat
      BY <1>2, Numbers DEF Item
    <2>4. req[s].item.under <= inputs => req[s].item.under <= inputs'
      BY <1>2, <2>3
    <2>5. QED
      BY <2>1, <2>2, <2>4 DEF TrialFits
  <1>4. ASSUME PromotionFits(s), req[s].basis \in Bases PROVE PromotionFits(s)'
    <2>1. project' = s /\ basis'[req[s].basis] = basis[req[s].basis]
      BY <1>4 DEF PromotionFits
    <2>2. Successful(req[s].basis)' = Successful(req[s].basis)
      BY <2>1 DEF Successful
    <2>3. \A v \in req[s].staged : Current(v)' = Current(v)
      BY <1>4 DEF PromotionFits
    <2>4. QED
      BY <1>4, <2>1, <2>2, <2>3 DEF PromotionFits
  <1>5. QED
    BY <1>1, <1>2, <1>3, <1>4 DEF RequestFits

\* The end of a transaction.
LEMMA EndFrees ==
    ASSUME BasesTypeOK, NEW r \in Sessions, Ended(r)
    PROVE  /\ req' \in [Sessions -> Session] /\ lock' \in [VariantKeys -> Sessions \cup {NoSession}]
           /\ project' \in Sessions \cup {NoSession}
           /\ req'[r] = Fresh
           /\ \A s \in Sessions \ {r} : /\ req'[s] = req[s] /\ Held(s)' = Held(s)
                                        /\ project = s => project' = s
  <1>1. Fresh \in Session
    BY Numbers DEF Fresh, Session, NoItem, Item
  <1>2. req' = [req EXCEPT ![r] = Fresh] /\ lock' = Released(r)
        /\ project' = IF project = r THEN NoSession ELSE project
    BY DEF Ended
  <1>3. req' \in [Sessions -> Session] /\ req'[r] = Fresh /\ \A s \in Sessions \ {r} : req'[s] = req[s]
    BY <1>1, <1>2 DEF BasesTypeOK
  <1>4. lock' \in [VariantKeys -> Sessions \cup {NoSession}]
    BY <1>2 DEF BasesTypeOK, Released
  <1>5. ASSUME NEW s \in Sessions \ {r} PROVE Held(s)' = Held(s)
    BY <1>2, Numbers DEF Held, Released
  <1>6. QED
    BY <1>2, <1>3, <1>4, <1>5 DEF BasesTypeOK

\* A free session knows nothing.
LEMMA FreshFits == ASSUME NEW r \in Sessions, req'[r] = Fresh PROVE RequestFits(r)'
  <1>1. req'[r].pc = "idle" /\ Fresh' = Fresh
    BY DEF Fresh, NoItem
  <1>2. QED
    BY <1>1 DEF RequestFits

\* The rows and the bases of a step that changes neither table.
LEMMA SameTables ==
    ASSUME RowsFit, BasesFit, UNCHANGED <<inputs, basis, pred>>
    PROVE  RowsFit' /\ BasesFit' /\ \A v \in VariantKeys : Current(v)' = Current(v)
  <1>1. RowsFit'
    BY DEF RowsFit, Numbered, Used, Chained, AtMostOneCurrent, AbsentIsBlank, LinksGoBack, LinksDiffer,
           SupersededAreLinked
  <1>2. BasesFit'
    BY DEF BasesFit, ItemsTrue, TrialsAreNotMixed, PromotedAsTried, ActiveIsOne, Active, LiveDiffer, Live
  <1>3. QED
    BY <1>1, <1>2 DEF Current, CurrentRows

LEMMA SameRows ==
    ASSUME RowsFit, UNCHANGED pred
    PROVE  RowsFit' /\ \A v \in VariantKeys : Current(v)' = Current(v)
  BY DEF RowsFit, Numbered, Used, Chained, AtMostOneCurrent, AbsentIsBlank, LinksGoBack, LinksDiffer,
         SupersededAreLinked, Current, CurrentRows

-----------------------------------------------------------------------------
(* The initial state, edits, and requests of a single transaction.         *)

LEMMA InitEstablishes == BasesInit => BasesInv
  <1> SUFFICES ASSUME BasesInit PROVE BasesInv
    OBVIOUS
  <1>1. BasesTypeOK
    <2>1. (CHOOSE c \in Contents : TRUE) \in Contents
      BY BasesAssumption
    <2>2. NoItem \in Item
      BY Numbers DEF NoItem, Item
    <2>3. Fresh \in Session
      BY <2>2, Numbers DEF Fresh, Session
    <2>4. basis \in [Bases -> Basis]
      BY <2>1, <2>2, Numbers DEF BasesInit, Basis
    <2>5. pred \in [Preds -> Prediction]
      BY Numbers DEF BasesInit, Prediction
    <2>6. QED
      BY <2>3, <2>4, <2>5, Numbers DEF BasesTypeOK, BasesInit
  <1>2. \A p \in Preds : pred[p].status = "absent" /\ pred[p].supersedes = 0 /\ pred[p].basis = 0
    BY DEF BasesInit
  <1>3. RowsFit
    <2>1. Used = 1..0
      BY <1>2 DEF Used
    <2>2. Numbered
      BY <2>1, Numbers DEF Numbered
    <2>3. QED
      BY <1>2, <2>2 DEF RowsFit, Chained, AtMostOneCurrent, AbsentIsBlank, LinksGoBack, LinksDiffer, SupersededAreLinked
  <1>4. BasesFit
    <2>1. \A b \in Bases : /\ basis[b].status = "absent" /\ basis[b].stamp = 0
                           /\ \A v \in VariantKeys : basis[b].items[v] = NoItem
      BY DEF BasesInit
    <2>2. ItemsTrue /\ TrialsAreNotMixed
      BY <2>1 DEF ItemsTrue, TrialsAreNotMixed, NoItem, BasesInit
    <2>3. ActiveIsOne /\ LiveDiffer
      BY <2>1 DEF ActiveIsOne, LiveDiffer, Active, Live
    <2>4. PromotedAsTried
      BY <1>2 DEF PromotedAsTried
    <2>5. QED
      BY <2>2, <2>3, <2>4 DEF BasesFit
  <1>5. RequestsFit
    <2>1. ASSUME NEW r \in Sessions PROVE req[r] = Fresh /\ req[r].pc = "idle"
      BY DEF BasesInit, Fresh
    <2>2. QED
      BY <2>1 DEF RequestsFit, RequestFits
  <1>6. QED
    BY <1>1, <1>3, <1>4, <1>5 DEF BasesInv

LEMMA EditKeeps == ASSUME BasesInv, EditInputs PROVE BasesInv'
  <1>1. BasesTypeOK' /\ inputs' = inputs + 1 /\ inputs \in Nat
    BY Numbers DEF BasesInv, BasesTypeOK, EditInputs, Prediction, Basis, Session
  <1>2. RowsFit' /\ \A v \in VariantKeys : Current(v)' = Current(v)
    BY SameRows DEF BasesInv, EditInputs
  <1>3. BasesFit'
    <2>1. ItemsTrue'
      <3>1. ASSUME NEW b \in Bases PROVE basis[b].stamp <= inputs'
        BY <1>1, Typed DEF BasesInv, BasesFit, ItemsTrue
      <3>2. ASSUME NEW b \in Bases, NEW v \in VariantKeys, basis[b].items[v].status = "ok"
            PROVE  /\ basis[b].status # "absent"
                   /\ basis[b].stamp <= basis[b].items[v].under /\ basis[b].items[v].under <= inputs'
        <4>1. basis[b].items[v].under \in Nat
          BY Typed, Numbers DEF BasesInv
        <4>2. QED
          BY <1>1, <3>2, <4>1 DEF BasesInv, BasesFit, ItemsTrue
      <3>3. QED
        BY <3>1, <3>2 DEF ItemsTrue, EditInputs
    <2>2. QED
      BY <2>1 DEF EditInputs, BasesInv, BasesFit, TrialsAreNotMixed, PromotedAsTried, ActiveIsOne, Active, LiveDiffer, Live
  <1>4. RequestsFit'
    <2>1. ASSUME NEW s \in Sessions PROVE RequestFits(s)'
      <3>1. RequestFits(s) /\ BasesTypeOK
        BY DEF BasesInv, RequestsFit
      <3>2. UNCHANGED <<basis, pred, project, lock, req>>
        BY DEF EditInputs
      <3>3. Held(s)' = Held(s) /\ \A v \in Held(s) : Current(v)' = Current(v)
        BY <1>2, <3>2 DEF Held
      <3>4. QED
        BY <1>1, <3>1, <3>2, <3>3, Undisturbed
    <2>2. QED
      BY <2>1 DEF RequestsFit
  <1>5. QED
    BY <1>1, <1>2, <1>3, <1>4 DEF BasesInv

\* Steps that change nothing but the table of the bases, under the project row.
LEMMA BasisStepKeeps ==
    ASSUME BasesInv, project = NoSession, UNCHANGED <<inputs, pred, project, lock, req>>,
           basis' \in [Bases -> Basis], BasesFit',
           \A b \in Bases : basis[b].status # "absent" =>
               basis'[b].status # "absent" /\ basis'[b].stamp = basis[b].stamp
    PROVE  BasesInv'
  <1>1. BasesTypeOK'
    BY DEF BasesInv, BasesTypeOK
  <1>2. RowsFit' /\ \A v \in VariantKeys : Current(v)' = Current(v)
    BY SameRows DEF BasesInv
  <1>3. ASSUME NEW s \in Sessions PROVE RequestFits(s)'
    <2>1. RequestFits(s) /\ BasesTypeOK /\ inputs \in Nat
      BY Typed DEF BasesInv, RequestsFit
    <2>2. Held(s)' = Held(s) /\ \A v \in Held(s) : Current(v)' = Current(v)
      BY <1>2 DEF Held
    <2>3. project # s
      BY Numbers
    <2>4. QED
      BY <2>1, <2>2, <2>3, Undisturbed
  <1>4. QED
    BY <1>1, <1>2, <1>3 DEF BasesInv, RequestsFit

\* Bases that are or were active keep what they froze and what was tried.
LEMMA PromotedKept ==
    ASSUME BasesTypeOK, PromotedAsTried, UNCHANGED pred,
           \A b \in Bases : basis[b].status \in {"active", "retired"} =>
               /\ basis'[b].status \in {"active", "retired"}
               /\ basis'[b].stamp = basis[b].stamp /\ basis'[b].items = basis[b].items
    PROVE  PromotedAsTried'
  <1>1. ASSUME NEW p \in Preds, pred[p].basis # 0
        PROVE  /\ pred[p].under = basis'[pred[p].basis].stamp
               /\ pred[p].supersedes = basis'[pred[p].basis].items[pred[p].variant].pred
               /\ basis'[pred[p].basis].status \in {"active", "retired"}
    <2>1. pred[p].basis \in Bases
      BY <1>1, Typed
    <2>2. /\ pred[p].under = basis[pred[p].basis].stamp
          /\ pred[p].supersedes = basis[pred[p].basis].items[pred[p].variant].pred
          /\ basis[pred[p].basis].status \in {"active", "retired"}
      BY <1>1 DEF PromotedAsTried
    <2>3. QED
      BY <2>1, <2>2
  <1>2. QED
    BY <1>1 DEF PromotedAsTried

LEMMA CreateKeeps == ASSUME BasesInv, NEW c \in Contents, CreateBasis(c) PROVE BasesInv'
  <1>1. PICK b \in Bases : /\ \A a \in Bases : (basis[a].status = "absent") <=> (a >= b)
                           /\ basis' = [basis EXCEPT ![b] = [@ EXCEPT !.status = "draft", !.content = c, !.stamp = inputs]]
    BY DEF CreateBasis
  <1>2. basis \in [Bases -> Basis] /\ inputs \in 0..MaxInputs /\ inputs \in Nat
    BY Typed DEF BasesInv, BasesTypeOK
  <1>3. basis[b].status = "absent"
    BY <1>1, Numbers
  <1>4. /\ basis'[b].status = "draft" /\ basis'[b].content = c /\ basis'[b].stamp = inputs
        /\ basis'[b].trial = basis[b].trial /\ basis'[b].items = basis[b].items
        /\ basis'[b] \in Basis
    BY <1>1, <1>2 DEF Basis
  <1>5. \A a \in Bases : a # b => basis'[a] = basis[a]
    BY <1>1, <1>2
  <1>6. basis' \in [Bases -> Basis]
    BY <1>1, <1>2, <1>4
  <1>7. ItemsTrue'
    <2>1. \A v \in VariantKeys : basis[b].items[v].status # "ok"
      BY <1>3 DEF BasesInv, BasesFit, ItemsTrue
    <2>2. inputs' = inputs /\ ItemsTrue
      BY DEF BasesInv, BasesFit, CreateBasis
    <2>3. ASSUME NEW a \in Bases
          PROVE  /\ basis'[a].stamp <= inputs
                 /\ \A v \in VariantKeys : basis'[a].items[v].status = "ok" =>
                       /\ basis'[a].status # "absent"
                       /\ basis'[a].stamp <= basis'[a].items[v].under /\ basis'[a].items[v].under <= inputs
      <3>1. CASE a = b
        BY <1>2, <1>4, <2>1, <3>1
      <3>2. CASE a # b
        BY <1>5, <2>2, <3>2 DEF ItemsTrue
      <3>3. QED
        BY <3>1, <3>2
    <2>4. QED
      BY <2>2, <2>3 DEF ItemsTrue
  <1>8. TrialsAreNotMixed'
    BY <1>4, <1>5 DEF BasesInv, BasesFit, TrialsAreNotMixed
  <1>9. PromotedAsTried'
    BY <1>3, <1>5, PromotedKept DEF BasesInv, BasesFit, CreateBasis
  <1>10. ActiveIsOne'
    BY <1>4, <1>5 DEF BasesInv, BasesFit, ActiveIsOne, Active
  <1>11. LiveDiffer'
    <2>1. \A a \in Bases : a # b /\ basis'[a].status \in {"draft", "active"} => ~(basis'[a].content = c /\ basis'[a].stamp = inputs)
      BY <1>5 DEF CreateBasis, SameContent, Live
    <2>2. QED
      BY <1>4, <1>5, <2>1 DEF BasesInv, BasesFit, LiveDiffer, Live
  <1>12. QED
    BY <1>3, <1>5, <1>6, <1>7, <1>8, <1>9, <1>10, <1>11, BasisStepKeeps DEF CreateBasis, BasesFit

\* The rows after an activation: one active basis, whose rivals are retired.
LEMMA Activation ==
    ASSUME BasesInv, NEW b \in Bases, MayActivate(b), UNCHANGED inputs, basis' = Activated(b)
    PROVE  /\ basis' \in [Bases -> Basis]
           /\ \A a \in Bases : /\ basis'[a].stamp = basis[a].stamp /\ basis'[a].items = basis[a].items
                               /\ basis[a].status # "absent" => basis'[a].status # "absent"
                               /\ basis[a].status \in {"active", "retired"} => basis'[a].status \in {"active", "retired"}
           /\ basis'[b].status = "active"
           /\ ItemsTrue' /\ TrialsAreNotMixed' /\ ActiveIsOne' /\ LiveDiffer'
  <1>1. basis \in [Bases -> Basis]
    BY DEF BasesInv, BasesTypeOK
  <1>2. ASSUME NEW a \in Bases
        PROVE  /\ basis'[a].content = basis[a].content /\ basis'[a].stamp = basis[a].stamp
               /\ basis'[a].trial = basis[a].trial /\ basis'[a].items = basis[a].items
               /\ basis'[a].status = IF a = b THEN "active"
                                     ELSE IF basis[a].status = "active" THEN "retired" ELSE basis[a].status
               /\ basis'[a] \in Basis
    BY <1>1 DEF Activated, Basis
  <1>3. basis' \in [Bases -> Basis]
    BY <1>2 DEF Activated
  <1>4. ItemsTrue'
    <2>1. ASSUME NEW a \in Bases
          PROVE  /\ basis'[a].stamp <= inputs'
                 /\ \A v \in VariantKeys : basis'[a].items[v].status = "ok" =>
                       /\ basis'[a].status # "absent"
                       /\ basis'[a].stamp <= basis'[a].items[v].under /\ basis'[a].items[v].under <= inputs'
      BY <1>2 DEF BasesInv, BasesFit, ItemsTrue
    <2>2. QED
      BY <2>1 DEF ItemsTrue
  <1>5. TrialsAreNotMixed'
    BY <1>2 DEF BasesInv, BasesFit, TrialsAreNotMixed
  <1>6. \A a \in Bases : basis'[a].status = "active" <=> a = b
    BY <1>2
  <1>7. ActiveIsOne'
    BY <1>6 DEF ActiveIsOne, Active
  <1>8. \A a \in Bases : basis'[a].status \in {"draft", "active"} => basis[a].status \in {"draft", "active"}
    BY <1>2 DEF MayActivate
  <1>9. LiveDiffer'
    BY <1>2, <1>8 DEF BasesInv, BasesFit, LiveDiffer, Live
  <1>10. QED
    BY <1>2, <1>3, <1>4, <1>5, <1>6, <1>7, <1>9

LEMMA ActivateKeeps == ASSUME BasesInv, NEW b \in Bases, ActivateBasis(b) PROVE BasesInv'
  <1>1. /\ project = NoSession /\ MayActivate(b) /\ basis' = Activated(b)
        /\ UNCHANGED <<inputs, pred, project, lock, req>>
    BY DEF ActivateBasis
  <1>2. PromotedAsTried'
    BY <1>1, Activation, PromotedKept DEF BasesInv, BasesFit
  <1>3. BasesFit'
    BY <1>1, <1>2, Activation DEF BasesFit
  <1>4. QED
    BY <1>1, <1>3, Activation, BasisStepKeeps

LEMMA RetireKeeps == ASSUME BasesInv, NEW b \in Bases, RetireBasis(b) PROVE BasesInv'
  <1>1. /\ project = NoSession /\ MayRetire(b) /\ basis' = [basis EXCEPT ![b].status = "retired"]
        /\ UNCHANGED <<inputs, pred, project, lock, req>>
    BY DEF RetireBasis
  <1>2. basis \in [Bases -> Basis]
    BY DEF BasesInv, BasesTypeOK
  <1>3. ASSUME NEW a \in Bases
        PROVE  /\ basis'[a].content = basis[a].content /\ basis'[a].stamp = basis[a].stamp
               /\ basis'[a].trial = basis[a].trial /\ basis'[a].items = basis[a].items
               /\ basis'[a].status = IF a = b THEN "retired" ELSE basis[a].status
               /\ basis'[a] \in Basis
    BY <1>1, <1>2 DEF Basis
  <1>4. basis' \in [Bases -> Basis]
    BY <1>1, <1>2, <1>3
  <1>5. basis[b].status # "absent"
    BY <1>1 DEF MayRetire
  <1>6. ItemsTrue'
    <2>1. ASSUME NEW a \in Bases
          PROVE  /\ basis'[a].stamp <= inputs'
                 /\ \A v \in VariantKeys : basis'[a].items[v].status = "ok" =>
                       /\ basis'[a].status # "absent"
                       /\ basis'[a].stamp <= basis'[a].items[v].under /\ basis'[a].items[v].under <= inputs'
      BY <1>1, <1>3 DEF BasesInv, BasesFit, ItemsTrue
    <2>2. QED
      BY <2>1 DEF ItemsTrue
  <1>7. TrialsAreNotMixed'
    BY <1>3 DEF BasesInv, BasesFit, TrialsAreNotMixed
  <1>8. PromotedAsTried'
    BY <1>1, <1>3, PromotedKept DEF BasesInv, BasesFit
  <1>9. ActiveIsOne' /\ LiveDiffer'
    BY <1>3 DEF BasesInv, BasesFit, ActiveIsOne, Active, LiveDiffer, Live
  <1>10. BasesFit'
    BY <1>6, <1>7, <1>8, <1>9 DEF BasesFit
  <1>11. QED
    BY <1>1, <1>3, <1>4, <1>5, <1>10, BasisStepKeeps

LEMMA StartTrialKeeps == ASSUME BasesInv, NEW b \in Bases, StartTrial(b) PROVE BasesInv'
  <1> DEFINE taken == [v \in VariantKeys |-> IF Current(v) = 0 THEN NoItem
                                             ELSE [NoItem EXCEPT !.pred = Current(v), !.status = "pending"]]
  <1>1. /\ project = NoSession /\ basis[b].status = "draft" /\ basis[b].trial < MaxTrials
        /\ basis' = [basis EXCEPT ![b].trial = @ + 1, ![b].items = taken]
        /\ UNCHANGED <<inputs, pred, project, lock, req>>
    BY DEF StartTrial
  <1>2. basis \in [Bases -> Basis]
    BY DEF BasesInv, BasesTypeOK
  <1>3. ASSUME NEW v \in VariantKeys
        PROVE  taken[v] \in Item /\ taken[v].status # "ok" /\ taken[v].run = 0
    <2>1. Current(v) \in Preds \cup {0}
      BY CurrentRow DEF BasesInv, RowsFit, Chained
    <2>2. CASE Current(v) = 0
      <3>1. taken[v] = NoItem
        BY <2>2
      <3>2. QED
        BY <3>1, Numbers DEF Item, NoItem
    <2>3. CASE Current(v) # 0
      <3> DEFINE i == [pred |-> Current(v), status |-> "pending", run |-> 0, under |-> 0]
      <3>1. taken[v] = i
        BY <2>3 DEF NoItem
      <3>2. i \in Item /\ i.status # "ok" /\ i.run = 0
        BY <2>1, Numbers DEF Item
      <3> HIDE DEF taken, i
      <3>3. QED
        BY <3>1, <3>2
    <2>4. QED
      BY <2>2, <2>3
  <1>4. taken \in [VariantKeys -> Item]
    BY <1>3
  <1> HIDE DEF taken
  <1>5. ASSUME NEW a \in Bases
        PROVE  /\ basis'[a].content = basis[a].content /\ basis'[a].stamp = basis[a].stamp
               /\ basis'[a].status = basis[a].status
               /\ a # b => basis'[a] = basis[a]
               /\ a = b => basis'[a].items = taken
               /\ basis'[a] \in Basis
    <2>1. CASE a = b
      <3>1. basis[b].trial + 1 \in 0..MaxTrials
        BY <1>1, Typed, Numbers DEF BasesInv
      <3>2. basis[b] \in Basis /\ basis'[b] = [basis[b] EXCEPT !.trial = basis[b].trial + 1, !.items = taken]
        BY <1>1, <1>2
      <3>3. QED
        BY <1>4, <2>1, <3>1, <3>2 DEF Basis
    <2>2. CASE a # b
      BY <1>1, <1>2, <2>2
    <2>3. QED
      BY <2>1, <2>2
  <1>6. basis' \in [Bases -> Basis]
    BY <1>1, <1>2, <1>5
  <1>7. ItemsTrue'
    <2>1. ASSUME NEW a \in Bases
          PROVE  /\ basis'[a].stamp <= inputs'
                 /\ \A v \in VariantKeys : basis'[a].items[v].status = "ok" =>
                       /\ basis'[a].status # "absent"
                       /\ basis'[a].stamp <= basis'[a].items[v].under /\ basis'[a].items[v].under <= inputs'
      <3>1. CASE a = b
        BY <1>1, <1>3, <1>5, <3>1 DEF BasesInv, BasesFit, ItemsTrue
      <3>2. CASE a # b
        BY <1>1, <1>5, <3>2 DEF BasesInv, BasesFit, ItemsTrue
      <3>3. QED
        BY <3>1, <3>2
    <2>2. QED
      BY <2>1 DEF ItemsTrue
  <1>8. TrialsAreNotMixed'
    <2>1. ASSUME NEW a \in Bases, NEW v \in VariantKeys, basis'[a].items[v].run # 0
          PROVE  basis'[a].items[v].run = basis'[a].trial
      BY <1>3, <1>5, <2>1 DEF BasesInv, BasesFit, TrialsAreNotMixed
    <2>2. QED
      BY <2>1 DEF TrialsAreNotMixed
  <1>9. PromotedAsTried'
    BY <1>1, <1>5, PromotedKept DEF BasesInv, BasesFit
  <1>10. ActiveIsOne' /\ LiveDiffer'
    BY <1>5 DEF BasesInv, BasesFit, ActiveIsOne, Active, LiveDiffer, Live
  <1>11. BasesFit'
    BY <1>7, <1>8, <1>9, <1>10 DEF BasesFit
  <1>12. QED
    BY <1>1, <1>5, <1>6, <1>11, BasisStepKeeps

-----------------------------------------------------------------------------
(* Steps of one request.                                                   *)

\* Steps that change nothing but the request and the row it is granted.
LEMMA RequestStepKeeps ==
    ASSUME BasesInv, NEW r \in Sessions, UNCHANGED <<inputs, basis, pred>>,
           req' \in [Sessions -> Session], lock' \in [VariantKeys -> Sessions \cup {NoSession}],
           project' \in Sessions \cup {NoSession}, RequestFits(r)',
           \A s \in Sessions \ {r} : req'[s] = req[s] /\ Held(s)' = Held(s) /\ (project = s => project' = s)
    PROVE  BasesInv'
  <1>1. BasesTypeOK'
    BY DEF BasesInv, BasesTypeOK
  <1>2. RowsFit' /\ BasesFit' /\ \A v \in VariantKeys : Current(v)' = Current(v)
    BY SameTables DEF BasesInv
  <1>3. ASSUME NEW s \in Sessions \ {r} PROVE RequestFits(s)'
    <2>1. RequestFits(s) /\ BasesTypeOK /\ inputs \in Nat
      BY Typed DEF BasesInv, RequestsFit
    <2>2. \A v \in Held(s) : Current(v)' = Current(v)
      BY <1>2 DEF Held
    <2>3. QED
      BY <2>1, <2>2, Undisturbed
  <1>4. QED
    BY <1>1, <1>2, <1>3 DEF BasesInv, RequestsFit

\* The request alone changes.
LEMMA LocalStepKeeps ==
    ASSUME BasesInv, NEW r \in Sessions, UNCHANGED <<inputs, basis, pred, project, lock>>,
           NEW q \in Session, req' = [req EXCEPT ![r] = q], RequestFits(r)'
    PROVE  BasesInv'
  <1>1. req \in [Sessions -> Session] /\ BasesTypeOK
    BY DEF BasesInv, BasesTypeOK
  <1>2. req' \in [Sessions -> Session] /\ \A s \in Sessions \ {r} : req'[s] = req[s]
    BY <1>1
  <1>3. \A s \in Sessions : Held(s)' = Held(s)
    BY DEF Held
  <1>4. QED
    BY <1>1, <1>2, <1>3, RequestStepKeeps DEF BasesTypeOK

LEMMA AbortKeeps == ASSUME BasesInv, NEW r \in Sessions, Abort(r) PROVE BasesInv'
  <1>1. Ended(r) /\ UNCHANGED <<inputs, basis, pred>> /\ BasesTypeOK
    BY DEF Abort, BasesInv
  <1>2. RequestFits(r)'
    BY <1>1, EndFrees, FreshFits
  <1>3. QED
    BY <1>1, <1>2, EndFrees, RequestStepKeeps

LEMMA BeginTrialKeeps ==
    ASSUME BasesInv, NEW r \in Sessions, NEW b \in Bases, NEW v \in VariantKeys, BeginTrialItem(r, b, v)
    PROVE  BasesInv'
  <1> DEFINE q == [req[r] EXCEPT !.pc = "trying", !.basis = b, !.trial = basis[b].trial,
                                 !.want = v, !.item = basis[b].items[v]]
  <1>1. /\ basis[b].status = "draft" /\ req' = [req EXCEPT ![r] = q]
        /\ UNCHANGED <<inputs, basis, pred, project, lock>>
    BY DEF BeginTrialItem
  <1>2. req \in [Sessions -> Session] /\ req[r] \in Session /\ basis[b].trial \in 0..MaxTrials
        /\ basis[b].items[v] \in Item /\ b # 0
    BY Typed, Numbers DEF BasesInv, BasesTypeOK
  <1>3. q \in Session /\ q.pc = "trying" /\ q.basis = b
    BY <1>2 DEF Session
  <1> HIDE DEF q
  <1>4. req'[r] = q
    BY <1>1, <1>2
  <1>5. RequestFits(r)'
    BY <1>1, <1>2, <1>3, <1>4 DEF RequestFits, TrialFits
  <1>6. QED
    BY <1>1, <1>3, <1>5, LocalStepKeeps

LEMMA CalculateKeeps == ASSUME BasesInv, NEW r \in Sessions, CalculateItem(r) PROVE BasesInv'
  <1>1. PICK result \in Results(req[r].item.pred) :
          req' = [req EXCEPT ![r].pc = "tried",
                             ![r].item = [@ EXCEPT !.status = result, !.run = req[r].trial,
                                          !.under = IF result = "ok" THEN inputs ELSE 0]]
    BY DEF CalculateItem
  <1> DEFINE i == [req[r].item EXCEPT !.status = result, !.run = req[r].trial,
                                      !.under = IF result = "ok" THEN inputs ELSE 0]
             q == [req[r] EXCEPT !.pc = "tried", !.item = i]
  <1>2. req[r].pc = "trying" /\ UNCHANGED <<inputs, basis, pred, project, lock>>
    BY DEF CalculateItem
  <1>3. req \in [Sessions -> Session] /\ req[r] \in Session /\ req[r].item \in Item
        /\ req[r].trial \in 0..MaxTrials /\ inputs \in 0..MaxInputs /\ inputs \in Nat
        /\ req[r].basis \in Bases \cup {0}
    BY Typed DEF BasesInv, BasesTypeOK
  <1>4. result \in {"ok", "kept"}
    BY DEF Results
  <1>5. i \in Item /\ i.run = req[r].trial /\ (i.status = "ok" => i.under = inputs)
    <2>1. 0 \in 0..MaxInputs
      BY Numbers
    <2>2. QED
      BY <1>3, <1>4, <2>1 DEF Item
  <1> HIDE DEF i
  <1>6. q \in Session /\ q.pc = "tried" /\ q.item = i /\ q.basis = req[r].basis /\ q.trial = req[r].trial
    BY <1>3, <1>5 DEF Session
  <1>7. req' = [req EXCEPT ![r] = q]
    BY <1>1, <1>3 DEF i
  <1> HIDE DEF q
  <1>8. req'[r] = q
    BY <1>3, <1>7
  <1>9. TrialFits(r)
    BY <1>2 DEF BasesInv, RequestsFit, RequestFits
  <1>10. basis[req[r].basis].stamp <= inputs
    BY <1>3, <1>9 DEF TrialFits, BasesInv, BasesFit, ItemsTrue
  <1>11. TrialFits(r)'
    BY <1>2, <1>3, <1>5, <1>6, <1>8, <1>9, <1>10 DEF TrialFits
  <1>12. RequestFits(r)'
    BY <1>6, <1>8, <1>11 DEF RequestFits
  <1>13. QED
    BY <1>2, <1>6, <1>7, <1>12, LocalStepKeeps

LEMMA RegisterKeeps ==
    ASSUME BasesInv, NEW r \in Sessions, NEW vs \in SUBSET VariantKeys, NEW g \in BOOLEAN, Register(r, vs, g)
    PROVE  BasesInv'
  <1> DEFINE seen == [v \in VariantKeys |-> IF v \in vs THEN Current(v) ELSE 0]
             q == [req[r] EXCEPT !.pc = "locking", !.todo = vs, !.want = NextInOrder(vs), !.guarded = g,
                                 !.reviewed = seen]
  <1>1. /\ req[r].pc = "idle" /\ vs # {} /\ req' = [req EXCEPT ![r] = q]
        /\ UNCHANGED <<inputs, basis, pred, project, lock>>
    BY DEF Register
  <1>2. req \in [Sessions -> Session] /\ req[r] \in Session /\ req[r] = Fresh
    BY <1>1, Typed DEF BasesInv, BasesTypeOK, RequestsFit, RequestFits
  <1>3. \A v \in VariantKeys : Current(v) \in Preds \cup {0}
    BY CurrentRow DEF BasesInv, RowsFit, Chained
  <1>4. seen \in [VariantKeys -> Preds \cup {0}]
    BY <1>3
  <1>5. NextInOrder(vs) \in VariantKeys /\ NextInOrder(vs) # 0
    BY <1>1, LeastVariant DEF NextInOrder
  <1> HIDE DEF seen
  <1>6. q \in Session /\ q.pc = "locking" /\ q.want # 0 /\ q.basis = req[r].basis /\ q.staged = req[r].staged
    BY <1>2, <1>4, <1>5 DEF Session
  <1>7. req[r].basis = 0 /\ req[r].staged = {}
    BY <1>2 DEF Fresh
  <1> HIDE DEF q
  <1>8. req'[r] = q
    BY <1>1, <1>2
  <1>9. RequestFits(r)'
    BY <1>6, <1>7, <1>8 DEF RequestFits
  <1>10. QED
    BY <1>1, <1>6, <1>9, LocalStepKeeps

LEMMA LockKeeps == ASSUME BasesInv, NEW r \in Sessions, LockVariant(r) PROVE BasesInv'
  <1> DEFINE v == req[r].want
             todo == req[r].todo \ {v}
             q == IF Promoting(r)
                  THEN [req[r] EXCEPT !.pc = "choosing", !.todo = todo, !.want = 0, !.seen[v] = Current(v),
                                      !.staged = IF AsTried(r, v) THEN req[r].staged \cup {v} ELSE req[r].staged]
                  ELSE [req[r] EXCEPT !.pc = IF todo = {} THEN "locked" ELSE "locking",
                                      !.todo = todo, !.want = NextInOrder(todo)]
  <1>1. /\ req[r].pc = "locking" /\ VariantFree(r, v) /\ lock' = [lock EXCEPT ![v] = r]
        /\ req' = [req EXCEPT ![r] = q]
        /\ UNCHANGED <<inputs, basis, pred, project>>
    <2>1. req' = [req EXCEPT ![r] = q]
      BY DEF LockVariant
    <2>2. QED
      BY <2>1 DEF LockVariant
  <1>2. /\ BasesTypeOK /\ req \in [Sessions -> Session] /\ req[r] \in Session /\ lock \in [VariantKeys -> Sessions \cup {NoSession}]
        /\ req[r].todo \subseteq VariantKeys /\ req[r].staged \subseteq VariantKeys
        /\ req[r].seen \in [VariantKeys -> Preds \cup {0}] /\ req[r].basis \in Bases \cup {0}
    BY Typed DEF BasesInv, BasesTypeOK
  <1>3. RequestFits(r) /\ v \in VariantKeys
    BY <1>1, Typed DEF BasesInv, RequestsFit, RequestFits
  <1>4. todo \subseteq VariantKeys /\ todo \subseteq req[r].todo
    BY <1>2
  <1>5. Current(v) \in Preds \cup {0}
    BY <1>3, CurrentRow DEF BasesInv, RowsFit, Chained
  <1>6. lock' \in [VariantKeys -> Sessions \cup {NoSession}] /\ lock'[v] = r
        /\ \A u \in VariantKeys \ {v} : lock'[u] = lock[u]
    BY <1>1, <1>2, <1>3
  <1>7. Held(r)' = Held(r) \cup {v} /\ \A s \in Sessions \ {r} : Held(s)' = Held(s)
    BY <1>1, <1>3, <1>6, Numbers DEF Held, VariantFree
  <1>8. \A u \in VariantKeys : Current(u)' = Current(u)
    BY <1>1 DEF Current, CurrentRows
  <1> HIDE DEF v, todo
  <1>9. CASE Promoting(r)
    <2> DEFINE staged == IF AsTried(r, v) THEN req[r].staged \cup {v} ELSE req[r].staged
               seen == [req[r].seen EXCEPT ![v] = Current(v)]
    <2>1. PromotionFits(r) /\ req[r].basis \in Bases
      BY <1>1, <1>2, <1>3, <1>9 DEF RequestFits, Promoting
    <2>2. staged \subseteq VariantKeys /\ seen \in [VariantKeys -> Preds \cup {0}]
      BY <1>2, <1>3, <1>5
    <2>3. q = [req[r] EXCEPT !.pc = "choosing", !.todo = todo, !.want = 0, !.seen = seen, !.staged = staged]
      BY <1>2, <1>9 DEF Session
    <2>4. seen[v] = Current(v) /\ \A u \in VariantKeys \ {v} : seen[u] = req[r].seen[u]
      BY <1>2, <1>3
    <2>5. staged \subseteq req[r].staged \cup {v} /\ (v \in staged => v \in req[r].staged \/ AsTried(r, v))
      OBVIOUS
    <2> HIDE DEF staged, seen, q
    <2>6. /\ q \in Session /\ q.pc = "choosing" /\ q.basis = req[r].basis /\ q.todo = todo
          /\ q.seen = seen /\ q.staged = staged
      BY <1>2, <1>4, <2>2, <2>3 DEF Session
    <2>7. req' \in [Sessions -> Session] /\ req'[r] = q /\ \A s \in Sessions \ {r} : req'[s] = req[s]
      BY <1>1, <1>2, <2>6
    <2>8. Successful(req[r].basis)' = Successful(req[r].basis) /\ v \in Successful(req[r].basis)
      <3>1. Successful(req[r].basis)' = Successful(req[r].basis)
        BY <1>1, <2>6, <2>7 DEF Successful
      <3>2. QED
        BY <1>1, <2>1, <3>1 DEF PromotionFits, v
    <2>9. ASSUME NEW u \in staged
          PROVE  seen[u] = Current(u) /\ Current(u) = basis[req[r].basis].items[u].pred
      <3>1. CASE u = v
        <4>1. CASE v \in req[r].staged
          BY <2>1, <2>4, <3>1, <4>1 DEF PromotionFits
        <4>2. CASE AsTried(r, v)
          BY <2>4, <3>1, <4>2 DEF AsTried
        <4>3. QED
          BY <2>5, <2>9, <3>1, <4>1, <4>2
      <3>2. CASE u # v
        BY <1>2, <2>1, <2>4, <2>5, <2>9, <3>2 DEF PromotionFits
      <3>3. QED
        BY <3>1, <3>2
    <2>10. PromotionFits(r)'
      <3>1. staged \subseteq Held(r)'
        BY <1>7, <2>1, <2>5 DEF PromotionFits
      <3>2. todo \subseteq Successful(req[r].basis) /\ staged \subseteq Successful(req[r].basis)
        BY <1>4, <2>1, <2>5, <2>8 DEF PromotionFits
      <3>3. \A u \in staged : Current(u)' = Current(u)
        BY <1>8, <2>2
      <3>4. QED
        BY <1>1, <2>1, <2>6, <2>7, <2>8, <2>9, <3>1, <3>2, <3>3 DEF PromotionFits
    <2>11. RequestFits(r)'
      BY <1>9, <2>6, <2>7, <2>10 DEF RequestFits, Promoting
    <2>12. QED
      BY <1>1, <1>2, <1>6, <1>7, <2>7, <2>11, RequestStepKeeps DEF BasesTypeOK
  <1>10. CASE ~Promoting(r)
    <2>1. q = [req[r] EXCEPT !.pc = IF todo = {} THEN "locked" ELSE "locking",
                             !.todo = todo, !.want = NextInOrder(todo)]
      BY <1>10
    <2>2. /\ NextInOrder(todo) \in VariantKeys \cup {0}
          /\ todo # {} => NextInOrder(todo) # 0
      BY <1>4, LeastVariant DEF NextInOrder
    <2> HIDE DEF q
    <2>3. /\ q \in Session /\ q.basis = req[r].basis /\ q.staged = req[r].staged
          /\ q.pc = IF todo = {} THEN "locked" ELSE "locking"
          /\ q.want = NextInOrder(todo)
      BY <1>2, <1>4, <2>1, <2>2 DEF Session
    <2>4. req' \in [Sessions -> Session] /\ req'[r] = q /\ \A s \in Sessions \ {r} : req'[s] = req[s]
      BY <1>1, <1>2, <2>3
    <2>5. req[r].basis = 0 /\ req[r].staged = {}
      BY <1>1, <1>3, <1>10 DEF RequestFits, Promoting
    <2>6. RequestFits(r)'
      BY <2>2, <2>3, <2>4, <2>5 DEF RequestFits
    <2>7. QED
      BY <1>1, <1>2, <1>6, <1>7, <2>4, <2>6, RequestStepKeeps DEF BasesTypeOK
  <1>11. QED
    BY <1>9, <1>10

LEMMA ReadKeeps == ASSUME BasesInv, NEW r \in Sessions, ReadCurrent(r) PROVE BasesInv'
  <1> DEFINE seen == [v \in VariantKeys |-> IF v \in Held(r) THEN Current(v) ELSE 0]
             q == [req[r] EXCEPT !.pc = "read", !.seen = seen]
  <1>1. req[r].pc = "locked" /\ UNCHANGED <<inputs, basis, pred>>
    BY DEF ReadCurrent
  <1>2. BasesTypeOK /\ req \in [Sessions -> Session] /\ req[r] \in Session
    BY Typed DEF BasesInv, BasesTypeOK
  <1>3. CASE Ended(r)
    BY <1>1, <1>2, <1>3, EndFrees, FreshFits, RequestStepKeeps
  <1>4. CASE ~Ended(r)
    <2>1. /\ ~Changed(r, seen) /\ req' = [req EXCEPT ![r].pc = "read", ![r].seen = seen]
          /\ UNCHANGED <<project, lock>>
      BY <1>4 DEF ReadCurrent
    <2>2. req' = [req EXCEPT ![r] = q]
      BY <1>2, <2>1
    <2>3. \A v \in VariantKeys : Current(v) \in Preds \cup {0}
      BY CurrentRow DEF BasesInv, RowsFit, Chained
    <2>4. seen \in [VariantKeys -> Preds \cup {0}] /\ \A v \in Held(r) : seen[v] = Current(v)
      BY <2>3 DEF Held
    <2> HIDE DEF seen
    <2>5. /\ q \in Session /\ q.pc = "read" /\ q.seen = seen /\ q.basis = req[r].basis /\ q.staged = req[r].staged
          /\ q.guarded = req[r].guarded /\ q.reviewed = req[r].reviewed
      BY <1>2, <2>4 DEF Session
    <2> HIDE DEF q
    <2>6. req'[r] = q
      BY <1>2, <2>2
    <2>7. req[r].basis = 0 /\ req[r].staged = {}
      BY <1>1 DEF BasesInv, RequestsFit, RequestFits
    <2>8. Held(r)' = Held(r) /\ \A v \in VariantKeys : Current(v)' = Current(v)
      BY <1>1, <2>1 DEF Held, Current, CurrentRows
    <2>9. RequestFits(r)'
      BY <2>1, <2>4, <2>5, <2>6, <2>7, <2>8 DEF RequestFits, Changed, Held
    <2>10. QED
      BY <1>1, <2>1, <2>2, <2>5, <2>9, LocalStepKeeps
  <1>5. QED
    BY <1>3, <1>4

LEMMA BeginPromotionKeeps ==
    ASSUME BasesInv, NEW r \in Sessions, NEW b \in Bases, BeginPromotion(r, b)
    PROVE  BasesInv'
  <1> DEFINE q == [req[r] EXCEPT !.pc = "choosing", !.basis = b, !.todo = Successful(b)]
  <1>1. /\ req[r].pc = "idle" /\ project = NoSession /\ basis[b].status = "draft" /\ project' = r
        /\ req' = [req EXCEPT ![r] = q]
        /\ UNCHANGED <<inputs, basis, pred, lock>>
    BY DEF BeginPromotion
  <1>2. req \in [Sessions -> Session] /\ req[r] \in Session /\ req[r] = Fresh /\ BasesTypeOK
    BY <1>1, Typed DEF BasesInv, BasesTypeOK, RequestsFit, RequestFits
  <1>3. Successful(b) \subseteq VariantKeys /\ Successful(b)' = Successful(b)
    BY <1>1 DEF Successful
  <1>4. q \in Session /\ q.pc = "choosing" /\ q.basis = b /\ q.todo = Successful(b) /\ q.staged = req[r].staged
    BY <1>2, <1>3 DEF Session
  <1>5. req[r].staged = {} /\ b # 0
    BY <1>2, Numbers DEF Fresh
  <1> HIDE DEF q
  <1>6. req' \in [Sessions -> Session] /\ req'[r] = q /\ \A s \in Sessions \ {r} : req'[s] = req[s]
    BY <1>1, <1>2, <1>4
  <1>7. PromotionFits(r)'
    BY <1>1, <1>3, <1>4, <1>5, <1>6 DEF PromotionFits
  <1>8. RequestFits(r)'
    BY <1>4, <1>5, <1>6, <1>7 DEF RequestFits
  <1>9. \A s \in Sessions : Held(s)' = Held(s) /\ project # s
    BY <1>1, Numbers DEF Held
  <1>10. QED
    BY <1>1, <1>2, <1>6, <1>8, <1>9, RequestStepKeeps DEF BasesTypeOK

LEMMA NextItemKeeps == ASSUME BasesInv, NEW r \in Sessions, NextItem(r) PROVE BasesInv'
  <1>1. PICK v \in req[r].todo : req' = [req EXCEPT ![r] = [@ EXCEPT !.pc = "locking", !.want = v]]
    BY DEF NextItem
  <1> DEFINE q == [req[r] EXCEPT !.pc = "locking", !.want = v]
  <1>2. req[r].pc = "choosing" /\ UNCHANGED <<inputs, basis, pred, project, lock>>
    BY DEF NextItem
  <1>3. req \in [Sessions -> Session] /\ req[r] \in Session /\ req[r].todo \subseteq VariantKeys
    BY Typed DEF BasesInv, BasesTypeOK
  <1>4. v \in VariantKeys /\ v # 0
    BY <1>1, <1>3, Numbers
  <1>5. /\ q \in Session /\ q.pc = "locking" /\ q.want = v /\ q.basis = req[r].basis /\ q.staged = req[r].staged
        /\ q.todo = req[r].todo /\ q.seen = req[r].seen
    BY <1>3, <1>4 DEF Session
  <1>6. req' = [req EXCEPT ![r] = q]
    BY <1>1, <1>3
  <1> HIDE DEF q
  <1>7. req'[r] = q
    BY <1>3, <1>6
  <1>8. PromotionFits(r) /\ req[r].basis # 0
    BY <1>2 DEF BasesInv, RequestsFit, RequestFits
  <1>9. /\ Held(r)' = Held(r) /\ Successful(req[r].basis)' = Successful(req[r].basis)
        /\ \A u \in req[r].staged : Current(u)' = Current(u)
    BY <1>2, <1>5, <1>7 DEF Held, Successful, Current, CurrentRows
  <1>10. PromotionFits(r)'
    BY <1>1, <1>2, <1>5, <1>7, <1>8, <1>9 DEF PromotionFits
  <1>11. RequestFits(r)'
    BY <1>4, <1>5, <1>7, <1>8, <1>10 DEF RequestFits
  <1>12. QED
    BY <1>2, <1>5, <1>6, <1>11, LocalStepKeeps

-----------------------------------------------------------------------------
(* Steps that end a transaction and change rows.                           *)

\* What the others see of such a step of r.
LEMMA CommitKeeps ==
    ASSUME BasesInv, NEW r \in Sessions, Ended(r), UNCHANGED inputs,
           basis' \in [Bases -> Basis], pred' \in [Preds -> Prediction], RowsFit', BasesFit',
           \A b \in Bases : basis[b].status # "absent" =>
               basis'[b].status # "absent" /\ basis'[b].stamp = basis[b].stamp,
           project \in {NoSession, r} \/ UNCHANGED basis,
           \A v \in VariantKeys : lock[v] # r => Current(v)' = Current(v)
    PROVE  BasesInv'
  <1>1. BasesTypeOK /\ inputs \in Nat
    BY Typed DEF BasesInv
  <1>2. BasesTypeOK'
    BY <1>1, EndFrees DEF BasesTypeOK
  <1>3. RequestFits(r)'
    BY <1>1, EndFrees, FreshFits
  <1>4. ASSUME NEW s \in Sessions \ {r} PROVE RequestFits(s)'
    <2>1. RequestFits(s)
      BY DEF BasesInv, RequestsFit
    <2>2. req'[s] = req[s] /\ Held(s)' = Held(s) /\ (project = s => project' = s)
      BY <1>1, EndFrees
    <2>3. \A v \in Held(s) : Current(v)' = Current(v)
      BY DEF Held
    <2>4. project = s => UNCHANGED basis
      BY Numbers
    <2>5. QED
      BY <1>1, <2>1, <2>2, <2>3, <2>4, Undisturbed
  <1>5. QED
    BY <1>2, <1>3, <1>4 DEF BasesInv, RequestsFit

LEMMA StoreKeeps == ASSUME BasesInv, NEW r \in Sessions, StoreTrialItem(r) PROVE BasesInv'
  <1> DEFINE b == req[r].basis
             v == req[r].want
             i == req[r].item
  <1>1. /\ req[r].pc = "tried" /\ project = NoSession /\ Ended(r) /\ UNCHANGED <<inputs, pred>>
    BY DEF StoreTrialItem
  <1>2. /\ BasesTypeOK /\ basis \in [Bases -> Basis] /\ i \in Item /\ v \in VariantKeys \cup {0}
        /\ pred \in [Preds -> Prediction]
    BY Typed DEF BasesInv, BasesTypeOK
  <1>3. TrialFits(r) /\ b \in Bases
    BY <1>1, <1>2, Typed DEF BasesInv, RequestsFit, RequestFits, TrialFits
  <1>4. RowsFit' /\ \A u \in VariantKeys : Current(u)' = Current(u)
    BY <1>1, SameRows DEF BasesInv
  <1>5. CASE UNCHANGED basis
    <2>1. BasesFit'
      BY <1>1, <1>5, SameTables DEF BasesInv
    <2>2. QED
      BY <1>1, <1>2, <1>4, <1>5, <2>1, CommitKeeps
  <1>6. CASE basis[b].status = "draft" /\ SameTrial(r) /\ basis' = [basis EXCEPT ![b].items[v] = i]
    <2> DEFINE stored == [basis[b].items EXCEPT ![v] = i]
    <2>1. basis[b].items \in [VariantKeys -> Item] /\ basis[b] \in Basis
      BY <1>2, <1>3, Typed
    <2>2. stored \in [VariantKeys -> Item]
      BY <1>2, <2>1
    <2>3. \A u \in VariantKeys : stored[u] = basis[b].items[u] \/ stored[u] = i
      BY <2>1
    <2>4. basis' = [basis EXCEPT ![b] = [@ EXCEPT !.items = stored]]
      BY <1>2, <1>3, <1>6
    <2> HIDE DEF stored
    <2>5. ASSUME NEW a \in Bases
          PROVE  /\ basis'[a].content = basis[a].content /\ basis'[a].stamp = basis[a].stamp
                 /\ basis'[a].status = basis[a].status /\ basis'[a].trial = basis[a].trial
                 /\ a # b => basis'[a] = basis[a]
                 /\ a = b => basis'[a].items = stored
                 /\ basis'[a] \in Basis
      BY <1>2, <2>1, <2>2, <2>4 DEF Basis
    <2>6. basis' \in [Bases -> Basis]
      BY <1>2, <2>4, <2>5
    <2>7. i.run = basis[b].trial /\ (i.status = "ok" => basis[b].stamp <= i.under /\ i.under <= inputs)
      BY <1>1, <1>3, <1>6 DEF TrialFits, SameTrial
    <2>8. ItemsTrue'
      <3>1. ASSUME NEW a \in Bases
            PROVE  /\ basis'[a].stamp <= inputs'
                   /\ \A u \in VariantKeys : basis'[a].items[u].status = "ok" =>
                         /\ basis'[a].status # "absent"
                         /\ basis'[a].stamp <= basis'[a].items[u].under /\ basis'[a].items[u].under <= inputs'
        <4>1. CASE a = b
          BY <1>1, <1>6, <2>3, <2>5, <2>7, <4>1 DEF BasesInv, BasesFit, ItemsTrue
        <4>2. CASE a # b
          BY <1>1, <2>5, <4>2 DEF BasesInv, BasesFit, ItemsTrue
        <4>3. QED
          BY <4>1, <4>2
      <3>2. QED
        BY <3>1 DEF ItemsTrue
    <2>9. TrialsAreNotMixed'
      <3>1. ASSUME NEW a \in Bases, NEW u \in VariantKeys, basis'[a].items[u].run # 0
            PROVE  basis'[a].items[u].run = basis'[a].trial
        BY <2>3, <2>5, <2>7, <3>1 DEF BasesInv, BasesFit, TrialsAreNotMixed
      <3>2. QED
        BY <3>1 DEF TrialsAreNotMixed
    <2>10. PromotedAsTried'
      BY <1>1, <1>2, <1>6, <2>5, PromotedKept DEF BasesInv, BasesFit
    <2>11. ActiveIsOne' /\ LiveDiffer'
      BY <2>5 DEF BasesInv, BasesFit, ActiveIsOne, Active, LiveDiffer, Live
    <2>12. BasesFit'
      BY <2>8, <2>9, <2>10, <2>11 DEF BasesFit
    <2>13. QED
      BY <1>1, <1>2, <1>4, <2>5, <2>6, <2>12, CommitKeeps
  <1>7. QED
    BY <1>5, <1>6 DEF StoreTrialItem

LEMMA CommitRegistrationKeeps ==
    ASSUME BasesInv, NEW r \in Sessions, CommitRegistration(r)
    PROVE  BasesInv'
  <1>1. PICK vs \in SUBSET Held(r) : Room(vs) /\ pred' = Registered(r, vs, [v \in vs |-> 0])
    BY DEF CommitRegistration
  <1> DEFINE origin == [v \in vs |-> 0]
  <1>2. /\ req[r].pc = "read" /\ Ended(r) /\ UNCHANGED <<inputs, basis>> /\ BasesTypeOK /\ RowsFit
        /\ basis \in [Bases -> Basis]
    BY DEF CommitRegistration, BasesInv, BasesTypeOK
  <1>3. vs \in SUBSET VariantKeys /\ origin \in [vs -> 0..MaxInputs]
    BY <1>1, Numbers DEF Held
  <1>4. req[r].basis = 0 /\ \A v \in vs : req[r].seen[v] = Current(v)
    BY <1>1, <1>2 DEF BasesInv, RequestsFit, RequestFits
  <1>5. pred' = Registered(r, vs, origin)
    BY <1>1
  <1> HIDE DEF origin
  <1>6. /\ pred' \in [Preds -> Prediction] /\ RowsFit'
        /\ \A u \in VariantKeys \ vs : Current(u)' = Current(u)
        /\ \A p \in Preds : \/ /\ pred'[p].basis = pred[p].basis /\ pred'[p].under = pred[p].under
                               /\ pred'[p].supersedes = pred[p].supersedes /\ pred'[p].variant = pred[p].variant
                            \/ \E v \in vs : pred'[p] = NewRow(r, v, origin)
    <2>1. Room(vs)
      BY <1>1
    <2>2. QED
      BY <1>2, <1>3, <1>4, <1>5, <2>1, RegistrationKeepsRows
  <1>7. PromotedAsTried'
    <2>1. ASSUME NEW p \in Preds, pred'[p].basis # 0
          PROVE  /\ pred'[p].under = basis[pred'[p].basis].stamp
                 /\ pred'[p].supersedes = basis[pred'[p].basis].items[pred'[p].variant].pred
                 /\ basis[pred'[p].basis].status \in {"active", "retired"}
      <3>1. \A v \in vs : NewRow(r, v, origin).basis = 0
        BY <1>4 DEF NewRow
      <3>2. /\ pred'[p].basis = pred[p].basis /\ pred'[p].under = pred[p].under
            /\ pred'[p].supersedes = pred[p].supersedes /\ pred'[p].variant = pred[p].variant
        BY <1>6, <2>1, <3>1
      <3>3. QED
        BY <2>1, <3>2 DEF BasesInv, BasesFit, PromotedAsTried
    <2>2. QED
      BY <1>2, <2>1 DEF PromotedAsTried
  <1>8. BasesFit'
    BY <1>2, <1>7 DEF BasesInv, BasesFit, ItemsTrue, TrialsAreNotMixed, ActiveIsOne, Active, LiveDiffer, Live
  <1>9. \A v \in VariantKeys : lock[v] # r => Current(v)' = Current(v)
    BY <1>1, <1>6 DEF Held
  <1>10. QED
    BY <1>2, <1>6, <1>8, <1>9, CommitKeeps

\* What a promotion registers was tried under the inputs its basis froze.
LEMMA FinishKeeps == ASSUME BasesInv, NEW r \in Sessions, FinishPromotion(r) PROVE BasesInv'
  <1> DEFINE b == req[r].basis
             staged == req[r].staged
             origin == [v \in staged |-> basis[b].items[v].under]
  <1>1. /\ req[r].pc = "choosing" /\ Ended(r) /\ UNCHANGED inputs /\ BasesTypeOK /\ RowsFit
        /\ basis \in [Bases -> Basis] /\ pred \in [Preds -> Prediction]
    BY DEF FinishPromotion, BasesInv, BasesTypeOK
  <1>2. PromotionFits(r) /\ b \in Bases /\ staged \in SUBSET VariantKeys
    BY <1>1, Typed DEF BasesInv, RequestsFit, RequestFits
  <1>3. CASE UNCHANGED <<basis, pred>>
    BY <1>1, <1>3, SameTables, CommitKeeps DEF BasesInv
  <1>4. CASE /\ InputsUnchanged(b) /\ Room(staged)
             /\ pred' = Registered(r, staged, origin) /\ basis' = Activated(b)
    <2>1. origin \in [staged -> 0..MaxInputs]
      BY <1>1, <1>2, Typed
    <2>2. \A v \in staged : req[r].seen[v] = Current(v)
      BY <1>2 DEF PromotionFits
    <2>3. \A v \in staged : origin[v] = basis[b].items[v].under
      OBVIOUS
    <2> HIDE DEF origin
    <2>4. /\ pred' \in [Preds -> Prediction] /\ RowsFit'
          /\ \A u \in VariantKeys \ staged : Current(u)' = Current(u)
          /\ \A p \in Preds : \/ /\ pred'[p].basis = pred[p].basis /\ pred'[p].under = pred[p].under
                                 /\ pred'[p].supersedes = pred[p].supersedes /\ pred'[p].variant = pred[p].variant
                              \/ \E v \in staged : pred'[p] = NewRow(r, v, origin)
      BY <1>1, <1>2, <1>4, <2>1, <2>2, RegistrationKeepsRows
    <2>5. basis[b].status = "draft" /\ MayActivate(b)
      BY <1>2 DEF PromotionFits, MayActivate
    <2>6. /\ basis' \in [Bases -> Basis]
          /\ \A a \in Bases : /\ basis'[a].stamp = basis[a].stamp /\ basis'[a].items = basis[a].items
                              /\ basis[a].status # "absent" => basis'[a].status # "absent"
                              /\ basis[a].status \in {"active", "retired"} => basis'[a].status \in {"active", "retired"}
          /\ basis'[b].status = "active"
          /\ ItemsTrue' /\ TrialsAreNotMixed' /\ ActiveIsOne' /\ LiveDiffer'
      BY <1>1, <1>2, <1>4, <2>5, Activation
    <2>7. ASSUME NEW v \in staged
          PROVE  origin[v] = basis[b].stamp /\ req[r].seen[v] = basis[b].items[v].pred
      <3>1. basis[b].items[v].status = "ok" /\ v \in VariantKeys
        BY <1>2 DEF PromotionFits, Successful
      <3>2. basis[b].stamp <= basis[b].items[v].under /\ basis[b].items[v].under <= inputs /\ basis[b].stamp = inputs
        BY <1>2, <1>4, <3>1 DEF BasesInv, BasesFit, ItemsTrue, InputsUnchanged
      <3>3. basis[b].items[v].under \in Nat /\ inputs \in Nat
        BY <1>1, <1>2, <3>1, Typed, Numbers
      <3>4. req[r].seen[v] = basis[b].items[v].pred
        BY <1>2 DEF PromotionFits
      <3>5. QED
        BY <2>3, <3>2, <3>3, <3>4
    <2>8. PromotedAsTried'
      <3>1. ASSUME NEW p \in Preds, pred'[p].basis # 0
            PROVE  /\ pred'[p].under = basis'[pred'[p].basis].stamp
                   /\ pred'[p].supersedes = basis'[pred'[p].basis].items[pred'[p].variant].pred
                   /\ basis'[pred'[p].basis].status \in {"active", "retired"}
        <4>1. CASE \E v \in staged : pred'[p] = NewRow(r, v, origin)
          <5>1. PICK v \in staged : pred'[p] = NewRow(r, v, origin)
            BY <4>1
          <5>2. /\ pred'[p].basis = b /\ pred'[p].variant = v /\ pred'[p].under = origin[v]
                /\ pred'[p].supersedes = req[r].seen[v]
            BY <5>1 DEF NewRow
          <5>3. QED
            BY <1>2, <2>6, <2>7, <5>2
        <4>2. CASE /\ pred'[p].basis = pred[p].basis /\ pred'[p].under = pred[p].under
                   /\ pred'[p].supersedes = pred[p].supersedes /\ pred'[p].variant = pred[p].variant
          <5>1. pred[p].basis \in Bases
            BY <1>1, <3>1, <4>2, Typed
          <5>2. /\ pred[p].under = basis[pred[p].basis].stamp
                /\ pred[p].supersedes = basis[pred[p].basis].items[pred[p].variant].pred
                /\ basis[pred[p].basis].status \in {"active", "retired"}
            BY <3>1, <4>2 DEF BasesInv, BasesFit, PromotedAsTried
          <5>3. QED
            BY <2>6, <4>2, <5>1, <5>2
        <4>3. QED
          BY <2>4, <4>1, <4>2
      <3>2. QED
        BY <3>1 DEF PromotedAsTried
    <2>9. BasesFit'
      BY <2>6, <2>8 DEF BasesFit
    <2>10. \A v \in VariantKeys : lock[v] # r => Current(v)' = Current(v)
      BY <1>2, <2>4 DEF PromotionFits, Held
    <2>11. project = r
      BY <1>2 DEF PromotionFits
    <2>12. QED
      BY <1>1, <2>4, <2>6, <2>9, <2>10, <2>11, CommitKeeps
  <1>5. QED
    BY <1>3, <1>4 DEF FinishPromotion

-----------------------------------------------------------------------------
(* The theorems.                                                           *)

LEMMA StepKeeps == BasesInv /\ [BasesNext]_basesVars => BasesInv'
  <1> SUFFICES ASSUME BasesInv, [BasesNext]_basesVars PROVE BasesInv'
    OBVIOUS
  <1>1. CASE UNCHANGED basesVars
    <2>1. UNCHANGED <<inputs, basis, pred, project, lock, req>>
      BY <1>1 DEF basesVars
    <2>2. BasesTypeOK' /\ RowsFit' /\ BasesFit'
      BY <2>1, SameTables DEF BasesInv, BasesTypeOK
    <2>3. ASSUME NEW s \in Sessions PROVE RequestFits(s)'
      <3>1. RequestFits(s) /\ BasesTypeOK /\ inputs \in Nat /\ Held(s)' = Held(s)
        BY <2>1, Typed DEF BasesInv, RequestsFit, Held
      <3>2. \A v \in Held(s) : Current(v)' = Current(v)
        BY <2>1 DEF Current, CurrentRows
      <3>3. QED
        BY <2>1, <3>1, <3>2, Undisturbed
    <2>4. QED
      BY <2>2, <2>3 DEF BasesInv, RequestsFit
  <1>2. CASE EditInputs
    BY <1>2, EditKeeps
  <1>3. CASE \E c \in Contents : CreateBasis(c)
    BY <1>3, CreateKeeps
  <1>4. CASE \E b \in Bases : ActivateBasis(b) \/ RetireBasis(b) \/ StartTrial(b)
    BY <1>4, ActivateKeeps, RetireKeeps, StartTrialKeeps
  <1>5. ASSUME NEW r \in Sessions, NEW b \in Bases, NEW v \in VariantKeys, BeginTrialItem(r, b, v) PROVE BasesInv'
    BY <1>5, BeginTrialKeeps
  <1>6. ASSUME NEW r \in Sessions, NEW b \in Bases, BeginPromotion(r, b) PROVE BasesInv'
    BY <1>6, BeginPromotionKeeps
  <1>7. ASSUME NEW r \in Sessions, NEW vs \in SUBSET VariantKeys, NEW g \in BOOLEAN, Register(r, vs, g) PROVE BasesInv'
    BY <1>7, RegisterKeeps
  <1>8. ASSUME NEW r \in Sessions, LockStep(r) PROVE BasesInv'
    BY <1>8, StoreKeeps, LockKeeps DEF LockStep
  <1>9. ASSUME NEW r \in Sessions, RequestStep(r) PROVE BasesInv'
    BY <1>9, CalculateKeeps, ReadKeeps, CommitRegistrationKeeps, NextItemKeeps, FinishKeeps DEF RequestStep
  <1>10. ASSUME NEW r \in Sessions, Abort(r) \/ EndDeadlock(r) PROVE BasesInv'
    BY <1>10, AbortKeeps DEF EndDeadlock
  <1>11. QED
    BY <1>1, <1>2, <1>3, <1>4, <1>5, <1>6, <1>7, <1>8, <1>9, <1>10 DEF BasesNext

\* What every step of the bases and of the register keeps.
THEOREM BasesInvariant == BasesSpec => []BasesInv
  <1>1. QED
    BY InitEstablishes, StepKeeps, PTL DEF BasesSpec

\* Every variable of ModelBases keeps its type.
THEOREM TypeCorrect == BasesSpec => []BasesTypeOK
  <1>1. BasesInv => BasesTypeOK
    BY DEF BasesInv
  <1>2. QED
    BY <1>1, BasesInvariant, PTL

\* The predictions of a variant form one chain whatever registrations and
\* promotions overlap (promote).
THEOREM History == BasesSpec => []HistoryIsAChain
  <1>1. ASSUME BasesInv PROVE HistoryIsAChain
    <2>1. BasesTypeOK /\ AtMostOneCurrent /\ AbsentIsBlank /\ LinksGoBack /\ LinksDiffer /\ SupersededAreLinked
      BY <1>1 DEF BasesInv, RowsFit, Chained
    <2>2. ASSUME NEW v \in VariantKeys PROVE Cardinality(CurrentRows(v)) <= 1
      <3>1. CASE CurrentRows(v) = {}
        BY <3>1, FS_EmptySet
      <3>2. CASE CurrentRows(v) # {}
        <4>1. PICK p : p \in CurrentRows(v)
          BY <3>2
        <4>2. CurrentRows(v) = {p}
          BY <2>1, <4>1 DEF CurrentRows, AtMostOneCurrent
        <4>3. QED
          BY <4>2, FS_Singleton
      <3>3. QED
        BY <3>1, <3>2
    <2>3. ASSUME NEW p \in Preds
          PROVE  Cardinality({q \in Preds : pred[q].supersedes = p /\ pred[q].variant = pred[p].variant})
                     = IF pred[p].status = "superseded" THEN 1 ELSE 0
      <3> DEFINE S == {q \in Preds : pred[q].supersedes = p /\ pred[q].variant = pred[p].variant}
      <3>1. CASE pred[p].status = "superseded"
        <4>1. PICK q \in Preds : pred[q].supersedes = p
          BY <2>1, <3>1 DEF SupersededAreLinked
        <4>2. pred[q].variant = pred[p].variant
          BY <2>1, <4>1, Numbers DEF LinksGoBack
        <4>3. \A u \in Preds : pred[u].supersedes = p => u = q
          BY <2>1, <4>1, Numbers DEF LinksDiffer
        <4>4. S = {q}
          BY <4>1, <4>2, <4>3
        <4>5. QED
          BY <3>1, <4>4, FS_Singleton
      <3>2. CASE pred[p].status # "superseded"
        <4>1. S = {}
          BY <2>1, <3>2, Numbers DEF LinksGoBack
        <4>2. QED
          BY <3>2, <4>1, FS_EmptySet
      <3>3. QED
        BY <3>1, <3>2
    <2>4. QED
      BY <2>2, <2>3 DEF HistoryIsAChain
  <1>2. QED
    BY <1>1, BasesInvariant, PTL

\* What a request compared with its review or its trial is still current when
\* it commits (promote, under the row locks of its variants).
THEOREM Reviews == BasesSpec => []ReviewStands
  <1>1. ASSUME BasesInv PROVE ReviewStands
    <2>1. ASSUME NEW r \in Sessions, req[r].pc = "read", NEW v \in Held(r)
          PROVE  req[r].seen[v] = Current(v) /\ (req[r].guarded => req[r].reviewed[v] = Current(v))
      BY <1>1, <2>1 DEF BasesInv, RequestsFit, RequestFits
    <2>2. ASSUME NEW r \in Sessions, req[r].pc \in {"choosing", "locking"}, NEW v \in req[r].staged
          PROVE  Current(v) = basis[req[r].basis].items[v].pred
      <3>1. PromotionFits(r)
        BY <1>1, <2>2 DEF BasesInv, RequestsFit, RequestFits
      <3>2. QED
        BY <2>2, <3>1 DEF PromotionFits
    <2>3. QED
      BY <2>1, <2>2 DEF ReviewStands
  <1>2. QED
    BY <1>1, BasesInvariant, PTL

\* A promoted number was calculated under the inputs its basis froze, for the
\* prediction it replaced, and a result of an earlier trial never enters a
\* later one (promote_basis, run_trial_item).
THEOREM Trials == BasesSpec => []TrialsHold
  <1>1. BasesInv => TrialsHold
    BY DEF BasesInv, BasesFit, TrialsHold
  <1>2. QED
    BY <1>1, BasesInvariant, PTL

\* Overlapping activations and promotions leave one active basis, and no two
\* bases that can still be used have the same content and inputs
\* (activate_basis, create_basis).
THEOREM OneBasis == BasesSpec => []OneActiveBasis
  <1>1. ASSUME BasesInv PROVE OneActiveBasis
    <2>1. ActiveIsOne /\ LiveDiffer
      BY <1>1 DEF BasesInv, BasesFit
    <2>2. Cardinality(Active) <= 1
      <3>1. CASE Active = {}
        BY <3>1, FS_EmptySet
      <3>2. CASE Active # {}
        <4>1. PICK a : a \in Active
          BY <3>2
        <4>2. Active = {a}
          BY <2>1, <4>1 DEF ActiveIsOne
        <4>3. Cardinality(Active) = 1
          BY <4>2, FS_Singleton
        <4>4. QED
          BY <4>3
      <3>3. QED
        BY <3>1, <3>2
    <2>3. QED
      BY <2>1, <2>2 DEF OneActiveBasis, LiveDiffer
  <1>2. QED
    BY <1>1, BasesInvariant, PTL
=============================================================================
