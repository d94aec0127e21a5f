-------------------------- MODULE VariantResolution -------------------------
(***************************************************************************)
(* How a variant is read with what it inherits:                            *)
(* db/repositories/variant_resolution.py.  The rows are fetched round by   *)
(* round, each round with a query that sees what is committed then; then   *)
(* the chain of parents is followed through what was fetched, and the rows *)
(* on it are merged from the eldest to the variant.  Reviewed writes and   *)
(* the loader may change rows between two rounds.                          *)
(*                                                                         *)
(* Of the fields, conditions stand for those that are merged in depth,     *)
(* override for the conditions that a row sets after its own, patch for the*)
(* lists of topology_patch and routing_switch, which only grow; tags are   *)
(* merged like such a list.  A value is a leaf or a dictionary of leaves.  *)
(***************************************************************************)
EXTENDS Naturals, FiniteSets, Sequences, FiniteSetsExt

CONSTANTS VariantIds,
          Absent,        \* no row, no variant
          Writable,      \* the rows that may be written: id, parent, content
          MaxOverwrites  \* bound: commits while a request reads

VARIABLES table,      \* the rows that are committed
          overwrites, \* how many commits there were
          reader,     \* a request: the rows it knows
          lookup      \* how one of its variants is resolved

resolutionVars == <<table, overwrites, reader, lookup>>

NoKeys == [k \in {} |-> Absent]
Leaf(x) == [isDict |-> FALSE, leaf |-> x, sub |-> NoKeys]
Dict(f) == [isDict |-> TRUE, leaf |-> Absent, sub |-> f]

IsTable(f) == f = [k \in DOMAIN f |-> f[k]]
IsValue(x) == (x.isDict /\ x = Dict(x.sub) /\ IsTable(x.sub)) \/ (~x.isDict /\ x = Leaf(x.leaf))
IsDictionary(d) == IsTable(d) /\ \A k \in DOMAIN d : IsValue(d[k])
IsContent(c) == IsDictionary(c.conditions) /\ IsDictionary(c.override) /\ c.patch \in Seq(Range(c.patch))

ASSUME ResolutionAssumption ==
    /\ IsFiniteSet(VariantIds) /\ Absent \notin VariantIds /\ Absent \notin Writable
    /\ \A row \in Writable : row.id \in VariantIds /\ row.parent \in VariantIds \cup {Absent} /\ IsContent(row.content)

Exists(x) == x # Absent
RowsFor(v) == {row \in Writable : row.id = v}
StoredTables == {t \in [VariantIds -> {Absent} \cup Writable] : \A v \in VariantIds : Exists(t[v]) => t[v].id = v}
Unmerged == [conditions |-> NoKeys, override |-> NoKeys, patch |-> <<>>]

ResolutionInit ==
    /\ table \in StoredTables
    /\ overwrites = 0
    /\ reader = [at |-> "idle", wants |-> {}, known |-> {}, requested |-> {}, seen |-> {}]
    /\ lookup = [of |-> Absent, current |-> Absent, chain |-> <<>>, next |-> 0, merged |-> Unmerged]

-----------------------------------------------------------------------------
\* Operators whose names begin with Faulty are plausible mistakes in the
\* definition they precede; nothing here uses them (README, "Mutants").

Committed == {table[v] : v \in {u \in VariantIds : Exists(table[u])}}
Ids(found) == {row.id : row \in found}

\* A write of one row, or its removal.
Overwrite == /\ overwrites < MaxOverwrites
             /\ overwrites' = overwrites + 1
             /\ \E v \in VariantIds : \E row \in {Absent} \cup RowsFor(v) :
                   row # table[v] /\ table' = [table EXCEPT ![v] = row]
             /\ reader' = [reader EXCEPT !.seen = @ \cup Committed']
             /\ UNCHANGED lookup

RequestVariants(vs) ==
    /\ reader.at = "idle"
    /\ reader' = [at |-> "fetching", wants |-> vs, known |-> {row \in Committed : row.id \in vs},
                  requested |-> {}, seen |-> Committed]
    /\ UNCHANGED <<table, overwrites, lookup>>

\* include_variant_parent_rows: parents that are neither known nor asked for yet.
Needed == {row.parent : row \in reader.known} \ (Ids(reader.known) \cup reader.requested \cup {Absent})
FetchParents == /\ reader.at = "fetching"
                /\ Needed # {}
                /\ reader' = [reader EXCEPT !.requested = @ \cup Needed,
                                            !.known = @ \cup {row \in Committed : row.id \in Needed}]
                /\ UNCHANGED <<table, overwrites, lookup>>

\* Each of the variants is resolved in the same rows: here, any one of them.
Resolve(v) == /\ reader.at = "fetching" /\ Needed = {} /\ v \in reader.wants
              /\ reader' = [reader EXCEPT !.at = IF v \in Ids(reader.known) THEN "climbing" ELSE "not found"]
              /\ lookup' = [lookup EXCEPT !.of = v, !.current = v]
              /\ UNCHANGED <<table, overwrites>>

-----------------------------------------------------------------------------
(* The chain of parents (_inheritance_chain), from the eldest to the variant. *)

RowIn(found, v) == CHOOSE row \in found : row.id = v

Climb == /\ reader.at = "climbing"
         /\ lookup.current \in Ids(reader.known) \ Range(lookup.chain)
         /\ lookup' = [lookup EXCEPT !.chain = <<lookup.current>> \o @,
                                     !.current = RowIn(reader.known, lookup.current).parent]
         /\ UNCHANGED <<table, overwrites, reader>>

StopClimbing == /\ reader.at = "climbing"
                /\ \/ /\ lookup.current = Absent
                      /\ reader' = [reader EXCEPT !.at = "merging"]
                   \/ /\ lookup.current \in Range(lookup.chain)
                      /\ reader' = [reader EXCEPT !.at = "circular"]
                   \/ /\ lookup.current \notin {Absent} \cup Range(lookup.chain) \cup Ids(reader.known)
                      /\ reader' = [reader EXCEPT !.at = "parent not found"]
                /\ UNCHANGED <<table, overwrites, lookup>>

-----------------------------------------------------------------------------
(* The merge (resolve_variant_from_rows).                                  *)

\* _deep_merge_dict
Overlaid(base, overlay) ==
    [k \in DOMAIN base \cup DOMAIN overlay |-> IF k \in DOMAIN overlay THEN overlay[k] ELSE base[k]]
DeepMerge(base, overlay) ==
    [k \in DOMAIN base \cup DOMAIN overlay |->
        IF k \in DOMAIN base \cap DOMAIN overlay /\ base[k].isDict /\ overlay[k].isDict
        THEN Dict(Overlaid(base[k].sub, overlay[k].sub))
        ELSE Overlaid(base, overlay)[k]]

\* _merge_list
MergeList(base, overlay) ==
    LET list[n \in 0..Len(overlay)] ==
          IF n = 0 THEN base
          ELSE IF overlay[n] \in Range(list[n - 1]) THEN list[n - 1] ELSE Append(list[n - 1], overlay[n])
    IN  list[Len(overlay)]

\* _merge_row: the conditions of a row, then its override.
FaultyMergeRow(merged, c) ==
    [conditions |-> DeepMerge(DeepMerge(merged.conditions, c.override), c.conditions),
     override |-> DeepMerge(merged.override, c.override), patch |-> MergeList(merged.patch, c.patch)]
MergeRow(merged, c) ==
    [conditions |-> DeepMerge(DeepMerge(merged.conditions, c.conditions), c.override),
     override |-> DeepMerge(merged.override, c.override), patch |-> MergeList(merged.patch, c.patch)]

ContentOf(v) == RowIn(reader.known, v).content
Merge == /\ reader.at = "merging" /\ lookup.next < Len(lookup.chain)
         /\ lookup' = [lookup EXCEPT !.next = @ + 1,
                                     !.merged = MergeRow(@, ContentOf(lookup.chain[lookup.next + 1]))]
         /\ UNCHANGED <<table, overwrites, reader>>

AnswerResolved == /\ reader.at = "merging" /\ lookup.next = Len(lookup.chain)
                  /\ reader' = [reader EXCEPT !.at = "resolved"]
                  /\ UNCHANGED <<table, overwrites, lookup>>

ResolutionNext == \/ Overwrite \/ FetchParents \/ Climb \/ StopClimbing \/ Merge \/ AnswerResolved
                  \/ \E vs \in SUBSET VariantIds \ {{}} : RequestVariants(vs)
                  \/ \E v \in VariantIds : Resolve(v)

ResolutionSpec == ResolutionInit /\ [][ResolutionNext]_resolutionVars

-----------------------------------------------------------------------------
(* Properties.  What a variant inherits is said without merging: told are   *)
(* the contents of a lineage, the eldest first, and of what they say of one *)
(* thing the latest holds.                                                  *)

LastSaid(family) ==
    [k \in UNION {DOMAIN family[i] : i \in DOMAIN family} |-> family[Max({i \in DOMAIN family : k \in DOMAIN family[i]})][k]]

\* The dictionaries under a key that no leaf after them replaces.
Standing(layers, k) == {i \in DOMAIN layers : k \in DOMAIN layers[i]
                           /\ \A j \in DOMAIN layers : j >= i /\ k \in DOMAIN layers[j] => layers[j][k].isDict}
Spoken(layers) ==
    [k \in DOMAIN LastSaid(layers) |->
        IF LastSaid(layers)[k].isDict THEN Dict(LastSaid([i \in Standing(layers, k) |-> layers[i][k].sub])) ELSE LastSaid(layers)[k]]

\* Conditions, and after those of a row its override.
Conditions(told) == [i \in 1..(2 * Len(told)) |->
    IF i % 2 = 1 THEN told[(i + 1) \div 2].conditions ELSE told[i \div 2].override]
Overrides(told) == [i \in DOMAIN told |-> told[i].override]

\* A list names everything once, in the order in which it was mentioned first.
Mentions(told) == UNION {{<<i, j>> : j \in DOMAIN told[i].patch} : i \in DOMAIN told}
Item(told, m) == told[m[1]].patch[m[2]]
IsBefore(m, n) == m[1] < n[1] \/ (m[1] = n[1] /\ m[2] < n[2])
NamesOnce(list, told, mentions) ==
    /\ IsInjective(list)
    /\ Range(list) = {Item(told, m) : m \in mentions}
    /\ \A i, j \in DOMAIN list : i < j =>
          \E m \in mentions : Item(told, m) = list[i] /\ \A n \in mentions : Item(told, n) = list[j] => IsBefore(m, n)

Inherits(value, told) == /\ value.conditions = Spoken(Conditions(told))
                         /\ value.override = Spoken(Overrides(told))
                         /\ NamesOnce(value.patch, told, Mentions(told))

\* From an ancestor down to v, each the parent of the next.
Lineages(v) == {line \in UNION {[1..n -> VariantIds] : n \in 1..(Cardinality(VariantIds) + 1)} :
                   /\ line[Len(line)] = v
                   /\ \A i \in 2..Len(line) : Exists(table[line[i]]) /\ table[line[i]].parent = line[i - 1]}

IsRight(answer, v, value) ==
    CASE answer = "not found" -> ~Exists(table[v])
      [] answer = "circular" -> \E line \in Lineages(v) : ~IsInjective(line)
      [] answer = "parent not found" -> Exists(table[v]) /\ \E line \in Lineages(v) : ~Exists(table[line[1]])
      [] answer = "resolved" -> \E line \in Lineages(v) :
            /\ Exists(table[line[1]]) /\ table[line[1]].parent = Absent
            /\ Inherits(value, [i \in DOMAIN line |-> table[line[i]].content])

\* Whatever is committed between its queries, a request whose rows, and gaps,
\* are still those of the database answers what the database says; it merges
\* one row of each variant, and none that was not committed since it began.
HasAnswered == reader.at \in {"not found", "circular", "parent not found", "resolved"}
StillStored == /\ reader.known \subseteq Committed
               /\ ((reader.wants \cup reader.requested) \ Ids(reader.known)) \cap Ids(Committed) = {}
AnswersMatchTheRows ==
    /\ reader.known \subseteq reader.seen
    /\ \A r, q \in reader.known : r.id = q.id => r = q
    /\ HasAnswered /\ StillStored => IsRight(reader.at, lookup.of, lookup.merged)
=============================================================================
