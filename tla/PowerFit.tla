------------------------------ MODULE PowerFit ------------------------------
(***************************************************************************)
(* How calibrated power parameters get their version and their id:         *)
(* create_calibrated_params of api/services/power_fit.py, beside loads     *)
(* that store authored parameters.  A statement sees what is committed     *)
(* when it starts; an advisory lock of the SoC is kept to the commit.      *)
(*                                                                         *)
(* An id is a pair of a stem and the number of its suffix -v, 0 without    *)
(* one; an id with the suffix -cal is the stem of another.                 *)
(***************************************************************************)
EXTENDS Naturals, FiniteSets, FiniteSetsExt

CONSTANTS Calibrations, \* requests to store calibrated parameters
          Stored,       \* the parameters that are there at first
          Authored,     \* authored parameters that loads may store
          NoBase

\* Versions are numbers.
ASSUME FitAssumption ==
    IsFiniteSet(Stored) /\ \A d \in Stored \cup Authored : d.version \in Nat

Row(id, soc, version) == [id |-> id, soc |-> soc, version |-> version]

VARIABLES rows,    \* power_model_params
          request  \* base: the row it read; loaded: there was a load since its version was chosen

fitVars == <<rows, request>>

FitInit == /\ rows = Stored
           /\ request = [r \in Calibrations |-> [at |-> "idle", base |-> NoBase, version |-> 0, id |-> NoBase, loaded |-> FALSE]]

-----------------------------------------------------------------------------
\* Operators whose names begin with Faulty are plausible mistakes in the
\* definition they precede; nothing here uses them (README, "Mutants").

FitAt(r, at) == request[r].at = at
Goes(r, new) == /\ request' = [request EXCEPT ![r] = new]
                /\ UNCHANGED rows

BeginFit(r) == /\ FitAt(r, "idle")
               /\ \E p \in rows : Goes(r, [request[r] EXCEPT !.at = "waiting", !.base = p])

\* pg_advisory_xact_lock of the SoC of the base.
HasLock(r) == request[r].at \in {"locked", "versioned", "named"}
FaultyLockFree(r) == \A q \in Calibrations : HasLock(q) => request[q].base # request[r].base
LockFree(r) == \A q \in Calibrations : HasLock(q) => request[q].base.soc # request[r].base.soc
Lock(r) == /\ FitAt(r, "waiting")
           /\ LockFree(r)
           /\ Goes(r, [request[r] EXCEPT !.at = "locked"])

VersionsOf(soc) == {p.version : p \in {x \in rows : x.soc = soc}}
Allocate(r) == /\ FitAt(r, "locked")
               /\ Goes(r, [request[r] EXCEPT !.at = "versioned", !.version = 1 + Max(VersionsOf(request[r].base.soc) \cup {0})])

Ids == {p.id : p \in rows}
Versioned(id, n) == <<id[1], n>>
Cal(id) == <<id, 0>>
ChooseId(r) == LET id == Versioned(request[r].base.id, request[r].version)
               IN  /\ FitAt(r, "versioned")
                   /\ Goes(r, [request[r] EXCEPT !.at = "named", !.id = IF id \in Ids THEN Cal(id) ELSE id])

\* The primary key and uq_power_model_params_soc_version.
Fits(p, others) == \A x \in others : x.id # p.id /\ (x.soc = p.soc => x.version # p.version)
Insert(r) ==
    LET new == Row(request[r].id, request[r].base.soc, request[r].version)
    IN  /\ FitAt(r, "named")
        /\ request' = [request EXCEPT ![r].at = IF Fits(new, rows) THEN "created" ELSE "conflict"]
        /\ rows' = IF Fits(new, rows) THEN rows \cup {new} ELSE rows

\* A validation of the request fails.
RefuseFit(r) == /\ FitAt(r, "waiting")
                /\ Goes(r, [request[r] EXCEPT !.at = "refused"])

\* A load stores a document: by its id, if its version is not another's.
LoadParams == \E d \in Authored \ rows :
                 LET others == {x \in rows : x.id # d.id}
                 IN  /\ Fits(d, others)
                     /\ rows' = others \cup {d}
                     /\ request' = [r \in Calibrations |-> [request[r] EXCEPT !.loaded = @ \/ HasLock(r)]]

FitNext == LoadParams \/ \E r \in Calibrations : BeginFit(r) \/ Lock(r) \/ Allocate(r) \/ ChooseId(r) \/ Insert(r) \/ RefuseFit(r)

FitSpec == FitInit /\ [][FitNext]_fitVars

-----------------------------------------------------------------------------
(* Properties                                                              *)

\* "Serialize version allocation across all bases for this SoC": an allocated
\* version stays above all of its SoC, and the commit can only be refused when a
\* load stored something, or when another SoC has an id of the same stem.
VersionsAreSerial ==
    \A r \in Calibrations : ~request[r].loaded =>
        /\ request[r].at \in {"versioned", "named"} =>
              \A n \in VersionsOf(request[r].base.soc) : n < request[r].version
        /\ FitAt(r, "named") => \A x \in rows : x.id = request[r].id => x.soc # request[r].base.soc
=============================================================================
