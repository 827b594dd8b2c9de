------------------------------ MODULE AlphaGate ------------------------------
(***************************************************************************)
(* The Alpha gate (packages/alpha-gate/src/gate.ts) and how a manifest's   *)
(* entries take their figures from the evidence bundles they name          *)
(* (manifest-evidence.ts).                                                 *)
(*                                                                         *)
(* A manifest is a set of entries, one per cohort id.  An entry has the    *)
(* source it is about, its authorization, its coverage classes, the bundle *)
(* it names or Absent, and the figures the gate reads; an amount nobody    *)
(* measured is Absent. Fractions are compared by cross-multiplication: the *)
(* quotients JavaScript compares are the closest doubles to the same       *)
(* fractions as the limits.                                                *)
(***************************************************************************)
EXTENDS Integers, FiniteSets, FiniteSetsExt, SequencesExt

CONSTANTS RequiredProjects,   \* REQUIRED_PROJECTS
          RequiredClasses,    \* REQUIRED_COVERAGE_CLASSES
          RequiredOperators,  \* MINIMUM_DISTINCT_OPERATORS
          Absent              \* undefined

ASSUME RequiredProjectsIsPositive == RequiredProjects \in Nat \ {0}

Checks == {"undo", "restart", "idempotency", "revisionConflict"}

(* The limits, in hundredths. *)
PrecisionLimit == 98
PrecisionFloor == 90
BoundaryLimit == 95
BoundaryFloor == 80
ReductionLimit == 30

-----------------------------------------------------------------------------
(* validateProjects: what makes the gate refuse a manifest outright. *)
ValidManifest(manifest) ==
  /\ \A e, f \in manifest : e # f => e.cohort # f.cohort /\ e.source # f.source
  /\ \A e \in manifest :
       /\ e.classes \subseteq RequiredClasses
       /\ {e.predicted, e.highRisk, e.cuts} \subseteq Nat
       /\ e.hits # Absent => e.hits \in 0 .. e.predicted
       /\ e.usable # Absent => e.usable \in 0 .. e.cuts
       /\ \A k \in Checks : e.evaluated[k] \in Nat /\ e.passed[k] \in 0 .. e.evaluated[k]
       /\ e.timing # Absent => e.timing.manual > 0 /\ e.timing.active >= 0

-----------------------------------------------------------------------------
(* The metrics of one report. *)

Authorized(manifest) == {e \in manifest : e.confirmed}

Enough(entries) == Cardinality(entries) >= RequiredProjects

Below(part, whole, limit) == whole # 0 /\ part * 100 < limit * whole

(* thresholdStatus *)
Threshold(part, whole, limit, enough) ==
  IF Below(part, whole, limit) THEN "failed"
  ELSE IF whole = 0 \/ ~enough THEN "insufficient_evidence" ELSE "passed"

Total(entries, figure) == MapThenSumSet(LAMBDA e : e[figure], entries)

(* Mutant of Floored: the sum of all projects is all that counts. *)
FlooredBySum(entries, part, whole, limit, floor) ==
  Threshold(Total(entries, part), Total(entries, whole), limit, Enough(entries))

(* A fraction of all the labelled projects together, with a floor under each *)
(* of them that the others cannot make up for.                               *)
Floored(entries, part, whole, limit, floor) ==
  IF \E e \in entries : Below(e[part], e[whole], floor) THEN "failed"
  ELSE Threshold(Total(entries, part), Total(entries, whole), limit, Enough(entries))

Coverage(projects) ==
  IF Enough(projects) /\ UNION {e.classes : e \in projects} # RequiredClasses THEN "failed" ELSE "passed"

Complete(projects) == {e \in projects : e.completed /\ e.exported}

Completion(projects) ==
  IF ~Enough(projects) THEN "insufficient_evidence"
  ELSE IF Complete(projects) = projects THEN "passed" ELSE "failed"

HighRisk(projects) == IF \E e \in projects : e.highRisk > 0 THEN "failed" ELSE "passed"

Precision(projects) ==
  Floored({e \in projects : e.hits # Absent}, "hits", "predicted", PrecisionLimit, PrecisionFloor)

Usability(projects) ==
  Floored({e \in projects : e.usable # Absent}, "usable", "cuts", BoundaryLimit, BoundaryFloor)

Correctness(projects, k) ==
  IF \E e \in projects : e.evaluated[k] > 0 /\ e.passed[k] < e.evaluated[k] THEN "failed"
  ELSE IF Enough(projects) /\ \A e \in projects : e.evaluated[k] > 0 THEN "passed"
  ELSE "insufficient_evidence"

Timed(projects) == {e \in projects : e.timing # Absent}

(* The time saved, in hundredths of the manual baseline. *)
Reduction(e) == ((e.timing.manual - e.timing.active) * 100) \div e.timing.manual

(* The median of the reductions is below the limit (the mean of the two in   *)
(* the middle, of an even number).                                           *)
MedianBelow(entries, limit) ==
  LET sorted == SetToSortSeq(entries, LAMBDA e, f : Reduction(e) < Reduction(f))
      n == Cardinality(entries)
  IN IF n % 2 = 1 THEN Reduction(sorted[(n + 1) \div 2]) < limit
     ELSE Reduction(sorted[n \div 2]) + Reduction(sorted[n \div 2 + 1]) < 2 * limit

TimeSaved(projects) ==
  IF Timed(projects) # {} /\ MedianBelow(Timed(projects), ReductionLimit) THEN "failed"
  ELSE IF ~Enough(Timed(projects)) THEN "insufficient_evidence" ELSE "passed"

Operators(projects) ==
  IF ~Enough(Timed(projects)) THEN "insufficient_evidence"
  ELSE IF Cardinality({e.timing.operator : e \in Timed(projects)}) >= RequiredOperators THEN "passed"
  ELSE "failed"

(* evaluateAlphaGate and overallStatus *)
GateStatus(manifest) ==
  LET projects == Authorized(manifest)
      metrics == {IF Enough(projects) THEN "passed" ELSE "insufficient_evidence",
                  Coverage(projects), Completion(projects), HighRisk(projects), Precision(projects),
                  Usability(projects), TimeSaved(projects), Operators(projects)}
                   \cup {Correctness(projects, k) : k \in Checks}
  IN IF "failed" \in metrics THEN "failed"
     ELSE IF "insufficient_evidence" \in metrics THEN "insufficient_evidence" ELSE "passed"

-----------------------------------------------------------------------------
(* The figures of a bundle. *)

(* materializeProject: an entry's own timing is never believed, and counts   *)
(* are there only when every label they count is.                            *)
Materialized(e) ==
  IF e.bundle = Absent THEN e
  ELSE LET b == e.bundle
           Ran == [k \in Checks |-> IF b.checks = Absent THEN 0 ELSE 1]
       IN [e EXCEPT !.completed = b.figures.completed,
                    !.exported  = b.figures.exported,
                    !.predicted = b.figures.predicted,
                    !.hits      = b.figures.hits,
                    !.highRisk  = b.figures.highRisk,
                    !.cuts      = b.figures.cuts,
                    !.usable    = b.figures.usable,
                    !.evaluated = Ran,
                    !.passed    = [k \in Checks |-> IF b.checks # Absent /\ k \in b.checks THEN 1 ELSE 0],
                    !.timing    = b.figures.timing]

(* What materializeAlphaGateManifest refuses: a manifest the gate refuses,   *)
(* an entry whose authorization is not the one on file, and a bundle that is *)
(* not on file or about something else.                                      *)
Materializes(manifest, files, authorized) ==
  /\ ValidManifest(manifest)
  /\ \A e \in manifest :
       /\ e.confirmed => <<e.cohort, e.source>> \in authorized
       /\ e.bundle # Absent => e.bundle \in files /\ e.bundle.source = e.source
=============================================================================
