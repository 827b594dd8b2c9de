---------------------------- MODULE AlphaCollect ----------------------------
(***************************************************************************)
(* alpha:collect (packages/alpha-gate/src/collect-cli.ts): a command line  *)
(* process that audits a project, proves its store on a disposable copy,   *)
(* publishes an evidence bundle under its content's name and registers it  *)
(* in the manifest of the gate.  Several may run at once, beside the       *)
(* daemons that go on editing the projects, and each may be killed between *)
(* two of its file or database operations.                                 *)
(*                                                                         *)
(* A project is [rev, figures]: its revision and what its audit with its   *)
(* labels says (AlphaTrial models how they come about).  ProjectStore      *)
(* models the store that the probe exercises; here the four checks pass    *)
(* when the project has a clip to toggle.                                  *)
(***************************************************************************)
EXTENDS AlphaGate

CONSTANTS Collectors,   \* processes
          Cohorts,      \* cohort ids
          Projects,     \* project directories
          SourceOf,     \* [Projects -> source hashes]
          Authorized0,  \* the <<cohort, source>> markers on file
          FiguresOf,    \* [Projects -> what their audits may say]
          Clipped,      \* the projects with a clip the probe can toggle
          ClassesOf,    \* [Cohorts -> coverage classes given to the command]
          MaxEdits,     \* bound: edits of a project
          MaxRuns       \* bound: how often the command is run

VARIABLES project,  \* [Projects -> [rev, figures]]
          files,    \* the bundles published beside the manifest
          manifest, \* the registered entries
          process,  \* [Collectors -> what the process knows]
          runs      \* how often the command was run

collectVars == <<project, files, manifest, process, runs>>

(* What an audit with its labels says: counts are there when every label    *)
(* they count is, and a trial that is completed has them all.                *)
Amounts == Nat \cup {Absent}
Timings == [manual : Nat, active : Nat, operator : STRING]
Figures == [completed : BOOLEAN, exported : BOOLEAN, predicted : Nat, hits : Amounts,
            highRisk : Nat, cuts : Nat, usable : Amounts, timing : Timings \cup {Absent}]

ASSUME CollectBounds == {MaxEdits, MaxRuns} \subseteq Nat

ASSUME AuditAssumption ==
  /\ Absent \notin Nat
  /\ \A p \in Projects : \A figures \in FiguresOf[p] :
       /\ figures \in Figures
       /\ figures.completed => figures.hits # Absent /\ figures.usable # Absent

Idle == [at |-> "idle", cohort |-> Absent, project |-> Absent, rev |-> 0, read |-> {},
         checks |-> {}, proved |-> 0, bundle |-> Absent, next |-> {}]

Unmeasured == [k \in Checks |-> 0]

-----------------------------------------------------------------------------
(* The files. *)

(* The bundle of a project: its revision, its figures, and the checks with   *)
(* the revision of the copy they were made on.                               *)
BundleOf(p, checks, proved) ==
  [project |-> p, source |-> SourceOf[p], rev |-> project[p].rev, figures |-> project[p].figures,
   checks |-> checks, proved |-> proved]

(* assertRegistrationCompatible *)
Compatible(entries, cohort, p) ==
  \A e \in entries :
    /\ e.source = SourceOf[p] => e.cohort = cohort
    /\ e.cohort = cohort => e.source = SourceOf[p] /\ e.confirmed /\ (e.bundle # Absent => e.bundle.project = p)

(* upsertProject: a known cohort gets the new bundle, an unknown one an entry. *)
Upsert(entries, cohort, bundle) ==
  LET known == {e \in entries : e.cohort = cohort}
      fresh == [cohort |-> cohort, source |-> bundle.source, bundle |-> bundle, confirmed |-> TRUE,
                classes |-> ClassesOf[cohort], completed |-> FALSE, exported |-> FALSE,
                predicted |-> bundle.figures.predicted, hits |-> Absent,
                highRisk |-> bundle.figures.highRisk, cuts |-> bundle.figures.cuts, usable |-> Absent,
                evaluated |-> Unmeasured, passed |-> Unmeasured, timing |-> Absent]
  IN IF known = {} THEN entries \cup {fresh}
     ELSE (entries \ known) \cup {[e EXCEPT !.bundle = bundle, !.classes = ClassesOf[cohort]] : e \in known}

-----------------------------------------------------------------------------
(* One process. *)

Goes(c, to) == process' = [process EXCEPT ![c] = to]
Stops(c) == Goes(c, Idle) /\ UNCHANGED <<project, files, manifest, runs>>

(* The audit of the project and the authorization on file. *)
Begin(c, cohort, p) ==
  /\ process[c] = Idle /\ <<cohort, SourceOf[p]>> \in Authorized0
  /\ Goes(c, [Idle EXCEPT !.at = "started", !.cohort = cohort, !.project = p, !.rev = project[p].rev])
  /\ runs < MaxRuns /\ runs' = runs + 1
  /\ UNCHANGED <<project, files, manifest>>

(* The manifest is read once; what it says now decides, and is written back. *)
ReadManifest(c) ==
  /\ process[c].at = "started"
  /\ IF Materializes(manifest, files, Authorized0) /\ Compatible(manifest, process[c].cohort, process[c].project)
     THEN Goes(c, [process[c] EXCEPT !.at = "read", !.read = manifest])
     ELSE Goes(c, Idle)
  /\ UNCHANGED <<project, files, manifest, runs>>

(* verifyAlphaProjectCorrectness: the revision, then the copy, are the same. *)
OpenSource(c) ==
  /\ process[c].at = "read"
  /\ Goes(c, IF project[process[c].project].rev = process[c].rev
             THEN [process[c] EXCEPT !.at = "source"] ELSE Idle)
  /\ UNCHANGED <<project, files, manifest, runs>>

(* verifyClone: what the probe shows of the copy. *)
ProbeOf(p) == IF p \in Clipped THEN Checks ELSE {}

Probe(c) ==
  /\ process[c].at = "source"
  /\ LET p == process[c].project
     IN Goes(c, IF project[p].rev = process[c].rev
                THEN [process[c] EXCEPT !.at = "probed", !.checks = ProbeOf(p), !.proved = project[p].rev]
                ELSE Idle)
  /\ UNCHANGED <<project, files, manifest, runs>>

(* Mutant of MakeBundle: the second audit is not compared with the first. *)
MakeBundleUnbound(c) ==
  /\ process[c].at = "probed"
  /\ LET p == process[c].project
     IN Goes(c, [process[c] EXCEPT !.at = "bundled",
                                   !.bundle = BundleOf(p, process[c].checks, process[c].proved)])
  /\ UNCHANGED <<project, files, manifest, runs>>

(* The project is audited again, the run recorded and the bundle made: only  *)
(* of the revision the copy was (assertSameAuditBinding, and the store's own *)
(* binding of a correctness run).                                            *)
MakeBundle(c) ==
  /\ process[c].at = "probed"
  /\ LET p == process[c].project
     IN Goes(c, IF project[p].rev = process[c].rev
                THEN [process[c] EXCEPT !.at = "bundled",
                                   !.bundle = BundleOf(p, process[c].checks, process[c].proved)]
                ELSE Idle)
  /\ UNCHANGED <<project, files, manifest, runs>>

(* publishAlphaContentAddressedFile: the same content is the same file. *)
Publish(c) ==
  /\ process[c].at = "bundled"
  /\ files' = files \cup {process[c].bundle}
  /\ Goes(c, [process[c] EXCEPT
                !.at = "published", !.next = Upsert(process[c].read, process[c].cohort, process[c].bundle)])
  /\ UNCHANGED <<project, manifest, runs>>

(* commitAlphaManifestIfUnchanged: the manifest is read and compared, *)
Compare(c) ==
  /\ process[c].at = "published"
  /\ LET me == process[c]
     IN Goes(c, IF /\ Materializes(me.next, files, Authorized0)
                   /\ me.next # me.read /\ manifest = me.read
                THEN [me EXCEPT !.at = "compared"] ELSE Idle)
  /\ UNCHANGED <<project, files, manifest, runs>>

(* and replaced by a rename, whatever it says by then. *)
Rename(c) ==
  /\ process[c].at = "compared"
  /\ manifest' = process[c].next
  /\ Goes(c, Idle)
  /\ UNCHANGED <<project, files, runs>>

(* A process killed leaves at most a temporary file of its own. *)
Killed(c) == process[c] # Idle /\ Stops(c)

(* A daemon commits to a project, or a person labels it. *)
Edit(p) ==
  /\ project[p].rev < MaxEdits
  /\ \E figures \in FiguresOf[p] :
       project' = [project EXCEPT ![p] = [rev |-> @.rev + 1, figures |-> figures]]
  /\ UNCHANGED <<files, manifest, process, runs>>

Relabel(p) ==
  /\ \E figures \in FiguresOf[p] \ {project[p].figures} :
       project' = [project EXCEPT ![p].figures = figures]
  /\ UNCHANGED <<files, manifest, process, runs>>

CollectInit ==
  /\ project \in {f \in [Projects -> [rev : {0}, figures : UNION {FiguresOf[p] : p \in Projects}]] :
                   \A p \in Projects : f[p].figures \in FiguresOf[p]}
  /\ files = {} /\ manifest = {}
  /\ process = [c \in Collectors |-> Idle]
  /\ runs = 0

CollectNext ==
  \/ \E c \in Collectors :
       \/ \E cohort \in Cohorts, p \in Projects : Begin(c, cohort, p)
       \/ ReadManifest(c) \/ OpenSource(c) \/ Probe(c) \/ MakeBundle(c)
       \/ Publish(c) \/ Compare(c) \/ Rename(c) \/ Killed(c)
  \/ \E p \in Projects : Edit(p) \/ Relabel(p)

CollectSpec == CollectInit /\ [][CollectNext]_collectVars

-----------------------------------------------------------------------------
Believed == {Materialized(e) : e \in manifest}

(* Whatever processes race, die or overwrite each other's registration, and  *)
(* whoever edits a project meanwhile: the manifest can be read, and every    *)
(* registered bundle speaks of one revision of its own project, proved on a  *)
(* copy of that very revision.                                               *)
RegisteredAsProved ==
  /\ Materializes(manifest, files, Authorized0)
  /\ \A e \in manifest : e.bundle # Absent => /\ e.bundle.proved = e.bundle.rev
                                          /\ <<e.cohort, SourceOf[e.bundle.project]>> \in Authorized0

(* "Every real project has to be trusted" (gate.ts:132, in English): when    *)
(* the gate passes, no project that counts is below the floors, unlabelled,  *)
(* unexported or unproved, however good the others are.                      *)
PassedMeansTrusted ==
  GateStatus(Believed) = "passed" =>
    \A e \in Authorized(Believed) :
      /\ e.completed /\ e.exported /\ e.highRisk = 0
      /\ e.hits # Absent /\ ~Below(e.hits, e.predicted, PrecisionFloor)
      /\ e.usable # Absent /\ ~Below(e.usable, e.cuts, BoundaryFloor)
      /\ \A k \in Checks : e.passed[k] = 1

(* "bundle was preserved and registration was not overwritten"               *)
(* (collect-cli.ts:103): a registration is never lost.                       *)
RegistrationsKept ==
  [][\A e \in manifest : \E f \in manifest' : f.cohort = e.cohort]_collectVars

-----------------------------------------------------------------------------
(* The inductive invariant behind the theorems of AlphaProofs.               *)
Sources == {SourceOf[p] : p \in Projects}

Bundles == [project : Projects, source : Sources, rev : Nat, checks : SUBSET Checks, proved : Nat,
            figures : UNION {FiguresOf[p] : p \in Projects}]

(* What Upsert makes of an entry: the figures it was made with are those of  *)
(* nothing measured, and stay: Materialized alone believes the bundle's.     *)
Entries ==
  [cohort : Cohorts, source : Sources, bundle : Bundles, confirmed : {TRUE},
   classes : {ClassesOf[cohort] : cohort \in Cohorts}, completed : {FALSE}, exported : {FALSE},
   predicted : Nat, hits : {Absent}, highRisk : Nat, cuts : Nat, usable : {Absent},
   evaluated : {Unmeasured}, passed : {Unmeasured}, timing : {Absent}]

Stages == {"idle", "started", "read", "source", "probed", "bundled", "published", "compared"}

Processes ==
  [at : Stages, cohort : Cohorts \cup {Absent}, project : Projects \cup {Absent}, rev : Nat,
   read : SUBSET Entries, checks : SUBSET Checks, proved : Nat, bundle : Bundles \cup {Absent},
   next : SUBSET Entries]

CollectTypeOK ==
  /\ project \in [Projects -> [rev : Nat, figures : UNION {FiguresOf[p] : p \in Projects}]]
  /\ process \in [Collectors -> Processes]
  /\ manifest \in SUBSET Entries /\ files \in SUBSET Bundles /\ runs \in 0 .. MaxRuns

(* A bundle proved on the revision it speaks of, of a source the cohort may use. *)
Proved(bundle, cohort) ==
  bundle.proved = bundle.rev /\ <<cohort, SourceOf[bundle.project]>> \in Authorized0

EntriesProved(entries) == \A e \in entries : Proved(e.bundle, e.cohort)

(* What a process knows when it gets to each stage. *)
ProcessHolds(me, onFile) ==
  /\ me.at # "idle" => /\ me.cohort \in Cohorts /\ me.project \in Projects
                       /\ <<me.cohort, SourceOf[me.project]>> \in Authorized0
  /\ me.at = "probed" => me.proved = me.rev
  /\ me.at = "bundled" => me.bundle \in Bundles /\ Proved(me.bundle, me.cohort)
  /\ me.at = "compared" => Materializes(me.next, onFile, Authorized0)
  /\ EntriesProved(me.read) /\ EntriesProved(me.next)

CollectInv ==
  /\ CollectTypeOK
  /\ Materializes(manifest, files, Authorized0) /\ EntriesProved(manifest)
  /\ \A c \in Collectors : ProcessHolds(process[c], files)
=============================================================================
