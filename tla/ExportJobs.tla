----------------------------- MODULE ExportJobs -----------------------------
(***************************************************************************)
(* Export jobs: the job table of project-store.ts, the runners of          *)
(* packages/render-engine/src/workflow.ts and the routes and the restart   *)
(* recovery of apps/local-daemon/src/server.ts.                            *)
(*                                                                         *)
(* One daemon process, one event loop: between two awaits a runner is      *)
(* alone in the process (loop), but a crash, a full disk or an edit by     *)
(* another process can fall between any two of its effects.  A file is     *)
(* named after the revision and the preset its plan was made from.         *)
(***************************************************************************)
EXTENDS Integers, FiniteSets

CONSTANTS
  Jobs,        \* export job IDs (one per requestId)
  Presets,     \* export presets
  Nobody,      \* no job, no report, no plan; the owner of shared file names
  MaxRevision, \* bound: edits stop at this revision
  MaxCrashes,  \* bound: daemon crashes
  MaxFaults,   \* bound: store writes that throw (SQLITE_BUSY, SQLITE_FULL)
  MaxOutside   \* bound: commits of other processes

ASSUME BoundsAssumption ==
  /\ Nobody \notin Jobs
  /\ {MaxRevision, MaxCrashes, MaxFaults, MaxOutside} \subseteq Nat

VARIABLES
  revision,  \* current project revision
  reports,   \* renderReports registered in the document
  files,     \* files under renders/
  jobs,      \* the jobs table
  up,        \* the daemon runs
  phase,     \* where the runner of each job is, "none" without one
  plan,      \* the RenderPlan of each runner
  path,      \* the output pair each runner writes or adopts
  finalized, \* files a runner would delete if it failed
  onError,   \* the status a runner gives its job if it fails
  loop,      \* the runner inside a synchronous stretch, or Nobody
  crashes, faults, outside

durable == <<revision, reports, files, jobs>>
runner == <<phase, plan, path, finalized, onError, loop>>
counters == <<crashes, faults, outside>>
vars == <<durable, up, runner, counters>>

-----------------------------------------------------------------------------
Statuses == {"absent", "pending", "running", "succeeded", "failed", "cancelled", "outcome_unknown"}

Terminal == {"succeeded", "failed", "cancelled", "outcome_unknown"}

Phases == {"none", "scheduled", "verifying", "adopting", "rendering", "publishing", "published",
           "registered", "settling", "recover", "checking", "rehashing"}

Plans == [revision: Nat, preset: Presets]

\* renderOutputPathPairs: the primary pair is shared by every job of the plan,
\* the safe-retry pair belongs to one job.
Paths == [plan: Plans, owner: Jobs \cup {Nobody}]

Reports == [job: Jobs, plan: Plans, path: Paths]

JobRows == [status: Statuses, cancel: BOOLEAN, source: Nat,
            preset: {Nobody} \cup Presets, output: {Nobody} \cup Reports]

\* No output is not an output.
ASSUME NobodyAssumption == Nobody \notin Reports

Primary(p) == [plan |-> p, owner |-> Nobody]
SafeRetry(p, j) == [plan |-> p, owner |-> j]

Mp4(pair) == <<pair, "mp4">>
Srt(pair) == <<pair, "srt">>

Exists(pair) == {Mp4(pair), Srt(pair)} \cap files # {}
Complete(pair) == {Mp4(pair), Srt(pair)} \subseteq files

ReportOf(j) == [job |-> j, plan |-> plan[j], path |-> path[j]]

Init ==
  /\ revision = 0
  /\ reports = {}
  /\ files = {}
  /\ jobs = [j \in Jobs |-> [status |-> "absent", cancel |-> FALSE, source |-> 0,
                             preset |-> Nobody, output |-> Nobody]]
  /\ up = TRUE
  /\ phase = [j \in Jobs |-> "none"]
  /\ plan = [j \in Jobs |-> Nobody]
  /\ path = [j \in Jobs |-> Nobody]
  /\ finalized = [j \in Jobs |-> {}]
  /\ onError = [j \in Jobs |-> "failed"]
  /\ loop = Nobody
  /\ crashes = 0
  /\ faults = 0
  /\ outside = 0

Fault == faults < MaxFaults /\ faults' = faults + 1

Microtask(j) == phase[j] \in {"scheduled", "recover"}

\* The event loop is free: no synchronous stretch, no microtask waiting.
Idle == up /\ loop = Nobody /\ \A j \in Jobs : ~Microtask(j)

\* The runner of j may take its next step.
Turn(j) ==
  \/ Idle
  \/ up /\ loop = j
  \/ up /\ loop = Nobody /\ Microtask(j)

\* The runner throws: its catch block deletes what it had renamed into place
\* and then settles the job, all before the next await.
Throw(j) ==
  /\ phase' = [phase EXCEPT ![j] = "settling"]
  /\ files' = files \ finalized[j]
  /\ finalized' = [finalized EXCEPT ![j] = {}]
  /\ loop' = j

Leave(j) ==
  /\ phase' = [phase EXCEPT ![j] = "none"]
  /\ loop' = Nobody

-----------------------------------------------------------------------------
(***************************************************************************)
(* Requests and edits.                                                     *)
(***************************************************************************)

\* Mutant of Submit: no assertCurrentRevision.
SubmitStale(j, preset) ==
  /\ Idle
  /\ jobs[j].status = "absent"
  /\ \E base \in 0..revision :
       jobs' = [jobs EXCEPT ![j].status = "pending", ![j].source = base, ![j].preset = preset]
  /\ phase' = [phase EXCEPT ![j] = "scheduled"]
  /\ UNCHANGED <<revision, reports, files, up, plan, path, finalized, onError, loop, counters>>

\* POST /api/exports, on the revision its caller sees.
Submit(j, preset) ==
  /\ Idle
  /\ jobs[j].status = "absent"
  /\ jobs' = [jobs EXCEPT ![j].status = "pending", ![j].source = revision,
                          ![j].preset = preset]
  /\ phase' = [phase EXCEPT ![j] = "scheduled"]
  /\ UNCHANGED <<revision, reports, files, up, plan, path, finalized, onError, loop, counters>>

\* POST /api/exports/:id/cancel
Cancel(j) ==
  /\ Idle
  /\ jobs[j].status \in {"pending", "running"}
  /\ jobs' = [jobs EXCEPT ![j].cancel = TRUE,
                          ![j].status = IF @ = "pending" THEN "cancelled" ELSE @]
  /\ UNCHANGED <<revision, reports, files, up, runner, counters>>

\* Any other commit through this daemon.
Edit ==
  /\ Idle
  /\ revision < MaxRevision
  /\ revision' = revision + 1
  /\ UNCHANGED <<reports, files, jobs, up, runner, counters>>

\* A commit by another process that has the project open.
OutsideEdit ==
  /\ outside < MaxOutside
  /\ outside' = outside + 1
  /\ revision' = revision + 1
  /\ UNCHANGED <<reports, files, jobs, up, runner, crashes, faults>>

-----------------------------------------------------------------------------
(***************************************************************************)
(* runPersistedRenderJob.                                                  *)
(***************************************************************************)

\* startJob, then a plan from the snapshot of this moment.
Start(j) ==
  /\ Turn(j)
  /\ phase[j] = "scheduled"
  /\ \/ /\ jobs' = [jobs EXCEPT ![j].status = "running"]
        /\ plan' = [plan EXCEPT ![j] = [revision |-> revision, preset |-> jobs[j].preset]]
        /\ phase' = [phase EXCEPT ![j] = "verifying"]
        /\ onError' = [onError EXCEPT ![j] = "failed"]
        /\ UNCHANGED faults
     \/ /\ Fault
        /\ phase' = [phase EXCEPT ![j] = "none"]
        /\ UNCHANGED <<jobs, plan, onError>>
  /\ UNCHANGED <<revision, reports, files, up, path, finalized, loop, crashes, outside>>

\* Sources are verified: adopt what a crash left, or choose where to render.
Choose(j) ==
  /\ Turn(j)
  /\ phase[j] = "verifying"
  /\ ~jobs[j].cancel
  /\ \/ /\ Complete(Primary(plan[j]))
        /\ path' = [path EXCEPT ![j] = Primary(plan[j])]
        /\ phase' = [phase EXCEPT ![j] = "adopting"]
     \/ /\ ~Exists(Primary(plan[j]))
        /\ path' = [path EXCEPT ![j] = Primary(plan[j])]
        /\ phase' = [phase EXCEPT ![j] = "rendering"]
     \/ /\ Exists(Primary(plan[j])) /\ ~Complete(Primary(plan[j]))
        /\ ~Exists(SafeRetry(plan[j], j))
        /\ path' = [path EXCEPT ![j] = SafeRetry(plan[j], j)]
        /\ phase' = [phase EXCEPT ![j] = "rendering"]
  /\ UNCHANGED <<durable, up, plan, finalized, onError, loop, counters>>

\* The pair found does not pass its checks: render beside it.
AdoptFails(j) ==
  /\ Turn(j)
  /\ phase[j] = "adopting"
  /\ ~Exists(SafeRetry(plan[j], j))
  /\ path' = [path EXCEPT ![j] = SafeRetry(plan[j], j)]
  /\ phase' = [phase EXCEPT ![j] = "rendering"]
  /\ UNCHANGED <<durable, up, plan, finalized, onError, loop, counters>>

\* Mutant of Adopt: adopted files count as this run's own.
AdoptFinalized(j) ==
  /\ Turn(j)
  /\ phase[j] = "adopting"
  /\ phase' = [phase EXCEPT ![j] = "published"]
  /\ finalized' = [finalized EXCEPT ![j] = {Mp4(path[j]), Srt(path[j])}]
  /\ loop' = j
  /\ UNCHANGED <<durable, up, plan, path, onError, counters>>

\* The pair passes them, and is registered without another look at the job.
Adopt(j) ==
  /\ Turn(j)
  /\ phase[j] = "adopting"
  /\ phase' = [phase EXCEPT ![j] = "published"]
  /\ loop' = j
  /\ UNCHANGED <<durable, up, plan, path, finalized, onError, counters>>

\* A cancellation is noticed, a source changed, there is no free name to render
\* to, ffmpeg or the quality check failed, or the project is at another revision.
Abandon(j) ==
  /\ Turn(j)
  /\ phase[j] \in {"verifying", "adopting", "rendering"}
  /\ Throw(j)
  /\ UNCHANGED <<revision, reports, jobs, up, plan, path, onError, counters>>

\* Mutants of Publish: one of the last checks dropped.
PublishUnchecked(j) ==
  /\ Turn(j)
  /\ phase[j] = "rendering"
  /\ ~jobs[j].cancel
  /\ files' = files \cup {Mp4(path[j])}
  /\ finalized' = [finalized EXCEPT ![j] = {Mp4(path[j])}]
  /\ phase' = [phase EXCEPT ![j] = "publishing"]
  /\ loop' = j
  /\ UNCHANGED <<revision, reports, jobs, up, plan, path, onError, counters>>

PublishCancelled(j) ==
  /\ Turn(j)
  /\ phase[j] = "rendering"
  /\ revision = plan[j].revision
  /\ files' = files \cup {Mp4(path[j])}
  /\ finalized' = [finalized EXCEPT ![j] = {Mp4(path[j])}]
  /\ phase' = [phase EXCEPT ![j] = "publishing"]
  /\ loop' = j
  /\ UNCHANGED <<revision, reports, jobs, up, plan, path, onError, counters>>

\* The last checks and the first rename.
Publish(j) ==
  /\ Turn(j)
  /\ phase[j] = "rendering"
  /\ revision = plan[j].revision
  /\ ~jobs[j].cancel
  /\ files' = files \cup {Mp4(path[j])}
  /\ finalized' = [finalized EXCEPT ![j] = {Mp4(path[j])}]
  /\ phase' = [phase EXCEPT ![j] = "publishing"]
  /\ loop' = j
  /\ UNCHANGED <<revision, reports, jobs, up, plan, path, onError, counters>>

PublishCaption(j) ==
  /\ Turn(j)
  /\ phase[j] = "publishing"
  /\ files' = files \cup {Srt(path[j])}
  /\ finalized' = [finalized EXCEPT ![j] = @ \cup {Srt(path[j])}]
  /\ phase' = [phase EXCEPT ![j] = "published"]
  /\ UNCHANGED <<revision, reports, jobs, up, plan, path, onError, loop, counters>>

\* registerPersistedResult: the commit on the plan's revision.
Register(j) ==
  /\ Turn(j)
  /\ phase[j] = "published"
  /\ revision = plan[j].revision
  /\ revision' = revision + 1
  /\ reports' = reports \cup {ReportOf(j)}
  /\ phase' = [phase EXCEPT ![j] = "registered"]
  /\ UNCHANGED <<files, jobs, up, plan, path, finalized, onError, loop, counters>>

RegisterFails(j) ==
  /\ Turn(j)
  /\ phase[j] = "published"
  /\ \/ revision # plan[j].revision /\ UNCHANGED faults
     \/ Fault
  /\ Throw(j)
  /\ UNCHANGED <<revision, reports, jobs, up, plan, path, onError, crashes, outside>>

\* ... and succeedJob, which refuses a job whose cancellation was requested.
Succeed(j) ==
  /\ Turn(j)
  /\ phase[j] = "registered"
  /\ ~jobs[j].cancel
  /\ jobs' = [jobs EXCEPT ![j].status = "succeeded", ![j].output = ReportOf(j)]
  /\ finalized' = [finalized EXCEPT ![j] = {}]
  /\ Leave(j)
  /\ UNCHANGED <<revision, reports, files, up, plan, path, onError, counters>>

SucceedFails(j) ==
  /\ Turn(j)
  /\ phase[j] = "registered"
  /\ \/ jobs[j].cancel /\ UNCHANGED faults
     \/ Fault
  /\ Throw(j)
  /\ UNCHANGED <<revision, reports, jobs, up, plan, path, onError, crashes, outside>>

\* The end of a failed run.  A write that throws here leaves the job running
\* without a runner; one to be cancelled is tried twice.
Settle(j) ==
  /\ Turn(j)
  /\ phase[j] = "settling"
  /\ \/ /\ jobs' = [jobs EXCEPT ![j].status = IF jobs[j].cancel THEN "cancelled" ELSE onError[j]]
        /\ UNCHANGED faults
     \/ /\ faults' = faults + IF jobs[j].cancel THEN 2 ELSE 1
        /\ faults' <= MaxFaults
        /\ UNCHANGED jobs
  /\ Leave(j)
  /\ UNCHANGED <<revision, reports, files, up, plan, path, finalized, onError, crashes, outside>>

-----------------------------------------------------------------------------
(***************************************************************************)
(* Crash, recoverExportJobs and recoverRunningPersistedRenderJob.          *)
(***************************************************************************)
Crash ==
  /\ up
  /\ crashes < MaxCrashes
  /\ crashes' = crashes + 1
  /\ up' = FALSE
  /\ phase' = [j \in Jobs |-> "none"]
  /\ finalized' = [j \in Jobs |-> {}]
  /\ loop' = Nobody
  /\ UNCHANGED <<durable, plan, path, onError, faults, outside>>

\* The report a restart takes for the output of an interrupted job.
Adoptable(j) == {r \in reports : r.plan.revision = jobs[j].source}

\* Mutants of Boot: registered reports are not looked for; interrupted jobs are
\* not taken up again.
BootWithoutReports ==
  /\ ~up
  /\ up' = TRUE
  /\ phase' = [j \in Jobs |->
       CASE jobs[j].status = "pending" -> "scheduled"
         [] jobs[j].status = "running" -> "recover"
         [] OTHER -> "none"]
  /\ UNCHANGED <<durable, plan, path, finalized, onError, loop, counters>>

BootPendingOnly ==
  /\ ~up
  /\ up' = TRUE
  /\ phase' = [j \in Jobs |-> IF jobs[j].status = "pending" THEN "scheduled" ELSE "none"]
  /\ UNCHANGED <<durable, plan, path, finalized, onError, loop, counters>>

\* createAgentCutServer scans the job table before it listens.
Boot ==
  /\ ~up
  /\ up' = TRUE
  /\ \E choice \in [Jobs -> reports \cup {Nobody}] :
       /\ \A j \in Jobs :
            choice[j] \in IF jobs[j].status = "running" /\ ~jobs[j].cancel /\ Adoptable(j) # {}
                          THEN Adoptable(j) ELSE {Nobody}
       /\ jobs' = [j \in Jobs |->
            IF choice[j] = Nobody THEN jobs[j]
            ELSE [jobs[j] EXCEPT !.status = "succeeded", !.output = choice[j]]]
  /\ phase' = [j \in Jobs |->
       CASE jobs'[j].status = "pending" -> "scheduled"
         [] jobs'[j].status = "running" -> "recover"
         [] OTHER -> "none"]
  /\ UNCHANGED <<revision, reports, files, plan, path, finalized, onError, loop, counters>>

RecoverStart(j) ==
  /\ Turn(j)
  /\ phase[j] = "recover"
  /\ onError' = [onError EXCEPT ![j] = "outcome_unknown"]
  /\ plan' = [plan EXCEPT ![j] = [revision |-> revision, preset |-> jobs[j].preset]]
  /\ \/ jobs[j].cancel /\ phase' = [phase EXCEPT ![j] = "settling"] /\ loop' = j
     \/ ~jobs[j].cancel /\ phase' = [phase EXCEPT ![j] = "checking"] /\ UNCHANGED loop
  /\ UNCHANGED <<durable, up, path, finalized, counters>>

\* Look for a complete pair of this plan; which of two is taken depends on
\* whether the primary passes its checks.
RecoverScan(j) ==
  /\ Turn(j)
  /\ phase[j] = "checking"
  /\ \E pair \in {Primary(plan[j]), SafeRetry(plan[j], j)} :
       /\ Complete(pair)
       /\ path' = [path EXCEPT ![j] = pair]
  /\ phase' = [phase EXCEPT ![j] = "rehashing"]
  /\ UNCHANGED <<durable, up, plan, finalized, onError, loop, counters>>

\* No pair, or none that passes; or the sources changed, which is a failure
\* the job is told about.
RecoverFails(j) ==
  /\ Turn(j)
  /\ phase[j] \in {"checking", "rehashing"}
  /\ \/ UNCHANGED onError
     \/ phase[j] = "checking" /\ onError' = [onError EXCEPT ![j] = "failed"]
  /\ Throw(j)
  /\ UNCHANGED <<revision, reports, jobs, up, plan, path, counters>>

\* The pair passes; this path does look at the job again.
Readopt(j) ==
  /\ Turn(j)
  /\ phase[j] = "rehashing"
  /\ ~jobs[j].cancel
  /\ phase' = [phase EXCEPT ![j] = "published"]
  /\ loop' = j
  /\ UNCHANGED <<durable, up, plan, path, finalized, onError, counters>>

-----------------------------------------------------------------------------
Run(j) ==
  \/ Start(j) \/ Choose(j) \/ AdoptFails(j) \/ Adopt(j) \/ Abandon(j)
  \/ Publish(j) \/ PublishCaption(j) \/ Register(j) \/ RegisterFails(j)
  \/ Succeed(j) \/ SucceedFails(j) \/ Settle(j)
  \/ RecoverStart(j) \/ RecoverScan(j) \/ RecoverFails(j) \/ Readopt(j)

Next ==
  \/ Edit \/ OutsideEdit \/ Crash \/ Boot
  \/ \E j \in Jobs : Cancel(j) \/ Run(j) \/ \E preset \in Presets : Submit(j, preset)

Spec == Init /\ [][Next]_vars

\* A runner goes on until it ends, and somebody restarts the daemon.
FairSpec == Spec /\ WF_vars(Boot) /\ \A j \in Jobs : WF_vars(Run(j))
-----------------------------------------------------------------------------
(***************************************************************************)
(* Properties.                                                             *)
(***************************************************************************)

\* Every variable has its type.
TypeOK ==
  /\ revision \in Nat
  /\ reports \subseteq Reports
  /\ files \subseteq Paths \X {"mp4", "srt"}
  /\ jobs \in [Jobs -> JobRows]
  /\ up \in BOOLEAN
  /\ phase \in [Jobs -> Phases]
  /\ plan \in [Jobs -> {Nobody} \cup Plans]
  /\ path \in [Jobs -> {Nobody} \cup Paths]
  /\ finalized \in [Jobs -> SUBSET files]
  /\ onError \in [Jobs -> {"failed", "outcome_unknown"}]
  /\ loop \in Jobs \cup {Nobody}
  /\ crashes \in 0..MaxCrashes
  /\ faults \in 0..MaxFaults
  /\ outside \in 0..MaxOutside

\* What the document says was rendered is on disk: no failing, cancelled or
\* interrupted run deletes the files of a registered report.
ReportedFilesExist == \A r \in reports : Complete(r.path)

\* A publish never replaces a file, although the runner looked for it long
\* before, and other jobs of the same plan render meanwhile.
PublishKeepsFiles ==
  [][ \A j \in Jobs :
        /\ phase[j] = "rendering" /\ phase'[j] = "publishing" => Mp4(path[j]) \notin files
        /\ phase[j] = "publishing" /\ phase'[j] = "published" => Srt(path[j]) \notin files ]_vars

\* A job that was settled stays so, through restarts and late runners.
SettledForGood ==
  [][ \A j \in Jobs : jobs[j].status \in Terminal => jobs'[j] = jobs[j] ]_vars

\* The job whose commit registered the report of its own revision is told so:
\* it succeeded, or it is still on its way there (perhaps through a restart),
\* unless somebody asked for its cancellation.
RegisteredMeansSucceeded ==
  \A r \in reports :
    LET job == jobs[r.job] IN
    r.plan.revision = job.source => job.status \in {"running", "succeeded"} \/ job.cancel

\* As long as the daemon is not restarted, a cancelled export registers
\* nothing, however late the cancellation comes.  (Two failed writes in a row,
\* of the success and of the failure, leave a registered job running without a
\* runner, and it can still be cancelled.)
CancelledRegistersNothing ==
  crashes = 0 /\ faults <= 1 => \A j \in Jobs : jobs[j].cancel => \A r \in reports : r.job # j

\* A job says it succeeded exactly when it has a registered output; and as long
\* as the daemon is not restarted and nobody edits behind its back, that is of
\* the revision and the preset it was asked for, whatever was edited through
\* the daemon meanwhile.
DeliversAsAsked ==
  \A j \in Jobs :
    IF jobs[j].status = "succeeded"
    THEN /\ jobs[j].output \in reports
         /\ crashes = 0 /\ outside = 0 =>
              jobs[j].output.plan = [revision |-> jobs[j].source, preset |-> jobs[j].preset]
    ELSE jobs[j].output = Nobody

-----------------------------------------------------------------------------
(***************************************************************************)
(* What holds behind the properties, and is inductive with them.           *)
(***************************************************************************)
Synchronous == {"publishing", "published", "registered", "settling"}
Planned == Phases \ {"none", "scheduled", "recover", "settling"}
Placed == {"adopting", "rendering", "rehashing", "publishing", "published", "registered"}

Pair(p) == {Mp4(p), Srt(p)}

\* The one runner inside a synchronous stretch; none when the daemon is down.
LoopHolds ==
  /\ \A j \in Jobs : loop = j <=> phase[j] \in Synchronous
  /\ ~up => \A j \in Jobs : phase[j] = "none"

\* A runner has its job, a plan of an earlier or the current revision, and one
\* of the two pairs of that plan.
RunHolds(j) ==
  /\ jobs[j].status # "absent" => jobs[j].preset \in Presets
  /\ phase[j] = "scheduled" => jobs[j].status = "pending"
  /\ phase[j] \notin {"none", "scheduled"} => jobs[j].status = "running"
  /\ phase[j] \in Planned => plan[j] \in Plans /\ plan[j].revision <= revision
  /\ phase[j] \in Placed => path[j] \in {Primary(plan[j]), SafeRetry(plan[j], j)}
  /\ phase[j] = "registered" => ReportOf(j) \in reports

\* What a runner would delete is what it has published itself, for a job nobody
\* has cancelled; what it adopts nobody will delete; where it renders to there
\* is no file but those of a runner about to register or to delete them.
FilesHold(j) ==
  /\ finalized[j] \subseteq Pair(path[j])
  /\ finalized[j] # {} => phase[j] \in {"publishing", "published", "registered"} /\ ~jobs[j].cancel
  /\ phase[j] \in {"adopting", "rehashing", "published", "registered"} => Complete(path[j])
  /\ phase[j] \in {"adopting", "rehashing"} =>
       \A k \in Jobs : Pair(path[j]) \cap finalized[k] = {}
  /\ phase[j] = "rendering" /\ revision = plan[j].revision =>
       \A f \in Pair(path[j]) \cap files : \E k \in Jobs : f \in finalized[k]
  /\ phase[j] = "publishing" => Mp4(path[j]) \in finalized[j] /\ Srt(path[j]) \notin files
  /\ phase[j] = "registered" =>
       \A k \in Jobs : phase[k] \in Planned => plan[k].revision < revision

\* As long as the daemon has not been restarted: a pair that is not about to
\* be registered or deleted belongs to a revision that is over,
FirstFiles ==
  \A f \in files : \/ f[1].plan.revision < revision
                  \/ \E k \in Jobs : phase[k] # "registered" /\ f \in finalized[k]

\* ... so nothing adopted is registered; plans are of what was asked for,
FirstPlan(j) ==
  /\ phase[j] \notin {"recover", "checking", "rehashing"}
  /\ phase[j] = "scheduled" => loop = Nobody /\ (outside = 0 => jobs[j].source = revision)
  /\ phase[j] \in Planned /\ outside = 0 =>
       plan[j] = [revision |-> jobs[j].source, preset |-> jobs[j].preset]
  /\ phase[j] = "adopting" => plan[j].revision < revision
  /\ phase[j] = "published" => ~jobs[j].cancel \/ plan[j].revision < revision
  /\ phase[j] = "registered" => ~jobs[j].cancel

\* ... and the job of a report is settled in the stretch that registered it.
FirstReports ==
  faults <= 1 =>
    \A r \in reports :
      /\ ~jobs[r.job].cancel
      /\ \/ jobs[r.job].status \in Terminal
         \/ phase[r.job] = "registered"
         \/ phase[r.job] = "settling" /\ faults = 1

FirstRun ==
  crashes = 0 => up /\ FirstFiles /\ (\A j \in Jobs : FirstPlan(j)) /\ FirstReports

\* The files of a report are there, and no runner would delete them ...
ReportKept(r) ==
  /\ Complete(r.path)
  /\ \A k \in Jobs : phase[k] # "registered" => Pair(r.path) \cap finalized[k] = {}

\* ... and its job has not been given up.
ReportTold(r) ==
  LET job == jobs[r.job]
  IN  r.plan.revision = job.source =>
        \/ job.cancel
        \/ job.status = "succeeded"
        \/ job.status = "running" /\ phase[r.job] \in {"none", "registered"}

ReportsHold ==
  \A r \in reports :
    /\ jobs[r.job].status \notin {"absent", "pending"}
    /\ faults = 0 => ReportKept(r) /\ ReportTold(r)

ExportsHold ==
  /\ TypeOK /\ LoopHolds
  /\ \A j \in Jobs : RunHolds(j) /\ FilesHold(j)
  /\ FirstRun /\ ReportsHold /\ DeliversAsAsked

-----------------------------------------------------------------------------
\* A job that succeeded delivers the preset it was asked for, restart or not
\* (docs/11-development-log.md:1592, docs/13-long-term-execution-plan.md:241).
DeliversItsPreset ==
  \A j \in Jobs : jobs[j].status = "succeeded" => jobs[j].output.plan.preset = jobs[j].preset

\* No job waits for ever: crashes, cancellations and concurrent edits included.
JobsSettle ==
  \A j \in Jobs : jobs[j].status \in {"pending", "running"} ~> jobs[j].status \in Terminal
=============================================================================
