-------------------------- MODULE ExportJobsProofs --------------------------
(***************************************************************************)
(* Theorems about ExportJobs, for any jobs and presets, any edits, any     *)
(* crashes and any failing store writes.                                   *)
(*                                                                         *)
(* ExportsHold is the invariant behind them.  One runner at a time is       *)
(* between two awaits (LoopStep); so what it has published, and may delete  *)
(* again, is its own (FilesStep), and what it has planned is still what it  *)
(* planned (RunsStep).  Before the first crash nothing is adopted, so a     *)
(* report is of the job that made it (FirstRunStep); after it, and as long  *)
(* as no store write fails, no report loses its files or its job            *)
(* (ReportsStep).                                                          *)
(***************************************************************************)
EXTENDS ExportJobs, TLAPS

-----------------------------------------------------------------------------
(***************************************************************************)
(* Rows, reports and files have their types.                               *)
(***************************************************************************)

\* The two files of a pair are different, and belong to no other pair.
LEMMA PairFacts ==
  /\ \A p, q : Mp4(p) # Srt(q)
  /\ \A p, q : Mp4(p) = Mp4(q) => p = q
  /\ \A p, q : Srt(p) = Srt(q) => p = q
  /\ \A p : Mp4(p)[1] = p /\ Srt(p)[1] = p
  /\ \A p, f : f \in Pair(p) <=> f = Mp4(p) \/ f = Srt(p)
  /\ \A p \in Paths : Pair(p) \subseteq Paths \X {"mp4", "srt"}
  BY DEF Mp4, Srt, Pair

\* The pairs of a plan are paths.
LEMMA PathTypes ==
  ASSUME NEW p \in Plans, NEW j \in Jobs
  PROVE  Primary(p) \in Paths /\ SafeRetry(p, j) \in Paths
  BY DEF Primary, SafeRetry, Paths

\* A job row with some fields replaced by values of their types.
LEMMA RowTypes ==
  ASSUME NEW row \in JobRows
  PROVE  /\ \A s \in Statuses : [row EXCEPT !.status = s] \in JobRows
         /\ \A b \in BOOLEAN, s \in Statuses : [row EXCEPT !.cancel = b, !.status = s] \in JobRows
         /\ \A s \in Statuses, r \in Reports : [row EXCEPT !.status = s, !.output = r] \in JobRows
         /\ \A s \in Statuses, n \in Nat, p \in Presets :
              [row EXCEPT !.status = s, !.source = n, !.preset = p] \in JobRows
  <1>1. ASSUME NEW s \in Statuses PROVE [row EXCEPT !.status = s] \in JobRows
    BY <1>1 DEF JobRows
  <1>2. ASSUME NEW b \in BOOLEAN, NEW s \in Statuses
        PROVE  [row EXCEPT !.cancel = b, !.status = s] \in JobRows
    BY <1>2 DEF JobRows
  <1>3. ASSUME NEW s \in Statuses, NEW r \in Reports
        PROVE  [row EXCEPT !.status = s, !.output = r] \in JobRows
    BY <1>3 DEF JobRows
  <1>4. ASSUME NEW s \in Statuses, NEW n \in Nat, NEW p \in Presets
        PROVE  [row EXCEPT !.status = s, !.source = n, !.preset = p] \in JobRows
    BY <1>4 DEF JobRows
  <1>5. QED
    BY <1>1, <1>2, <1>3, <1>4

(* Any status makes a row of the type. *)
LEMMA StatusTypes ==
  ASSUME TypeOK, NEW j \in Jobs, NEW s \in Statuses
  PROVE  [jobs EXCEPT ![j].status = s] \in [Jobs -> JobRows]
  <1>1. [jobs[j] EXCEPT !.status = s] \in JobRows
    BY RowTypes DEF TypeOK
  <1>2. QED
    BY <1>1 DEF TypeOK

-----------------------------------------------------------------------------
(***************************************************************************)
(* One runner at a time.                                                   *)
(***************************************************************************)
AllFilesHold == \A j \in Jobs : FilesHold(j)

AllRunHold == \A j \in Jobs : RunHolds(j)

\* Outside a synchronous stretch nobody has anything to delete, and inside one
\* only its runner.
LEMMA LoopFacts ==
  ASSUME TypeOK, LoopHolds, AllFilesHold
  PROVE  /\ loop = Nobody => \A k \in Jobs : phase[k] \notin Synchronous /\ finalized[k] = {}
         /\ loop # Nobody => loop \in Jobs /\ phase[loop] \in Synchronous
         /\ \A k \in Jobs : k # loop => phase[k] \notin Synchronous /\ finalized[k] = {}
  BY BoundsAssumption DEF TypeOK, LoopHolds, AllFilesHold, FilesHold, Synchronous

(* Who has the loop, and who gives it up. *)
LEMMA TurnFacts ==
  ASSUME TypeOK, LoopHolds, NEW j \in Jobs, Turn(j)
  PROVE  /\ up
         /\ phase[j] \in Synchronous => loop = j
         /\ phase[j] \notin Synchronous => loop = Nobody
         /\ phase[j] \notin Synchronous /\ ~Microtask(j) => \A k \in Jobs : ~Microtask(k)
  BY BoundsAssumption DEF TypeOK, LoopHolds, Turn, Idle

-----------------------------------------------------------------------------
(***************************************************************************)
(* Type correctness, one step per action.                                  *)
(***************************************************************************)

\* A runner that throws keeps the types: nobody else has files to delete.
LEMMA ThrowTypes ==
  ASSUME TypeOK, LoopHolds, AllFilesHold, NEW j \in Jobs, Throw(j), loop \in {j, Nobody}
  PROVE  /\ phase' \in [Jobs -> Phases]
         /\ files' \subseteq Paths \X {"mp4", "srt"}
         /\ finalized' \in [Jobs -> SUBSET files']
         /\ loop' \in Jobs \cup {Nobody}
  <1>1. \A k \in Jobs : k # j => finalized[k] = {}
    BY LoopFacts
  <1>2. finalized' = [k \in Jobs |-> {}]
    BY <1>1 DEF Throw, TypeOK
  <1>3. QED
    BY <1>2 DEF Throw, TypeOK, Phases

(* Every step keeps the types. *)
LEMMA TypeStep ==
  ASSUME TypeOK, LoopHolds, AllRunHold, AllFilesHold, [Next]_vars
  PROVE  TypeOK'
  <1> USE BoundsAssumption
  <1>1. CASE UNCHANGED vars
    BY <1>1 DEF TypeOK, vars, durable, runner, counters
  <1>2. CASE Edit \/ OutsideEdit
    BY <1>2 DEF TypeOK, Edit, OutsideEdit, runner, counters
  <1>3. CASE Crash
    <2>1. phase' \in [Jobs -> Phases] /\ finalized' \in [Jobs -> SUBSET files]
      BY <1>3 DEF Crash, Phases
    <2>2. crashes' \in 0..MaxCrashes
      BY <1>3 DEF TypeOK, Crash
    <2>3. QED
      BY <1>3, <2>1, <2>2 DEF TypeOK, Crash, durable
  <1>4. CASE Boot
    <2>1. phase' \in [Jobs -> Phases]
      BY <1>4 DEF Boot, Phases
    <2>2. jobs' \in [Jobs -> JobRows]
      <3>1. PICK choice \in [Jobs -> reports \cup {Nobody}] :
              jobs' = [j \in Jobs |->
                IF choice[j] = Nobody THEN jobs[j]
                ELSE [jobs[j] EXCEPT !.status = "succeeded", !.output = choice[j]]]
        BY <1>4 DEF Boot
      <3>2. \A j \in Jobs : choice[j] # Nobody => choice[j] \in Reports
        BY DEF TypeOK
      <3>3. QED
        BY <3>1, <3>2, RowTypes DEF TypeOK, Statuses
    <2>3. QED
      BY <1>4, <2>1, <2>2 DEF TypeOK, Boot, counters
  <1>5. ASSUME NEW j \in Jobs, NEW preset \in Presets, Submit(j, preset) PROVE TypeOK'
    <2>1. jobs' \in [Jobs -> JobRows] /\ phase' \in [Jobs -> Phases]
      BY <1>5, RowTypes DEF TypeOK, Submit, Statuses, Phases
    <2>2. QED
      BY <1>5, <2>1 DEF TypeOK, Submit, counters
  <1>6. ASSUME NEW j \in Jobs, Cancel(j) PROVE TypeOK'
    <2>1. jobs[j].status \in Statuses
      BY DEF TypeOK, JobRows
    <2>2. jobs' \in [Jobs -> JobRows]
      BY <1>6, <2>1, RowTypes DEF TypeOK, Cancel, Statuses
    <2>3. QED
      BY <1>6, <2>2 DEF TypeOK, Cancel, counters, runner
  <1>7. ASSUME NEW j \in Jobs, Run(j) PROVE TypeOK'
    <2>1. /\ jobs[j] \in JobRows /\ jobs[j].status \in Statuses
          /\ jobs[j].status # "absent" => jobs[j].preset \in Presets
          /\ phase[j] \notin {"none", "scheduled"} => jobs[j].status = "running"
          /\ phase[j] = "scheduled" => jobs[j].status = "pending"
          /\ phase[j] \in Planned => plan[j] \in Plans
          /\ phase[j] \in Placed => path[j] \in {Primary(plan[j]), SafeRetry(plan[j], j)}
      BY DEF TypeOK, JobRows, AllRunHold, RunHolds
    <2>2. phase[j] \in Planned =>
            /\ Primary(plan[j]) \in Paths /\ SafeRetry(plan[j], j) \in Paths
            /\ phase[j] \in Placed => path[j] \in Paths
      BY <2>1, PathTypes
    <2>3. jobs[j].preset \in Presets => [revision |-> revision, preset |-> jobs[j].preset] \in Plans
      BY DEF TypeOK, Plans
    <2>4. CASE Start(j)
      <3>1. jobs' \in [Jobs -> JobRows]
        <4>1. jobs' = jobs \/ jobs' = [jobs EXCEPT ![j].status = "running"]
          BY <2>4 DEF Start
        <4>2. "running" \in Statuses
          BY DEF Statuses
        <4>3. QED
          BY <4>1, <4>2, StatusTypes DEF TypeOK
      <3>2. plan' \in [Jobs -> {Nobody} \cup Plans]
        BY <2>1, <2>3, <2>4 DEF TypeOK, Start
      <3>3. QED
        BY <2>4, <3>1, <3>2 DEF TypeOK, Start, Fault, Phases
    <2>5. CASE Choose(j) \/ AdoptFails(j)
      <3>1. path' \in [Jobs -> {Nobody} \cup Paths]
        BY <2>2, <2>5 DEF TypeOK, Choose, AdoptFails, Planned, Phases
      <3>2. phase' \in [Jobs -> Phases]
        BY <2>5 DEF TypeOK, Choose, AdoptFails, Phases
      <3>3. QED
        BY <2>5, <3>1, <3>2 DEF TypeOK, Choose, AdoptFails, durable, counters
    <2>6. CASE Adopt(j) \/ Readopt(j)
      BY <2>6 DEF TypeOK, Adopt, Readopt, durable, counters, Phases
    <2>7. CASE Abandon(j)
      BY <2>7, TurnFacts, ThrowTypes DEF TypeOK, Abandon, counters, Synchronous
    <2>8. CASE Publish(j)
      <3>1. Mp4(path[j]) \in Paths \X {"mp4", "srt"}
        BY <2>2, <2>8 DEF Publish, Planned, Placed, Phases, Mp4
      <3>2. QED
        BY <2>8, <3>1 DEF TypeOK, Publish, counters, Phases
    <2>9. CASE PublishCaption(j)
      <3>1. Srt(path[j]) \in Paths \X {"mp4", "srt"}
        BY <2>2, <2>9 DEF PublishCaption, Planned, Placed, Phases, Srt
      <3>2. QED
        BY <2>9, <3>1 DEF TypeOK, PublishCaption, counters, Phases
    <2>10. CASE Register(j)
      <3>1. ReportOf(j) \in Reports
        BY <2>1, <2>2, <2>10 DEF Register, Planned, Placed, Phases, ReportOf, Reports
      <3>2. QED
        BY <2>10, <3>1 DEF TypeOK, Register, counters, Phases
    <2>11. CASE RegisterFails(j) \/ SucceedFails(j)
      BY <2>11, TurnFacts, ThrowTypes DEF TypeOK, RegisterFails, SucceedFails, Fault, Synchronous
    <2>12. CASE Succeed(j)
      <3>1. ReportOf(j) \in Reports
        BY <2>1, <2>2, <2>12 DEF Succeed, Planned, Placed, Phases, ReportOf, Reports
      <3>2. jobs' \in [Jobs -> JobRows]
        BY <2>12, <3>1, RowTypes DEF TypeOK, Succeed, Statuses
      <3>3. QED
        BY <2>12, <3>2 DEF TypeOK, Succeed, Leave, counters, Phases
    <2>13. CASE Settle(j)
      <3>1. (IF jobs[j].cancel THEN "cancelled" ELSE onError[j]) \in Statuses
        BY DEF TypeOK, Statuses
      <3>2. jobs' \in [Jobs -> JobRows]
        BY <2>13, <3>1, StatusTypes DEF TypeOK, Settle
      <3>3. faults' \in 0..MaxFaults
        <4>1. \/ faults' = faults
              \/ faults' <= MaxFaults /\ (faults' = faults + 1 \/ faults' = faults + 2)
          BY <2>13 DEF Settle
        <4>2. faults \in Nat /\ faults <= MaxFaults /\ MaxFaults \in Nat
          BY BoundsAssumption DEF TypeOK
        <4>3. QED
          BY <4>1, <4>2
      <3>4. QED
        BY <2>13, <3>2, <3>3 DEF TypeOK, Settle, Leave, Phases
    <2>14. CASE RecoverStart(j)
      <3>1. plan' \in [Jobs -> {Nobody} \cup Plans]
        BY <2>1, <2>3, <2>14 DEF TypeOK, RecoverStart
      <3>2. QED
        BY <2>14, <3>1 DEF TypeOK, RecoverStart, durable, counters, Phases
    <2>15. CASE RecoverScan(j)
      <3>1. path' \in [Jobs -> {Nobody} \cup Paths]
        BY <2>2, <2>15 DEF TypeOK, RecoverScan, Planned, Phases
      <3>2. QED
        BY <2>15, <3>1 DEF TypeOK, RecoverScan, durable, counters, Phases
    <2>16. CASE RecoverFails(j)
      BY <2>16, TurnFacts, ThrowTypes DEF TypeOK, RecoverFails, counters, Synchronous
    <2>17. QED
      BY <1>7, <2>4, <2>5, <2>6, <2>7, <2>8, <2>9, <2>10, <2>11, <2>12, <2>13, <2>14, <2>15, <2>16
      DEF Run
  <1>8. QED
    BY <1>1, <1>2, <1>3, <1>4, <1>5, <1>6, <1>7 DEF Next

-----------------------------------------------------------------------------
(***************************************************************************)
(* What a runner's step does to the others, and to the loop.               *)
(***************************************************************************)

\* A runner writes its own row and its own local state, and deletes nothing
\* but what it finalized.
LEMMA RunFrame ==
  ASSUME TypeOK, NEW k \in Jobs, Run(k)
  PROVE  /\ \A j \in Jobs : j # k =>
              /\ jobs'[j] = jobs[j] /\ phase'[j] = phase[j] /\ plan'[j] = plan[j]
              /\ path'[j] = path[j] /\ finalized'[j] = finalized[j]
         /\ files \ finalized[k] \subseteq files'
         /\ reports \subseteq reports'
         /\ revision' \in {revision, revision + 1}
         /\ UNCHANGED <<up, crashes, outside>>
         /\ faults' \in {faults, faults + 1, faults + 2}
  <1> USE DEF TypeOK
  <1>1. CASE Start(k) \/ Choose(k) \/ AdoptFails(k) \/ Adopt(k)
    BY <1>1 DEF Start, Choose, AdoptFails, Adopt, Fault, durable, counters
  <1>2. CASE Abandon(k) \/ RegisterFails(k) \/ SucceedFails(k) \/ RecoverFails(k)
    BY <1>2 DEF Abandon, RegisterFails, SucceedFails, RecoverFails, Throw, Fault, durable, counters
  <1>3. CASE Publish(k) \/ PublishCaption(k)
    BY <1>3 DEF Publish, PublishCaption, durable, counters
  <1>4. CASE Register(k) \/ Succeed(k) \/ Settle(k)
    BY <1>4 DEF Register, Succeed, Settle, Leave, Fault, durable, counters
  <1>5. CASE RecoverStart(k) \/ RecoverScan(k) \/ Readopt(k)
    BY <1>5 DEF RecoverStart, RecoverScan, Readopt, durable, counters
  <1>6. QED
    BY <1>1, <1>2, <1>3, <1>4, <1>5 DEF Run

\* A step ends inside a synchronous stretch or leaves the loop to the others.
LEMMA RunLoop ==
  ASSUME TypeOK, LoopHolds, NEW k \in Jobs, Run(k)
  PROVE  /\ up
         /\ loop \in {k, Nobody}
         /\ phase'[k] \in Synchronous => loop' = k
         /\ phase'[k] \notin Synchronous => loop' = Nobody
  <1>1. Turn(k)
    BY DEF Run, Start, Choose, AdoptFails, Adopt, Abandon, Publish, PublishCaption, Register,
           RegisterFails, Succeed, SucceedFails, Settle, RecoverStart, RecoverScan, RecoverFails,
           Readopt
  <1>2. /\ up
        /\ loop \in {k, Nobody}
        /\ phase[k] \in Synchronous => loop = k
        /\ phase[k] \notin Synchronous => loop = Nobody
    BY <1>1, TurnFacts
  <1> USE DEF TypeOK, Synchronous
  <1>3. CASE Start(k) \/ Choose(k) \/ AdoptFails(k) \/ Adopt(k)
    BY <1>2, <1>3 DEF Start, Choose, AdoptFails, Adopt
  <1>4. CASE Abandon(k) \/ RegisterFails(k) \/ SucceedFails(k) \/ RecoverFails(k)
    BY <1>2, <1>4 DEF Abandon, RegisterFails, SucceedFails, RecoverFails, Throw
  <1>5. CASE Publish(k) \/ PublishCaption(k)
    BY <1>2, <1>5 DEF Publish, PublishCaption
  <1>6. CASE Register(k) \/ Succeed(k) \/ Settle(k)
    BY <1>2, <1>6 DEF Register, Succeed, Settle, Leave
  <1>7. CASE RecoverStart(k) \/ RecoverScan(k) \/ Readopt(k)
    BY <1>2, <1>7 DEF RecoverStart, RecoverScan, Readopt
  <1>8. QED
    BY <1>2, <1>3, <1>4, <1>5, <1>6, <1>7 DEF Run

(* At most one runner is between two awaits. *)
LEMMA LoopStep ==
  ASSUME TypeOK, LoopHolds, [Next]_vars
  PROVE  LoopHolds'
  <1> USE BoundsAssumption DEF TypeOK, LoopHolds, Synchronous
  <1>1. CASE UNCHANGED vars
    BY <1>1 DEF vars, durable, runner, counters
  <1>2. CASE Edit \/ OutsideEdit \/ Crash
    BY <1>2 DEF Edit, OutsideEdit, Crash, durable, runner, counters
  <1>3. CASE Boot
    BY <1>3 DEF Boot
  <1>4. ASSUME NEW j \in Jobs, NEW preset \in Presets, Submit(j, preset) PROVE LoopHolds'
    BY <1>4 DEF Submit, Idle
  <1>5. ASSUME NEW j \in Jobs, Cancel(j) PROVE LoopHolds'
    BY <1>5 DEF Cancel, runner
  <1>6. ASSUME NEW k \in Jobs, Run(k) PROVE LoopHolds'
    <2>1. /\ up' /\ loop \in {k, Nobody}
          /\ phase'[k] \in Synchronous => loop' = k
          /\ phase'[k] \notin Synchronous => loop' = Nobody
          /\ \A j \in Jobs : j # k => phase'[j] = phase[j]
      BY <1>6, RunLoop, RunFrame
    <2>2. QED
      BY <2>1
  <1>7. QED
    BY <1>1, <1>2, <1>3, <1>4, <1>5, <1>6 DEF Next

-----------------------------------------------------------------------------
(***************************************************************************)
(* The runner of a job: its row, its plan and its pair.                    *)
(***************************************************************************)

\* A restart only gives an interrupted job the output of a registered report.
LEMMA BootRows ==
  ASSUME TypeOK, Boot, NEW j \in Jobs
  PROVE  /\ jobs'[j].source = jobs[j].source
         /\ jobs'[j].preset = jobs[j].preset
         /\ jobs'[j].cancel = jobs[j].cancel
         /\ \/ jobs'[j] = jobs[j] /\ (jobs[j].status = "running" =>
                                        jobs[j].cancel \/ Adoptable(j) = {})
            \/ /\ jobs[j].status = "running"
               /\ jobs'[j].status = "succeeded"
               /\ jobs'[j].output \in reports
         /\ phase'[j] = CASE jobs'[j].status = "pending" -> "scheduled"
                          [] jobs'[j].status = "running" -> "recover"
                          [] OTHER -> "none"
  <1>1. PICK choice \in [Jobs -> reports \cup {Nobody}] :
          /\ \A i \in Jobs :
               choice[i] \in IF jobs[i].status = "running" /\ ~jobs[i].cancel /\ Adoptable(i) # {}
                             THEN Adoptable(i) ELSE {Nobody}
          /\ jobs' = [i \in Jobs |->
               IF choice[i] = Nobody THEN jobs[i]
               ELSE [jobs[i] EXCEPT !.status = "succeeded", !.output = choice[i]]]
    BY DEF Boot
  <1>2. jobs[j] \in JobRows
    BY DEF TypeOK
  <1>3. phase'[j] = CASE jobs'[j].status = "pending" -> "scheduled"
                      [] jobs'[j].status = "running" -> "recover"
                      [] OTHER -> "none"
    BY DEF Boot
  <1>4. CASE choice[j] = Nobody
    <2>1. jobs'[j] = jobs[j]
      BY <1>1, <1>4
    <2>2. jobs[j].status = "running" => jobs[j].cancel \/ Adoptable(j) = {}
      <3>1. SUFFICES ASSUME jobs[j].status = "running", ~jobs[j].cancel, Adoptable(j) # {} PROVE FALSE
        OBVIOUS
      <3>2. Nobody \in reports
        BY <1>1, <1>4, <3>1 DEF Adoptable
      <3>3. QED
        BY <3>2, NobodyAssumption DEF TypeOK
    <2>3. QED
      BY <1>3, <2>1, <2>2
  <1>5. CASE choice[j] # Nobody
    <2>1. jobs[j].status = "running" /\ choice[j] \in reports
      BY <1>1, <1>5 DEF Adoptable
    <2>2. jobs'[j] = [jobs[j] EXCEPT !.status = "succeeded", !.output = choice[j]]
      BY <1>1, <1>5
    <2>3. QED
      BY <1>2, <1>3, <2>1, <2>2 DEF JobRows
  <1>6. QED
    BY <1>4, <1>5

(* Where a runner is agrees with the row of its job. *)
LEMMA RunsStep ==
  ASSUME TypeOK, LoopHolds, AllRunHold, [Next]_vars
  PROVE  AllRunHold'
  <1> SUFFICES ASSUME NEW j \in Jobs PROVE RunHolds(j)'
    BY DEF AllRunHold
  <1>1. /\ RunHolds(j) /\ revision \in Nat
        /\ jobs \in [Jobs -> JobRows] /\ jobs[j] \in JobRows
        /\ phase \in [Jobs -> Phases] /\ phase[j] \in Phases
        /\ plan[j] \in Plans => plan[j].revision \in Nat
        /\ DOMAIN plan = Jobs /\ DOMAIN path = Jobs
    BY DEF TypeOK, AllRunHold, Plans
  <1> USE DEF RunHolds
  <1>2. CASE UNCHANGED vars
    BY <1>1, <1>2 DEF vars, durable, runner, counters, ReportOf
  <1>3. CASE Edit \/ OutsideEdit
    BY <1>1, <1>3 DEF Edit, OutsideEdit, runner, ReportOf
  <1>4. CASE Crash
    BY <1>1, <1>4 DEF Crash, durable, Planned, Placed
  <1>5. CASE Boot
    <2>1. phase'[j] \in {"none", "scheduled", "recover"}
      BY <1>5, BootRows
    <2>2. QED
      BY <1>1, <1>5, <2>1, BootRows DEF Planned, Placed
  <1>6. ASSUME NEW k \in Jobs, NEW preset \in Presets, Submit(k, preset) PROVE RunHolds(j)'
    <2>1. CASE k = j
      <3>1. jobs'[j].status = "pending" /\ jobs'[j].preset \in Presets /\ phase'[j] = "scheduled"
        BY <1>1, <1>6, <2>1 DEF Submit, JobRows
      <3>2. QED
        BY <3>1 DEF Planned, Placed
    <2>2. CASE k # j
      BY <1>1, <1>6, <2>2 DEF Submit, ReportOf
    <2>3. QED
      BY <2>1, <2>2
  <1>7. ASSUME NEW k \in Jobs, Cancel(k) PROVE RunHolds(j)'
    <2>1. phase[j] # "scheduled"
      BY <1>7 DEF Cancel, Idle, Microtask
    <2>2. CASE k = j
      <3>1. /\ jobs'[j].preset = jobs[j].preset
            /\ jobs'[j].status = IF jobs[j].status = "pending" THEN "cancelled" ELSE jobs[j].status
        BY <1>1, <1>7, <2>2 DEF Cancel, JobRows
      <3>2. QED
        BY <1>1, <1>7, <2>1, <3>1 DEF Cancel, runner, ReportOf
    <2>3. CASE k # j
      BY <1>1, <1>7, <2>3 DEF Cancel, runner, ReportOf
    <2>4. QED
      BY <2>2, <2>3
  <1>8. ASSUME NEW k \in Jobs, k # j, Run(k) PROVE RunHolds(j)'
    <2>1. /\ jobs'[j] = jobs[j] /\ phase'[j] = phase[j] /\ plan'[j] = plan[j] /\ path'[j] = path[j]
          /\ reports \subseteq reports' /\ revision' \in {revision, revision + 1}
      BY <1>8, RunFrame
    <2>2. QED
      BY <1>1, <2>1 DEF ReportOf
  <1>9. CASE Run(j)
    <2>1. CASE Start(j)
      <3>1. CASE phase'[j] = "none"
        BY <1>1, <2>1, <3>1 DEF Start, Planned, Placed
      <3>2. CASE phase'[j] # "none"
        <4>1. /\ phase'[j] = "verifying" /\ revision' = revision
              /\ jobs'[j] = [jobs[j] EXCEPT !.status = "running"]
              /\ plan'[j] = [revision |-> revision, preset |-> jobs[j].preset]
          BY <1>1, <2>1, <3>2 DEF Start
        <4>2. jobs'[j].status = "running" /\ jobs'[j].preset = jobs[j].preset
          BY <1>1, <4>1 DEF JobRows
        <4>3. jobs[j].preset \in Presets
          BY <1>1, <2>1 DEF Start
        <4>4. QED
          BY <1>1, <4>1, <4>2, <4>3 DEF Placed, Plans
      <3>3. QED
        BY <3>1, <3>2
    <2>2. CASE Choose(j) \/ AdoptFails(j)
      BY <1>1, <2>2 DEF Choose, AdoptFails, Planned, Placed, durable
    <2>3. CASE Adopt(j) \/ Readopt(j)
      BY <1>1, <2>3 DEF Adopt, Readopt, Planned, Placed, durable
    <2>4. CASE Abandon(j) \/ RegisterFails(j) \/ SucceedFails(j) \/ RecoverFails(j)
      <3>1. phase'[j] = "settling" /\ jobs' = jobs /\ phase[j] \notin {"none", "scheduled"}
        BY <1>1, <2>4 DEF Abandon, RegisterFails, SucceedFails, RecoverFails, Throw
      <3>2. QED
        BY <1>1, <3>1 DEF Planned, Placed
    <2>5. CASE Publish(j) \/ PublishCaption(j)
      BY <1>1, <2>5 DEF Publish, PublishCaption, Planned, Placed, Phases
    <2>6. CASE Register(j)
      BY <1>1, <2>6 DEF Register, Planned, Placed, Phases, ReportOf
    <2>7. CASE Succeed(j) \/ Settle(j)
      <3>1. phase'[j] = "none" /\ jobs'[j].preset = jobs[j].preset
             /\ jobs[j].status = "running"
        BY <1>1, <2>7 DEF Succeed, Settle, Leave, JobRows
      <3>2. QED
        BY <1>1, <3>1 DEF Planned, Placed
    <2>8. CASE RecoverStart(j)
      <3>1. /\ phase'[j] \in {"settling", "checking"} /\ jobs' = jobs /\ revision' = revision
            /\ plan'[j] = [revision |-> revision, preset |-> jobs[j].preset]
            /\ jobs[j].status = "running"
        BY <1>1, <2>8 DEF RecoverStart, durable
      <3>2. QED
        BY <1>1, <3>1 DEF Planned, Placed, Plans
    <2>9. CASE RecoverScan(j)
      BY <1>1, <2>9 DEF RecoverScan, Planned, Placed, Phases, durable
    <2>10. QED
      BY <1>9, <2>1, <2>2, <2>3, <2>4, <2>5, <2>6, <2>7, <2>8, <2>9 DEF Run
  <1>10. QED
    BY <1>2, <1>3, <1>4, <1>5, <1>6, <1>7, <1>8, <1>9 DEF Next

-----------------------------------------------------------------------------
(***************************************************************************)
(* Files.                                                                  *)
(***************************************************************************)

\* The places where a runner is about to publish: nobody's files are there.
LEMMA FreePlace ==
  ASSUME TypeOK, LoopHolds, AllFilesHold, NEW k \in Jobs, Publish(k) \/ PublishCaption(k)
  PROVE  /\ Publish(k) => Mp4(path[k]) \notin files /\ Srt(path[k]) \notin files /\ finalized[k] = {}
         /\ PublishCaption(k) => Mp4(path[k]) \in files /\ Srt(path[k]) \notin files
  <1>1. CASE Publish(k)
    <2>1. Turn(k) /\ phase[k] = "rendering" /\ revision = plan[k].revision
      BY <1>1 DEF Publish
    <2>2. \A i \in Jobs : finalized[i] = {}
      BY <2>1, TurnFacts, LoopFacts DEF Synchronous
    <2>3. Pair(path[k]) \cap files = {}
      BY <2>1, <2>2 DEF AllFilesHold, FilesHold
    <2>4. QED
      BY <1>1, <2>1, <2>2, <2>3, PairFacts DEF PublishCaption
  <1>2. CASE PublishCaption(k)
    BY <1>2 DEF Publish, PublishCaption, AllFilesHold, FilesHold, TypeOK
  <1>3. QED
    BY <1>1, <1>2

\* A runner adds only files it would delete, and would delete only files that
\* it has added; what is not deleted stays on its list until it is registered.
LEMMA RunFiles ==
  ASSUME TypeOK, LoopHolds, AllFilesHold, NEW k \in Jobs, Run(k)
  PROVE  /\ files' \subseteq files \cup finalized'[k]
         /\ finalized'[k] \subseteq finalized[k] \cup (files' \ files)
         /\ phase[k] # "registered" => finalized[k] \cap files' \subseteq finalized'[k]
  <1> USE DEF TypeOK
  <1>1. CASE Start(k) \/ Choose(k) \/ AdoptFails(k) \/ Adopt(k)
    BY <1>1 DEF Start, Choose, AdoptFails, Adopt, durable
  <1>2. CASE Abandon(k) \/ RegisterFails(k) \/ SucceedFails(k) \/ RecoverFails(k)
    BY <1>2 DEF Abandon, RegisterFails, SucceedFails, RecoverFails, Throw
  <1>3. CASE Publish(k)
    BY <1>3, FreePlace DEF Publish
  <1>4. CASE PublishCaption(k)
    BY <1>4, FreePlace DEF PublishCaption
  <1>5. CASE Register(k) \/ Settle(k)
    BY <1>5 DEF Register, Settle, Leave
  <1>6. CASE Succeed(k)
    BY <1>6 DEF Succeed
  <1>7. CASE RecoverStart(k) \/ RecoverScan(k) \/ Readopt(k)
    BY <1>7 DEF RecoverStart, RecoverScan, Readopt, durable
  <1>8. QED
    BY <1>1, <1>2, <1>3, <1>4, <1>5, <1>6, <1>7 DEF Run

\* The runner's own part of FilesHold.
LEMMA RunFilesHold ==
  ASSUME TypeOK, LoopHolds, AllRunHold, AllFilesHold, NEW j \in Jobs, Run(j)
  PROVE  FilesHold(j)'
  <1>1. /\ FilesHold(j) /\ RunHolds(j)
        /\ phase \in [Jobs -> Phases] /\ path \in [Jobs -> {Nobody} \cup Paths]
        /\ finalized \in [Jobs -> SUBSET files]
        /\ jobs \in [Jobs -> JobRows] /\ jobs[j] \in JobRows
        /\ revision \in Nat
    BY DEF AllRunHold, AllFilesHold, TypeOK
  <1>2. Turn(j) /\ phase[j] \notin Synchronous => \A k \in Jobs : finalized[k] = {}
    BY TurnFacts, LoopFacts
  <1>3. CASE Start(j) \/ RecoverStart(j)
    <2>1. finalized' = finalized /\ path' = path /\ jobs'[j].cancel = jobs[j].cancel
          /\ phase'[j] \in {"none", "verifying", "settling", "checking"}
      BY <1>1, <1>3 DEF Start, RecoverStart, durable, JobRows
    <2>2. finalized[j] = {}
      BY <1>2, <1>3 DEF Start, RecoverStart, Synchronous
    <2>3. QED
      BY <2>1, <2>2 DEF FilesHold
  <1>4. CASE Choose(j)
    <2>1. \A k \in Jobs : finalized'[k] = {}
      BY <1>2, <1>4 DEF Choose, Synchronous
    <2>2. \/ phase'[j] = "adopting" /\ Complete(path'[j])
          \/ phase'[j] = "rendering" /\ ~Exists(path'[j])
      BY <1>1, <1>4 DEF Choose
    <2>3. files' = files
      BY <1>4 DEF Choose, durable
    <2>4. QED
      BY <2>1, <2>2, <2>3 DEF FilesHold, Complete, Exists, Pair
  <1>5. CASE AdoptFails(j)
    <2>1. \A k \in Jobs : finalized'[k] = {}
      BY <1>2, <1>5 DEF AdoptFails, Synchronous
    <2>2. phase'[j] = "rendering" /\ ~Exists(path'[j])
      BY <1>1, <1>5 DEF AdoptFails
    <2>3. files' = files
      BY <1>5 DEF AdoptFails, durable
    <2>4. QED
      BY <2>1, <2>2, <2>3 DEF FilesHold, Complete, Exists, Pair
  <1>6. CASE Adopt(j) \/ Readopt(j)
    <2>1. phase'[j] = "published" /\ phase[j] \in {"adopting", "rehashing"}
          /\ UNCHANGED <<path, finalized, files, jobs>>
      BY <1>1, <1>6 DEF Adopt, Readopt, durable
    <2>2. finalized[j] = {}
      BY <1>1, <2>1 DEF FilesHold
    <2>3. QED
      BY <1>1, <2>1, <2>2 DEF FilesHold, Complete
  <1>7. CASE Abandon(j) \/ RegisterFails(j) \/ SucceedFails(j) \/ RecoverFails(j)
    <2>1. phase'[j] = "settling" /\ finalized'[j] = {}
      BY <1>1, <1>7 DEF Abandon, RegisterFails, SucceedFails, RecoverFails, Throw
    <2>2. QED
      BY <2>1 DEF FilesHold
  <1>8. CASE Publish(j)
    <2>1. /\ phase'[j] = "publishing" /\ ~jobs'[j].cancel /\ path' = path
          /\ files' = files \cup {Mp4(path[j])} /\ finalized'[j] = {Mp4(path[j])}
      BY <1>1, <1>8 DEF Publish
    <2>2. Srt(path[j]) \notin files
      BY <1>8, FreePlace
    <2>3. QED
      BY <2>1, <2>2, PairFacts DEF FilesHold
  <1>9. CASE PublishCaption(j)
    <2>1. /\ phase'[j] = "published" /\ jobs' = jobs /\ path' = path
          /\ files' = files \cup {Srt(path[j])}
          /\ finalized'[j] = finalized[j] \cup {Srt(path[j])}
      BY <1>1, <1>9 DEF PublishCaption
    <2>2. Complete(path[j])'
      BY <1>9, <2>1, FreePlace DEF Complete
    <2>3. ~jobs[j].cancel
      BY <1>1, <1>9 DEF PublishCaption, FilesHold
    <2>4. QED
      BY <1>1, <2>1, <2>2, <2>3, PairFacts DEF FilesHold
  <1>10. CASE Register(j)
    <2>1. /\ phase'[j] = "registered" /\ phase[j] = "published" /\ UNCHANGED <<path, finalized, files, jobs, plan>>
          /\ revision' = revision + 1
      BY <1>1, <1>10 DEF Register
    <2>2. ASSUME NEW k \in Jobs, phase'[k] \in Planned PROVE plan'[k].revision < revision'
      <3>1. phase[k] \in Planned
        BY <1>1, <1>10, <2>1, <2>2 DEF Register, Planned, Phases
      <3>2. plan[k] \in Plans /\ plan[k].revision <= revision /\ plan[k].revision \in Nat
        BY <3>1 DEF AllRunHold, RunHolds, Plans
      <3>3. QED
        BY <1>1, <2>1, <3>2
    <2>3. QED
      BY <1>1, <2>1, <2>2 DEF FilesHold, Complete
  <1>11. CASE Succeed(j) \/ Settle(j)
    <2>1. phase'[j] = "none" /\ finalized'[j] = {}
      BY <1>1, <1>11 DEF Succeed, Settle, Leave, FilesHold
    <2>2. QED
      BY <2>1 DEF FilesHold
  <1>12. CASE RecoverScan(j)
    <2>1. \A k \in Jobs : finalized'[k] = {}
      BY <1>2, <1>12 DEF RecoverScan, Synchronous
    <2>2. phase'[j] = "rehashing" /\ Complete(path'[j]) /\ files' = files
      BY <1>1, <1>12 DEF RecoverScan, durable
    <2>3. QED
      BY <2>1, <2>2 DEF FilesHold, Complete
  <1>13. QED
    BY <1>3, <1>4, <1>5, <1>6, <1>7, <1>8, <1>9, <1>10, <1>11, <1>12 DEF Run

\* Another runner's step leaves j's part alone: it publishes nothing where j
\* renders without being about to register it, and deletes nothing j adopts.
LEMMA OtherFilesHold ==
  ASSUME TypeOK, LoopHolds, AllRunHold, AllFilesHold,
         NEW j \in Jobs, NEW k \in Jobs, k # j, Run(k)
  PROVE  FilesHold(j)'
  <1>1. /\ jobs'[j] = jobs[j] /\ phase'[j] = phase[j] /\ plan'[j] = plan[j]
        /\ path'[j] = path[j] /\ finalized'[j] = finalized[j]
        /\ \A i \in Jobs : i # k => finalized'[i] = finalized[i]
        /\ files \ finalized[k] \subseteq files'
        /\ revision' \in {revision, revision + 1}
    BY RunFrame
  <1>2. /\ files' \subseteq files \cup finalized'[k]
        /\ finalized'[k] \subseteq finalized[k] \cup (files' \ files)
        /\ phase[k] # "registered" => finalized[k] \cap files' \subseteq finalized'[k]
    BY RunFiles
  <1>3. phase[j] \notin Synchronous
    BY RunLoop, BoundsAssumption DEF LoopHolds
  <1>4. FilesHold(j) /\ RunHolds(j) /\ revision \in Nat
    BY DEF AllFilesHold, AllRunHold, TypeOK
  <1>5. finalized'[j] = {} /\ finalized[j] = {}
    BY <1>1, <1>3, <1>4 DEF FilesHold, Synchronous
  <1>6. phase[j] \in {"adopting", "rehashing"} =>
          /\ Complete(path[j])'
          /\ \A i \in Jobs : Pair(path[j]) \cap finalized'[i] = {}
    <2> SUFFICES ASSUME phase[j] \in {"adopting", "rehashing"}
                 PROVE  /\ Complete(path[j])'
                        /\ \A i \in Jobs : Pair(path[j]) \cap finalized'[i] = {}
      OBVIOUS
    <2>1. Pair(path[j]) \subseteq files /\ \A i \in Jobs : Pair(path[j]) \cap finalized[i] = {}
      BY <1>4 DEF FilesHold, Complete, Pair
    <2>2. Pair(path[j]) \subseteq files'
      BY <1>1, <2>1
    <2>3. \A i \in Jobs : Pair(path[j]) \cap finalized'[i] = {}
      BY <1>1, <1>2, <2>1
    <2>4. QED
      BY <1>1, <2>2, <2>3 DEF Complete, Pair
  <1>7. ASSUME phase[j] = "rendering", revision' = plan[j].revision,
               NEW f \in Pair(path[j]) \cap files'
        PROVE  \E i \in Jobs : f \in finalized'[i]
    <2>1. plan[j] \in Plans /\ plan[j].revision \in Nat /\ plan[j].revision <= revision
      BY <1>4, <1>7 DEF RunHolds, Planned, Phases, Plans
    <2>2. revision = plan[j].revision
      BY <1>1, <1>4, <1>7, <2>1
    <2>3. CASE f \in files
      <3>1. PICK i \in Jobs : f \in finalized[i]
        BY <1>4, <1>7, <2>2, <2>3 DEF FilesHold
      <3>2. phase[k] # "registered"
        <4>1. phase[j] \in Planned
          BY <1>7 DEF Planned, Phases
        <4>2. phase[k] = "registered" => plan[j].revision < revision
          BY <4>1 DEF AllFilesHold, FilesHold
        <4>3. QED
          BY <2>1, <2>2, <4>2
      <3>3. QED
        BY <1>1, <1>2, <1>7, <3>1, <3>2
    <2>4. CASE f \notin files
      BY <1>2, <1>7, <2>4
    <2>5. QED
      BY <2>3, <2>4
  <1>8. QED
    BY <1>1, <1>3, <1>4, <1>5, <1>6, <1>7 DEF FilesHold, Synchronous, Complete

(* What a runner has published is there, and is its own. *)
LEMMA FilesStep ==
  ASSUME TypeOK, LoopHolds, AllRunHold, AllFilesHold, [Next]_vars
  PROVE  AllFilesHold'
  <1> SUFFICES ASSUME NEW j \in Jobs PROVE FilesHold(j)'
    BY DEF AllFilesHold
  <1>1. /\ FilesHold(j) /\ RunHolds(j) /\ revision \in Nat
        /\ jobs \in [Jobs -> JobRows] /\ jobs[j] \in JobRows
        /\ \A k \in Jobs : phase[k] \in Planned =>
             plan[k].revision \in Nat /\ plan[k].revision <= revision
    BY DEF AllFilesHold, AllRunHold, RunHolds, TypeOK, Plans
  <1>2. CASE UNCHANGED vars
    BY <1>1, <1>2 DEF vars, durable, runner, counters, FilesHold, Complete
  <1>3. CASE Edit \/ OutsideEdit
    <2>1. revision' = revision + 1 /\ UNCHANGED <<files, jobs, phase, plan, path, finalized>>
      BY <1>3 DEF Edit, OutsideEdit, runner
    <2>2. phase[j] = "rendering" => revision' # plan[j].revision
      BY <1>1, <2>1 DEF Planned, Phases
    <2>3. \A k \in Jobs : phase[k] \in Planned => plan[k].revision < revision'
      BY <1>1, <2>1
    <2>4. QED
      BY <1>1, <2>1, <2>2, <2>3 DEF FilesHold, Complete
  <1>4. CASE Crash
    BY <1>4 DEF Crash, FilesHold
  <1>5. CASE Boot
    <2>1. finalized[j] = {} /\ finalized' = finalized
      BY <1>1, <1>5 DEF Boot, FilesHold, LoopHolds
    <2>2. phase'[j] \in {"none", "scheduled", "recover"}
      BY <1>5, BootRows
    <2>3. QED
      BY <2>1, <2>2 DEF FilesHold
  <1>6. ASSUME NEW k \in Jobs, NEW preset \in Presets, Submit(k, preset) PROVE FilesHold(j)'
    <2>1. finalized[j] = {} /\ phase[j] \notin Synchronous
      BY <1>6, LoopFacts DEF Submit, Idle
    <2>2. UNCHANGED <<revision, files, plan, path, finalized>>
          /\ phase' = [phase EXCEPT ![k] = "scheduled"]
      BY <1>6 DEF Submit
    <2>3. phase'[j] = phase[j] \/ phase'[j] = "scheduled"
      BY <2>2 DEF TypeOK
    <2>4. QED
      BY <1>1, <2>1, <2>2, <2>3 DEF FilesHold, Synchronous, Complete
  <1>7. ASSUME NEW k \in Jobs, Cancel(k) PROVE FilesHold(j)'
    <2>1. finalized[j] = {}
      BY <1>7, LoopFacts DEF Cancel, Idle
    <2>2. UNCHANGED <<revision, files, phase, plan, path, finalized>>
      BY <1>7 DEF Cancel, runner
    <2>3. QED
      BY <1>1, <2>1, <2>2 DEF FilesHold, Complete
  <1>8. ASSUME NEW k \in Jobs, Run(k) PROVE FilesHold(j)'
    BY <1>8, RunFilesHold, OtherFilesHold
  <1>9. QED
    BY <1>2, <1>3, <1>4, <1>5, <1>6, <1>7, <1>8 DEF Next

-----------------------------------------------------------------------------
(***************************************************************************)
(* The row of a job.                                                       *)
(***************************************************************************)

\* What a runner writes into its job: that it runs, that it is settled after a
\* failure, or that it succeeded with the report it has registered.
LEMMA RunRow ==
  ASSUME TypeOK, AllRunHold, NEW k \in Jobs, Run(k)
  PROVE  /\ phase[k] # "none"
         /\ jobs'[k].source = jobs[k].source
         /\ jobs'[k].preset = jobs[k].preset
         /\ jobs'[k].cancel = jobs[k].cancel
         /\ \/ jobs'[k] = jobs[k] /\ phase[k] # "registered"
            \/ jobs'[k] = jobs[k] /\ SucceedFails(k)
            \/ /\ phase[k] = "scheduled" /\ jobs[k].status = "pending"
               /\ jobs'[k].status = "running" /\ jobs'[k].output = jobs[k].output
            \/ /\ phase[k] = "settling" /\ phase'[k] = "none" /\ jobs[k].status = "running"
               /\ jobs'[k].status \in Terminal \ {"succeeded"} /\ jobs'[k].output = jobs[k].output
            \/ /\ Succeed(k) /\ jobs[k].status = "running"
               /\ jobs'[k].status = "succeeded" /\ jobs'[k].output = ReportOf(k)
  <1>1. jobs[k] \in JobRows /\ jobs \in [Jobs -> JobRows] /\ phase \in [Jobs -> Phases]
        /\ onError[k] \in {"failed", "outcome_unknown"} /\ RunHolds(k)
    BY DEF TypeOK, AllRunHold
  <1>2. CASE Start(k)
    <2>1. phase[k] = "scheduled"
          /\ (jobs' = jobs \/ jobs' = [jobs EXCEPT ![k].status = "running"])
      BY <1>2 DEF Start
    <2>2. QED
      BY <1>1, <2>1 DEF JobRows, RunHolds
  <1>3. CASE Settle(k)
    <2>1. /\ phase[k] = "settling" /\ phase'[k] = "none"
          /\ \/ jobs' = jobs
             \/ jobs' = [jobs EXCEPT ![k].status = IF jobs[k].cancel THEN "cancelled" ELSE onError[k]]
      BY <1>1, <1>3 DEF Settle, Leave
    <2>2. QED
      BY <1>1, <2>1 DEF JobRows, RunHolds, Terminal
  <1>4. CASE Succeed(k)
    <2>1. phase[k] = "registered"
          /\ jobs'[k] = [jobs[k] EXCEPT !.status = "succeeded", !.output = ReportOf(k)]
      BY <1>1, <1>4 DEF Succeed
    <2>2. QED
      BY <1>1, <1>4, <2>1 DEF JobRows, RunHolds
  <1>5. CASE SucceedFails(k)
    BY <1>5 DEF SucceedFails
  <1>6. CASE Choose(k) \/ AdoptFails(k) \/ Adopt(k) \/ Abandon(k) \/ RegisterFails(k) \/ RecoverFails(k)
    BY <1>6 DEF Choose, AdoptFails, Adopt, Abandon, RegisterFails, RecoverFails, durable
  <1>7. CASE Publish(k) \/ PublishCaption(k) \/ Register(k)
             \/ RecoverStart(k) \/ RecoverScan(k) \/ Readopt(k)
    BY <1>7 DEF Publish, PublishCaption, Register, RecoverStart, RecoverScan, Readopt, durable
  <1>8. QED
    BY <1>2, <1>3, <1>4, <1>5, <1>6, <1>7 DEF Run

\* Only Register adds a report and a revision, and only it leads to "registered".
LEMMA RunReports ==
  ASSUME TypeOK, NEW k \in Jobs, Run(k)
  PROVE  \/ Register(k)
         \/ reports' = reports /\ revision' = revision /\ phase'[k] # "registered"
  <1>1. phase \in [Jobs -> Phases]
    BY DEF TypeOK
  <1>2. CASE Start(k) \/ Choose(k) \/ AdoptFails(k) \/ Adopt(k)
    BY <1>1, <1>2 DEF Start, Choose, AdoptFails, Adopt, durable
  <1>3. CASE Abandon(k) \/ RegisterFails(k) \/ SucceedFails(k) \/ RecoverFails(k)
    BY <1>1, <1>3 DEF Abandon, RegisterFails, SucceedFails, RecoverFails, Throw
  <1>4. CASE Publish(k) \/ PublishCaption(k) \/ Succeed(k) \/ Settle(k)
    BY <1>1, <1>4 DEF Publish, PublishCaption, Succeed, Settle, Leave
  <1>5. CASE RecoverStart(k) \/ RecoverScan(k) \/ Readopt(k)
    BY <1>1, <1>5 DEF RecoverStart, RecoverScan, Readopt, durable
  <1>6. QED
    BY <1>2, <1>3, <1>4, <1>5 DEF Run

-----------------------------------------------------------------------------
(***************************************************************************)
(* As long as the daemon has not been restarted.                           *)
(***************************************************************************)
LEMMA FirstFilesStep ==
  ASSUME TypeOK, LoopHolds, AllRunHold, AllFilesHold, FirstFiles, [Next]_vars, ~Crash, ~Boot
  PROVE  FirstFiles'
  <1>1. revision \in Nat /\ \A f \in Paths \X {"mp4", "srt"} : f[1].plan.revision \in Nat
    BY DEF TypeOK, Paths, Plans
  <1>2. \A f \in files : f[1].plan.revision \in Nat
    BY <1>1 DEF TypeOK
  <1>3. CASE UNCHANGED <<revision, files, finalized>> /\ \A k \in Jobs : phase'[k] # "registered" \/ phase'[k] = phase[k]
    BY <1>3 DEF FirstFiles
  <1>4. CASE Edit \/ OutsideEdit
    <2>1. revision' = revision + 1 /\ UNCHANGED <<files, phase, finalized>>
      BY <1>4 DEF Edit, OutsideEdit, runner
    <2>2. QED
      BY <1>1, <1>2, <2>1 DEF FirstFiles
  <1>5. CASE UNCHANGED vars
    BY <1>3, <1>5 DEF vars, durable, runner
  <1>6. ASSUME NEW k \in Jobs, NEW preset \in Presets, Submit(k, preset) PROVE FirstFiles'
    BY <1>3, <1>6 DEF Submit, TypeOK
  <1>7. ASSUME NEW k \in Jobs, Cancel(k) PROVE FirstFiles'
    BY <1>3, <1>7 DEF Cancel, runner
  <1>8. ASSUME NEW k \in Jobs, Run(k) PROVE FirstFiles'
    <2>1. /\ \A i \in Jobs : i # k => finalized'[i] = finalized[i] /\ phase'[i] = phase[i]
          /\ revision' \in {revision, revision + 1}
      BY <1>8, RunFrame
    <2>2. /\ files' \subseteq files \cup finalized'[k]
          /\ phase[k] # "registered" => finalized[k] \cap files' \subseteq finalized'[k]
      BY <1>8, RunFiles
    <2>3. CASE Register(k)
      <3>1. /\ files' = files /\ finalized' = finalized /\ revision' = revision + 1
            /\ revision = plan[k].revision /\ phase[k] = "published"
        BY <2>3 DEF Register
      <3>2. \A f \in finalized[k] : f[1].plan.revision = revision
        <4>1. path[k] \in {Primary(plan[k]), SafeRetry(plan[k], k)} /\ finalized[k] \subseteq Pair(path[k])
          BY <3>1 DEF AllRunHold, RunHolds, AllFilesHold, FilesHold, Placed
        <4>2. path[k].plan.revision = revision
          BY <3>1, <4>1 DEF Primary, SafeRetry
        <4>3. QED
          BY <4>1, <4>2 DEF Pair, Mp4, Srt
      <3>3. SUFFICES ASSUME NEW f \in files
                     PROVE  \/ f[1].plan.revision < revision'
                            \/ \E i \in Jobs : phase'[i] # "registered" /\ f \in finalized'[i]
        BY <3>1 DEF FirstFiles
      <3>4. CASE f[1].plan.revision < revision
        BY <1>1, <1>2, <3>1, <3>4
      <3>5. CASE f \in finalized[k]
        BY <1>1, <3>1, <3>2, <3>5
      <3>6. ASSUME NEW i \in Jobs, i # k, phase[i] # "registered", f \in finalized[i]
            PROVE  phase'[i] # "registered" /\ f \in finalized'[i]
        BY <2>1, <3>6
      <3>7. QED
        BY <3>4, <3>5, <3>6 DEF FirstFiles
    <2>4. CASE revision' = revision /\ phase'[k] # "registered"
      <3>1. SUFFICES ASSUME NEW f \in files'
                     PROVE  \/ f[1].plan.revision < revision
                            \/ \E i \in Jobs : phase'[i] # "registered" /\ f \in finalized'[i]
        BY <2>4 DEF FirstFiles
      <3>2. CASE f \notin files
        BY <2>2, <2>4, <3>2
      <3>3. ASSUME NEW i \in Jobs, phase[i] # "registered", f \in finalized[i]
            PROVE  phase'[i] # "registered" /\ f \in finalized'[i]
        BY <2>1, <2>2, <2>4, <3>3
      <3>4. QED
        BY <3>2, <3>3 DEF FirstFiles
    <2>5. QED
      BY <1>8, <2>3, <2>4, RunReports
  <1>9. QED
    BY <1>4, <1>5, <1>6, <1>7, <1>8 DEF Next

\* A waiting microtask is served before anything else, so a first run plans
\* from the revision its request was made on.
LEMMA FirstPlanStep ==
  ASSUME TypeOK, LoopHolds, AllRunHold, AllFilesHold, FirstFiles,
         \A i \in Jobs : FirstPlan(i),
         [Next]_vars, ~Crash, ~Boot, NEW j \in Jobs
  PROVE  FirstPlan(j)'
  <1>1. /\ FirstPlan(j) /\ RunHolds(j) /\ revision \in Nat /\ outside \in Nat
        /\ phase \in [Jobs -> Phases] /\ DOMAIN plan = Jobs
        /\ jobs \in [Jobs -> JobRows] /\ jobs[j] \in JobRows
        /\ phase[j] \in Planned => plan[j].revision \in Nat /\ plan[j].revision <= revision
    BY DEF TypeOK, AllRunHold, RunHolds, Plans
  <1>2. CASE UNCHANGED vars
    BY <1>1, <1>2 DEF vars, durable, runner, counters, FirstPlan
  <1>3. CASE Edit
    BY <1>1, <1>3 DEF Edit, Idle, Microtask, runner, counters, FirstPlan, Planned, Phases
  <1>4. CASE OutsideEdit
    <2>1. outside' # 0 /\ revision' = revision + 1 /\ UNCHANGED <<jobs, runner>>
      BY <1>1, <1>4 DEF OutsideEdit
    <2>2. QED
      BY <1>1, <2>1 DEF runner, FirstPlan, Planned, Phases
  <1>5. ASSUME NEW k \in Jobs, NEW preset \in Presets, Submit(k, preset) PROVE FirstPlan(j)'
    <2>1. CASE k = j
      <3>1. phase'[j] = "scheduled" /\ loop' = Nobody /\ revision' = revision /\ jobs'[j].source = revision
        BY <1>1, <1>5, <2>1 DEF Submit, Idle, JobRows
      <3>2. QED
        BY <3>1 DEF FirstPlan, Planned
    <2>2. CASE k # j
      BY <1>1, <1>5, <2>2 DEF Submit, FirstPlan, counters
    <2>3. QED
      BY <2>1, <2>2
  <1>6. ASSUME NEW k \in Jobs, Cancel(k) PROVE FirstPlan(j)'
    <2>1. phase[j] \notin Synchronous
      BY <1>6, LoopFacts DEF Cancel, Idle
    <2>2. /\ jobs'[j].source = jobs[j].source /\ jobs'[j].preset = jobs[j].preset
          /\ UNCHANGED <<revision, runner, outside>>
      BY <1>1, <1>6 DEF Cancel, counters, JobRows
    <2>3. QED
      BY <1>1, <2>1, <2>2 DEF runner, FirstPlan, Synchronous
  <1>7. ASSUME NEW k \in Jobs, k # j, Run(k) PROVE FirstPlan(j)'
    <2>1. /\ jobs'[j] = jobs[j] /\ phase'[j] = phase[j] /\ plan'[j] = plan[j]
          /\ revision' \in {revision, revision + 1} /\ outside' = outside
      BY <1>7, RunFrame
    <2>2. ASSUME phase[j] = "scheduled" PROVE Start(k)
      <3>1. Turn(k) => Microtask(k)
        BY <1>1, <2>2, TurnFacts, BoundsAssumption DEF Microtask, FirstPlan, LoopHolds
      <3>2. phase[k] # "recover" /\ FirstPlan(k)
        BY DEF FirstPlan
      <3>3. Turn(k) => phase[k] = "scheduled"
        BY <3>1, <3>2 DEF Microtask
      <3>4. QED
        BY <1>7, <3>3
        DEF Run, Choose, AdoptFails, Adopt, Abandon, Publish, PublishCaption, Register,
            RegisterFails, Succeed, SucceedFails, Settle, RecoverStart, RecoverScan,
            RecoverFails, Readopt
    <2>3. phase[j] = "scheduled" => loop' = Nobody /\ revision' = revision
      BY <1>1, <2>2 DEF Start, FirstPlan
    <2>4. QED
      BY <1>1, <2>1, <2>3 DEF FirstPlan, Planned, Phases
  <1>8. CASE Run(j)
    <2>1. CASE Start(j)
      <3>1. CASE phase'[j] = "none"
        BY <3>1 DEF FirstPlan, Planned
      <3>2. CASE phase'[j] # "none"
        <4>1. /\ phase'[j] = "verifying" /\ revision' = revision /\ outside' = outside
              /\ phase[j] = "scheduled"
              /\ jobs'[j] = [jobs[j] EXCEPT !.status = "running"]
              /\ plan'[j] = [revision |-> revision, preset |-> jobs[j].preset]
          BY <1>1, <2>1, <3>2 DEF Start
        <4>2. jobs'[j].source = jobs[j].source /\ jobs'[j].preset = jobs[j].preset
          BY <1>1, <4>1 DEF JobRows
        <4>3. QED
          BY <1>1, <4>1, <4>2 DEF FirstPlan
      <3>3. QED
        BY <3>1, <3>2
    <2>2. CASE Choose(j) \/ AdoptFails(j)
      <3>1. /\ phase'[j] \in {"adopting", "rendering"} /\ phase[j] \in {"verifying", "adopting"}
            /\ UNCHANGED <<revision, jobs, plan, outside>>
        BY <1>1, <2>2 DEF Choose, AdoptFails, durable, counters
      <3>2. phase'[j] = "adopting" => plan[j].revision < revision
        <4>1. SUFFICES ASSUME phase'[j] = "adopting" PROVE plan[j].revision < revision
          OBVIOUS
        <4>2. Complete(Primary(plan[j])) /\ Turn(j) /\ phase[j] = "verifying"
          BY <1>1, <2>2, <4>1 DEF Choose, AdoptFails
        <4>3. \A i \in Jobs : finalized[i] = {}
          BY <4>2, TurnFacts, LoopFacts DEF Synchronous
        <4>4. Mp4(Primary(plan[j])) \in files /\ Mp4(Primary(plan[j]))[1].plan = plan[j]
          BY <4>2 DEF Complete, Mp4, Primary
        <4>5. QED
          BY <4>3, <4>4 DEF FirstFiles
      <3>3. QED
        BY <1>1, <3>1, <3>2 DEF FirstPlan, Planned, Phases
    <2>3. CASE Adopt(j) \/ Readopt(j)
      BY <1>1, <2>3 DEF Adopt, Readopt, durable, counters, FirstPlan, Planned, Phases
    <2>4. CASE Abandon(j) \/ RegisterFails(j) \/ SucceedFails(j) \/ RecoverFails(j)
      <3>1. phase'[j] = "settling"
        BY <1>1, <2>4 DEF Abandon, RegisterFails, SucceedFails, RecoverFails, Throw
      <3>2. QED
        BY <3>1 DEF FirstPlan, Planned
    <2>5. CASE Publish(j)
      BY <1>1, <2>5 DEF Publish, counters, FirstPlan, Planned, Phases
    <2>6. CASE PublishCaption(j)
      <3>1. phase'[j] = "published" /\ phase[j] = "publishing" /\ UNCHANGED <<revision, jobs, plan, outside>>
        BY <1>1, <2>6 DEF PublishCaption, counters
      <3>2. ~jobs[j].cancel
        BY <3>1 DEF AllFilesHold, FilesHold
      <3>3. QED
        BY <1>1, <3>1, <3>2 DEF FirstPlan, Planned, Phases
    <2>7. CASE Register(j)
      <3>1. /\ phase'[j] = "registered" /\ phase[j] = "published" /\ UNCHANGED <<jobs, plan, outside>>
            /\ revision = plan[j].revision
        BY <1>1, <2>7 DEF Register, counters
      <3>2. QED
        BY <1>1, <3>1 DEF FirstPlan, Planned, Phases
    <2>8. CASE Succeed(j) \/ Settle(j)
      <3>1. phase'[j] = "none"
        BY <1>1, <2>8 DEF Succeed, Settle, Leave
      <3>2. QED
        BY <3>1 DEF FirstPlan, Planned
    <2>9. ~RecoverStart(j) /\ ~RecoverScan(j)
      BY <1>1 DEF RecoverStart, RecoverScan, FirstPlan
    <2>10. QED
      BY <1>8, <2>1, <2>2, <2>3, <2>4, <2>5, <2>6, <2>7, <2>8, <2>9 DEF Run
  <1>9. QED
    BY <1>2, <1>3, <1>4, <1>5, <1>6, <1>7, <1>8 DEF Next

(* Before any crash, a report is of the job that registered it. *)
LEMMA FirstReportsStep ==
  ASSUME TypeOK, LoopHolds, AllRunHold, \A i \in Jobs : FirstPlan(i), FirstReports, ReportsHold,
         [Next]_vars, ~Crash, ~Boot
  PROVE  FirstReports'
  <1> DEFINE Fine(i) == /\ ~jobs[i].cancel
                        /\ \/ jobs[i].status \in Terminal
                           \/ phase[i] = "registered"
                           \/ phase[i] = "settling" /\ faults = 1
  <1>1. faults \in Nat /\ revision \in Nat /\ phase \in [Jobs -> Phases]
        /\ jobs \in [Jobs -> JobRows] /\ \A r \in reports : r.job \in Jobs
    BY BoundsAssumption DEF TypeOK, Reports
  <1>2. CASE UNCHANGED vars
    BY <1>2 DEF vars, durable, runner, counters, FirstReports
  <1>3. CASE Edit \/ OutsideEdit
    BY <1>3 DEF Edit, OutsideEdit, runner, counters, FirstReports
  <1>4. ASSUME NEW k \in Jobs, NEW preset \in Presets, Submit(k, preset) PROVE FirstReports'
    <2>1. \A r \in reports : r.job # k
      BY <1>4 DEF Submit, ReportsHold
    <2>2. QED
      BY <1>1, <1>4, <2>1 DEF Submit, counters, FirstReports
  <1>5. ASSUME NEW k \in Jobs, Cancel(k) PROVE FirstReports'
    <2>1. jobs[k].status \in {"pending", "running"} /\ loop = Nobody
      BY <1>5 DEF Cancel, Idle
    <2>2. faults <= 1 => \A r \in reports : r.job # k
      BY <1>1, <2>1, BoundsAssumption DEF FirstReports, Terminal, LoopHolds, Synchronous
    <2>3. QED
      BY <1>1, <1>5, <2>2 DEF Cancel, counters, runner, FirstReports
  <1>6. ASSUME NEW k \in Jobs, Run(k) PROVE FirstReports'
    <2> SUFFICES ASSUME faults' <= 1, NEW r \in reports' PROVE Fine(r.job)'
      BY DEF FirstReports
    <2>1. /\ \A i \in Jobs : i # k => jobs'[i] = jobs[i] /\ phase'[i] = phase[i]
          /\ faults' \in {faults, faults + 1, faults + 2}
      BY <1>6, RunFrame
    <2>2. faults \in {0, 1} /\ (faults' # faults => faults = 0)
      BY <1>1, <2>1
    <2>3. loop \in {k, Nobody}
      BY <1>6, RunLoop
    <2>4. CASE r \notin reports
      <3>1. Register(k)
        BY <1>6, <2>4, RunReports
      <3>2. r.job = k
        BY <2>4, <3>1 DEF Register, ReportOf
      <3>3. phase'[k] = "registered" /\ jobs' = jobs
        BY <1>1, <3>1 DEF Register
      <3>4. ~jobs[k].cancel
        <4>1. phase[k] = "published" /\ revision = plan[k].revision /\ ~(plan[k].revision < revision)
          BY <1>1, <3>1 DEF Register
        <4>2. FirstPlan(k)
          OBVIOUS
        <4>3. QED
          BY <4>1, <4>2 DEF FirstPlan
      <3>5. QED
        BY <3>2, <3>3, <3>4
    <2>5. CASE r \in reports /\ r.job # k
      <3>1. Fine(r.job) /\ r.job \in Jobs
        BY <1>1, <2>2, <2>5 DEF FirstReports
      <3>2. phase[r.job] # "settling"
        BY <2>3, <2>5, <3>1, BoundsAssumption DEF LoopHolds, Synchronous
      <3>3. QED
        BY <2>1, <2>5, <3>1, <3>2
    <2>6. CASE r \in reports /\ r.job = k
      <3>1. Fine(k)
        BY <2>2, <2>6 DEF FirstReports
      <3>2. jobs[k].status \notin Terminal
        BY <1>6, RunRow DEF AllRunHold, RunHolds, Terminal
      <3>3. CASE phase[k] = "registered"
        <4>1. Succeed(k) \/ SucceedFails(k)
          BY <1>6, <3>3, RunRow
        <4>2. CASE Succeed(k)
          <5>1. jobs'[k] = [jobs[k] EXCEPT !.status = "succeeded", !.output = ReportOf(k)]
            BY <1>1, <4>2 DEF Succeed
          <5>2. jobs'[k].status = "succeeded" /\ jobs'[k].cancel = jobs[k].cancel
            BY <1>1, <5>1 DEF JobRows
          <5>3. QED
            BY <2>6, <3>1, <5>2 DEF Terminal
        <4>3. CASE SucceedFails(k)
          <5>1. phase'[k] = "settling" /\ jobs' = jobs /\ faults' = faults + 1
            BY <1>1, <3>1, <4>3 DEF SucceedFails, Throw, Fault
          <5>2. faults' = 1
            BY <1>1, <2>2, <5>1
          <5>3. QED
            BY <2>6, <3>1, <5>1, <5>2
        <4>4. QED
          BY <4>1, <4>2, <4>3
      <3>4. CASE phase[k] = "settling" /\ faults = 1
        <4>1. Settle(k)
          BY <1>6, <3>4
          DEF Run, Start, Choose, AdoptFails, Adopt, Abandon, Publish, PublishCaption, Register,
              RegisterFails, Succeed, SucceedFails, RecoverStart, RecoverScan, RecoverFails, Readopt
        <4>2. jobs' = [jobs EXCEPT ![k].status = IF jobs[k].cancel THEN "cancelled" ELSE onError[k]]
          BY <1>1, <2>2, <3>4, <4>1 DEF Settle, Fault
        <4>3. jobs'[k].status \in Terminal /\ jobs'[k].cancel = jobs[k].cancel
          BY <1>1, <4>2 DEF JobRows, Terminal, TypeOK
        <4>4. QED
          BY <2>6, <3>1, <4>3
      <3>5. QED
        BY <3>1, <3>2, <3>3, <3>4
    <2>7. QED
      BY <2>4, <2>5, <2>6
  <1>7. QED
    BY <1>2, <1>3, <1>4, <1>5, <1>6 DEF Next

(* Before any crash, a runner plans what its job asked for. *)
LEMMA FirstRunStep ==
  ASSUME TypeOK, LoopHolds, AllRunHold, AllFilesHold, FirstRun, ReportsHold, [Next]_vars
  PROVE  FirstRun'
  <1> SUFFICES ASSUME crashes' = 0
               PROVE  up' /\ FirstFiles' /\ (\A j \in Jobs : FirstPlan(j)') /\ FirstReports'
    BY DEF FirstRun
  <1>1. crashes \in Nat
    BY BoundsAssumption DEF TypeOK
  <1>2. ~Crash
    BY <1>1 DEF Crash
  <1>3. crashes = 0 /\ (up => up')
    <2>1. ASSUME NEW k \in Jobs, Run(k) PROVE crashes' = crashes /\ up' = up
      BY <2>1, RunFrame
    <2>2. ASSUME NEW k \in Jobs, Cancel(k) \/ \E preset \in Presets : Submit(k, preset)
          PROVE  crashes' = crashes /\ up' = up
      BY <2>2 DEF Cancel, Submit, counters
    <2>3. CASE Edit \/ OutsideEdit \/ UNCHANGED vars
      BY <2>3 DEF Edit, OutsideEdit, vars, counters
    <2>4. CASE Boot
      BY <2>4 DEF Boot, counters
    <2>5. QED
      BY <1>2, <2>1, <2>2, <2>3, <2>4 DEF Next
  <1>4. up /\ ~Boot
    BY <1>3 DEF FirstRun, Boot
  <1>5. QED
    BY <1>2, <1>3, <1>4, FirstFilesStep, FirstPlanStep, FirstReportsStep DEF FirstRun

-----------------------------------------------------------------------------
(***************************************************************************)
(* Reports.                                                                *)
(***************************************************************************)

\* The job of a report was started: only Submit makes a job pending.
LEMMA ReportedStarted ==
  ASSUME TypeOK, AllRunHold, ReportsHold, [Next]_vars, NEW r \in reports
  PROVE  jobs'[r.job].status \notin {"absent", "pending"}
  <1>1. /\ r.job \in Jobs /\ jobs[r.job].status \notin {"absent", "pending"}
        /\ jobs \in [Jobs -> JobRows] /\ jobs[r.job] \in JobRows
    BY DEF TypeOK, Reports, ReportsHold
  <1>2. CASE UNCHANGED jobs
    BY <1>1, <1>2
  <1>3. CASE Edit \/ OutsideEdit \/ Crash \/ UNCHANGED vars
    BY <1>2, <1>3 DEF Edit, OutsideEdit, Crash, vars, durable
  <1>4. CASE Boot
    BY <1>1, <1>4, BootRows
  <1>5. ASSUME NEW k \in Jobs, NEW preset \in Presets, Submit(k, preset) PROVE jobs'[r.job] = jobs[r.job]
    BY <1>1, <1>5 DEF Submit
  <1>6. ASSUME NEW k \in Jobs, Cancel(k)
        PROVE  jobs'[r.job].status \notin {"absent", "pending"}
    BY <1>1, <1>6 DEF Cancel, JobRows
  <1>7. ASSUME NEW k \in Jobs, Run(k)
        PROVE  jobs'[r.job].status \notin {"absent", "pending"}
    <2>1. CASE r.job # k
      BY <1>1, <1>7, <2>1, RunFrame
    <2>2. CASE r.job = k
      BY <1>1, <1>7, <2>2, RunRow DEF Terminal
    <2>3. QED
      BY <2>1, <2>2
  <1>8. QED
    BY <1>1, <1>3, <1>4, <1>5, <1>6, <1>7 DEF Next

\* No step deletes the files of a report, unless a store write fails after the
\* commit: a cancelled runner that got as far has only adopted them.
LEMMA ReportKeptStep ==
  ASSUME TypeOK, LoopHolds, AllRunHold, AllFilesHold, ReportsHold, [Next]_vars,
         faults = 0, faults' = 0, NEW r \in reports
  PROVE  ReportKept(r)'
  <1>1. ReportKept(r) /\ Pair(r.path) \subseteq files
    BY DEF ReportsHold, ReportKept, Complete, Pair
  <1>2. CASE UNCHANGED <<files, finalized>> /\ \A k \in Jobs : phase[k] = "registered" => phase'[k] = phase[k]
    BY <1>1, <1>2 DEF ReportKept, Complete
  <1>3. CASE Edit \/ OutsideEdit \/ UNCHANGED vars
    BY <1>2, <1>3 DEF Edit, OutsideEdit, vars, durable, runner
  <1>4. CASE Crash
    BY <1>1, <1>4 DEF Crash, durable, ReportKept, Complete
  <1>5. CASE Boot
    <2>1. \A k \in Jobs : phase[k] # "registered"
      BY <1>5 DEF Boot, LoopHolds
    <2>2. QED
      BY <1>2, <1>5, <2>1 DEF Boot
  <1>6. ASSUME NEW k \in Jobs, (\E preset \in Presets : Submit(k, preset)) \/ Cancel(k)
        PROVE  ReportKept(r)'
    <2>1. \A i \in Jobs : phase[i] # "registered"
      BY <1>6, LoopFacts DEF Submit, Cancel, Idle, Synchronous
    <2>2. QED
      BY <1>2, <1>6, <2>1 DEF Submit, Cancel, runner
  <1>7. ASSUME NEW k \in Jobs, Run(k) PROVE ReportKept(r)'
    <2>1. /\ \A i \in Jobs : i # k => finalized'[i] = finalized[i] /\ phase'[i] = phase[i]
          /\ files \ finalized[k] \subseteq files'
          /\ finalized'[k] \subseteq finalized[k] \cup (files' \ files)
      BY <1>7, RunFrame, RunFiles
    <2>2. CASE phase[k] # "registered"
      <3>1. \A i \in Jobs : phase[i] # "registered" => Pair(r.path) \cap finalized[i] = {}
        BY <1>1 DEF ReportKept
      <3>2. Pair(r.path) \cap finalized[k] = {}
        BY <2>2, <3>1
      <3>3. Pair(r.path) \subseteq files'
        BY <1>1, <2>1, <3>2
      <3>4. \A i \in Jobs : phase'[i] # "registered" => Pair(r.path) \cap finalized'[i] = {}
        BY <1>1, <2>1, <3>1, <3>2
      <3>5. QED
        BY <3>3, <3>4 DEF ReportKept, Complete, Pair
    <2>3. CASE phase[k] = "registered"
      <3>1. Succeed(k) \/ SucceedFails(k)
        BY <1>7, <2>3, RunRow
      <3>2. finalized'[k] = {}
        BY <3>1 DEF Succeed, SucceedFails, Throw, TypeOK
      <3>3. files' = files
        <4>1. CASE Succeed(k)
          BY <4>1 DEF Succeed
        <4>2. CASE SucceedFails(k)
          <5>1. jobs[k].cancel
            BY <4>2 DEF SucceedFails, Fault
          <5>2. finalized[k] = {}
            BY <5>1 DEF AllFilesHold, FilesHold
          <5>3. QED
            BY <4>2, <5>2 DEF SucceedFails, Throw
        <4>3. QED
          BY <3>1, <4>1, <4>2
      <3>4. QED
        BY <1>1, <2>1, <3>2, <3>3 DEF ReportKept, Complete
    <2>4. QED
      BY <2>2, <2>3
  <1>8. QED
    BY <1>3, <1>4, <1>5, <1>6, <1>7 DEF Next

\* No step gives up the job of a report of its own revision.
LEMMA ReportToldStep ==
  ASSUME TypeOK, LoopHolds, AllRunHold, ReportsHold, [Next]_vars,
         faults = 0, faults' = 0, NEW r \in reports
  PROVE  ReportTold(r)'
  <1>1. /\ r.job \in Jobs /\ ReportTold(r) /\ RunHolds(r.job)
        /\ jobs[r.job].status \notin {"absent", "pending"}
        /\ jobs \in [Jobs -> JobRows] /\ jobs[r.job] \in JobRows
        /\ phase \in [Jobs -> Phases]
    BY DEF TypeOK, Reports, ReportsHold, AllRunHold
  <1>2. CASE jobs'[r.job] = jobs[r.job] /\ phase'[r.job] = phase[r.job]
    BY <1>1, <1>2 DEF ReportTold
  <1>3. CASE Edit \/ OutsideEdit \/ UNCHANGED vars
    BY <1>2, <1>3 DEF Edit, OutsideEdit, vars, durable, runner
  <1>4. CASE Crash
    BY <1>1, <1>4 DEF Crash, durable, ReportTold
  <1>5. CASE Boot
    <2>1. r.plan.revision = jobs[r.job].source => r \in Adoptable(r.job)
      BY DEF Adoptable
    <2>2. QED
      BY <1>1, <1>5, <2>1, BootRows DEF ReportTold
  <1>6. ASSUME NEW k \in Jobs, NEW preset \in Presets, Submit(k, preset) PROVE ReportTold(r)'
    <2>1. r.job # k
      BY <1>1, <1>6 DEF Submit
    <2>2. QED
      BY <1>1, <1>2, <1>6, <2>1 DEF Submit
  <1>7. ASSUME NEW k \in Jobs, Cancel(k) PROVE ReportTold(r)'
    <2>1. CASE r.job # k
      BY <1>1, <1>2, <1>7, <2>1 DEF Cancel, runner
    <2>2. CASE r.job = k
      <3>1. jobs'[k].cancel = TRUE
        BY <1>1, <1>7, <2>2 DEF Cancel, JobRows
      <3>2. QED
        BY <2>2, <3>1 DEF ReportTold
    <2>3. QED
      BY <2>1, <2>2
  <1>8. ASSUME NEW k \in Jobs, Run(k) PROVE ReportTold(r)'
    <2>1. CASE r.job # k
      BY <1>1, <1>2, <1>8, <2>1, RunFrame
    <2>2. CASE r.job = k
      <3>1. /\ phase[k] # "none" /\ jobs[k].status \in {"pending", "running"}
            /\ jobs'[k].source = jobs[k].source /\ jobs'[k].cancel = jobs[k].cancel
        BY <1>1, <1>8, <2>2, RunRow DEF RunHolds
      <3>2. CASE jobs[k].cancel \/ r.plan.revision # jobs[k].source
        BY <2>2, <3>1, <3>2 DEF ReportTold
      <3>3. CASE ~jobs[k].cancel /\ r.plan.revision = jobs[k].source
        <4>1. phase[k] = "registered"
          BY <1>1, <2>2, <3>1, <3>3 DEF ReportTold
        <4>2. ~SucceedFails(k)
          BY <3>3 DEF SucceedFails, Fault
        <4>3. jobs'[k].status = "succeeded"
          BY <1>8, <4>1, <4>2, RunRow
        <4>4. QED
          BY <2>2, <4>3 DEF ReportTold
      <3>4. QED
        BY <3>2, <3>3
    <2>3. QED
      BY <2>1, <2>2
  <1>9. QED
    BY <1>3, <1>4, <1>5, <1>6, <1>7, <1>8 DEF Next

\* No step forgets a failed write, and only Register adds a report.
LEMMA FaultsAndReports ==
  ASSUME TypeOK, [Next]_vars
  PROVE  /\ faults' = 0 => faults = 0
         /\ \A r \in reports' \ reports : \E k \in Jobs : Register(k) /\ r = ReportOf(k)
  <1>1. faults \in Nat
    BY BoundsAssumption DEF TypeOK
  <1>2. CASE Edit \/ OutsideEdit \/ Crash \/ Boot \/ UNCHANGED vars
    BY <1>2 DEF Edit, OutsideEdit, Crash, Boot, vars, durable, counters
  <1>3. ASSUME NEW k \in Jobs, Cancel(k) \/ \E preset \in Presets : Submit(k, preset)
        PROVE  faults' = faults /\ reports' = reports
    BY <1>3 DEF Cancel, Submit, counters
  <1>4. ASSUME NEW k \in Jobs, Run(k)
        PROVE  /\ faults' = 0 => faults = 0
               /\ \A r \in reports' \ reports : Register(k) /\ r = ReportOf(k)
    <2>1. faults' \in {faults, faults + 1, faults + 2} /\ (Register(k) \/ reports' = reports)
      BY <1>4, RunFrame, RunReports
    <2>2. Register(k) => \A r \in reports' \ reports : r = ReportOf(k)
      BY DEF Register
    <2>3. QED
      BY <1>1, <2>1, <2>2
  <1>5. QED
    BY <1>2, <1>3, <1>4 DEF Next

(* Where no store write fails, reports keep their files and their jobs. *)
LEMMA ReportsStep ==
  ASSUME TypeOK, LoopHolds, AllRunHold, AllFilesHold, ReportsHold, [Next]_vars
  PROVE  ReportsHold'
  <1> SUFFICES ASSUME NEW r \in reports'
               PROVE  /\ jobs'[r.job].status \notin {"absent", "pending"}
                      /\ faults' = 0 => ReportKept(r)' /\ ReportTold(r)'
    BY DEF ReportsHold
  <1>1. CASE r \in reports
    BY <1>1, FaultsAndReports, ReportedStarted, ReportKeptStep, ReportToldStep
  <1>2. CASE r \notin reports
    <2>1. PICK k \in Jobs : Register(k) /\ r = ReportOf(k)
      BY <1>2, FaultsAndReports
    <2>2. /\ phase[k] = "published" /\ phase' = [phase EXCEPT ![k] = "registered"]
          /\ UNCHANGED <<files, jobs, finalized>> /\ Turn(k)
      BY <2>1 DEF Register
    <2>3. phase'[k] = "registered" /\ phase \in [Jobs -> Phases]
      BY <2>2 DEF TypeOK
    <2>4. r.job = k /\ r.path = path[k]
      BY <2>1 DEF ReportOf
    <2>5. jobs[k].status = "running" /\ Complete(path[k])
      BY <2>2 DEF AllRunHold, RunHolds, AllFilesHold, FilesHold
    <2>6. loop = k
      BY <2>2, TurnFacts DEF Synchronous
    <2>7. \A i \in Jobs : i # k => finalized[i] = {}
      BY <2>6, LoopFacts
    <2>8. ReportKept(r)'
      BY <2>2, <2>3, <2>4, <2>5, <2>7 DEF ReportKept, Complete
    <2>9. ReportTold(r)'
      BY <2>2, <2>3, <2>4, <2>5 DEF ReportTold
    <2>10. QED
      BY <2>2, <2>4, <2>5, <2>8, <2>9
  <1>3. QED
    BY <1>1, <1>2

-----------------------------------------------------------------------------
(***************************************************************************)
(* The output of a job.                                                    *)
(***************************************************************************)
Delivers(j) ==
  IF jobs[j].status = "succeeded"
  THEN /\ jobs[j].output \in reports
       /\ crashes = 0 /\ outside = 0 =>
            jobs[j].output.plan = [revision |-> jobs[j].source, preset |-> jobs[j].preset]
  ELSE jobs[j].output = Nobody

(* Reports are as asked, and not of cancelled jobs. *)
LEMMA DeliversStep ==
  ASSUME TypeOK, AllRunHold, FirstRun, DeliversAsAsked, [Next]_vars
  PROVE  DeliversAsAsked'
  <1> SUFFICES ASSUME NEW j \in Jobs PROVE Delivers(j)'
    BY DEF DeliversAsAsked, Delivers
  <1>1. /\ Delivers(j) /\ crashes \in Nat /\ outside \in Nat
        /\ jobs \in [Jobs -> JobRows] /\ jobs[j] \in JobRows
    BY BoundsAssumption DEF DeliversAsAsked, Delivers, TypeOK
  <1>2. CASE jobs'[j] = jobs[j] /\ reports \subseteq reports' /\ UNCHANGED <<crashes, outside>>
    BY <1>2, <1>1 DEF Delivers
  <1>3. CASE Edit \/ UNCHANGED vars
    BY <1>2, <1>3 DEF Edit, vars, durable, counters
  <1>4. CASE OutsideEdit
    BY <1>1, <1>4 DEF OutsideEdit, Delivers
  <1>5. CASE Crash
    BY <1>1, <1>5 DEF Crash, durable, Delivers
  <1>6. CASE Boot
    <2>1. crashes # 0 /\ UNCHANGED <<reports, crashes>>
      BY <1>6 DEF Boot, FirstRun, counters
    <2>2. QED
      BY <1>1, <1>6, <2>1, BootRows DEF Delivers
  <1>7. ASSUME NEW k \in Jobs, NEW preset \in Presets, Submit(k, preset) PROVE Delivers(j)'
    <2>1. CASE j # k
      BY <1>1, <1>2, <1>7, <2>1 DEF Submit, counters
    <2>2. CASE j = k
      <3>1. jobs[j].status = "absent" /\ jobs'[j].status = "pending" /\ jobs'[j].output = jobs[j].output
        BY <1>1, <1>7, <2>2 DEF Submit, JobRows
      <3>2. QED
        BY <1>1, <3>1 DEF Delivers
    <2>3. QED
      BY <2>1, <2>2
  <1>8. ASSUME NEW k \in Jobs, Cancel(k) PROVE Delivers(j)'
    <2>1. CASE j # k
      BY <1>1, <1>2, <1>8, <2>1 DEF Cancel, counters
    <2>2. CASE j = k
      <3>1. /\ jobs[j].status \in {"pending", "running"}
            /\ jobs'[j].status \in {"cancelled", "running"} /\ jobs'[j].output = jobs[j].output
        BY <1>1, <1>8, <2>2 DEF Cancel, JobRows
      <3>2. QED
        BY <1>1, <3>1 DEF Delivers
    <2>3. QED
      BY <2>1, <2>2
  <1>9. ASSUME NEW k \in Jobs, Run(k) PROVE Delivers(j)'
    <2>1. reports \subseteq reports' /\ UNCHANGED <<crashes, outside>>
      BY <1>9, RunFrame
    <2>2. CASE j # k
      BY <1>2, <1>9, <2>1, <2>2, RunFrame
    <2>3. CASE j = k
      <3>1. CASE jobs'[k] = jobs[k]
        BY <1>2, <2>1, <2>3, <3>1
      <3>2. CASE /\ jobs[k].status \in {"pending", "running"}
                 /\ jobs'[k].status # "succeeded" /\ jobs'[k].output = jobs[k].output
        BY <1>1, <2>3, <3>2 DEF Delivers
      <3>3. CASE /\ Succeed(k)
                 /\ jobs'[k].status = "succeeded" /\ jobs'[k].output = ReportOf(k)
        <4>1. phase[k] = "registered"
          BY <3>3 DEF Succeed
        <4>2. ReportOf(k) \in reports /\ ReportOf(k).plan = plan[k]
          BY <4>1 DEF AllRunHold, RunHolds, ReportOf
        <4>3. crashes = 0 /\ outside = 0 =>
                plan[k] = [revision |-> jobs[k].source, preset |-> jobs[k].preset]
          BY <4>1 DEF FirstRun, FirstPlan, Planned, Phases
        <4>4. jobs'[k].source = jobs[k].source /\ jobs'[k].preset = jobs[k].preset
          BY <1>9, RunRow
        <4>5. QED
          BY <2>1, <2>3, <3>3, <4>2, <4>3, <4>4 DEF Delivers
      <3>4. QED
        BY <1>9, <3>1, <3>2, <3>3, RunRow
    <2>4. QED
      BY <2>2, <2>3
  <1>10. QED
    BY <1>3, <1>4, <1>5, <1>6, <1>7, <1>8, <1>9 DEF Next

-----------------------------------------------------------------------------
(***************************************************************************)
(* The inductive invariant.                                                *)
(***************************************************************************)
LEMMA InitHolds == Init => ExportsHold
  <1> SUFFICES ASSUME Init PROVE ExportsHold
    OBVIOUS
  <1> USE BoundsAssumption DEF Init
  <1>1. TypeOK
    BY DEF TypeOK, JobRows, Statuses, Phases
  <1>2. LoopHolds
    BY DEF LoopHolds, Synchronous
  <1>3. ASSUME NEW j \in Jobs PROVE RunHolds(j) /\ FilesHold(j)
    BY DEF RunHolds, FilesHold, Planned, Placed
  <1>4. FirstRun
    BY DEF FirstRun, FirstFiles, FirstPlan, FirstReports, Planned
  <1>5. ReportsHold /\ DeliversAsAsked
    BY DEF ReportsHold, DeliversAsAsked
  <1>6. QED
    BY <1>1, <1>2, <1>3, <1>4, <1>5 DEF ExportsHold

(* and is kept by every step. *)
LEMMA StepHolds == ExportsHold /\ [Next]_vars => ExportsHold'
  <1> SUFFICES ASSUME ExportsHold, [Next]_vars PROVE ExportsHold'
    OBVIOUS
  <1>1. /\ TypeOK /\ LoopHolds /\ AllRunHold /\ AllFilesHold
        /\ FirstRun /\ ReportsHold /\ DeliversAsAsked
    BY DEF ExportsHold, AllRunHold, AllFilesHold
  <1>2. TypeOK' /\ LoopHolds' /\ AllRunHold' /\ AllFilesHold'
    BY <1>1, TypeStep, LoopStep, RunsStep, FilesStep
  <1>3. FirstRun' /\ ReportsHold' /\ DeliversAsAsked'
    BY <1>1, FirstRunStep, ReportsStep, DeliversStep
  <1>4. QED
    BY <1>2, <1>3 DEF ExportsHold, AllRunHold, AllFilesHold

\* Every reachable state satisfies the inductive invariant.
THEOREM ExportsInvariant == Spec => []ExportsHold
  BY InitHolds, StepHolds, PTL DEF Spec

\* Every reachable state is well typed.
THEOREM ExportsTyped == Spec => []TypeOK
  <1>1. ExportsHold => TypeOK
    BY DEF ExportsHold
  <1>2. QED
    BY <1>1, ExportsInvariant, PTL

\* A job says it succeeded exactly when it has a registered output; and without
\* a restart or an edit from outside, that is what it was asked for.
THEOREM OutputsAsAsked == Spec => []DeliversAsAsked
  <1>1. ExportsHold => DeliversAsAsked
    BY DEF ExportsHold
  <1>2. QED
    BY <1>1, ExportsInvariant, PTL

\* Without a restart, and with at most one failed store write, a cancelled
\* export registers nothing.
THEOREM CancelledStaysOut == Spec => []CancelledRegistersNothing
  <1>1. ExportsHold => CancelledRegistersNothing
    BY DEF ExportsHold, FirstRun, FirstReports, CancelledRegistersNothing, TypeOK, Reports
  <1>2. QED
    BY <1>1, ExportsInvariant, PTL

\* As long as no store write fails, the files of every registered report exist.
THEOREM ReportsKeepTheirFiles ==
  ASSUME MaxFaults = 0
  PROVE  Spec => []ReportedFilesExist
  <1>1. ExportsHold => ReportedFilesExist
    <2> SUFFICES ASSUME ExportsHold PROVE ReportedFilesExist
      OBVIOUS
    <2>1. faults = 0
      BY DEF ExportsHold, TypeOK
    <2>2. QED
      BY <2>1 DEF ExportsHold, ReportsHold, ReportKept, ReportedFilesExist
  <1>2. QED
    BY <1>1, ExportsInvariant, PTL

\* As long as no store write fails, the job that registered the report of its
\* own revision is told so, through any number of crashes and restarts.
THEOREM RegisteredIsTold ==
  ASSUME MaxFaults = 0
  PROVE  Spec => []RegisteredMeansSucceeded
  <1>1. ExportsHold => RegisteredMeansSucceeded
    <2> SUFFICES ASSUME ExportsHold PROVE RegisteredMeansSucceeded
      OBVIOUS
    <2>1. faults = 0
      BY DEF ExportsHold, TypeOK
    <2>2. QED
      BY <2>1 DEF ExportsHold, ReportsHold, ReportTold, RegisteredMeansSucceeded
  <1>2. QED
    BY <1>1, ExportsInvariant, PTL

\* A publish never replaces a file.
THEOREM PublishesKeepFiles == Spec => PublishKeepsFiles
  <1> DEFINE Keeps(j) ==
        /\ phase[j] = "rendering" /\ phase'[j] = "publishing" => Mp4(path[j]) \notin files
        /\ phase[j] = "publishing" /\ phase'[j] = "published" => Srt(path[j]) \notin files
  <1>1. ASSUME ExportsHold, [Next]_vars, NEW j \in Jobs PROVE Keeps(j)
    <2>1. TypeOK /\ LoopHolds /\ AllRunHold /\ AllFilesHold /\ phase \in [Jobs -> Phases]
      BY <1>1 DEF ExportsHold, AllRunHold, AllFilesHold, TypeOK
    <2>2. phase[j] = "publishing" => Srt(path[j]) \notin files
      BY <2>1 DEF AllFilesHold, FilesHold
    <2>3. SUFFICES ASSUME phase[j] = "rendering", phase'[j] = "publishing"
                   PROVE  Mp4(path[j]) \notin files
      BY <2>2
    <2>4. ASSUME NEW k \in Jobs, k # j, Run(k) PROVE phase'[j] = phase[j]
      BY <2>1, <2>4, RunFrame
    <2>5. CASE Run(j)
      <3>1. Publish(j)
        <4>1. CASE Choose(j) \/ AdoptFails(j) \/ Adopt(j) \/ Start(j)
          BY <2>1, <2>3, <4>1 DEF Choose, AdoptFails, Adopt, Start
        <4>2. CASE Abandon(j) \/ RegisterFails(j) \/ SucceedFails(j) \/ RecoverFails(j)
          BY <2>1, <2>3, <4>2 DEF Abandon, RegisterFails, SucceedFails, RecoverFails, Throw
        <4>3. CASE PublishCaption(j) \/ Register(j) \/ Succeed(j) \/ Settle(j)
          BY <2>3, <4>3 DEF PublishCaption, Register, Succeed, Settle
        <4>4. CASE RecoverStart(j) \/ RecoverScan(j) \/ Readopt(j)
          BY <2>3, <4>4 DEF RecoverStart, RecoverScan, Readopt
        <4>5. QED
          BY <2>5, <4>1, <4>2, <4>3, <4>4 DEF Run
      <3>2. QED
        BY <2>1, <3>1, FreePlace
    <2>6. CASE Edit \/ OutsideEdit \/ Crash \/ UNCHANGED vars
      BY <2>3, <2>6 DEF Edit, OutsideEdit, Crash, vars, runner
    <2>7. CASE Boot
      BY <2>1, <2>3, <2>7 DEF Boot, LoopHolds
    <2>8. ASSUME NEW k \in Jobs, Cancel(k) \/ \E preset \in Presets : Submit(k, preset)
          PROVE  FALSE
      BY <2>1, <2>3, <2>8 DEF Cancel, Submit, runner
    <2>9. QED
      BY <1>1, <2>3, <2>4, <2>5, <2>6, <2>7, <2>8 DEF Next
  <1>2. ExportsHold /\ [Next]_vars => \A j \in Jobs : Keeps(j)
    BY <1>1
  <1>3. QED
    BY <1>2, ExportsInvariant, PTL DEF Spec, PublishKeepsFiles

\* A settled job stays as it is, through restarts and late runners.
THEOREM SettledStays == Spec => SettledForGood
  <1> DEFINE Stays(j) == jobs[j].status \in Terminal => jobs'[j] = jobs[j]
  <1>1. ASSUME ExportsHold, [Next]_vars, NEW j \in Jobs PROVE Stays(j)
    <2> SUFFICES ASSUME jobs[j].status \in Terminal PROVE jobs'[j] = jobs[j]
      OBVIOUS
    <2>1. TypeOK /\ AllRunHold /\ jobs \in [Jobs -> JobRows]
          /\ jobs[j].status \notin {"absent", "pending", "running"}
      BY <1>1 DEF ExportsHold, AllRunHold, TypeOK, Terminal
    <2>2. CASE Edit \/ OutsideEdit \/ Crash \/ UNCHANGED vars
      BY <2>2 DEF Edit, OutsideEdit, Crash, vars, durable
    <2>3. CASE Boot
      BY <2>1, <2>3, BootRows
    <2>4. ASSUME NEW k \in Jobs, Cancel(k) \/ \E preset \in Presets : Submit(k, preset)
          PROVE  jobs'[j] = jobs[j]
      BY <2>1, <2>4 DEF Cancel, Submit
    <2>5. ASSUME NEW k \in Jobs, Run(k) PROVE jobs'[j] = jobs[j]
      BY <2>1, <2>5, RunFrame, RunRow DEF AllRunHold, RunHolds
    <2>6. QED
      BY <1>1, <2>2, <2>3, <2>4, <2>5 DEF Next
  <1>2. ExportsHold /\ [Next]_vars => \A j \in Jobs : Stays(j)
    BY <1>1
  <1>3. QED
    BY <1>2, ExportsInvariant, PTL DEF Spec, SettledForGood
=============================================================================
