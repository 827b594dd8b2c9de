----------------------------- MODULE AlphaTrial -----------------------------
(***************************************************************************)
(* One project under Alpha trial: the local daemon (apps/local-daemon/src/ *)
(* server.ts) records timing and labels in the evidence log and refuses    *)
(* content edits unless the active-time clock runs, while exports and      *)
(* semantic reviews that were started earlier end in the background.       *)
(*                                                                         *)
(* The project is the sequence of its command records, its revision their  *)
(* number.  Every request of the daemon is one step: its handler does not  *)
(* await between reading the project and writing.  A request id replayed   *)
(* with its payload answers from the log or the records and changes        *)
(* nothing, so only first deliveries are steps.                            *)
(***************************************************************************)
EXTENDS AlphaEvidence

CONSTANTS Candidates,   \* deletion candidates
          Suggested,    \* those only a semantic review proposes
          Sessions,     \* timing session ids
          Baselines,    \* manual measurements an operator may register
          Verdicts,     \* what a label may say
          EnrolledAt,   \* what the clock said when the project was created
          MaxClock,     \* bound: ticks of the daemon's clock
          MaxBack,      \* bound: how often the clock is set back
          MaxRevision,  \* bound: command records
          MaxEvents,    \* bound: evidence events
          MaxJobs       \* bound: jobs in the background at once

ASSUME NoneIsNoSession == None \notin Sessions
ASSUME TrialBounds == /\ {MaxClock, MaxBack, MaxRevision, MaxEvents, MaxJobs} \subseteq Nat
                      /\ EnrolledAt \in 0 .. MaxClock /\ Suggested \subseteq Candidates

VARIABLES enrolled,   \* the project was created for a formal trial
          records,    \* the project's command records
          exporting,  \* the revision an export job is rendering, or None
          reviewing,  \* the revision a semantic review reads, or None
          log,        \* the evidence events
          folded,     \* what their timing derives to: apply replays all of them
          clock,      \* the daemon's clock
          back,       \* how often it was set back
          ran,        \* history: ticks the clock of the trial was shown running
          overrun,    \* history: an activity was recorded after the session went stale
          unclocked   \* history: a result was committed while the clock did not run

trialVars == <<enrolled, records, exporting, reviewing, log, folded, clock, back, ran, overrun, unclocked>>

Rev == Len(records)

-----------------------------------------------------------------------------
(* The audit draft. *)

Decisions == {"delete", "keep", "unlock", "restore"}

(* What the review projection shows for a candidate after the records. *)
StateOf(c) ==
  LET about == {i \in DOMAIN records : records[i].kind \in Decisions \cup {"machine"} /\ c \in records[i].of}
      After == [machine |-> "candidate_remove", unlock |-> "candidate_remove",
                restore |-> "candidate_remove", delete |-> "committed_deleted", keep |-> "reviewed_keep"]
  IN IF about = {} THEN "candidate_remove" ELSE After[records[Max(about)].kind]

Known == (Candidates \ Suggested) \cup UNION {records[i].of : i \in DOMAIN records}

HumanRevisions == {i \in DOMAIN records : records[i].kind \in Decisions}
Exports == {i \in DOMAIN records : records[i].kind = "export"}

(* createAlphaAuditDraft: each removed range leaves one boundary to listen to. *)
Draft ==
  [rev        |-> Rev,
   enrolled   |-> enrolled,
   since      |-> EnrolledAt,
   candidates |-> [c \in Known |-> StateOf(c)],
   boundaries |-> {c \in Known : StateOf(c) = "committed_deleted"},
   first      |-> IF HumanRevisions = {} THEN None ELSE Min(HumanRevisions),
   export     |-> IF Exports = {} THEN None
                  ELSE [source |-> Max(Exports) - 1, passed |-> TRUE]]

Audit == Evidence(log, Draft, clock)
Clock == Shown(folded, clock, Rev)

(* assertAlphaTrialEditingActive *)
EditingActive == enrolled => Clock.state = "running"

-----------------------------------------------------------------------------
(* Recording. *)

Event(target, id, value) == [target |-> target, id |-> id, value |-> value]

(* #record reads the clock again: a tick may pass after the validation. *)
Record(new) ==
  \E at \in {clock, clock + 1} :
    LET kind == IF new[1].target = "timing" THEN new[1].id ELSE "label"
        Counting == Clock.state = "running" /\ Bounded(folded.last, at) # None
        events == [i \in DOMAIN new |->
                    [seq |-> Len(log) + i, request |-> Len(log) + i, rev |-> Rev, at |-> at,
                     target |-> new[i].target, id |-> new[i].id, value |-> new[i].value]]
        Late == /\ kind \in {"heartbeat", "pause", "finish"}
                /\ folded.state = "running" /\ ~Counting
    IN /\ at <= MaxClock /\ Len(log) + Len(new) <= MaxEvents
       /\ log' = log \o events /\ folded' = Derive(folded, events)
       /\ clock' = at
       /\ ran' = IF kind = "baseline" THEN 0 ELSE ran + IF at > clock /\ Counting THEN 1 ELSE 0
       /\ overrun' = (overrun \/ Late)
       /\ UNCHANGED <<enrolled, records, exporting, reviewing, back, unclocked>>

Starts == {i \in DOMAIN log : log[i].target = "timing" /\ log[i].id = "start"}

TimingEvent(id, value) == Record(<<Event("timing", id, value)>>)

-----------------------------------------------------------------------------
(* The timing routes. *)

(* The measurement and the first start, in one transaction. *)
BeginTiming(session, baseline) ==
  /\ enrolled /\ OriginOpen(Draft)
  /\ Clock.baseline = None /\ Clock.state = "not_started"
  /\ Record(<<Event("timing", "baseline", baseline), Event("timing", "start", session)>>)

SetBaseline(baseline) ==
  /\ enrolled /\ OriginOpen(Draft)
  /\ Clock.state \notin {"running", "finished"}
  /\ TimingEvent("baseline", baseline)

StartTiming(session) ==
  /\ enrolled
  /\ Starts # {} \/ OriginOpen(Draft)
  /\ Clock.state \notin {"running", "finished"}
  /\ TimingEvent("start", session)

(* assertActiveTimingSession *)
Active(session) == Clock.state = "running" /\ Clock.session = session

Heartbeat(session) == enrolled /\ Active(session) /\ TimingEvent("heartbeat", session)
PauseTiming(session) == Active(session) /\ TimingEvent("pause", session)

(* A run whose session went stale counts as paused, and can be finished. *)
FinishTiming ==
  /\ enrolled /\ ReviewDone(Draft) /\ ExportAccepted(Draft)
  /\ Clock.baseline # None /\ Clock.state \notin {"not_started", "finished"}
  /\ Clock.active + (IF Clock.state = "running" THEN Counted(Clock.last, clock) ELSE 0) > 0
  /\ TimingEvent("finish", None)

-----------------------------------------------------------------------------
(* The label routes. *)

(* Mutant of Labelling: the trial need not be finished. *)
LabellingEarly ==
  ReviewDone(Draft) /\ ExportAccepted(Draft)

(* assertReviewCompleted and assertFinalLabelTimingFinished *)
Labelling ==
  /\ ReviewDone(Draft) /\ ExportAccepted(Draft)
  /\ enrolled \/ Clock.baseline # None => Clock.complete

LabelCandidate(c, value) == Labelling /\ c \in Known /\ Record(<<Event("candidate", c, value)>>)
LabelBoundary(b, value) == Labelling /\ b \in Draft.boundaries /\ Record(<<Event("boundary", b, value)>>)

-----------------------------------------------------------------------------
(* The project. *)

Commit(kind, of) ==
  /\ Rev < MaxRevision
  /\ records' = Append(records, [kind |-> kind, of |-> of])
  /\ unclocked' = (unclocked \/ (kind # "export" /\ ~EditingActive))
  /\ UNCHANGED <<enrolled, log, folded, clock, back, ran, overrun>>

(* A person decides a candidate, restores or unlocks one. *)
Decide(c, kind) ==
  /\ EditingActive /\ c \in Known
  /\ CASE StateOf(c) \in Pending -> kind \in {"delete", "keep"}
       [] StateOf(c) = "committed_deleted" -> kind = "restore"
       [] StateOf(c) = "reviewed_keep" -> kind = "unlock"
  /\ Commit(kind, {c})
  /\ UNCHANGED <<exporting, reviewing>>

(* An agent's timeline transaction, or a workflow's. *)
AgentEdit ==
  /\ EditingActive
  /\ Commit("machine", {})
  /\ UNCHANGED <<exporting, reviewing>>

Jobs == {exporting, reviewing} \ {None}

RequestExport ==
  /\ exporting = None /\ Cardinality(Jobs) < MaxJobs /\ EditingActive /\ ReviewDone(Draft)
  /\ exporting' = Rev
  /\ UNCHANGED <<enrolled, records, reviewing, log, folded, clock, back, ran, overrun, unclocked>>

(* The job registers its files only at the revision it rendered. *)
EndExport ==
  /\ exporting # None
  /\ IF exporting = Rev THEN Commit("export", {})
     ELSE UNCHANGED <<enrolled, records, log, folded, clock, back, ran, overrun, unclocked>>
  /\ exporting' = None
  /\ UNCHANGED reviewing

BeginReview ==
  /\ reviewing = None /\ Cardinality(Jobs) < MaxJobs /\ EditingActive
  /\ reviewing' = Rev
  /\ UNCHANGED <<enrolled, records, exporting, log, folded, clock, back, ran, overrun, unclocked>>

(* The model's answer is persisted at the revision the review was asked for; *)
(* the trial's clock is not read again.                                      *)
EndReview ==
  /\ reviewing # None
  /\ IF reviewing = Rev THEN Commit("machine", Suggested)
     ELSE UNCHANGED <<enrolled, records, log, folded, clock, back, ran, overrun, unclocked>>
  /\ reviewing' = None
  /\ UNCHANGED exporting

-----------------------------------------------------------------------------
(* Time. *)

Tick ==
  /\ clock < MaxClock
  /\ clock' = clock + 1
  /\ ran' = ran + IF Clock.state = "running" /\ Bounded(folded.last, clock + 1) # None THEN 1 ELSE 0
  /\ UNCHANGED <<enrolled, records, exporting, reviewing, log, folded, back, overrun, unclocked>>

SetBack ==
  /\ clock > 0 /\ back < MaxBack
  /\ clock' = clock - 1 /\ back' = back + 1
  /\ UNCHANGED <<enrolled, records, exporting, reviewing, log, folded, ran, overrun, unclocked>>

TrialInit ==
  /\ enrolled \in BOOLEAN
  /\ records = <<>> /\ exporting = None /\ reviewing = None
  /\ log = <<>> /\ folded = NoTiming /\ clock = EnrolledAt /\ back = 0 /\ ran = 0
  /\ overrun = FALSE /\ unclocked = FALSE

TrialNext ==
  \/ \E s \in Sessions, b \in Baselines : BeginTiming(s, b)
  \/ \E b \in Baselines : SetBaseline(b)
  \/ \E s \in Sessions : StartTiming(s) \/ Heartbeat(s) \/ PauseTiming(s)
  \/ FinishTiming
  \/ \E c \in Candidates, v \in Verdicts : LabelCandidate(c, v)
  \/ \E b \in Candidates, v \in Verdicts : LabelBoundary(b, v)
  \/ \E c \in Candidates, kind \in Decisions : Decide(c, kind)
  \/ AgentEdit \/ RequestExport \/ EndExport \/ BeginReview \/ EndReview
  \/ Tick \/ SetBack

TrialSpec == TrialInit /\ [][TrialNext]_trialVars

-----------------------------------------------------------------------------
CommandRecords == [kind : Decisions \cup {"machine", "export"}, of : SUBSET Candidates]
EvidenceEvents ==
  [seq : Nat, request : Nat, rev : Nat, at : Nat, target : {"timing", "candidate", "boundary"},
   id : Kinds \cup Candidates, value : Sessions \cup Baselines \cup Verdicts \cup {None}]
Summaries ==
  [baseline : Sessions \cup Baselines \cup Verdicts \cup {None}, active : Nat,
   state : {"not_started", "running", "paused", "finished"},
   session : Sessions \cup Baselines \cup Verdicts \cup {None},
   last : Nat \cup {None}, finished : Nat \cup {None}]

(* The events are numbered in the order of the log and never newer than the  *)
(* project, and the jobs in the background began at a revision it had.       *)
TrialTypeOK ==
  /\ enrolled \in BOOLEAN /\ overrun \in BOOLEAN /\ unclocked \in BOOLEAN
  /\ records \in Seq(CommandRecords) /\ log \in Seq(EvidenceEvents) /\ folded \in Summaries
  /\ \A i \in DOMAIN log :
       /\ log[i].seq = i /\ log[i].rev \in 0 .. Rev /\ log[i].at \in 0 .. MaxClock
       /\ log[i].target = "timing" => log[i].id \in Kinds
  /\ folded.state = "running" => folded.last \in Nat
  /\ folded.state = "finished" => folded.finished \in Nat
  /\ exporting \in {None} \cup 0 .. Rev /\ reviewing \in {None} \cup 0 .. Rev
  /\ clock \in 0 .. MaxClock /\ ran \in Nat /\ back \in 0 .. MaxBack

(* The active time of the evidence never exceeds the time the trial's clock  *)
(* was shown running since the baseline, whatever sessions overlap, go stale *)
(* or resume and however the clock is set (docs/11-development-log.md:2184). *)
CountsOnlyRunning == Clock.active <= ran

(* Whatever was recorded, the bundle made of it passes the bundle's own      *)
(* validation: labels, revisions, origin, order and active time agree.       *)
(* Three histories the log accepts and the bundle does not are set apart: a  *)
(* start before any baseline, a first baseline recorded by a clock set back  *)
(* to before the enrolment, and an activity after its session went stale.    *)
BundleAccepted ==
  LET timing == TimingEvents(log)
  IN ~overrun /\ (timing # <<>> => timing[1].id = "baseline" /\ timing[1].at >= EnrolledAt)
       => ValidBundle(Bundle(Audit))

(* A sample that counts was timed from before the first human decision and   *)
(* was judged on the very cut that was exported, after the clock stopped     *)
(* (docs/13-long-term-execution-plan.md:315).                                *)
JudgedAsExported ==
  LET labelled == {e \in ToSet(log) : e.target # "timing" /\ e.rev = Rev}
  IN labelled # {} =>
       /\ ReviewDone(Draft) /\ records[Rev].kind = "export"
       /\ \A i \in HumanRevisions : i < Rev
       /\ enrolled => /\ Clock.complete /\ Clock.active \in 1 .. ran
                      /\ \E j \in Starts : \A i \in HumanRevisions : log[j].rev < i

(* "Semantic analysis ... can only produce new results while the timing      *)
(* state is running" (docs/11-development-log.md:1670), in English.          *)
ResultsWhileRunning == ~unclocked

(* "A gap of more than 30 seconds is projected as a pause"                   *)
(* (docs/11-development-log.md:2184): a finished trial can be bundled.       *)
FinishedIsBundled == Clock.complete => ValidBundle(Bundle(Audit))
-----------------------------------------------------------------------------
(* The inductive invariant behind the theorems of AlphaProofs.               *)

(* The stretch that a running session would count if it ended now, as far    *)
(* as the clock was ever shown running in it: the clock may have been set    *)
(* back since, and a stretch grown too long may be short enough again.       *)
Stretch ==
  IF folded.state # "running" \/ clock < folded.last THEN 0
  ELSE IF clock - folded.last <= StaleAfter THEN clock - folded.last ELSE StaleAfter

TimeInv == folded.active + Stretch <= ran

(* The records of decisions and of exports have a first and a last one.      *)
RecordsInv ==
  /\ HumanRevisions # {} => \E i \in HumanRevisions : \A j \in HumanRevisions : i <= j
  /\ Exports # {} => \E i \in Exports : \A j \in Exports : j <= i

(* The run was started before the first decision, if it was started at all.  *)
StartedFirst == \E i \in Starts : \A j \in HumanRevisions : log[i].rev < j

StartInv ==
  enrolled => /\ Starts # {} => StartedFirst
              /\ folded.state # "not_started" => StartedFirst

(* What allowed a label of the present revision still holds: only a record,  *)
(* which makes a new revision, or the clock could take it back, and nothing  *)
(* that the finished clock accepts does.                                     *)
LabelInv ==
  (\E i \in DOMAIN log : log[i].target # "timing" /\ log[i].rev = Rev) =>
    /\ ReviewDone(Draft) /\ ExportAccepted(Draft)
    /\ enrolled => Clock.complete

TrialInv == TrialTypeOK /\ TimeInv /\ RecordsInv /\ StartInv /\ LabelInv

Occurs(kind) == {i \in DOMAIN log : log[i].target = "timing" /\ log[i].id = kind}

(* The log grows with the project: request by request, never at an earlier   *)
(* revision, every measurement before the first decision.                    *)
OrderInv ==
  /\ \A i \in DOMAIN log : log[i].request = i
  /\ \A i, j \in DOMAIN log : i < j => log[i].rev <= log[j].rev
  /\ \A i \in Occurs("baseline"), j \in HumanRevisions : log[i].rev < j
  /\ enrolled /\ HumanRevisions # {} => StartedFirst

(* The labels of the present revision are the last word on it. *)
FinishInv ==
  \A i \in DOMAIN log, j \in Occurs("finish") : log[i].target # "timing" /\ log[i].rev = Rev => j < i

(* What is summed up is what the log says. *)
FoldInv ==
  /\ folded = Derived(log)
  /\ ~enrolled => folded = NoTiming
  /\ folded.baseline # None => Occurs("baseline") # {}
  /\ folded.state = "finished" => Occurs("finish") # {}

Accounts ==
  [baseline : Sessions \cup Baselines \cup Verdicts \cup {None}, active : Nat,
   session : Sessions \cup Baselines \cup Verdicts \cup {None},
   last : Nat \cup {None}, finished : BOOLEAN, ok : BOOLEAN]

(* The account and the summary of the same events: they differ on when they  *)
(* last looked at a session that does not run, and on nothing that counts.   *)
Agrees(a, t) ==
  /\ a.ok /\ a.baseline = t.baseline /\ a.active = t.active
  /\ t.state = "running" => a.session = t.session /\ a.session # None /\ a.last = t.last
  /\ t.state # "running" => a.session = None
  /\ t.state = "finished" => a.finished

AccountInv ==
  ~overrun => Account(TimingEvents(log)) \in Accounts /\ Agrees(Account(TimingEvents(log)), folded)

BundleInv == OrderInv /\ FinishInv /\ FoldInv /\ AccountInv
=============================================================================
