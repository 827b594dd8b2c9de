---------------------------- MODULE AlphaEvidence ----------------------------
(***************************************************************************)
(* The evidence of an Alpha trial as packages/alpha-gate computes it: the  *)
(* summary of the active time and the labels that evidence.ts derives from *)
(* its append-only event log, and the bundle that bundle.ts makes of them  *)
(* and checks again, independently, before it writes or reads one.         *)
(*                                                                         *)
(* An event is [seq, request, rev, at, target, id, value].  Of a timing    *)
(* event `id` is the kind and `value` its session (start, heartbeat,       *)
(* pause) or its manual baseline; of a label `id` is the candidate or the  *)
(* boundary and `value` the label; of a correctness run `value` is the set *)
(* of checks that passed.  A draft is what audit.ts reads in the project:  *)
(* [rev, enrolled, since, candidates, boundaries, first, export].          *)
(***************************************************************************)
EXTENDS Integers, SequencesExt

CONSTANTS StaleAfter,  \* the longest gap that counts (TIMING_STALE_AFTER_MS)
          None         \* null

ASSUME StaleAfterIsNat == StaleAfter \in Nat \ {0}
ASSUME NoneIsNoNumber == None \notin Int

Kinds == {"baseline", "start", "heartbeat", "pause", "finish"}
Pending == {"candidate_remove", "candidate_keep"}

-----------------------------------------------------------------------------
(* The draft. *)

PendingIds(draft) == {c \in DOMAIN draft.candidates : draft.candidates[c] \in Pending}
ReviewDone(draft) == PendingIds(draft) = {}

(* A passing export of the revision just before the current one: the export  *)
(* itself made the current revision when it registered its files.            *)
ExportAccepted(draft) ==
  draft.export # None /\ draft.export.passed /\ draft.export.source + 1 = draft.rev

OriginOpen(draft) == draft.first = None \/ (draft.first # None /\ draft.rev < draft.first)

-----------------------------------------------------------------------------
(* The event log. *)

(* The events of a sequence that are among those chosen, in their order. *)
Chosen(events, these) ==
  LET upTo[i \in 0 .. Len(events)] ==
        IF i = 0 THEN <<>>
        ELSE IF events[i] \in these THEN Append(upTo[i - 1], events[i]) ELSE upTo[i - 1]
  IN upTo[Len(events)]

(* Labels and correctness runs belong to one revision, timing to the run. *)
Concerns(e, rev) == IF e.target = "timing" THEN e.rev <= rev ELSE e.rev = rev
EventsFor(log, draft) == Chosen(log, {e \in ToSet(log) : Concerns(e, draft.rev)})

TimingEvents(events) == Chosen(events, {e \in ToSet(events) : e.target = "timing"})

(* boundedElapsedMillis: null when the clock went back or the gap is too long. *)
Bounded(from, to) == IF to - from \in 0 .. StaleAfter THEN to - from ELSE None
Counted(from, to) == IF Bounded(from, to) = None THEN 0 ELSE Bounded(from, to)

NoTiming == [baseline |-> None, active |-> 0, state |-> "not_started",
             session |-> None, last |-> None, finished |-> None]

Owns(t, session) == t.state = "running" /\ t.session = session

(* Mutant of Started: a resumed session goes on from the last activity. *)
StartedFromLast(t, e) ==
  IF t.state = "finished" /\ e.rev <= t.finished THEN t
  ELSE [t EXCEPT !.state = "running", !.session = e.value, !.last = IF @ = None THEN e.at ELSE @]

(* A finished run starts again only at a newer revision. *)
Started(t, e) ==
  IF t.state = "finished" /\ e.rev <= t.finished THEN t
  ELSE [t EXCEPT !.state = "running", !.session = e.value, !.last = e.at]

(* A heartbeat after too long a gap pauses the session it belongs to. *)
Beat(t, e) ==
  IF ~Owns(t, e.value) THEN t
  ELSE IF Bounded(t.last, e.at) = None THEN [t EXCEPT !.state = "paused", !.session = None]
  ELSE [t EXCEPT !.active = @ + Bounded(t.last, e.at), !.last = e.at]

Paused(t, e) ==
  IF ~Owns(t, e.value) THEN t
  ELSE [t EXCEPT !.active = @ + Counted(t.last, e.at), !.state = "paused",
                 !.session = None, !.last = e.at]

(* Mutant of Finished: the stretch that is still running is left out. *)
FinishedShort(t, e) ==
  [t EXCEPT !.state = "finished", !.session = None, !.last = e.at, !.finished = e.rev]

Finished(t, e) ==
  [t EXCEPT !.active = @ + IF t.state = "running" THEN Counted(t.last, e.at) ELSE 0,
            !.state = "finished", !.session = None, !.last = e.at, !.finished = e.rev]

(* One step of deriveTiming's loop, which passes over labels. *)
OnTiming(t, e) ==
  CASE e.target # "timing" -> t
    [] e.target = "timing" /\ e.id = "baseline" -> [NoTiming EXCEPT !.baseline = e.value, !.last = e.at]
    [] e.target = "timing" /\ e.id = "start" -> Started(t, e)
    [] e.target = "timing" /\ e.id = "heartbeat" -> Beat(t, e)
    [] e.target = "timing" /\ e.id = "pause" -> Paused(t, e)
    [] e.target = "timing" /\ e.id = "finish" -> Finished(t, e)

(* deriveTiming's loop over the events after those that gave t. *)
Derive(t, events) ==
  LET upTo[i \in 0 .. Len(events)] == IF i = 0 THEN t ELSE OnTiming(upTo[i - 1], events[i])
  IN upTo[Len(events)]

Derived(events) == Derive(NoTiming, events)

(* What is shown and checked: a finished run is reopened by a newer          *)
(* revision, and a running one whose last activity is too old is paused.     *)
Shown(t, now, rev) ==
  LET state == IF t.state = "finished" /\ t.finished < rev THEN "paused"
               ELSE IF t.state = "running" /\ Bounded(t.last, now) = None THEN "paused"
               ELSE t.state
  IN [baseline |-> t.baseline, active |-> t.active, state |-> state,
      session |-> IF state = "running" THEN t.session ELSE None, last |-> t.last,
      complete |-> state = "finished" /\ t.baseline # None /\ t.active > 0]

(* The latest label of a candidate or a boundary at the current revision. *)
LabelOf(events, target, id) ==
  LET of == {i \in DOMAIN events : events[i].target = target /\ events[i].id = id}
  IN IF of = {} THEN None ELSE events[Max(of)].value

(* AlphaEvidenceStore.apply *)
Evidence(log, draft, now) ==
  LET events == EventsFor(log, draft)
  IN [draft      |-> draft,
      labels     |-> [c \in DOMAIN draft.candidates |-> LabelOf(events, "candidate", c)],
      boundaries |-> [b \in draft.boundaries |-> LabelOf(events, "boundary", b)],
      timing     |-> Shown(Derived(events), now, draft.rev),
      events     |-> events]

Unlabelled(labels) == {x \in DOMAIN labels : labels[x] = None}
Labelled(evidence) ==
  Unlabelled(evidence.labels) = {} /\ Unlabelled(evidence.boundaries) = {}

-----------------------------------------------------------------------------
(* The bundle. *)

(* createAlphaEvidenceBundle *)
Bundle(evidence) ==
  LET t == evidence.timing
  IN [draft      |-> evidence.draft,
      labels     |-> evidence.labels,
      boundaries |-> evidence.boundaries,
      progress   |-> Labelled(evidence),
      timing     |-> IF t.baseline = None THEN None
                     ELSE [baseline |-> t.baseline, active |-> t.active, complete |-> t.complete],
      events     |-> evidence.events]

(* validateFinalLabelExportBinding *)
LabelsHaveExport(b) ==
  (\E c \in DOMAIN b.labels : b.labels[c] # None) \/ (\E x \in DOMAIN b.boundaries : b.boundaries[x] # None)
    => ExportAccepted(b.draft)

(* validateEvents: the revisions, the order, the requests and the labels. *)
EventsBound(b) ==
  LET revs == [i \in DOMAIN TimingEvents(b.events) |-> TimingEvents(b.events)[i].rev]
  IN /\ \A i \in DOMAIN b.events :
          /\ Concerns(b.events[i], b.draft.rev)
          /\ \A j \in 1 .. (i - 1) : /\ b.events[j].seq < b.events[i].seq
                                     /\ b.events[j].request # b.events[i].request
     /\ \A i, j \in DOMAIN revs : i < j => revs[i] <= revs[j]
     /\ \A c \in DOMAIN b.labels : b.labels[c] = LabelOf(b.events, "candidate", c)
     /\ \A x \in DOMAIN b.boundaries : b.boundaries[x] = LabelOf(b.events, "boundary", x)

(* The bundle's own account of the active time: it refuses what deriveTiming *)
(* only leaves out, a gap it cannot count (evidenceElapsedMillis throws).    *)
NoAccount == [baseline |-> None, active |-> 0, session |-> None, last |-> None,
              finished |-> FALSE, ok |-> TRUE]

Elapse(a, e) ==
  IF Bounded(a.last, e.at) = None THEN [a EXCEPT !.ok = FALSE]
  ELSE [a EXCEPT !.active = @ + Bounded(a.last, e.at)]

OnAccount(a, e) ==
  CASE e.id = "baseline" -> [NoAccount EXCEPT !.baseline = e.value, !.last = e.at, !.ok = a.ok]
    [] e.id = "start" -> [a EXCEPT !.session = e.value, !.last = e.at]
    [] e.id = "heartbeat" ->
         IF a.session = e.value THEN [Elapse(a, e) EXCEPT !.last = e.at] ELSE a
    [] e.id = "pause" ->
         IF a.session = e.value THEN [Elapse(a, e) EXCEPT !.last = e.at, !.session = None] ELSE a
    [] e.id = "finish" ->
         [(IF a.session # None THEN Elapse(a, e) ELSE a) EXCEPT !.session = None, !.finished = TRUE]

Account(timing) ==
  LET upTo[i \in 0 .. Len(timing)] ==
        IF i = 0 THEN NoAccount ELSE OnAccount(upTo[i - 1], timing[i])
  IN upTo[Len(timing)]

(* validateTimingConsistency *)
TimingAdds(b) ==
  b.timing # None /\ b.timing.complete =>
    LET a == Account(TimingEvents(b.events))
    IN a.ok /\ a.finished /\ a.baseline = b.timing.baseline /\ a.active = b.timing.active

(* validateFormalTrialTimingOrigin *)
EnrolledBefore(b) ==
  LET timing == TimingEvents(b.events)
  IN b.timing # None =>
       /\ b.draft.enrolled
       /\ timing # <<>> /\ timing[1].id = "baseline"
       /\ b.draft.since <= timing[1].at

(* validateTimingOrigin *)
TimingBegan(b) ==
  LET timing == TimingEvents(b.events)
      Starts == {i \in DOMAIN timing : timing[i].id = "start"}
  IN b.timing # None /\ b.draft.first # None =>
       /\ \A i \in DOMAIN timing : timing[i].id = "baseline" => timing[i].rev < b.draft.first
       /\ Starts # {} /\ timing[Min(Starts)].rev < b.draft.first

(* validateFinalLabelTimingOrder *)
LabelsFollowFinish(b) ==
  LET LabelSeqs == {b.events[i].seq : i \in {j \in DOMAIN b.events :
                                               b.events[j].target \in {"candidate", "boundary"}}}
      Finishes == {b.events[i].seq : i \in {j \in DOMAIN b.events :
                                              b.events[j].target = "timing" /\ b.events[j].id = "finish"}}
  IN LabelSeqs # {} /\ b.timing # None =>
       b.timing.complete /\ Finishes # {} /\ \A s \in LabelSeqs : s > Max(Finishes)

(* validateProgress *)
ProgressMatches(b) == b.progress = (Unlabelled(b.labels) = {} /\ Unlabelled(b.boundaries) = {})

(* validatePayload: serialize and parse refuse a bundle that fails any part. *)
ValidBundle(b) ==
  /\ LabelsHaveExport(b)
  /\ ProgressMatches(b)
  /\ EventsBound(b)
  /\ EnrolledBefore(b)
  /\ TimingBegan(b)
  /\ TimingAdds(b)
  /\ LabelsFollowFinish(b)
=============================================================================
