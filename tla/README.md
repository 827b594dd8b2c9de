# AgentCut in TLA+

AgentCut is a local, agent-first video editor: a daemon owns one project (a
SQLite file and a directory of media), a browser Studio and AI agents edit it
over HTTP, and every change is a typed transaction on a versioned document.
This directory specifies the parts of it in which order, failure and retry
decide whether the result is right, checks them with TLC on small instances and
proves the central ones with TLAPS for every instance.

Paths below are relative to the repository; `PS` is
`packages/project-store/src/project-store.ts`, `SRV`
`apps/local-daemon/src/server.ts`, `WF` `packages/render-engine/src/workflow.ts`, `ENG`
`packages/edit-commands/src/engine.ts`.

## 1. Inventory

| Component | State | Operations | What makes it correct | Here |
|---|---|---|---|---|
| Project store (`PS`) | `project_meta`, `current_state`, `command_log`, `checkpoints` | `commit`, `undo`, `createCheckpoint`, `verify`, reads | the log replays to the document; each transaction once; answers are final; undo and checkpoints agree with the log | `ProjectStore`, `EditLedger`, `ProjectStoreProofs` |
| Job table (`PS` 921-1150) | `jobs`, `job_events`, `job_cancellation_requests` | create, start, progress, cancel, succeed, fail, retry | a settled job stays settled; success has outputs | `ExportJobs` (all but `retryJob`) |
| Export runner (`WF`) and its recovery (`SRV` 2358-2489) | files under `renders/`, report and asset in the document | render, publish by rename, register, adopt after a restart | registered files exist; nothing overwritten; cancelled means nothing registered; every job settles | `ExportJobs` |
| Agent sessions (`PS` 361-583) | `agent_sessions`, `agent_session_revocations`, `agent_access_events` | create, authorize, revoke | a revoked or expired session does nothing | `AgentApprovals` (as a status) |
| Approvals (`PS` 714-909, `SRV` 229-281, 348-385, 1457-1539) | `approvals`, and the entry in `command_log` | request, resolve, fetch token, apply, consume | applied is what was approved, on that revision, once; retries converge | `AgentApprovals` |
| Edit engine (`ENG`) | none: a document in, a document and an inverse out | assets, artifacts, tracks, clips (insert, remove, split, move, trim, replace, update), ripple delete, locks | all or nothing; locks and deny rules hold; the inverse restores; the document stays valid | `EditOperations`, `EditEngine` |
| Edit proposals (`packages/edit-commands/src/proposal.ts`) | none | candidates of a set become one transaction of ripple deletions | exactly the chosen ranges are cut, however they overlap | `ReviewCommands` |
| Rational time (`packages/timeline-engine/src/time.ts`) | none | convert, add, subtract, compare, overlap | exact, within the safe integers | `RationalTime` |
| Alpha gate: evidence (`packages/alpha-gate/src/evidence.ts`, `bundle.ts`) | append-only event table with triggers | baseline, start, heartbeat, pause, finish, labels; the timing fold; the bundle and its validation | no time counted that was not worked; labels judge the exported cut; what the log accepts is a valid bundle | `AlphaEvidence`, `AlphaTrial` |
| Alpha gate: gate, audit, collect, correctness (`gate.ts`, `audit.ts`, `collect-cli.ts`, `correctness.ts`, `manifest-evidence.ts`) | manifest and bundles on disk | evaluate; audit, prove on a copy, publish, register | the verdict follows from what was proved; registered is what was proved, of that revision | `AlphaGate`, `AlphaCollect` |
| UI credentials (`SRV` 144-184, 402-468, 1197-1357, `scripts/agentcut-credentials.mjs`) | credential file, `ui_credential_rotations`, cookies | create, pair, rotate, recover at start | file and record agree after a crash at any point; a rotation happens once, under the token it replaces | `UiCredentials` |
| Building a project (`packages/rough-cut-workflow`, `media-ingest`, `asr-engine`) | managed media, proxies, database, transcription job | ingest, proxy, create, import, transcribe, resume | registered files are what they are registered as; transcribed once; resuming never takes another project for its own | `RoughCutProject` |
| Review routes (`SRV` 634-1057), semantic review and rough cut (`SRV` 2208-2282, 2606-2717, 1764-1869), agent timeline transactions (`SRV` 1599-1639) | `command_log`, artifacts, locks, semantic jobs | decide, batch, select, restore, generate, await provider, commit findings | what is shown is what is cut; groups stand together; machines respect what people kept; a result stands on the document it read | `ReviewSession` |
| Candidate engine (`packages/candidate-engine`) | none: decisions become transactions, transcripts candidates | compile accept, keep, unlock, batches, manual ranges; detect; validate findings | a decision is never lost to an overlap | `ReviewCommands`, `CandidateDetection` |
| Review projection (`packages/review-projection`, `render-engine/src/preview.ts`) | none: a fold of document and log | transcript review, overlap groups, readiness, speech gaps, evaluated timeline | agrees with the log and with the cut | `ReviewProjection` |
| Render plan, captions (`packages/render-engine`) | none | plan, caption cues, ffmpeg | captions say what is heard when it is heard | `RenderPlan`; the render itself is a step of `ExportJobs` |
| Timeline schema (`packages/timeline-schema`) | none | validate, migrate | only valid documents are stored | what an edit can break, in `EditOperations`, `ReviewSession` |
| OTIO, conformance kit, host extensions | none | convert, compare, describe | format | not modelled |
| Reference host (`apps/reference-host`) | a store of its own | the protocol's routes | commits as the store's | its commits are those of `ProjectStore` |
| Studio (`apps/studio/src`) | the review shown, unresolved request ids, a confirmation, a cut being played | decide, export, preview, read anew | nothing is asked for twice blindly; a tick and a preview are of what is shown | `Studio`, in part |
| Agent client, CLI, MCP server | none that lasts | send requests | callers | their requests are the models' inputs |

How they interact. Every HTTP handler opens a store handle of its own on the
one file, so handles are the unit of concurrency on the database; SQLite's write
lock (`BEGIN IMMEDIATE`) orders them. Inside the daemon everything else is one
event loop: a handler awaits its body first and then runs to its end, export
runners give way at each `await`. A handler usually reads the revision, decides,
and commits with that revision as its base. The edit engine is called by
`commit` inside the transaction. Exports and approvals both write twice (a commit
of the document, then a row of their own table): what lies between those two
writes is where many of the hazards are. Beside the daemon there are processes
that share its files and no lock: a second `roughcut`, `alpha:collect`, and the
script that rotates the credential.

A review goes round a loop. Detection or a semantic review puts a candidate set
into the document; the projection derives from document and log what a person is
shown; a decision names a candidate it was shown; the candidate engine compiles
it, against the document of that moment, into ripple deletions and keep locks;
the store commits them; and the next projection reads the result. The decisions,
the cut and the captions are three readings of one history, computed by code
that does not share intermediate results.

What is hard about it: two handles planning on the same revision; an answer lost
after `COMMIT`; a crash between any two writes, or between a rename and a write;
checks made before an `await` and used after it; cancellation against
completion; expiry against application; retries that are refused by a rule that
did not exist when the first attempt succeeded; derived views that must agree
after restores in any order; files that several processes publish under one name. `PROJECT.json` lists each one at
its line, with the properties that are about it.

## 2. Modules

    EditLedger            what the store promises (no handles, no failures)
      ^ implemented by
    ProjectStore          commit, undo, createCheckpoint over one file
      ProjectStoreProofs    the theorems about it
      MCProjectStore        instances for TLC
    ExportJobs            jobs, runners, files, restart recovery
      ExportJobsProofs      the theorems about it
      MCExportJobs          instances for TLC
    AgentApprovals        sessions, approvals, apply and consume
      AgentApprovalsProofs  the theorems about it
      MCAgentApprovals      instances for TLC
    EditOperations        operations, locks and inverses, as pure operators
      EditOperationsProofs  lemmas about them, for both modules of theorems below
      EditEngine            transactions and undo on one document
      EditProofs            the theorems about it
      MCEditEngine          instances for TLC; also checks RationalTime
    RationalTime          times of several rates, as pure operators
    EditOperations        (the same module, extended on)
      ReviewCommands        decisions compiled into operations
        ReviewProjection      what a person is shown, and the cut as it plays
          RenderPlan            segments and captions
            ReviewSession         the routes, both analyses, an agent
        CandidateDetection    detectors and the validation of findings
          ReviewProofs          the theorems about ReviewSession and CandidateDetection
          MCReviewSession       both for TLC
    AlphaEvidence         the timing fold, labels, bundle and its validation
      AlphaTrial            one project under trial: daemon, clock, jobs
    AlphaGate             the gate's checks, and what a manifest entry says
      AlphaCollect          collecting processes, files, manifest
      AlphaProofs           the theorems about AlphaTrial and AlphaCollect
      MCAlphaGate           both parts for TLC
    RoughCutProject       building a project, by several processes
    UiCredentials         credential file, rotations, pairing
    Studio                one page: review, request ids, confirmation, preview
      StartupProofs         the theorems about these three
      MCStartup             all three for TLC

Definitions whose comment begins with "Mutant of" are variants of the definition
after them with one plausible mistake; no specification uses them. Each exists
to show that some property notices that mistake.

## 3. Plan

Done: the store with its abstract ledger and its theorems; exports; approvals;
the edit engine; rational time; proposals, candidate decisions, projection,
plan and captions under one review session; the Alpha trial, its evidence, the
gate and the collector; building a project; UI credentials; the Studio's writes
and previews.

Left to model, in the order of what it would add: the Alpha panel of the Studio
with its heartbeats; the preconditions of transactions; the migration of
documents; the worker protocol of the recogniser.

Left to prove:

1. Of `ReviewSession`: `AcceptCutsExactly`, `StruckIsCut` and
   `GroupsStandTogether`, for which the invariant must hold the documents of the
   whole history (§6); then `CaptionsAsHeard`.
2. Lemmas about `RationalTime` (`Before` is a strict order on reduced fractions).

## 4. What each module says

### 4.1 ProjectStore

The tables are one record, `db`; the open write transaction has its own copy,
`work`, and `COMMIT` is `db' = work`. `stage[h]` is where handle `h` is inside
`commit`: the stages are the places between the failure-injection points of the
code (`after_begin` ... `after_commit`), so a failure can fall between any two
writes.

| Model | Code |
|---|---|
| `Submit`, `Resubmit`, `SubmitUndo`, `Retry`, `GiveUp` | callers: plan on a revision, send, send again |
| `Replay`, `Refuse`, `Begin` | `commit` 1152-1193: equal payload, conflict, apply |
| `InsertCommand`, `UpdateState`, `InsertCheckpoint`, `Commit`, `Respond` | 1194-1206 |
| `Rollback`, `LoseResponse` | the catch block, a process that dies, a full disk, a busy timeout |
| `CreateCheckpoint` | 1236-1262 |
| `VerifyPasses` | what `verify()` 1264-1320 recomputes |

The payload hash is equality of transactions. `undo` derives its key from the
target and the revision it read (1225), so a retried undo is a different
transaction: `Retry` recomputes it, as calling `undo` again does.

Documents are opaque. `EngineAssumption` and `InverseAssumption` are what the
store needs of `applyTransaction`: results are documents, and a recorded inverse,
if it still applies, gives back the document before. TLC evaluates both for its
engine, a document of two cells to which an operation adds, and in which a sum that a
cell cannot hold is refused.

`EditLedger` is the promise to callers: edits enter one at a time, whole, once,
on the revision their caller saw; acknowledged means entered, denied means never.
The refinement mapping reads the ledger off `db.log`; steps inside a transaction
stutter, `Commit` is `Enter`, and every failure stutters or makes a caller leave.

### 4.2 ExportJobs

`phase[j]` is where the runner of job `j` is; steps between two awaits carry the
flag `loop`, which keeps the event loop to one runner, while `Crash` and
`OutsideEdit` (another process that has the project open) are possible anywhere.
A file is named after plan and preset (`renderOutputPathPairs`): the primary pair
is shared by all jobs with the same plan, the safe-retry pair belongs to one.
`finalized[j]` is the list the catch block deletes. ffmpeg, hashing and quality
checks are a choice between success and failure.

`Boot` is `recoverExportJobs`; `RecoverStart` ... `Readopt` are
`recoverRunningPersistedRenderJob` and the promise chain of
`scheduleExportRecovery`. The loops of `Boot` over the jobs are one step, as
nothing else runs before the server listens. `.work-*` directories, progress
values and job events are left out: nothing reads them back.

### 4.3 AgentApprovals

One approval per requestId. `calls[c]` is an HTTP call in flight: authorized,
waiting for its body (`requesting`, `applying`), and then inside the handler
(`checked`, `committed`, `retrying`), where no other handler runs (`Idle`) but
time, other processes and crashes do. `HandleRequest` and `Resolve` are one step
each: their store method is one transaction that does not read the revision, so
a commit that falls between the route's check and it can be ordered after it.
Applying is three steps, because its two transactions can be separated.

`Appliable` is the list of checks in `applyApprovedCandidate`; `Consumable` those of
`consumeApproval`. A token is a member of `tokens`: with any other value both
routes refuse. The alpha trial is the flag `editing`, which may change whenever
no handler runs. The candidate's document is its decision (`open`, `kept`,
`removed`), which other commits may change, also back.

### 4.4 EditOperations, EditEngine

`EditOperations` has an operator for each case of `applyOperation` (`ENG` 495-684),
which gives the new document and the inverse operations, or `Refused` where the
code throws; `OperationUnlocked` with `Affected`, `TouchesProperty` and
`TouchesSource` are `assertOperationUnlocked` and what it calls. `asset.put` and
`artifact.put` differ in their list only and are one operation here, as are their
removals. All times have one rate, so that they are integers; a clip that is not
`enabled` plays nothing, and its `look` stands for every property without one of its
own. `UpdateClip` assigns whatever patch the wire brings, as `Object.assign` does (`ENG`
656-661): the type declares `enabled` and the properties of `look`, but the agent's route
passes the body through (`SRV` 1605), so asset, source, place and even the id may be in
it. A `clip.update` is held against a lock by the clip's id, the place the clip has and
the keys it patches, and never by the source it plays; `Escapes` names the patches that
thereby take from a lock what it protects.

In `EditEngine`, `draft` is `working` with `inverseOperations`. `Begin`, `Apply` and
`Commit` are `applyTransaction` taken apart: the code runs it in one go, and
here, too, nothing else happens while a draft is open; taking it apart lets TLC
choose each operation among those the earlier ones make possible. `Undo` is one
step. Preconditions are left out: they can only refuse, so every transaction
that passes them is here without them. `TransactionEngine` remembers idempotency
keys; the store does the same durably, and that is modelled there.

`UndoRestores` of this module is the `InverseAssumption` of `ProjectStore`. It
has a premise: no document the transaction went through gave one id to two
objects (`Unambiguous`, of all the working copies, `Copies`, and not of the
committed documents alone, which the validation keeps so). `UndoAlwaysRestores` is the
same without the premise, and the code does not keep it (§7).

`UndoAccepted` says when an undo must not be refused. Its premises are what the
code needs: ids are distinct and no lock stands in the author's way on any of the
working copies; the locks the transaction added are its author's; the tracks it
added are not locked; and no `clip.update` renamed a clip, since the recorded
`clip.replace` that would give the old name back is refused (`ENG` 648). They speak of the copies because the inverse is checked
against locks one operation at a time, on documents nobody saw: a lock that the
transaction removed is put back by the inverse before the clips move back, and an
agent's lock on a range then refuses a `clip.replace` into it although the ripple
that moved the clip out was let through, since a ripple is asked where clips are
and not where they land (`ENG` 462-474).

### 4.5 RationalTime

An operator for each exported function of `time.ts`, with `Refused` where it
throws. Fractions of a second are reduced as in the code, and `Divide` has its
four roundings. JavaScript's `bigint` is the integer; the safe integers are the
constant `MaxSafe`. There is no state: `MCEditEngine` assumes `ComparesInstants`,
`RoundsWithinATick`, `AddsExactly` and `IntegersStandForTimes`, and TLC evaluates
them over all values up to `MaxSafe = 9` at four rates that do not divide each
other. The last one says that at a common rate the integers of `EditOperations`
and these times add, compare and overlap alike, which is what lets the other
modules use integers.

### 4.6 ReviewCommands, ReviewProjection, RenderPlan, ReviewSession

A project is `[doc, known, rev]`: the document of `EditOperations`, whose
`artifacts` are ids, what each id stands for, and the revision. It has one
transcript. `ReviewCommands` has an operator for each `compile...` of `review.ts`,
which gives a set: empty where the code throws, and the one sequence of
operations otherwise (several where a selection does not determine it).
`Ripples` and `Merged` are `buildRippleOperations` and `mergeRanges` of
`proposal.ts`; the operations then pass through `ApplyAll`, so the locks and the
validation of the edit engine decide over them as in the code.

`ReviewProjection` is `buildTranscriptReviewProjection` and what the daemon adds
to a review response. `Review` reads the state of a candidate off artifacts,
locks and log (`CommitOf` goes through the recorded operations, as the code
does); `Group` and `Anchor` are the overlap groups; `Playable` and `Played` are
`evaluateTimelineSegments`. `RenderPlan` has the segments with their clamping to
what the source's streams deliver, and the words mapped, dropped and parted, and
the cues made of them.

| `ReviewSession` | Code |
|---|---|
| `AcceptCandidate`, `KeepCandidate` | `SRV` 984-1030, with the anchor check 2088-2112 |
| `AcceptMany`, `KeepRemaining` | 761-836 |
| `UnlockReview`, `DeleteSelection`, `DeleteSpeechGap`, `Restore` | 1031-1057, 644-760, 949-983 |
| `GenerateRoughCut` | 634-643 with `runRoughCutGeneration` |
| `BeginSemanticReview`, `PutFindings`, `FailSemanticReview`, `Restart` | `runSemanticReview`, before and after it awaits the provider |
| `SubmitFindings`, `AgentEdit` | the agent's routes, 1764-1869, 1599-1639 |

`PutFindings` commits the findings, and the end of the job is a write after that (`SRV`
2679, 2691): it succeeds, fails, in which case the job is failed, or does not come, as
the daemon stops, and then the job is left running for good. `AgentEdit` takes any
operations on clips, inserts and ripple deletions; which of them TLC offers is the
constant `AgentEdits`.

`review` is what every request is answered with; it is kept as a variable
because the properties speak of what was shown. `standing` and `disordered` are
history variables: the records not taken back, and whether one was taken back
before a later one. `StruckIsCut`, `AcceptCutsExactly` and two others are stated
for histories in order only; why is in §7.

`CandidateDetection` has the three detectors of `candidates.ts` and the
validation of semantic findings (windows, evidence, refinement, no two
suggestions about one word). The ids of candidates are hashes of different things for
the mechanical detectors and for semantic findings (`candidates.ts` 362, `semantic.ts`
452), so the same words found by both are two candidates, and one overlap group. Texts are sequences of letters that are already
normalised. `MCReviewSession` gives `ReviewSession` the candidates as constants
and assumes that they are what the detection makes of its transcript
(`DetectionAgrees`, `ReviewsAgree`), and that every phrase no longer than the
overlap lies whole in one window (`WindowsCover`).

### 4.7 AlphaEvidence, AlphaTrial, AlphaGate, AlphaCollect

`AlphaEvidence` folds the events of the log as `deriveTiming` does (`OnTiming`
for one event, `Shown` for the state at a time), and builds and validates a
bundle as `bundle.ts` does, which counts the active time by a fold of its own
(`OnAccount`). `AlphaTrial` is the daemon around it: one action per recording
route, edits that are refused unless the clock runs (`EditingActive`), exports
and semantic reviews that end in the background. `SetBack` is a clock that is
corrected, also to before `EnrolledAt`, the time at which the project was created.
`ran` counts, as history, the ticks in which the clock was shown running.

`AlphaGate` has one operator per check of `evaluateAlphaGate`, over a set of
entries whose figures may be `Absent`; fractions are compared by
cross-multiplication. `AlphaCollect` is the command `alpha:collect` as a process
with a step for each file or database operation, so that two of them and the
daemons interleave and either may be killed; its projects are what an audit says
of them, which is what `AlphaTrial` produces. `Compare` and `Rename` are
`commitAlphaManifestIfUnchanged`, which does them apart.

### 4.8 RoughCutProject, UiCredentials

`run[r].pc` is where an invocation of `roughcut` is; every `await` and every file
or database operation is a step, and `End` may come at any of them, by error or
by `kill`. Hashes are contents. `PublishProxy` is the hard link that does not
replace, `TakeProxy` what the loser of the race does. `StartJob`,
`CommitTranscript`, `SucceedJob` and `FailJob` are the transcription job;
`Normalised` is `normalizeAsrResult`, and `AnswersInOrder` is assumed of it and
evaluated over every answer of three words. `EditProject` is whoever edits the
project that is there.

In `UiCredentials` a token is named after the generation it is published as.
Rotation is the file's rename, the record in the store and the answer, apart:
`Rotate` does all, `RotateUnrecorded` dies after the rename. `Synchronized` is
`synchronizeUiCredentialRotation`, which runs when the daemon starts (`Serve`)
and whenever the file is read. A rotation's body is awaited after its session was
looked at (`AskRotation`), so another browser may have rotated meanwhile.

### 4.9 Studio

`Studio` is one page against one daemon. `mail` is what is under way to the
daemon, which may arrive late, after the page has given it up, or never; `calls`
is the write of a scope that keeps its buttons disabled; `tickets` is the registry
of `mutation-requests.ts`, one unresolved id per scope.

| Model | Code |
|---|---|
| `Ask`, `Send`, `Withheld` | `performMutation`, `startExport`; `runStableMutation`, `acquire` |
| `Receive`, `Reply` | the routes: what was done is answered again, another revision refused |
| `Hear`, `Lose`, `Recover` | an answer; a 5xx or no answer; `recoverUnknownReviewMutation` |
| `Show`, `Read`, `Unreadable` | a revision rendered and its effect (`App.tsx` 226-235); `fetchReview` |
| `Tick`, `Select`, `Reload` | the box, the selection, a new page |
| `AskPreview`, `HearPreview` | the three functions that preview a cut (`App.tsx` 441-586) |

Of the writes, decisions on a candidate stand for all of the scope
`project-write`, as all name a revision and move it; an export names one and does
not move it, which makes a repetition under another id a second job. The hook
that caches the review, SWR, is external: `mutate()` either throws on a failed
reading or comes back with the review it had, and `Recover` has both. The effect
on the revision is one step with the rendering, and a reading of the review one
step. Three things are history: `unheard`, the ids whose answers were lost since
a review was read; `blind`, in a request, those of them that were not its own
when it was sent; and `revived`, that an answer, and no reading, has ended the
error screen.

## 5. Runs

All with two workers. States are distinct states.

| Run | Instance | Properties | States |
|---|---|---|---|
| `store` | 2 symmetric handles, 2 revisions, 2 failures, 4 intents that reuse keys and IDs | types, `VerifyPasses`, `AppliedOnce`, `AnswersHold`, `LogAppendOnly`, `ImplementsLedger` | 1.0 M |
| `store_live` | 2 handles, 2 revisions, 1 failure, 2 undos, fair | `Inductive`, `CheckpointsFaithful`, `UndoRestores`, `CallsSettle` | 72 k |
| `exports` | 2 jobs, 2 presets, 1 edit, 1 crash, 2 faults, 1 outside commit | `CancelledRegistersNothing`, `DeliversAsAsked`, `PublishKeepsFiles` | 1.63 M |
| `exports_restart` | 2 jobs, 2 crashes, no faults, fair | `ReportedFilesExist`, `RegisteredMeansSucceeded`, `JobsSettle` | 169 k |
| `approvals` | 2 requests, 2 callers, 2 clicks (symmetric), 1 fault, expiry after 1 of 2 ticks, 2 other commits | `AppliedAsShown` | 1.15 M |
| `approvals_live` | 1 request, 2 sessions, 2 callers, 2 faults, no expiry, fair | `RetryConverges`, `AppliedIsConsumed` | 210 k |
| `edits` | 2 actors, 2 clips, 7 lock situations, every operation type, a `clip.update` that switches off and moves and one that renames; 2 operations in 1 or 2 transactions, 3 with undos | `UndoRestores`, `UndoAccepted`, `ProtectedStays`, `CutsAreExact`; the assumptions about `RationalTime` | 738 k |
| `alpha` | one candidate, 2 revisions, 4 events, times 0 to 2 with the enrolment at 1, the clock set back once; or 2 symmetric collectors, 3 runs, 2 projects, 3 cohorts, 1 edit | `CountsOnlyRunning`, `BundleAccepted`, `JudgedAsExported`, `RegisteredAsProved`, `PassedMeansTrusted` | 639 k |
| `review` | 4 words with a filler, a repetition and a silence, an agent's ripple and a clip it switches off, 4 requests | `StruckIsCut`, `CaptionsAsHeard`, `GroupsStandTogether`, `SuggestionsAsReviewed`, `KeptFromMachines`, `AcceptCutsExactly` | 204 k |
| `startup` | 2 builds at a time, 3 started, of 2 recordings, 1 edit; or 2 browsers, 3 rotations, 3 pairings; or 1 page, 1 high-risk candidate, 2 revisions, 2 request ids, 1 preview at a time | `FilesAsRegistered`, `TranscribedOnce`, `ResultStands`, `RotationsChained`, `NoBlindRepeat`, `AsShown` | 1.68 M |
| `edits_duplicate` | a new track whose clip has an id in use, 3 operations and the undo | `UndoAlwaysRestores`, violated (§7) | |
| `edits_escape` | a lock on source material, 1 `clip.update` | `SourceLocksHold`, violated (§7) | |

`alpha` and `startup` check two and three modules that have nothing to do with
each other at run time: a variable of the MC module says which part a behaviour
is of, and the others keep still.

Why the bounds are enough. Two handles are what a race needs, since the write
lock lets one in at a time; two failures let a retry fail again; two revisions
let a transaction be refused by the one before it, an undo read its target before
the other handle commits, and a checkpoint interval of 2 be reached. An undo of an undo needs three: `MCProjectStoreDeep.cfg` has
them for one handle (136 k states), is not among the runs, and ends without an
error. The theorems remove these
bounds for the properties they cover. Two export jobs suffice for a shared path;
two crashes let a recovery be interrupted itself, and two faults let both the
success and the failure of a job go unwritten. One tick of life and two ticks
of time put the expiry before, between and after any two steps. In `edits` the two
clips leave a gap, so that a cut can begin or end inside, at the edge of and
outside a clip, and a second operation can act on the result of the first, in
the same or in a later transaction, of the same or of the other actor. The
initial documents put one lock of each scope on it, or none. In `review` the filler
overlaps nothing, the mechanical repetition is of the same words as one the local model
finds and overlaps the phrase that model and agent call given up, and the silences touch words and the end of the media, which is one
instant longer than what the streams deliver; four requests are an analysis, a
group decided, one of its members decided again or unlocked, and a restore. In
`alpha` two events make a gap, a third ends it late, and a fourth judges; of the
two projects one is a hundred times larger than the other, so that a sum can hide
it. In `startup` a build races another one of the same or of the other recording,
and a third finds what they left; three rotations are one lost, one repeated and
one that another browser overtakes. Of the page, a second request id is what a
blind repetition needs, two revisions let a request be refused by somebody
else's edit and then be retried, and the one preview at a time becomes stale when
something is selected, written or reloaded before its answer. The bounds are
constants: `MaxRevision`, `MaxFailures`, `MaxCrashes`, `MaxFaults`, `MaxOutside`,
`MaxTime`, `MaxOperations`, `MaxSteps`, `MaxClock`, `MaxBack`, `MaxEvents`, `MaxJobs`,
`MaxEdits`, `MaxRuns`, `MaxSelection`, `MaxStarts`, `MaxGeneration`, `MaxPairings`, `MaxSent`, `MaxPreviews`.

`store` and `store_live` check deadlock (a caller can always come back). The other runs do
not: when every job is settled and every bound is used up, nothing is
left to do.

The type invariants of the other modules, `SettledForGood`, `VerdictStands`,
`AppliedAtMostOnce` and the inductive invariants of §6 (`ExportsHold`, `PageHolds`,
`AccessHolds`, `BuildHolds`, `TrialInv`, `BundleInv`, `CollectInv`, `UndoInv` and
`WorkCheckpoints`, `Inductive` of `AgentApprovals`) are in no run of their own: a
theorem states them, or the proof of one needs them. TLC found no violation of
any of them on the instances above.

Fairness. `store_live`: each handle's own steps are weakly fair, which is a
process that keeps running (`BEGIN IMMEDIATE` is granted in the end because the
holder finishes or rolls back). `exports_restart`: a runner's steps are weakly
fair, as awaited file and process operations end; so is `Boot`, as the daemon is
started again by its user. `approvals_live`: strong fairness of handling a call,
because a handler waits for others to leave the event loop, again and again,
and the loop serves each in turn; and of resending, which is the agent's
persistence: it retries as long as a session allows it. No run assumes that
failures stop other than by their bound.

## 6. Proofs

The theorems hold for every value of the constants that meets the assumptions:
any number of handles, jobs, requests, processes or candidates, any bounds. The
bounds of the modules are natural numbers and nothing else is assumed of them.
Each module's theorems rest on one inductive invariant, written in named parts
beside the properties it explains; a step theorem has a case for each action,
and under it one for each part that the action can disturb.

| Module | Inductive invariant | Theorems (property) |
|---|---|---|
| `ProjectStoreProofs` | `Inductive`, `WorkCheckpoints`, `UndoInv` | `TypeCorrect`, `VerifyAlwaysPasses` (`VerifyPasses`), `EachAppliedOnce` (`AppliedOnce`), `AnswersAreFinal` (`AnswersHold`), `HistoryIsKept` (`LogAppendOnly`), `Implementation` (`ImplementsLedger`), `CheckpointsAreTrue` (`CheckpointsFaithful`), `UndoIsInverse` (`UndoRestores`) |
| `AgentApprovalsProofs` | `Inductive` | `TypeCorrect`, `OnlyShownIsApplied` (`AppliedAsShown`), `EachAppliedOnce` (`AppliedAtMostOnce`), `VerdictsStand` (`VerdictStands`) |
| `ExportJobsProofs` | `ExportsHold` | `ExportsTyped`, `OutputsAsAsked` (`DeliversAsAsked`), `CancelledStaysOut` (`CancelledRegistersNothing`), `ReportsKeepTheirFiles` (`ReportedFilesExist`), `RegisteredIsTold` (`RegisteredMeansSucceeded`), `PublishesKeepFiles` (`PublishKeepsFiles`), `SettledStays` (`SettledForGood`) |
| `AlphaProofs` | `TrialInv`, `BundleInv`, `CollectInv` | `TrialTyped`, `ActiveTimeIsShown` (`CountsOnlyRunning`), `LabelsJudgeTheExport` (`JudgedAsExported`), `BundlesAreAccepted` (`BundleAccepted`), `RegistrationsAreProved` (`RegisteredAsProved`), `PassedIsTrusted` (`PassedMeansTrusted`) |
| `EditProofs` | `EngineInv` | `EngineAlwaysReplays`, `EngineTyped`, `LocksHold` (`ProtectedStays`), `CutsExact` (`CutsAreExact`), `UndoIsExact` (`UndoRestores`), `UndoIsAccepted` (`UndoAccepted`) |
| `ReviewProofs` | `ReviewInv`, `SuggestInv` | `ReviewHolds`, `KeptStaysInTheCut` (`KeptFromMachines`), `SuggestionsStandAsReviewed` (`SuggestionsAsReviewed`), `SuggestionsShareNothing` |
| `StartupProofs`, building | `BuildHolds` | `BuildTyped`, `RegisteredIsThere` (`FilesAsRegistered`), `AnswersStand` (`ResultStands`), `OneTranscription` (`TranscribedOnce`) |
| `StartupProofs`, credentials | `AccessHolds` | `AccessTyped`, `RotationsAreChained` (`RotationsChained`), `RotationsAreKept` |
| `StartupProofs`, Studio | `PageHolds` | `PageTyped`, `WhatIsDoneWasShown` (`AsShown`), `NoExportTwiceUnseen` (`NoBlindRepeat`) |

**ProjectStore.** `VerifyPasses` and `AnswersHold` are not inductive. A rolled-back
or interrupted transaction is harmless because `work` is thrown away, and a
finished one is right because `work` was built on a `db` that nobody changed
meanwhile; that is `WriterInv` (exactly the handle inside a transaction holds the
lock) and `WorkInv` (what `work` contains at each stage, and that the request is
still admissible on `db`). `AnswersHold` needs `OutcomeInv`: a refused transaction
is neither in the log nor admissible now, and it never becomes so, because its
key or ID stays taken, or its base is behind the revision, or the document is
still the one the engine refused it on. For that last case `BaseInv` excludes a
base ahead of the revision. `WorkCheckpoints` says which checkpoints `work` holds
at each stage. `UndoInv` says that whatever bears one of undo's own keys, in the
log, under way or answered, is the recorded inverse of the command the key names,
and that what is recorded is what the engine made; the document that undo gives
is then `InverseAssumption`. `UndoIsInverse` has the hypothesis that `Keys`, the keys
callers choose, has none of undo's own (`Keys \cap (TxIds \X Nat) = {}`); the code
gives undo's keys the prefix `undo:` and leaves it to its callers not to use it.

**AgentApprovals.** `AppliedAsShown` speaks of the log alone; a handler that has
passed its checks must still be right when it commits. `Serial` is the event loop
(one handler past its checks at a time), `CallsHold` what such a handler knows and
no other process can change: the approval it read is still approved, of the
revision it will name as its base, and later that its entry is in the log.
`TokensHold` and `RowsHold` are what the checks read.

**ExportJobs.** `LoopHolds` is the event loop again. `FilesHold` says whose files are
where: what a runner would delete it has published itself, what it adopts nobody
will delete, and a free place stays free until the rename. `FirstRun` is what holds
until the first restart only, where plans are of the revision asked for;
`ReportsHold` what stays true of a registered report through restarts.
`ReportsKeepTheirFiles` and `RegisteredIsTold` have the hypothesis `MaxFaults = 0`:
with a store write that fails, the first is refuted by `MCExportJobsFault.cfg`
(§7), and the job of the second is left `running`. Crashes, restarts and outside
commits remain, without bound. The weaker premises inside the other properties
(`crashes = 0`, `faults <= 1`) are those of §7 as well.

**EditEngine.** The invariant is small: `LedgerInv` says that every record is what
replaying its operations on its first document gives, that each begins where the
one before ended, and that an undo carries the inverse of the record it names;
`DraftInv` that the draft is what its operations make. A transaction may be of any
length, so each property is then one about runs of operations, `ApplyAll`, proved
for one operation of each type and carried over the run by `SequenceInduction`:
the set of the runs for which it fails has no shortest member.

`LocksHold`. `Keeps` is what a document still has of what a lock protects; every
operation that the lock lets through keeps it (`StepHolds`), and the lock itself,
although the operation may shift, cut, remove and put back the clips around it. The exception is
in the statement: a `clip.update` that `Escapes` the lock. It is no artefact of the proof;
for source locks run `edits_escape` shows the transaction (§7).

`CutsExact` compares what a track plays, instant by instant, with the reference:
the pieces that a ripple makes of one clip, then of all clips of one track, then
of the tracks one after the other.

`UndoIsExact` has the inverse of each operation undone by itself (`OneUndone`), on
a document where no id has two owners: an insertion's place in its sequence is
found by id, and counting shows that distinct ids make it the right one
(`DistinctAreUnique`). Of a ripple deletion, which works through the tracks in
turn, the inverse is a list of replacements, removals and insertions over all
tracks; it is followed track by track through documents of which some tracks are
already old and the others still new (`Mixed`). `RunUndone` puts the inverses
together, newest first.

`UndoIsAccepted` must show of each of those operations that the code lets it
through: that what it names is there, that what it brings is not, that no lock of
the document it meets refuses it, and that no locked track is touched. The
premises say this of the documents on the way forth (`Ready`); the proof carries it
over to the documents on the way back (`OneAllowed`, `RunAllowed`).

**ReviewSession.** `KeptFromMachines` speaks of what the person was shown, the
engine of locks, and between them are the projection, the artifacts and the log.
`ReviewInv` ties them: every lock of the document is a person's and keeps the
range of a candidate that was put under the name in its note; candidates of one
id have one range, whoever found them and whenever; what is in the document is
known; and the review is that of the document and the log. It has to hold of the
recorded inverses as well, as restoring a deletion replays them on a document they
were not made for: what they add are locks that keep a range and artifacts that are
known (`LoggedHolds`), because what an operation destroys was there (`Supplied`).
Then `RouteHolds` goes through what each route compiles. A candidate shown as kept
has a lock (`KeptLocked`), and what `EditOperationsProofs` says of every operation
the lock lets through (`RunKeeps`) ends the argument: no analysis and no agent takes
an instant of it out of the cut, although it may take out all around it, unless by a
`clip.update` that switches a clip off or gives it other material, which no source lock
stops. The agent of the theorem submits any operations on clips, inserts and ripple
deletions, not those TLC offers only. Nothing is supposed here about the order in which decisions are made and restored.

`SuggestionsAsReviewed` needs `SuggestInv`: a job that is still served has not put
anything, and whatever was put is one set, as the record after the revision the job had
read. The commit and the end of the job are two writes, so of a job that is failed, or
that nobody serves any more, both are possible, and the property says so; only a job
that succeeded is known to have put its set.
`SuggestionsShareNothing` is the theorem about `Suggestions` that justifies
`SuggestionsApart`: of any answer, in windows of any size and overlap, what is chosen
has no word in common. The loop of the code takes findings from the surest to the least sure and
passes over those that overlap one taken; `Apart` says so in an equation of each with
the ones before it, and `TakenExists` shows, by setting aside the last of them, that the
equation has a solution.

**AlphaTrial.** `CountsOnlyRunning` is not inductive: a heartbeat adds the whole
stretch since the last one. `TimeInv` adds to the active time the `Stretch` that a
running session would count if it ended now, which needs care because the clock
may be set back and a stretch too long to count may become short again.
`JudgedAsExported` speaks of labels of the present revision only. `LabelInv` says
that what allowed such a label still holds, as any new record makes a new
revision and the finished clock accepts no event that reopens it; `StartInv`
that the start came before the first decision, and `RecordsInv` that the finite
log has a first decision and a last export.

`BundlesAreAccepted` says that two programs agree: `deriveTiming`, which sums up
the whole log, and the bundle's reader, which sums up what the bundle kept of it.
`AccountInv` compares the two sums (`Agrees`: they may differ on the last activity
of a session that does not run), `FoldInv` says that the daemon's summary is that
of the log, `OrderInv` and `FinishInv` how the log grows with the project. What the
audit keeps is a selection (`Chosen`), and the proof must know of any log that
choosing twice, or passing over labels, changes neither sum. The three loops are
recursive functions, and the induction over the log is one over sets: the set of
the sequences for which a statement fails has no shortest member
(`SequenceInduction`, from the well-foundedness of the numbers), so it is empty.

**AlphaCollect.** The manifest is what some process wrote last, whatever others
wrote between. So `EntriesProved` holds of every set of entries a process has read
or is about to write, `Materializes` of what it has compared, and `ProcessHolds`
carries from stage to stage that a bundle was proved on the revision it names.
`PassedIsTrusted` needs no more than the types: it is about the gate's arithmetic
over all entries, where sums, medians and rates must not hide one project.
Looking for its proof showed that the translation of several checks of `gate.ts`
had used `CASE` with guards that overlap, which leaves open which branch is
taken; they are `IF ... ELSE IF` now, in the order of the code.

**RoughCutProject.** `ProjectHolds`: what is registered is on disk under its hash.
`RunHolds`: what an invocation has found is still there and still the same when it
uses it, as media and proxies are only ever added. `OneTranscribes`: the running
job has one holder, which is why a transcript is committed for what is
registered.

**UiCredentials.** `FileHolds` ties the file to the table: it is at the table's last
row or one ahead, and then its request is not in the table under another name.
Neither this nor `RotationsChained` is inductive without the other.

**Studio.** `AsShown` needs `TickIsCurrent`, `RiskySeen` (requests under way and taken,
not only the page) and `PlayedIsAwaited`; `NoBlindRepeat` needs `NothingUnheard`, that
a page which offers the export knows what became of the one before.

Assumptions. `EngineAssumption` and `InverseAssumption` are what the store needs of
the edit engine (only `UndoIsInverse` uses the second); TLC evaluates them for its
engine, and `UndoIsExact` is what the engine itself does for the second.
`FindingsTyped` and `RangesTyped` say that words and findings have integer
ranges, `FindingsNamed` that findings with one id have one range: the code hashes the
range, or the words that give it, into the id. `RequestsNamed` says that the names made
of two requests differ, and differ from those hashes. `SuggestionsApart` says of the
findings of one semantic review, a constant there, that no two share a word.
`OffersTyped` says of the edit engine that it is opened on documents, and that callers
submit clips, tracks and locks of the shapes the schema has, at integer instants;
`DocumentsValid` that the first document validates. `AuditAssumption`
says that the figures of an audit are counts or `Absent`, and that a completed
trial has its hits and usable boundaries counted, as `audit.ts` does.
`NobodyAssumption`, `NothingAssumption`, `NoneAssumption`, `NoneIsNoNumber`,
`NoneIsNoSession`, `ParametersAssumption`, `ConstantsAssumption` say that placeholders are not values,
and that requests and capabilities are of their sets; `StaleAfterIsNat`,
`RequiredProjectsIsPositive` and the `...Bounds` that constants are numbers. All
are evaluated by TLC in the runs of their modules.

The theorems about the Alpha modules are of `TrialSpec` and `CollectSpec`, those
about `RoughCutProject`, `UiCredentials` and `Studio` of `BuildSpec`, `AccessSpec` and
`StudioSpec`; runs `alpha` and `startup` put them side by side.

Only model-checked: the liveness properties `CallsSettle`, `JobsSettle`,
`AppliedIsConsumed` and `RetryConverges`, as fairness and `ENABLED` are out of the
proof system's reach; four properties of `ReviewSession`; and the assumptions about
`RationalTime` and, but for `SuggestionsShareNothing`, `CandidateDetection`, which TLC
evaluates. Of the four, `AcceptCutsExactly`, `StruckIsCut` and `GroupsStandTogether`
hold only of histories without a deletion taken back out of order, so an inductive
invariant must say that each standing record, taken back, gives the document before
it, whose clips are again unwarped and apart; `UndoIsExact` is the step of that, but
the chain of documents is not a variable of the model. `CaptionsAsHeard` is about
captions made by folds over words in the order they are heard.

## 7. Where code and documents disagree

Two runs end in a counterexample:

- `edits_duplicate`, `UndoAlwaysRestores`: `track.add` checks the new track's ID but
  not those of the clips it brings (`ENG` 529), the document is validated only
  when the whole transaction is done, and in between `findClip` takes the first
  clip of an ID. A transaction that adds a track in front with a clip whose ID is
  in use, moves that clip behind those of the old track and removes the old track
  is committed. Its undo puts the old track back with both clips, moves the first
  clip of the ID, which is the original, to the added track, and removes that: it
  is committed without an error, the original clip is gone and the one the
  transaction brought stays. `docs/02-product-definition.md:193` asks for 100 % of
  undo/redo round trips, and `docs/10-technical-validation.md:51` says that
  operations of every kind can be undone in reverse order to the initial state.

- `edits_escape`, `SourceLocksHold`: `operationTouchesSourceRange` (`ENG` 320-361) asks of
  a ripple deletion, a removal (of a clip or a track), a trim and a replacement what
  source material they touch, and of a `clip.update` it does not; the patch is assigned to the clip whole
  (`ENG` 656-661). A person keeps material by a lock with `deny_agent`; an agent's
  `clip.update` with `enabled: false` (a declared field, `types.ts` 42), or with another
  `sourceRange` (the route passes the body through, `SRV` 1605), is committed, and the
  material is no longer played: `preview.ts` 49 and `captions.ts` 50 pass over clips that
  are not enabled. `docs/15-p2-transcript-review-validation.md:90` says that source locks
  exist so that a later agent cannot delete what the user keeps, and
  `docs/02-product-definition.md:125` and `docs/03-architecture.md:279` that an agent may by
  default not change what is locked. `ProtectedStays` and `KeptFromMachines`, which hold,
  set such a `clip.update` apart.

The following have a configuration of their own, not among the runs, that ends
in a counterexample within seconds (`tlc -config X.cfg M`):

- `MCExportJobsPreset.cfg`, `DeliversItsPreset`: `recoverExportJobs` (`SRV` 2413)
  looks for the report of an interrupted job by revision only. Two exports of one
  revision, horizontal and vertical; the first registers its report; the daemon
  dies; at the next start the second is settled as succeeded with the first one's
  film.
- `MCExportJobsFault.cfg`, `ReportedFilesExist`: `registerPersistedResult` commits
  the report and then calls `succeedJob`. If that write fails, the catch block
  (`WF` 170) deletes the files the committed report names.
- `MCAgentApprovalsExpired.cfg`, `ExpiredNeverApplied`: `applyApprovedCandidate`
  (`SRV` 1506) does not look at the expiry; `consumeApproval` does, after the
  deletion is committed. The agent is told `APPROVAL_STATE_INVALID` for a change
  that took place.
- `MCEditEngineRange.cfg`, `LockedRangeUntouched`: `affectedByOperation` (`ENG`
  462-474) looks at where the clips behind a ripple deletion are, not at where
  they go. A person locks the empty range [2, 3) against agents; an agent deletes
  [0, 1), and the clip at 3 moves into the locked range, where the agent could
  neither insert nor move nor trim a clip.
- `MCReviewSessionPending.cfg`, `PendingStaysEditable`: a filler word inside a
  repetition is removed by the rough cut itself (`SRV` 2208-2282), before any
  group is decided. The repetition is then spread over two clips, stays
  undecided, and can be neither accepted nor kept: `CLIP_NOT_EDITABLE`.
  `docs/06-talking-head-workflow.md:57` says that groups exist so that deleting
  one candidate does not make a range that cannot be edited.
- `MCReviewSessionRestore.cfg`, `ReviewReadable`: the Studio offers to restore any
  committed deletion (`docs/06-talking-head-workflow.md:53`), not the last one
  only. The recorded inverse is replayed on a document it was not made for; the
  result may pass the validation with a gap or an overlap between clips, is
  committed, and `evaluateTimelineSegments` then throws on every request for the
  review. This is why four properties of `ReviewSession` are stated for histories
  in which deletions are taken back in reverse order.
- `MCStartupRepeat.cfg`, `OneJobEach`: a decision and an export are out at once.
  The answer to the export is lost, though it took effect;
  `recoverUnknownReviewMutation` has the review read anew, the reading fails, `mutate()` of swr 2.4.2 comes back all the
  same with the review it had, and the export's id is dropped (`App.tsx` 591-592).
  The error screen has no button for an export, but the decision's answer, which
  may be older than the export, takes that screen away; the export is asked for
  again under another id and makes a second job of one revision.
  `docs/03-architecture.md:192` and `README.zh-CN.md:113` say that the id is kept when
  the query fails. `OneJobEach` states this; `NoBlindRepeat`, which holds, says it
  but for the moments between such an answer and the next reading. A decision
  can be sent twice in the same way, from the error screen by a key, and only its
  base revision keeps it from being applied twice.

Seen while modelling; the first seven are shown by checking the named definition,
or by weakening the premise of the named property:

- An interrupted job is recovered on the plan of the current revision (`WF` 210),
  not of its source revision, and can adopt files of another job's newer plan
  (`DeliversAsAsked` without `crashes = 0`).
- If the write of a job's success fails and so does the write of its failure, the
  job stays `running` with its report registered and without a runner, and a
  cancellation is accepted (`WF` 164-175; `CancelledRegistersNothing` without
  `faults <= 1`).
- A pair found on disk after a crash is registered without asking again for a
  cancellation that came during its verification (`WF` 99;
  `CancelledRegistersNothing` without `crashes = 0`).
- An approval whose time runs out between commit and consume is refused to every
  later retry and stays `approved` (`PS` 892; `RetryConverges` with a positive
  `MaxTime`).
- `commitAlphaManifestIfUnchanged` (`packages/alpha-gate/src/collect-cli.ts` 93-110)
  compares and renames apart, without a lock: of two collectors that compare
  before either renames, the later one drops the other's registration
  (`RegistrationsKept` of `AlphaCollect`). The bundle is kept; the entry is not.
- A semantic review that began while the timing ran commits its findings after
  the timing was paused (`SRV` 2606-2700; `ResultsWhileRunning` of `AlphaTrial`),
  while `docs/11-development-log.md:1670` says that new results arise only while
  it runs.
- An activity is checked against the clock and recorded at a second reading of
  it, and a session that has gone stale may still be finished. Either event, a
  `start` before any baseline (`evidence.ts` 317-337), or a first baseline recorded while
  the clock stands before the time of the enrolment, to which it was set back (`bundle.ts`
  308 refuses it, `evidence.ts` does not look), is accepted by the log and
  leaves a bundle that fails its own validation (`FinishedIsBundled` of
  `AlphaTrial`). `BundleAccepted` sets these histories apart.
- A build killed between the creation of the database file and the insertion of
  the document leaves `STORE_CORRUPT`; killed before the import,
  `PROJECT_SOURCE_CONFLICT`; killed while the recogniser runs,
  `PROJECT_RESUME_UNSAFE`. None of the three goes away by running it again, while
  `docs/11-development-log.md:2328` promises an idempotent continuation for a
  complete project only.
- A semantic review's job has one attempt (`SRV` 2642) and an export's two (`SRV` 882), but
  no route calls `retryJob`, only a build does (`packages/rough-cut-workflow/src/workflow.ts`
  362), so that a failure marked `retryable` is not retried. Semantic jobs are not looked
  at when the daemon starts (`SRV` 2613): an interrupted one stays `running`. What it
  found is there all the same if it was interrupted between the commit and `succeedJob`
  (`SRV` 2679, 2691), and so it is beside a job that is `failed` because that write failed.
- A job that is to be cancelled is marked so by `WF` 178 and, if that throws, by `SRV`
  2387; when both writes fail it stays `running` without a runner (`Settle` of `ExportJobs`).
- An agent may give a ripple deletion the `proposalId` of a proposal in the document.
  The projection takes the transaction for the decision on that proposal, whatever it
  cuts; `AgentEdit` leaves such operations out.
- The undo of a transaction whose `clip.update` renamed a clip is refused, as the
  recorded `clip.replace` has another id than the clip it is to replace (`ENG` 648).
- A second transcription attempt after `succeedJob` failed overwrites the raw
  result that the first transcript's provenance names.
- A crash between opening and writing the new credential file
  (`agentcut-credentials.mjs` 71-72) leaves an empty file, with which no later
  start succeeds. The answer to a rotation that is lost cannot be asked for again
  by that browser, whose cookie is of the old token; the printed pairing URL is
  stale until the next start.
- A revision that somebody else made does not call off an outstanding preview
  (`App.tsx` 226-235): its label appears when the answer comes, with the current
  cut. A request for an export that arrives after the page has read the review
  still makes its job, beside one asked for since.
- The timeline route asks for the running clock before `commit` can answer an
  idempotent replay (`SRV` 1615), while
  `docs/protocol/agentcut-protocol-0.1.md:285` says that the same transaction
  returns its original result.
- A lock of scope `property` may name a track (`validate.ts` 133), but only clips
  are looked up (`ENG` 295): such a lock refuses nothing.
- A transaction that changes nothing (a ripple deletion on an empty track) is
  committed, and its undo is refused, as its inverse is empty (`ENG` 184).

## 8. Not modelled, and why

Parsing, formatting, hashing, HTTP status codes, logging and media work have no
state of their own that the properties depend on.

- The CLI, the MCP server and the agent client keep nothing that outlives a
  request; their requests are the models' inputs. Of the Studio, the Alpha panel
  (its writes are of `AlphaTrial`), batches, cancellations, approvals and sessions
  (each a scope of its own for one row), pairing and playback are left out.
- The reference host commits as `ProjectStore` does, with the same engine.
- OTIO, the conformance kit and host extensions convert and compare documents.
- ffmpeg, the recogniser's worker and the model provider are external: each is a
  choice between what it may answer and a failure.
- The migration of old documents is a function on shapes that occur once, when a
  store is opened.
- Of the edit engine, preconditions (they only refuse), transitions, markers, tracks
  that are not enabled and the compatibility of clip and track kinds are left out; an
  agent's operations on tracks, locks and artifacts are in `EditEngine` and not in
  `ReviewSession`; of the daemon, request
  ids of the agent's routes, which `ProjectStore` has as idempotency keys.
- Two daemons that serve one project, each rotating the credential, are not
  modelled; the start script does not prevent them.
