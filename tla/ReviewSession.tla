---------------------------- MODULE ReviewSession ----------------------------
(***************************************************************************)
(* A rough cut under review: the routes of the local daemon that decide    *)
(* candidates, delete a selection, take a transaction back or analyse the  *)
(* transcript, and an agent that edits the timeline between them.  Every   *)
(* request reads the project, compiles one transaction and commits it      *)
(* without awaiting, so a request is a step.  A request whose transaction  *)
(* is already recorded is answered with the present review and changes     *)
(* nothing; a refused one neither.                                         *)
(***************************************************************************)
EXTENDS RenderPlan

CONSTANTS MediaLength,  \* of the source, in instants
          Detected,     \* what mechanical detection finds
          LocalReviews, \* what a semantic review of the local model may come to
          AgentReviews, \* and what the findings of an agent may come to
          AgentEdits(_), \* the operation lists an agent may submit against a document
          MaxSelection, \* bound: words in a manual selection
          MaxRevision   \* bound: command records

ASSUME SessionBounds == {MediaLength, MaxSelection, MaxRevision} \subseteq Nat /\ MediaLength > 0
ASSUME RangesTyped == Words \in Seq(TimeRange)

(* A candidate's id is a hash of its range, or of the words that give it its *)
(* range: what is found under one id is of one range.                        *)
Findings == {Detected} \cup LocalReviews \cup AgentReviews
ASSUME FindingsTyped ==
  \A found \in Findings : IsFiniteSet(found) /\ \A c \in found : c.range \in TimeRange
ASSUME FindingsNamed ==
  \A c, e \in UNION Findings : c.id = e.id => c.range = e.range

(* A finding that shares words with one that was taken before it is left out *)
(* (Suggestions in CandidateDetection, generateSemanticReviewCandidates).     *)
ASSUME SuggestionsApart ==
  \A found \in LocalReviews \cup AgentReviews : \A a, b \in found : a = b \/ a.words \cap b.words = {}

(* The name of the n-th request that commits; its candidate set and proposal *)
(* are named after it, and so is what a person selects by hand.              *)
RequestName(n) == ToString(n)
ArtifactIds(n) ==
  LET sets == {kind \o RequestName(n) : kind \in {"review_", "batch_", "manual_set_", "found_", "semantic_"}}
  IN sets \cup {"proposal_" \o set : set \in sets}
ASSUME RequestsNamed ==
  /\ \A m, n \in 1 .. MaxRevision : m # n =>
       ManualId(RequestName(m)) # ManualId(RequestName(n)) /\ ArtifactIds(m) \cap ArtifactIds(n) = {}
  /\ \A n \in 1 .. MaxRevision : \A c \in UNION Findings : c.id # ManualId(RequestName(n))

VARIABLES doc,        \* the document
          known,      \* what each artifact id ever put stands for
          records,    \* the command log
          review,     \* what every request is answered with: the review now
          job,        \* the semantic review of the local model
          standing,   \* history: records not taken back, oldest first
          disordered  \* history: a record was taken back before a later one

vars == <<doc, known, records, review, job, standing, disordered>>

Project == [doc |-> doc, known |-> known, rev |-> Len(records)]
Request == RequestName(Len(records) + 1)

Source == [start |-> 0, dur |-> MediaLength]
Init ==
  /\ doc = [tracks |-> <<[id |-> "v1", locked |-> FALSE,
                          clips |-> <<[id |-> "c", asset |-> Media, range |-> Source,
                                       src |-> Source, look |-> 0, enabled |-> TRUE]>>]>>,
            locks |-> <<>>, assets |-> <<Media>>, artifacts |-> <<>>]
  /\ known = <<>> /\ records = <<>> /\ review = <<>>
  /\ job = [status |-> "none", rev |-> 0, served |-> FALSE]
  /\ standing = <<>> /\ disordered = FALSE

-----------------------------------------------------------------------------
(* Committing. *)

(* What a new artifact cites must be in the document (validateArtifacts). *)
CitationsHold(d, contents) ==
  \A id \in ToSet(d.artifacts) :
    /\ contents[id].from \subseteq ToSet(d.artifacts)
    /\ contents[id].kind = "proposal" => contents[id].set \in ToSet(d.artifacts)

Contents(ops) ==
  LET puts == {op \in ToSet(ops) : op.type = "library.put" /\ "content" \in DOMAIN op}
  IN [id \in {op.object : op \in puts} |-> (CHOOSE op \in puts : op.object = id).content]

(* What an id once stood for it stands for still.                           *)
Learned(contents) ==
  [id \in DOMAIN known \cup DOMAIN contents |-> IF id \in DOMAIN known THEN known[id] ELSE contents[id]]

MoreRecords == Len(records) < MaxRevision   \* bound

Commit(actor, compiled, what) ==
  /\ MoreRecords
  /\ \E ops \in compiled : \E result \in {ApplyAll(doc, actor, ops)} :
       /\ known' = Learned(Contents(ops))
       /\ ops # <<>> /\ result.ok
       /\ ValidDocument(result.doc) /\ CitationsHold(result.doc, known')
       /\ doc' = result.doc
       /\ records' = Append(records, [what |-> what, actor |-> actor.kind,
                                      ops |-> ops, inverse |-> result.inverse])
       /\ review' = Review([doc |-> doc', known |-> known', rev |-> Len(records')], records')

Stand == standing' = Append(standing, Len(records')) /\ UNCHANGED disordered

Decide(compiled, what) == Commit(User, compiled, what) /\ Stand /\ UNCHANGED job

-----------------------------------------------------------------------------
(* The routes of the review. *)

(* POST /api/candidates/:id/accept, and the apply of an agent's approval,   *)
(* which confirms a high risk by having been approved.                       *)
AcceptCandidate(c, confirmed) ==
  \E p \in {Project} :
    /\ MoreRecords /\ MayDecide(review, c)
    /\ Decide(Accept(p, c, Members(review, c), confirmed, Request), "accept")

(* POST /api/candidates/:id/keep *)
KeepCandidate(c) ==
  \E p \in {Project} :
    /\ MoreRecords /\ MayDecide(review, c)
    /\ Decide(Keep(p, c, Members(review, c)), "keep")

(* POST /api/candidates/batch-accept *)
AcceptMany(cs) ==
  \E p \in {Project} :
    /\ MoreRecords /\ \A c \in cs : MayDecide(review, c)
    /\ Decide(AcceptBatch(p, SetToSeq(cs), [c \in cs |-> Members(review, c)], Request), "accept")

(* POST /api/candidates/keep-remaining; with none left it commits nothing.   *)
KeepRemaining ==
  MoreRecords /\ \E p \in {Project}, undecided \in {SetToSeq(Undecided(review))} :
    undecided # <<>> /\ Decide(KeepBatch(p, undecided), "keep")

(* POST /api/locks/:id/remove *)
UnlockReview(lockId) == Decide(Unlock(doc, lockId), "unlock")

(* POST /api/selections/delete and /api/speech-gaps/delete *)
DeleteSelection ==
  \E p \in {Project} : \E from \in DOMAIN Words : \E to \in DOMAIN Words \cap (from .. from + MaxSelection - 1) :
    Decide(DeleteWords(p, from, to, Request), "manual")
DeleteSpeechGap(gap) == \E p \in {Project} : Decide(DeleteGap(p, gap, Request), "manual")

(* Mutant of Restore: the candidate set and its proposal stay. *)
RestoreTimelineOnly(i) ==
  /\ UNCHANGED job
  /\ Commit(User, Compiled(SelectSeq(records[i].inverse, LAMBDA op : op.type # "library.remove")), "restore")
  /\ IF standing # <<>> /\ Last(standing) = i
     THEN standing' = Front(standing) /\ UNCHANGED disordered
     ELSE standing' = Append(SelectSeq(standing, LAMBDA r : r # i), Len(records')) /\ disordered' = TRUE

(* POST /api/restore: whatever record it names, as it stands in the log.     *)
Restore(i) ==
  /\ UNCHANGED job
  /\ Commit(User, Compiled(records[i].inverse), "restore")
  /\ IF standing # <<>> /\ Last(standing) = i
     THEN standing' = Front(standing) /\ UNCHANGED disordered
     ELSE standing' = Append(SelectSeq(standing, LAMBDA r : r # i), Len(records')) /\ disordered' = TRUE

(* POST /api/rough-cut/generate *)
GenerateRoughCut ==
  /\ \E p \in {Project} : Commit(Workflow, Generate(p, Detected, Request), "generate")
  /\ Stand /\ UNCHANGED job

(* POST /api/analyze-semantic awaits the local model between reading the     *)
(* project and putting what it says; its job is of the request's id, which  *)
(* no second job can have.  An answer for a document that has changed fails  *)
(* the job, as an answer that does not come does; after a restart nobody     *)
(* takes a running job up.                                                   *)
BeginSemanticReview ==
  /\ job.status = "none" /\ FirstClip(doc, FALSE) # {}
  /\ job' = [status |-> "running", rev |-> Len(records), served |-> TRUE]
  /\ UNCHANGED <<doc, known, records, review, standing, disordered>>

Served(status) == job.served /\ job' = [job EXCEPT !.status = status, !.served = FALSE]

(* Mutant of PutFindings: an answer for an older document is taken. *)
PutFindingsStale ==
  /\ \E status \in {"succeeded", "failed", "running"} : Served(status)
  /\ \E p \in {Project}, found \in LocalReviews : Commit(Workflow, Suggest(p, found, Request), "suggest")
  /\ Stand

(* The job ends in a write of its own after the commit.  When that fails the *)
(* job is failed, though what it found is there; when the daemon stops       *)
(* between the two, or no write succeeds, the job is left running.           *)
PutFindings ==
  /\ \E status \in {"succeeded", "failed", "running"} : Served(status)
  /\ job.rev = Len(records)
  /\ \E p \in {Project}, found \in LocalReviews : Commit(Workflow, Suggest(p, found, Request), "suggest")
  /\ Stand

FailSemanticReview ==
  Served("failed") /\ UNCHANGED <<doc, known, records, review, standing, disordered>>

Restart ==
  /\ job.served /\ job' = [job EXCEPT !.served = FALSE]
  /\ UNCHANGED <<doc, known, records, review, standing, disordered>>

(* An agent submits findings, in the place of the local model, at once; at   *)
(* least one has to be borne out.                                            *)
SubmitFindings ==
  /\ \E p \in {Project}, found \in AgentReviews \ {{}} : Commit(Agent, Suggest(p, found, Request), "suggest")
  /\ Stand /\ UNCHANGED job

(* An agent's timeline transaction: any operations on clips, a clip.update   *)
(* of any property and ripple deletions of its own among them.               *)
AgentEdit(ops) ==
  /\ IsSequence(ops)
  /\ \A op \in ToSet(ops) :
       /\ IsOperation(op) /\ op.type \in OnClip \cup {"clip.insert", "range.deleteRipple"}
       /\ op.type = "range.deleteRipple" => op.proposal = None
  /\ Commit(Agent, Compiled(ops), "agent")
  /\ Stand /\ UNCHANGED job

Next ==
  \/ \E c \in DOMAIN review, confirmed \in BOOLEAN : AcceptCandidate(c, confirmed)
  \/ \E c \in DOMAIN review : KeepCandidate(c)
  \/ \E cs \in SUBSET Undecided(review) : Cardinality(cs) > 1 /\ AcceptMany(cs)
  \/ KeepRemaining
  \/ \E lockId \in LockIds(doc) : UnlockReview(lockId)
  \/ DeleteSelection
  \/ \E gap \in SpeechGaps(doc) : DeleteSpeechGap(gap)
  \/ \E i \in DOMAIN records : Restore(i)
  \/ GenerateRoughCut
  \/ BeginSemanticReview
  \/ PutFindings
  \/ FailSemanticReview
  \/ Restart
  \/ SubmitFindings
  \/ \E ops \in AgentEdits(doc) : AgentEdit(ops)

Spec == Init /\ [][Next]_vars

-----------------------------------------------------------------------------
(* Properties. *)

(* Every artifact in the library is known and there once, as is every lock, *)
(* which is named after its candidate; the records that stand are records,  *)
(* in order.                                                                 *)
TypeOK ==
  /\ ToSet(doc.artifacts) \subseteq DOMAIN known /\ IsInjective(doc.artifacts)
  /\ \A i \in DOMAIN records : records[i].actor \in {"user", "agent", "workflow"}
  /\ Cardinality(LockIds(doc)) = Len(doc.locks)
  /\ \A lock \in ToSet(doc.locks) : lock.id = KeepLockId(lock.note.candidate)
  /\ \A i, j \in DOMAIN standing : i < j => standing[i] < standing[j]
  /\ ToSet(standing) \subseteq DOMAIN records

(* A word is captioned while it is heard: where a cue has it, the output    *)
(* plays it, whole (mapTranscriptToTimeline and the clamped segments of     *)
(* buildRenderPlan are computed apart); cues do not overlap; and as long as *)
(* deletions are taken back in reverse order a word that is left out as cut *)
(* through has really lost something, also if a cut once went through it.    *)
CaptionsAsHeard ==
  Plannable(doc) =>
    \E cues \in {Cues(doc)}, output \in {Output(doc)}, said \in {ToSet(Mapped(doc))} :
      /\ \A i, j \in DOMAIN cues : i < j => RangeEnd(CueRange(cues[i])) <= CueRange(cues[j]).start
      /\ \A m \in said : \A t \in Instants(m.range) : output[t + 1] = Words[m.word].start + t - m.range.start
      /\ ~disordered => \A w \in Parted(doc) : ~(Instants(Words[w]) \subseteq Played(doc))

(* A candidate that is shown struck through, and the words of it, are not   *)
(* in the cut, as long as deletions are taken back in reverse order: the    *)
(* projection reads the log (review-projection), the cut reads the clips.   *)
StruckIsCut ==
  ~disordered => \A c \in Deleted(review) : Instants(review[c].candidate.range) \cap Played(doc) = {}

(* An overlap group is decided as one: whatever lock stands for the group   *)
(* of an anchor, the anchor itself is deleted or kept, and no member of it  *)
(* is undecided (the locks of compileOverlapResolutionLocks).               *)
GroupsStandTogether ==
  LET grouped == {lock \in ToSet(doc.locks) : lock.note.anchor # None}
  IN ~disordered => \A lock \in grouped :
       /\ lock.note.anchor \in Deleted(review) \cup Kept(review)
       /\ lock.note.candidate \notin Undecided(review)

(* What a person kept, no agent and no analysis takes out of the cut, unless *)
(* by a clip.update that escapes every source lock (EditOperations).         *)
KeptFromMachines ==
  [][ /\ Len(records') > Len(records) /\ Last(records').actor # "user"
      /\ \A op \in ToSet(Last(records').ops) : ~Escapes(op, [kind |-> "source_range"])
      => \A c \in Kept(review) : Instants(review[c].candidate.range) \cap Played(doc) \subseteq Played(doc') ]_vars

(* An acceptance, of one candidate or of several at once, cuts the ranges   *)
(* that were chosen and nothing else, whatever was cut before and however   *)
(* the ranges overlap or touch (buildRippleOperations, mergeRanges), as     *)
(* long as deletions are taken back in reverse order.                        *)
AcceptCutsExactly ==
  [][ Len(records') > Len(records) /\ Last(records').what \in {"accept", "manual"} /\ ~disordered =>
        LET set == known'[(CHOOSE op \in ToSet(Last(records').ops) :
                             op.type = "library.put" /\ op.content.kind = "set").object]
        IN Played(doc') = Played(doc) \ UNION {Instants(c.range) : c \in set.candidates} ]_vars

(* What a semantic review of the local model puts stands, once, on the very *)
(* document it has read: it is there when the job has succeeded and is not   *)
(* while the model is asked, whatever the end of a job between them comes    *)
(* to; and no two suggestions of one review are about the same words,        *)
(* however the windows overlap.                                              *)
SuggestionsAsReviewed ==
  LET Suggested(i) == known[(CHOOSE op \in ToSet(records[i].ops) : op.type = "library.put").object].candidates
      reviews == {i \in DOMAIN records : records[i].what = "suggest"}
      own == {i \in reviews : records[i].actor = "workflow"}
  IN /\ \A i \in reviews : \A a, b \in Suggested(i) : a = b \/ a.words \cap b.words = {}
     /\ own \subseteq {job.rev + 1}
     /\ job.status = "succeeded" => own # {}
     /\ job.status = "none" \/ job.served => own = {}

(* docs/06-talking-head-workflow.md:57, of candidates that overlap: deciding *)
(* one does not turn another into half a word or a range that cannot be     *)
(* edited.  As long as candidates are only found and decided, an undecided  *)
(* one can still be decided (runRoughCutGeneration, with decorated groups).  *)
PendingStaysEditable ==
  (\A i \in DOMAIN records : records[i].what \in {"generate", "suggest", "accept", "keep"}) =>
    \A c \in Undecided(review) : Editable(doc, review[c].candidate.range)

(* docs/06-talking-head-workflow.md:53: a committed deletion is taken back  *)
(* by a new transaction, whichever it is.  What is then left can be shown:   *)
(* the review evaluates the clips of the cut one after the other             *)
(* (evaluateTimelineSegments), and with it answers every request.            *)
ReviewReadable == Track1(doc) # <<>> => Playable(doc)
=============================================================================
