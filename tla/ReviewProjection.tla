--------------------------- MODULE ReviewProjection ---------------------------
(***************************************************************************)
(* What a person is shown of a review: packages/review-projection derives  *)
(* the state of every candidate and word from the artifacts, the locks and *)
(* the command records, groups the undecided candidates that overlap under *)
(* one anchor, and sums up how far the rough cut is; the daemon's review   *)
(* response and render-engine/src/preview.ts add the cut as it plays.      *)
(*                                                                         *)
(* A record is [ops, inverse, actor]: its place in the log is its          *)
(* transaction and the revision it committed.                              *)
(***************************************************************************)
EXTENDS ReviewCommands

Pending == {"candidate_remove", "candidate_keep"}
Priority == [committed_deleted |-> 3, reviewed_keep |-> 2, candidate_remove |-> 1, candidate_keep |-> 0]

-----------------------------------------------------------------------------
(* The state of a candidate. *)

(* The records that deleted something for a proposal. *)
Commits(records, proposal) ==
  {i \in DOMAIN records : \E op \in ToSet(records[i].ops) :
     op.type = "range.deleteRipple" /\ op.proposal = proposal}

(* The proposals of this set that select the candidate and were carried out. *)
Carried(p, records, set, c) ==
  {j \in DOMAIN p.doc.artifacts : \E a \in {p.known[p.doc.artifacts[j]]} :
     a.kind = "proposal" /\ a.set = set /\ c \in a.selected /\ Commits(records, p.doc.artifacts[j]) # {}}

(* The transactions that removed the candidate as this set has it: those of *)
(* its first proposal still in the document that was carried out.            *)
CommitOf(p, records, set, c) ==
  UNION {Commits(records, p.doc.artifacts[j]) :
           j \in {x \in Carried(p, records, set, c) : \A y \in Carried(p, records, set, c) : x <= y}}

(* The candidate as its i-th artifact has it: deleted by a transaction that  *)
(* stands, kept by the last of its locks, or as its decision left it.        *)
Decided(p, i, candidate, commits) ==
  [candidate |-> candidate, set |-> i, tx |-> Max(commits), lock |-> None, state |-> "committed_deleted"]
Open(p, i, candidate) ==
  [candidate |-> candidate, set |-> i, tx |-> 0, lock |-> None,
   state |-> IF candidate.decision = "suggest_keep" THEN "candidate_keep" ELSE "candidate_remove"]
InSet(p, records, i, c) ==
  CHOOSE shown \in
    {IF commits # {} THEN Decided(p, i, candidate, commits)
     ELSE IF keeps # {} THEN [Open(p, i, candidate) EXCEPT !.lock = p.doc.locks[Max(keeps)].id,
                                                           !.state = "reviewed_keep"]
     ELSE Open(p, i, candidate) :
       candidate \in {x \in CandidatesOf(p, i) : x.id = c},
       commits \in {CommitOf(p, records, p.doc.artifacts[i], c)}, keeps \in {ReviewLocks(p.doc, c)}} : TRUE

Shown(p) == UNION {{c.id : c \in CandidatesOf(p, i)} : i \in Sets(p)}

(* buildTranscriptReviewProjection: of the sets that have the candidate, the *)
(* last one in which it got furthest.                                        *)
Review(p, records) ==
  LET Of(c) == {InSet(p, records, i, c) : i \in SetsWith(p, c)}
      Further(a, b) == \/ Priority[a.state] > Priority[b.state]
                       \/ Priority[a.state] = Priority[b.state] /\ a.set >= b.set
  IN [c \in Shown(p) |-> CHOOSE shown \in Of(c) : \A other \in Of(c) : Further(shown, other)]

Undecided(review) == {c \in DOMAIN review : review[c].state \in Pending}
Deleted(review) == {c \in DOMAIN review : review[c].state = "committed_deleted"}
Kept(review) == {c \in DOMAIN review : review[c].state = "reviewed_keep"}

(* A word shows the strongest state of the candidates made of it. *)
TokenState(review, word) ==
  LET about == {c \in DOMAIN review : word \in review[c].candidate.words}
      strongest == Max({Priority[review[c].state] : c \in about})
  IN IF about = {} THEN "normal"
     ELSE CHOOSE state \in DOMAIN Priority : Priority[state] = strongest

-----------------------------------------------------------------------------
(* Overlap groups (decoratePendingOverlapGroups). *)

RiskPriority == [high |-> 300, medium |-> 200, low |-> 100]
OverlapPriority(candidate) ==
  RiskPriority[candidate.risk] + (IF candidate.kind = "words" THEN 20 ELSE 0)
    + (IF candidate.reason \in {"repetition", "restatement", "correction"} THEN 10 ELSE 0)

(* The undecided candidates that overlaps link to c. *)
Group(review, c) ==
  Linked(Undecided(review), c, [x \in Undecided(review) |-> review[x].candidate.range])

(* The most weighty, then the earliest; the id breaks a tie, here in a fixed *)
(* way that is left open.                                                    *)
Anchor(review, group) ==
  LET Of(c) == review[c].candidate
      weightiest == {c \in group : \A x \in group : OverlapPriority(Of(c)) >= OverlapPriority(Of(x))}
  IN CHOOSE c \in weightiest : \A x \in weightiest : Of(c).range.start <= Of(x).range.start

(* assertCandidateOverlapDecisionAnchor *)
MayDecide(review, c) == c \in Undecided(review) /\ Anchor(review, Group(review, c)) = c
Members(review, c) == SetToSeq(Group(review, c) \ {c})

-----------------------------------------------------------------------------
(* How far the rough cut is (readiness.ts and the daemon's response). *)

Analysed(p) == Sets(p) # {}
RoughCutStatus(p, review) ==
  IF ~Analysed(p) THEN "not_started" ELSE IF Undecided(review) # {} THEN "reviewing" ELSE "rough_cut_ready"

(* assertRoughCutReady *)
Exportable(p, review) == RoughCutStatus(p, review) = "rough_cut_ready"

(* findLatestRestorableDeletion *)
UndoTarget(review) == Max({0} \cup {review[c].tx : c \in Deleted(review)})

(* evaluateTimelineSegments: of the clips that are not switched off, that    *)
(* they are of the one asset, at its own speed, and follow each other from   *)
(* zero; anything else cannot be shown or exported.                          *)
Track1(d) == SetToSortSeq({clip \in ToSet(d.tracks[1].clips) : clip.enabled}, LAMBDA a, b : a.range.start < b.range.start)
Playable(d) ==
  \E clips \in {Track1(d)} :
     /\ clips # <<>>
     /\ \A i \in DOMAIN clips :
          /\ clips[i].asset = Media /\ clips[i].src # NoRange /\ ~Warped(clips[i])
          /\ clips[i].range.start = IF i = 1 THEN 0 ELSE RangeEnd(clips[i - 1].range)

(* The instants of the source that play. *)
Played(d) ==
  UNION {Instants(clip.src) : clip \in {x \in ClipsOf(d) : x.enabled /\ x.asset = Media /\ x.src # NoRange}}
=============================================================================
