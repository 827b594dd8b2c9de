---------------------------- MODULE ReviewCommands ----------------------------
(***************************************************************************)
(* What a review decision becomes: packages/candidate-engine/src/review.ts *)
(* compiles it, with edit-commands/src/proposal.ts, into the operations of *)
(* one transaction, or refuses it.  Candidates are found by candidates.ts  *)
(* or a semantic review, or are made of words or a gap a person selects.   *)
(*                                                                         *)
(* A project is [doc, known, rev]: the document of EditOperations, what    *)
(* each artifact id it ever held stands for, and the revision.  It has one *)
(* transcript of one asset, one sequence and, as the review requires, one  *)
(* video track.  Times are integers of one rate.                           *)
(*                                                                         *)
(* A candidate is [id, range, kind, words, risk, decision, reason]; a       *)
(* candidate set [kind, candidates, clip, rev, from], a proposal [kind,    *)
(* set, selected, rev, from]; `from` is what its provenance cites.  A      *)
(* review lock carries note [anchor, candidate].                           *)
(***************************************************************************)
EXTENDS EditOperations, TLC

CONSTANTS Media,   \* the asset of the transcript
          Words,   \* the source ranges of its words, in order
          Texts,   \* what each word says, a sequence of characters
          None

User == [id |-> "local_user", kind |-> "user"]
Workflow == [id |-> "rough_cut_v1", kind |-> "workflow"]
Agent == [id |-> "agent", kind |-> "agent"]

Encloses(outer, inner) == outer.start <= inner.start /\ RangeEnd(inner) <= RangeEnd(outer)

(* What a compilation comes to: the operations of one transaction, or none. *)
Refusal == {}
Compiled(ops) == {ops}

-----------------------------------------------------------------------------
(* Looking things up. *)

Sets(p) == {i \in DOMAIN p.doc.artifacts : p.known[p.doc.artifacts[i]].kind = "set"}
CandidatesOf(p, i) == p.known[p.doc.artifacts[i]].candidates
Holds(p, i, c) == \E candidate \in CandidatesOf(p, i) : candidate.id = c
SetsWith(p, c) == {i \in Sets(p) : Holds(p, i, c)}

(* findCandidate: the latest set that has it. *)
SetOf(p, c) == p.doc.artifacts[Max(SetsWith(p, c))]
Candidate(p, c) == CHOOSE x \in CandidatesOf(p, Max(SetsWith(p, c))) : x.id = c

(* findCurrentClip: the first clip of the whole range, switched off or not. *)
PlaysWhole(clip, range) == clip.asset = Media /\ clip.src # NoRange /\ Encloses(clip.src, range)
InOrder(d) == FlattenSeq([t \in DOMAIN d.tracks |-> d.tracks[t].clips])
CurrentClip(d, range) == SelectInSeq(InOrder(d), LAMBDA clip : PlaysWhole(clip, range))
Editable(d, range) == CurrentClip(d, range) # 0
CurrentClipId(d, range) == InOrder(d)[CurrentClip(d, range)].id

ReviewLocks(d, c) == {i \in DOMAIN d.locks : d.locks[i].note # None /\ d.locks[i].note.candidate = c}
HasKeepLock(d, c) == ReviewLocks(d, c) # {}

-----------------------------------------------------------------------------
(* Proposals: candidate ranges become ripple deletions. *)

(* mapSourceRangeToTimeline *)
OnTimeline(clip, range) ==
  [start |-> clip.range.start + (range.start - clip.src.start), dur |-> range.dur]

(* mergeRanges: ranges that overlap or touch become one. *)
Merged(ranges) ==
  LET covered == UNION {Instants(r) : r \in ranges}
  IN {r \in [start : covered, dur : 1 .. Cardinality(covered)] :
        Instants(r) \subseteq covered /\ r.start - 1 \notin covered /\ RangeEnd(r) \notin covered}

RightId(clip, proposal, n) == clip \o "/" \o proposal \o "/" \o ToString(n)

(* Mutant of Descending: the first range is removed first. *)
DescendingFromStart(ops) ==
  CHOOSE s \in [1 .. Cardinality(ops) -> ops] :
    \A i, j \in DOMAIN s : i < j => s[i].range.start < s[j].range.start

Descending(ops) ==
  CHOOSE s \in [1 .. Cardinality(ops) -> ops] :
    \A i, j \in DOMAIN s : i < j => s[i].range.start > s[j].range.start

(* buildRippleOperations: the last range first, so that no deletion moves   *)
(* one still to come; a range inside what is left of the clip parts it.     *)
Ripples(track, clip, proposal, ranges) ==
  LET Later(range) == {r \in ranges : r.start > range.start}
      Parts(range) == /\ range.start > clip.range.start
                      /\ RangeEnd(range) < Min({RangeEnd(clip.range)} \cup {r.start : r \in Later(range)})
  IN Descending(
       {[type |-> "range.deleteRipple", range |-> range, trackIds |-> <<track>>, proposal |-> proposal,
         right |-> [id \in IF Parts(range) THEN {clip.id} ELSE {} |->
                     RightId(id, proposal, Cardinality(Later(range)) + 1)]] : range \in ranges})

Put(p, id, content, at) ==
  [type |-> "library.put", list |-> "artifacts", object |-> id,
   index |-> Len(p.doc.artifacts) + at, content |-> content]

NewSet(p, candidates, clipId, from) ==
  [kind |-> "set", candidates |-> candidates, clip |-> clipId, rev |-> p.rev, from |-> from]
NewProposal(p, set, selected) ==
  [kind |-> "proposal", set |-> set, selected |-> selected, rev |-> p.rev, from |-> {set}]

(* compileEditProposalBundle and compileEditProposal: a new set, a proposal  *)
(* that selects some of it, and the deletions it calls for.  The clip has to *)
(* play every candidate of the set (validateCandidateSet) at its own speed.  *)
Bundle(p, id, candidates, selected, clipId, from) ==
  LET proposal == "proposal_" \o id
      Bound == {clip \in ClipsOf(p.doc) :
                  /\ clip.id = clipId /\ ~Warped(clip)
                  /\ \A candidate \in candidates : PlaysWhole(clip, candidate.range)}
      Cut(clip) == Merged({OnTimeline(clip, c.range) : c \in {x \in candidates : x.id \in selected}})
  IN IF {id, proposal} \cap ToSet(p.doc.artifacts) # {} THEN Refusal
     ELSE {<<Put(p, id, NewSet(p, candidates, clipId, from), 0),
             Put(p, proposal, NewProposal(p, id, selected), 1)>>
           \o Ripples(p.doc.tracks[FindClip(p.doc, clipId).track].id, clip, proposal, Cut(clip)) : clip \in Bound}

-----------------------------------------------------------------------------
(* Locks that keep a range.  An anchor stands for its overlap group. *)

KeepLockId(c) == "lock_" \o c

(* Mutant of KeepLock: the lock only says that the candidate was kept. *)
KeepLockEmpty(p, c, anchor) ==
  [type |-> "lock.add", index |-> Len(p.doc.locks),
   lock |-> [id |-> KeepLockId(c), owner |-> User.id, mode |-> "deny_agent",
             scope |-> [kind |-> "source_range", assetId |-> Media,
                        range |-> [Candidate(p, c).range EXCEPT !.dur = 0]],
             note |-> [anchor |-> anchor, candidate |-> c]]]

KeepLock(p, c, anchor) ==
  [type |-> "lock.add", index |-> Len(p.doc.locks),
   lock |-> [id |-> KeepLockId(c), owner |-> User.id, mode |-> "deny_agent",
             scope |-> [kind |-> "source_range", assetId |-> Media, range |-> Candidate(p, c).range],
             note |-> [anchor |-> anchor, candidate |-> c]]]

(* candidateKeepLockOperation for each, appended one after the other; the    *)
(* range has to be playable, even of a member an accepted anchor decides.    *)
KeepLocks(p, cs, anchor) ==
  [i \in DOMAIN cs |-> [KeepLock(p, cs[i], anchor) EXCEPT !.index = @ + i - 1]]
CanKeep(p, c) == SetsWith(p, c) # {} /\ Editable(p.doc, Candidate(p, c).range)

(* Those of a finite set that overlaps link to c; each has its range. *)
Linked(cs, c, range) ==
  LET Round(near, n) == near \cup {x \in cs : \E y \in near : RangesOverlap(range[x], range[y])}
  IN cs \cap FoldLeft(Round, {c}, [n \in 1 .. Cardinality(cs) |-> n])

(* assertOverlapResolutionCandidates: none kept, and connected by overlap. *)
Resolvable(p, anchor, members) ==
  LET group == {anchor} \cup ToSet(members)
  IN /\ Cardinality(group) = Len(members) + 1
     /\ \A c \in group : SetsWith(p, c) # {} /\ ~HasKeepLock(p.doc, c)
     /\ Linked(group, anchor, [c \in group |-> Candidate(p, c).range]) = group

-----------------------------------------------------------------------------
(* The decisions. *)

(* compileCandidateAcceptance *)
Accept(p, c, members, highRiskToo, request) ==
  LET candidate == Candidate(p, c)
  IN IF /\ SetsWith(p, c) # {} /\ ~HasKeepLock(p.doc, c)
        /\ candidate.risk = "high" => highRiskToo
        /\ Editable(p.doc, candidate.range)
        /\ members # <<>> => Resolvable(p, c, members) /\ \A m \in ToSet(members) : CanKeep(p, m)
     THEN {ops \o KeepLocks(p, members, c) : 
             ops \in Bundle(p, "review_" \o request, {candidate}, {c},
                            CurrentClipId(p.doc, candidate.range), {SetOf(p, c)})}
     ELSE Refusal

(* compileCandidateAcceptBatch: low and medium risk only, all in one clip;   *)
(* membersOf gives each anchor the group it decides.                         *)
AcceptBatch(p, cs, membersOf, request) ==
  LET candidates == {Candidate(p, c) : c \in ToSet(cs)}
      clips == {CurrentClipId(p.doc, candidate.range) : candidate \in candidates}
      members == UNION {ToSet(membersOf[c]) : c \in DOMAIN membersOf}
      locks == FlattenSeq([i \in DOMAIN cs |-> KeepLocks(p, membersOf[cs[i]], cs[i])])
  IN IF /\ cs # <<>> /\ IsInjective(cs)
        /\ \A c \in ToSet(cs) : SetsWith(p, c) # {} /\ ~HasKeepLock(p.doc, c)
        /\ \A candidate \in candidates : candidate.risk # "high" /\ Editable(p.doc, candidate.range)
        /\ Cardinality(clips) = 1
        /\ ToSet(cs) \cap members = {}
        /\ \A c \in ToSet(cs) : membersOf[c] # <<>> =>
             Resolvable(p, c, membersOf[c]) /\ \A m \in ToSet(membersOf[c]) : CanKeep(p, m)
     THEN {ops \o [i \in DOMAIN locks |-> [locks[i] EXCEPT !.index = Len(p.doc.locks) + i - 1]] :
             ops \in Bundle(p, "batch_" \o request, candidates, ToSet(cs),
                            CHOOSE clip \in clips : TRUE, {SetOf(p, c) : c \in ToSet(cs)})}
     ELSE Refusal

(* compileCandidateKeep *)
Keep(p, c, members) ==
  IF /\ \A x \in {c} \cup ToSet(members) : CanKeep(p, x)
     /\ Resolvable(p, c, members)
  THEN Compiled(KeepLocks(p, <<c>> \o members, IF members = <<>> THEN None ELSE c))
  ELSE Refusal

(* compileCandidateKeepBatch: each one for itself. *)
KeepBatch(p, cs) ==
  IF cs # <<>> /\ \A c \in ToSet(cs) : Keep(p, c, <<>>) # Refusal
  THEN Compiled(KeepLocks(p, cs, None))
  ELSE Refusal

(* Mutant of Unlock: only the lock that was asked for. *)
UnlockOne(d, lockId) ==
  IF lockId \notin LockIds(d) THEN Refusal
  ELSE Compiled(<<[type |-> "lock.remove", lockId |-> lockId]>>)

(* compileCandidateUnlock: a group is unlocked as a whole. *)
Unlock(d, lockId) ==
  LET note == d.locks[FindLock(d, lockId)].note
      group == IF note = None \/ note.anchor = None THEN {lockId}
               ELSE {lock.id : lock \in {x \in ToSet(d.locks) : x.note # None /\ x.note.anchor = note.anchor}}
      Removal(id) == IF id \in group THEN <<[type |-> "lock.remove", lockId |-> id]>> ELSE <<>>
  IN IF lockId \notin LockIds(d) THEN Refusal
     ELSE Compiled(FlattenSeq([i \in DOMAIN d.locks |-> Removal(d.locks[i].id)]))

ManualId(request) == "manual_" \o request

(* compileManualSelectionDeletion and compileManualSpeechGapDeletion: a new  *)
(* candidate that is committed at once.                                      *)
DeleteRange(p, range, kind, words, request) ==
  LET candidate == [id |-> ManualId(request), range |-> range, kind |-> kind, words |-> words,
                    risk |-> "low", decision |-> "definite_remove", reason |-> "manual"]
  IN IF range.dur > 0 /\ Editable(p.doc, range)
     THEN Bundle(p, "manual_set_" \o request, {candidate}, {candidate.id}, CurrentClipId(p.doc, range), {})
     ELSE Refusal

(* One contiguous run of words. *)
DeleteWords(p, from, to, request) ==
  DeleteRange(p, [start |-> Words[from].start, dur |-> RangeEnd(Words[to]) - Words[from].start],
              "words", from .. to, request)

(* A stretch of one clip that no word covers (buildSpeechGapProjection). *)
Spoken == UNION {Instants(word) : word \in ToSet(Words)}
SpeechGaps(d) ==
  UNION {Merged({[start |-> t, dur |-> 1] : t \in Instants(clip.src) \ Spoken}) :
           clip \in {x \in ClipsOf(d) : x.enabled /\ x.asset = Media /\ x.src # NoRange}}
DeleteGap(p, gap, request) ==
  IF gap \in SpeechGaps(p.doc) THEN DeleteRange(p, gap, "gap", {}, request) ELSE Refusal

-----------------------------------------------------------------------------
(* Analysis. *)

(* createLowRiskProposal *)
Definite(candidates) ==
  {c.id : c \in {x \in candidates : x.decision = "definite_remove" /\ x.risk = "low"}}

(* The first clip of the asset that is not switched off, if there is one     *)
(* left; the one a set proposes deletions in also has a source range.        *)
FirstClip(d, sliced) ==
  LET clips == SelectSeq(InOrder(d), LAMBDA clip : /\ clip.enabled /\ clip.asset = Media
                                                   /\ sliced => clip.src # NoRange)
  IN IF clips = <<>> THEN {} ELSE {Head(clips)}

(* runRoughCutGeneration: what is found in the whole transcript, bound to    *)
(* the first clip of its asset; definite low risks are removed at once.  A   *)
(* set that proposes nothing is put without the check of its ranges.         *)
Generate(p, found, request) ==
  UNION {IF Definite(found) # {} THEN Bundle(p, "found_" \o request, found, Definite(found), clip.id, {})
         ELSE Compiled(<<Put(p, "found_" \o request, NewSet(p, found, clip.id, {}), 0)>>) :
           clip \in FirstClip(p.doc, TRUE)}

(* A semantic review only proposes. *)
Suggest(p, found, request) ==
  {<<Put(p, "semantic_" \o request, NewSet(p, found, clip.id, {}), 0)>> : clip \in FirstClip(p.doc, FALSE)}
=============================================================================
