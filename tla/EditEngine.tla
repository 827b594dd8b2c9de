----------------------------- MODULE EditEngine -----------------------------
(***************************************************************************)
(* The transaction engine of packages/edit-commands/src/engine.ts: people  *)
(* and agents commit transactions of typed operations to one document, and *)
(* take recorded transactions back by committing their inverse operations. *)
(* A transaction works on a copy: when any operation is refused, or the    *)
(* result does not validate, the document is untouched.  Idempotency keys, *)
(* revisions and durability are ProjectStore's subject.                    *)
(***************************************************************************)
EXTENDS EditOperations

CONSTANTS Actors,             \* records [id, kind]
          InitialDocuments,   \* the documents the engine may be opened on
          SpareClips,         \* clips a transaction may insert, with unused ids
          SpareTracks,        \* tracks a transaction may add
          SpareLocks,         \* locks a transaction may add
          Starts,             \* the instants operations name
          Durations,          \* the lengths of the ranges operations name
          SplitIds,           \* ids for the right-hand pieces of cut clips
          Patches,            \* what a clip.update may assign
          SpareObjects,       \* per library list, the id a transaction may put there
          Offered,            \* the types of the operations callers submit
          MaxOperations,      \* bound: operations over all transactions
          MaxSteps            \* bound: operations and undos together

ASSUME DocumentsValid == \A d \in InitialDocuments : ValidDocument(d)
ASSUME OffersTyped ==
  /\ \A d \in InitialDocuments : IsDocument(d)
  /\ \A clip \in SpareClips : IsClip(clip)
  /\ \A track \in SpareTracks : IsTrack(track)
  /\ \A lock \in SpareLocks : IsLock(lock)
  /\ \A patch \in Patches : IsPatch(patch)
  /\ Starts \subseteq Int /\ Durations \subseteq Int
ASSUME BoundsAreNat == MaxOperations \in Nat /\ MaxSteps \in Nat

VARIABLES document,   \* the committed document
          draft,      \* the working copy of the transaction being applied
          records     \* the command records, in commit order

vars == <<document, draft, records>>

-----------------------------------------------------------------------------
(* The operations a caller may submit against a document. *)

Ranges == [start : Starts, dur : Durations]
Ends(seq) == {0, Len(seq)}

TrackOperations(d) ==
  [type : {"track.add"}, track : SpareTracks, index : Ends(d.tracks)]
    \cup [type : {"track.remove"}, trackId : TrackIds(d)]
    \cup [type : {"lock.add"}, lock : SpareLocks, index : {0}]
    \cup [type : {"lock.remove"}, lockId : LockIds(d)]

LibraryOperations(d) ==
  UNION {[type : {"library.put"}, list : {list}, object : {SpareObjects[list]}, index : Ends(d[list])]
           \cup [type : {"library.remove"}, list : {list}, object : ToSet(d[list])] :
         list \in {"assets", "artifacts"}}

Replacement(clip, start) ==
  [type |-> "clip.replace", clipId |-> clip.id,
   clip |-> [clip EXCEPT !.range.start = start, !.look = 1]]

ClipOperations(d) ==
  (UNION {[type : {"clip.insert"}, trackId : {track.id}, clip : SpareClips,
           index : Ends(track.clips)] : track \in ToSet(d.tracks)})
    \cup (UNION {[type : {"clip.move"}, clipId : ClipIds(d), toTrackId : {track.id},
                  toIndex : Ends(track.clips), start : Starts] : track \in ToSet(d.tracks)})
    \cup [type : {"clip.remove"}, clipId : ClipIds(d)]
    \cup [type : {"clip.split"}, clipId : ClipIds(d), at : Starts, rightClipId : SplitIds]
    \cup (UNION {[type : {"clip.trim"}, clipId : {clip.id}, range : Ranges,
                  src : {NoRange, clip.src}] : clip \in ClipsOf(d)})
    \cup [type : {"clip.update"}, clipId : ClipIds(d), patch : Patches]
    \cup {Replacement(clip, start) : clip \in ClipsOf(d), start \in Starts}

RippleOperations(d) ==
  LET Cuts == {<<>>} \cup [ClipIds(d) -> SplitIds] \cup UNION {[{id} -> SplitIds] : id \in ClipIds(d)}
  IN [type : {"range.deleteRipple"}, range : Ranges,
      trackIds : {<<id>> : id \in TrackIds(d)} \cup {[t \in DOMAIN d.tracks |-> d.tracks[t].id]},
      right : Cuts]

Operations(d) ==
  {op \in TrackOperations(d) \cup LibraryOperations(d) \cup ClipOperations(d)
            \cup RippleOperations(d) : op.type \in Offered}

-----------------------------------------------------------------------------
NoDraft == [actor |-> "none"]
Idle == draft = NoDraft

Init ==
  /\ document \in InitialDocuments
  /\ draft = NoDraft
  /\ records = <<>>

Submitted == FoldLeft(LAMBDA n, r : IF r.undoes = 0 THEN n + Len(r.ops) ELSE n, 0, records)
Undos == Len(SelectSeq(records, LAMBDA r : r.undoes # 0))

Begin(actor) ==
  /\ Idle /\ Submitted < MaxOperations /\ Submitted + Undos < MaxSteps
  /\ draft' = [actor |-> actor, ops |-> <<>>, result |-> Done(document, <<>>)]
  /\ UNCHANGED <<document, records>>

(* The next operation of the transaction; a refused one abandons the copy. *)
Apply ==
  /\ ~Idle
  /\ LET n == Submitted + Len(draft.ops) IN n < MaxOperations /\ n + Undos < MaxSteps
  /\ \E op \in Operations(draft.result.doc) :
       LET result == ApplyNext(draft.result, draft.actor, op)
       IN draft' = IF result.ok THEN [draft EXCEPT !.ops = Append(@, op), !.result = result]
                                ELSE NoDraft
  /\ UNCHANGED <<document, records>>

Accept(actor, undoes, ops, result) ==
  /\ document' = result.doc
  /\ records' = Append(records, [actor |-> actor, undoes |-> undoes, ops |-> ops,
                                 before |-> document, after |-> result.doc,
                                 inverse |-> result.inverse])

(* The copy becomes the document when it validates, and is dropped otherwise. *)
Commit ==
  /\ ~Idle /\ draft.ops # <<>>
  /\ IF ValidDocument(draft.result.doc) THEN Accept(draft.actor, 0, draft.ops, draft.result)
                                        ELSE UNCHANGED <<document, records>>
  /\ draft' = NoDraft

(* Any recorded transaction, an undo included, can be taken back by anyone: *)
(* its inverse operations are a transaction of their own.                   *)
Undo(actor) ==
  /\ Idle /\ Submitted + Undos < MaxSteps
  /\ \E i \in DOMAIN records :
       LET result == ApplyTransaction(document, actor, records[i].inverse)
       IN result.ok /\ Accept(actor, i, records[i].inverse, result)
  /\ UNCHANGED draft

Next ==
  \/ \E actor \in Actors : Begin(actor) \/ Undo(actor)
  \/ Apply
  \/ Commit

Spec == Init /\ [][Next]_vars

-----------------------------------------------------------------------------
(* A command has just been recorded.  The properties are about the newest    *)
(* one: records are never rewritten, and a draft changes none.               *)
Recorded == Idle /\ records # <<>>
Newest == Last(records)

(* The committed document is one the schema accepts, and every record holds  *)
(* the operations that take it back and the documents around its commit.     *)
TypeOK ==
  /\ IsDocument(document) /\ ValidDocument(document)
  /\ \A i \in DOMAIN records :
       /\ records[i].actor \in Actors /\ records[i].undoes \in 0 .. (i - 1)
       /\ IsDocument(records[i].before) /\ ValidDocument(records[i].before)
       /\ \A op \in ToSet(records[i].inverse) : IsOperation(op)
       /\ records[i].after = IF i = Len(records) THEN document ELSE records[i + 1].before
  /\ Idle \/ draft.actor \in Actors

(* The documents a recorded transaction went through, and whether none of    *)
(* them, validated or not, gave an id to two objects.                        *)
Copies(r) == {ApplyAll(r.before, r.actor, SubSeq(r.ops, 1, n)).doc : n \in 0 .. Len(r.ops)}
Unambiguous(r) == \A d \in Copies(r) : IdsUnique(d)

TakesBack(r) == r.undoes # 0 /\ r.before = records[r.undoes].after

(* Undoing a transaction on the document it left gives back exactly the      *)
(* document it started from: clips, order, locks and library included        *)
(* (docs/10-technical-validation.md:51; engine.test.ts:531), if no operation *)
(* of it met an id that two objects had.                                     *)
UndoRestores ==
  Recorded => LET r == Newest
              IN TakesBack(r) /\ Unambiguous(records[r.undoes]) => r.after = records[r.undoes].before

(* The same of every transaction, as docs/02-product-definition.md:193 asks  *)
(* ("undo/redo round trip": equivalent in every property, 100 %).            *)
UndoAlwaysRestores ==
  Recorded => LET r == Newest IN TakesBack(r) => r.after = records[r.undoes].before

(* The author of the newest transaction can take it back: when no document   *)
(* it went through gave an id to two objects or held a lock in the author's  *)
(* way, the locks it added are the author's and the tracks unlocked, and it  *)
(* renamed no clip (what takes a new name back is refused, engine.ts:648),   *)
(* no operation of the inverse is refused and the result validates           *)
(* (engine.ts:85-103).                                                       *)
UndoAccepted ==
  Recorded =>
    LET r == Newest
    IN (/\ r.inverse # <<>>   \* a transaction that changed nothing has nothing to take back
        /\ \A op \in ToSet(r.ops) :
             /\ op.type = "lock.add" => op.lock.owner = r.actor.id
             /\ op.type = "track.add" => ~op.track.locked
             /\ op.type = "clip.update" => "id" \notin DOMAIN op.patch
        /\ \A d \in Copies(r) :
             DistinctIds(d) /\ \A lock \in ToSet(d.locks) : ~LockBlocksActor(lock, r.actor))
       => \E undone \in {ApplyAll(document, r.actor, r.inverse)} : undone.ok /\ ValidDocument(undone.doc)

(* No transaction of an actor a lock blocks, however its operations are      *)
(* combined, removes the lock or changes what it protects: the track, the    *)
(* clip, the property, the clips in the range, the source material shown     *)
(* (docs/03-architecture.md:279), as long as none of them is a clip.update   *)
(* that escapes it; and nobody changes a locked track.                       *)
ProtectedStays ==
  Recorded => LET r == Newest IN
    /\ \A track \in ToSet(r.before.tracks) : track.locked => track \in ToSet(r.after.tracks)
    /\ \A lock \in ToSet(r.before.locks) :
         LockBlocksActor(lock, r.actor) /\ lock.owner # r.actor.id =>
           /\ lock \in ToSet(r.after.locks)
           /\ LET scope == lock.scope
              IN (\A op \in ToSet(r.ops) : ~Escapes(op, scope)) =>
                 CASE scope.kind = "track" -> Track(r.after, scope.trackId) = Track(r.before, scope.trackId)
                   [] scope.kind = "clip" -> Clip(r.after, scope.clipId) = Clip(r.before, scope.clipId)
                   [] scope.kind = "property" -> scope.objectId \in ClipIds(r.before) =>
                        Property(Clip(r.after, scope.objectId), scope.path)
                          = Property(Clip(r.before, scope.objectId), scope.path)
                   [] scope.kind = "range" -> Within(r.before, scope) \subseteq Within(r.after, scope)
                   [] scope.kind = "source_range" ->
                        SourceShown(r.before, scope.assetId) \cap Instants(scope.range)
                          \subseteq SourceShown(r.after, scope.assetId)

(* "After the user locks a clip, range, track or property, the agent has no  *)
(* right to change it" (docs/02-product-definition.md:125): nothing enters a locked range   *)
(* by the transaction of an actor the lock blocks.                           *)
LockedRangeUntouched ==
  Recorded => LET r == Newest IN \A lock \in ToSet(r.before.locks) :
    lock.scope.kind = "range" /\ LockBlocksActor(lock, r.actor) /\ lock.owner # r.actor.id =>
      Within(r.after, lock.scope) = Within(r.before, lock.scope)

(* The same of source locks with no such exception: they are there so that   *)
(* no later edit of an agent reaches the material the user keeps             *)
(* (docs/15-p2-transcript-review-validation.md:90), and what a user locks an *)
(* agent may not change (docs/02-product-definition.md:125).                 *)
SourceLocksHold ==
  Recorded => LET r == Newest IN \A lock \in ToSet(r.before.locks) :
    lock.scope.kind = "source_range" /\ LockBlocksActor(lock, r.actor) /\ lock.owner # r.actor.id =>
      SourceShown(r.before, lock.scope.assetId) \cap Instants(lock.scope.range)
        \subseteq SourceShown(r.after, lock.scope.assetId)

(* What plays on a track at an instant. *)
PlaysAt(track, t) ==
  {<<clip.asset, IF clip.src = NoRange THEN -1 ELSE clip.src.start + (t - clip.range.start), clip.look>> :
     clip \in {c \in ToSet(track.clips) : c.enabled /\ t \in Instants(c.range)}}

(* The reference definition of the two cuts.  A split changes nothing that   *)
(* plays.  After a ripple deletion every named track plays what it played    *)
(* before the range, then what it played after it, and the other tracks play *)
(* what they did: no instant of material is lost, repeated or moved apart    *)
(* (engine.ts:551-609, 697-852).                                             *)
CutsAreExact ==
  Recorded =>
    LET r == Newest
        op == r.ops[1]
        End == Max({0} \cup {RangeEnd(clip.range) : clip \in ClipsOf(r.before)})
        Shift(id, t) == IF op.type = "range.deleteRipple"
                        THEN IF id \in ToSet(op.trackIds) /\ t >= op.range.start THEN t + op.range.dur ELSE t
                        ELSE t
    IN Len(r.ops) = 1 /\ op.type \in {"clip.split", "range.deleteRipple"} =>
         \A id \in TrackIds(r.before), t \in 0 .. End :
           PlaysAt(Track(r.after, id), t) = PlaysAt(Track(r.before, id), Shift(id, t))
=============================================================================
