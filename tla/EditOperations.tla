--------------------------- MODULE EditOperations ---------------------------
(***************************************************************************)
(* The typed edit operations of packages/edit-commands/src/engine.ts, as   *)
(* pure operators: which lock refuses an operation, what the operation     *)
(* makes of a project document, and which inverse operations it records.   *)
(*                                                                         *)
(* A document is a record: `tracks` (a sequence of tracks, each a sequence *)
(* of clips), `locks`, `assets` and `artifacts`.  Time has one rate, so a  *)
(* time is an integer and a range is [start, dur], half open.  A clip is   *)
(* [id, asset, range, src, look, enabled]: `src` is the slice of the asset *)
(* it plays, a clip that is not enabled plays nothing, and `look` stands    *)
(* for every other property of a clip.                                      *)
(***************************************************************************)
EXTENDS Integers, Sequences, FiniteSets, SequencesExt

NoAsset == "no_asset"
NoRange == [start |-> 0, dur |-> 0]

RangeEnd(r) == r.start + r.dur
RangesOverlap(a, b) == a.start < RangeEnd(b) /\ b.start < RangeEnd(a)
Instants(r) == r.start .. (RangeEnd(r) - 1)

(* What the schema lets documents and operations hold. *)

TimeRange == [start : Int, dur : Int]
LockPaths == {<<"range">>, <<"range", "start">>, <<"range", "dur">>, <<"src">>, <<"look">>, <<"enabled">>}
ScopeKinds == {"track", "clip", "property", "range", "source_range"}

IsSequence(s) == s \in Seq(ToSet(s))
IsClip(clip) ==
  /\ clip = [id |-> clip.id, asset |-> clip.asset, range |-> clip.range, src |-> clip.src, look |-> clip.look,
             enabled |-> clip.enabled]
  /\ clip.range \in TimeRange /\ clip.src \in TimeRange /\ clip.enabled \in BOOLEAN
IsTrack(track) ==
  /\ track = [id |-> track.id, locked |-> track.locked, clips |-> track.clips]
  /\ track.locked \in BOOLEAN
  /\ IsSequence(track.clips) /\ \A clip \in ToSet(track.clips) : IsClip(clip)
IsLock(lock) ==
  /\ lock.scope.kind \in ScopeKinds
  /\ lock.scope.kind = "property" => lock.scope.path \in LockPaths
  /\ lock.scope.kind \in {"range", "source_range"} => lock.scope.range \in TimeRange
IsDocument(d) ==
  /\ d = [tracks |-> d.tracks, locks |-> d.locks, assets |-> d.assets, artifacts |-> d.artifacts]
  /\ IsSequence(d.tracks) /\ \A track \in ToSet(d.tracks) : IsTrack(track)
  /\ IsSequence(d.locks) /\ \A lock \in ToSet(d.locks) : IsLock(lock)
  /\ IsSequence(d.assets) /\ IsSequence(d.artifacts)

(* The patch of a clip.update: any properties of the clip, as the wire may  *)
(* send them (server.ts casts the body), each of its property's type.       *)
ClipKeys == {"id", "asset", "range", "src", "look", "enabled"}
IsPatch(patch) ==
  /\ DOMAIN patch \subseteq ClipKeys /\ patch = [key \in DOMAIN patch |-> patch[key]]
  /\ \A key \in {"range", "src"} \cap DOMAIN patch : patch[key] \in TimeRange
  /\ "enabled" \in DOMAIN patch => patch["enabled"] \in BOOLEAN

OperationTypes ==
  {"library.put", "library.remove", "track.add", "track.remove", "clip.insert", "clip.remove",
   "clip.split", "clip.move", "clip.trim", "clip.replace", "clip.update", "range.deleteRipple",
   "lock.add", "lock.remove"}
IsOperation(op) ==
  /\ op.type \in OperationTypes
  /\ op.type \in {"library.put", "library.remove"} => op.list \in {"assets", "artifacts"}
  /\ op.type = "track.add" => IsTrack(op.track)
  /\ op.type \in {"clip.insert", "clip.replace"} => IsClip(op.clip)
  /\ op.type = "clip.split" => op.at \in Int
  /\ op.type = "clip.move" => op.start \in Int
  /\ op.type = "clip.trim" =>
       /\ op = [type |-> op.type, clipId |-> op.clipId, range |-> op.range, src |-> op.src]
       /\ op.range \in TimeRange /\ op.src \in TimeRange
  /\ op.type = "clip.update" => IsPatch(op.patch)
  /\ op.type = "range.deleteRipple" => op.range \in TimeRange /\ IsSequence(op.trackIds)
  /\ op.type = "lock.add" => IsLock(op.lock)

(* Source and timeline run at different speeds: the clip cannot be sliced. *)
Warped(clip) == clip.src # NoRange /\ clip.src.dur # clip.range.dur

-----------------------------------------------------------------------------
(* Finding objects. *)

ClipsOf(d) == UNION {ToSet(track.clips) : track \in ToSet(d.tracks)}
TrackIds(d) == {track.id : track \in ToSet(d.tracks)}
ClipIds(d) == {clip.id : clip \in ClipsOf(d)}
LockIds(d) == {lock.id : lock \in ToSet(d.locks)}
AssetIds(d) == ToSet(d.assets)

SequenceIds(d) == TrackIds(d) \cup ClipIds(d) \cup LockIds(d)
ObjectIds(d) == SequenceIds(d) \cup AssetIds(d) \cup ToSet(d.artifacts)

(* No two objects of a sequence have the same id: what lookups rely on. *)
IdsUnique(d) ==
  /\ \A s, t \in DOMAIN d.tracks : d.tracks[s].id = d.tracks[t].id => s = t
  /\ \A s, t \in DOMAIN d.tracks : \A i \in DOMAIN d.tracks[s].clips, j \in DOMAIN d.tracks[t].clips :
       d.tracks[s].clips[i].id = d.tracks[t].clips[j].id => s = t /\ i = j
  /\ \A i, j \in DOMAIN d.locks : d.locks[i].id = d.locks[j].id => i = j

(* The first of a set of positions, 0 when there is none. *)
First(positions) == IF positions = {} THEN 0 ELSE Min(positions)

FindTrack(d, id) == First({t \in DOMAIN d.tracks : d.tracks[t].id = id})
FindLock(d, id) == First({i \in DOMAIN d.locks : d.locks[i].id = id})
FindClip(d, id) ==
  LET In(track) == First({i \in DOMAIN track.clips : track.clips[i].id = id})
      t == First({i \in DOMAIN d.tracks : In(d.tracks[i]) # 0})
  IN [track |-> t, index |-> IF t = 0 THEN 0 ELSE In(d.tracks[t])]
ClipAt(d, at) == d.tracks[at.track].clips[at.index]
Clip(d, id) == ClipAt(d, FindClip(d, id))
Track(d, id) == d.tracks[FindTrack(d, id)]

-----------------------------------------------------------------------------
(* Locks. *)

LockBlocksActor(lock, actor) ==
  IF lock.mode = "owner_only" THEN actor.id # lock.owner
                              ELSE actor.kind \in {"agent", "workflow"}

OnClip == {"clip.remove", "clip.split", "clip.move", "clip.trim", "clip.replace", "clip.update"}
OnLibrary == {"library.put", "library.remove"}

(* The objects an operation names exist (its lookups do not throw). *)
Resolves(d, op) ==
  CASE op.type \in OnClip -> op.clipId \in ClipIds(d)
    [] op.type \in {"clip.insert", "track.remove"} -> op.trackId \in TrackIds(d)
    [] op.type = "range.deleteRipple" -> ToSet(op.trackIds) \subseteq TrackIds(d)
    [] op.type = "lock.remove" -> op.lockId \in LockIds(d)
    [] OTHER -> TRUE

(* Mutant of RippleReach: the clips that only move are forgotten. *)
RippleReachCut(d, op) ==
  {clip \in UNION {ToSet(Track(d, id).clips) : id \in ToSet(op.trackIds)} :
     RangesOverlap(clip.range, op.range)}

(* The clips a ripple deletion cuts or shifts on the tracks it names. *)
RippleReach(d, op) ==
  {clip \in UNION {ToSet(Track(d, id).clips) : id \in ToSet(op.trackIds)} :
     RangesOverlap(clip.range, op.range) \/ clip.range.start >= RangeEnd(op.range)}

(* What an operation affects.  The ranges are those before the operation and *)
(* the range it names: a ripple deletion does not count where a clip lands.  *)
Affected(d, op) ==
  LET Whole(track) == [tracks |-> {track.id},
                       clips  |-> {clip.id : clip \in ToSet(track.clips)},
                       ranges |-> {clip.range : clip \in ToSet(track.clips)}]
  IN CASE op.type = "track.add" -> Whole(op.track)
       [] op.type = "track.remove" -> Whole(Track(d, op.trackId))
       [] op.type = "clip.insert" ->
            [tracks |-> {op.trackId}, clips |-> {op.clip.id}, ranges |-> {op.clip.range}]
       [] op.type = "range.deleteRipple" ->
            [tracks |-> ToSet(op.trackIds),
             clips  |-> {clip.id : clip \in RippleReach(d, op)},
             ranges |-> {op.range} \cup {clip.range : clip \in RippleReach(d, op)}]
       [] OTHER ->
            LET at == FindClip(d, op.clipId)
                clip == ClipAt(d, at)
                target == CASE op.type = "clip.move" -> [clip.range EXCEPT !.start = op.start]
                            [] op.type = "clip.trim" -> op.range
                            [] op.type = "clip.replace" -> op.clip.range
                            [] OTHER -> clip.range
            IN [tracks |-> {d.tracks[at.track].id}
                             \cup (IF op.type = "clip.move" THEN {op.toTrackId} ELSE {}),
                clips  |-> {clip.id},
                ranges |-> {clip.range, target}]

PathsIntersect(left, right) == IsPrefix(left, right) \/ IsPrefix(right, left)

(* A move changes the start, a trim both ranges, an update what it patches; *)
(* every other operation is taken to touch every property.                  *)
TouchesProperty(op, objectId, path) ==
  IF op.type \notin {"clip.move", "clip.trim", "clip.update"} THEN TRUE
  ELSE /\ op.clipId = objectId
       /\ \E changed \in CASE op.type = "clip.move" -> {<<"range", "start">>}
                           [] op.type = "clip.trim" -> {<<"range">>, <<"src">>}
                           [] op.type = "clip.update" -> {<<key>> : key \in DOMAIN op.patch} :
            PathsIntersect(changed, path)

(* The part of the source that plays inside a timeline range. *)
SourceSlice(clip, r) ==
  LET from == IF clip.range.start >= r.start THEN clip.range.start ELSE r.start
      to == IF RangeEnd(clip.range) <= RangeEnd(r) THEN RangeEnd(clip.range) ELSE RangeEnd(r)
  IN [start |-> clip.src.start + (from - clip.range.start), dur |-> to - from]

TouchesSource(d, op, assetId, r) ==
  LET Plays(clip, slice) == clip.asset = assetId /\ clip.src # NoRange /\ RangesOverlap(slice, r)
  IN CASE op.type = "range.deleteRipple" ->
            \E clip \in UNION {ToSet(Track(d, id).clips) : id \in ToSet(op.trackIds)} :
              /\ clip.src # NoRange /\ RangesOverlap(clip.range, op.range)
              /\ Warped(clip) \/ Plays(clip, SourceSlice(clip, op.range))  \* a warped clip throws
       [] op.type = "track.remove" ->
            \E clip \in ToSet(Track(d, op.trackId).clips) : Plays(clip, clip.src)
       [] op.type \in {"clip.remove", "clip.trim", "clip.replace"} ->
            LET clip == Clip(d, op.clipId)
            IN \/ Plays(clip, clip.src)
               \/ op.type = "clip.replace" /\ Plays(op.clip, op.clip.src)
       [] OTHER -> FALSE

LockRefuses(d, lock, op, affected) ==
  LET scope == lock.scope
  IN CASE scope.kind = "track" -> scope.trackId \in affected.tracks
       [] scope.kind = "clip" -> scope.clipId \in affected.clips
       [] scope.kind = "property" ->
            scope.objectId \in affected.clips /\ TouchesProperty(op, scope.objectId, scope.path)
       [] scope.kind = "range" ->   \* no trackIds: every track
            /\ scope.trackIds = {} \/ affected.tracks \cap scope.trackIds # {}
            /\ \E r \in affected.ranges : RangesOverlap(scope.range, r)
       [] scope.kind = "source_range" -> TouchesSource(d, op, scope.assetId, scope.range)

OperationUnlocked(d, actor, op) ==
  CASE op.type \in OnLibrary \cup {"lock.add"} -> TRUE
    [] op.type = "lock.remove" -> d.locks[FindLock(d, op.lockId)].owner = actor.id
    [] OTHER ->
         LET affected == Affected(d, op)
         IN /\ \A track \in ToSet(d.tracks) : track.id \in affected.tracks => ~track.locked
            /\ \A lock \in ToSet(d.locks) :
                 LockBlocksActor(lock, actor) => ~LockRefuses(d, lock, op, affected)

-----------------------------------------------------------------------------
(* What the properties say a lock protects. *)

(* What a locked path names in a clip. *)
Property(clip, path) ==
  CASE path = <<"range">> -> clip.range
    [] path = <<"range", "start">> -> clip.range.start
    [] path = <<"range", "dur">> -> clip.range.dur
    [] path = <<"src">> -> clip.src
    [] path = <<"look">> -> clip.look
    [] path = <<"enabled">> -> clip.enabled

Within(d, scope) ==
  {<<track.id, clip>> : track \in {t \in ToSet(d.tracks) : scope.trackIds = {} \/ t.id \in scope.trackIds},
                        clip \in {c \in ClipsOf(d) : RangesOverlap(c.range, scope.range)}}
    \cap UNION {{<<track.id, clip>> : clip \in ToSet(track.clips)} : track \in ToSet(d.tracks)}

SourceShown(d, assetId) ==
  UNION {Instants(clip.src) : clip \in {c \in ClipsOf(d) : c.enabled /\ c.asset = assetId}}

(* A clip.update is held against a lock by the id, the place and the keys it *)
(* patches, never by the source: one that switches a clip off or gives it    *)
(* other material passes every source lock, and one that renames a clip      *)
(* takes it from under the locks on its properties.                          *)
Escapes(op, scope) ==
  /\ op.type = "clip.update"
  /\ \/ /\ scope.kind = "source_range"
        /\ \/ {"asset", "src"} \cap DOMAIN op.patch # {}
           \/ "enabled" \in DOMAIN op.patch /\ ~op.patch["enabled"]
     \/ scope.kind = "property" /\ "id" \in DOMAIN op.patch

-----------------------------------------------------------------------------
(* Applying one operation: the new document and the operations that would  *)
(* take it back, or Refused when the code throws.                          *)

Refused == [ok |-> FALSE]
Done(d, inverse) == [ok |-> TRUE, doc |-> d, inverse |-> inverse]

CanInsert(index, seq) == index \in 0 .. Len(seq)          \* checkedInsertIndex
Splice(seq, index, e) == InsertAt(seq, index + 1, e)

PutObject(d, op) ==
  IF op.object \notin ObjectIds(d) /\ CanInsert(op.index, d[op.list])
  THEN Done([d EXCEPT ![op.list] = Splice(@, op.index, op.object)],
            <<[type |-> "library.remove", list |-> op.list, object |-> op.object]>>)
  ELSE Refused

RemoveObject(d, op) ==
  LET i == First({j \in DOMAIN d[op.list] : d[op.list][j] = op.object})
  IN IF i = 0 THEN Refused
     ELSE Done([d EXCEPT ![op.list] = RemoveAt(@, i)],
               <<[type |-> "library.put", list |-> op.list, object |-> op.object,
                  index |-> i - 1]>>)

(* Only the track's own id is checked: the clips it brings are not. *)
AddTrack(d, op) ==
  IF op.track.id \notin SequenceIds(d) /\ CanInsert(op.index, d.tracks)
  THEN Done([d EXCEPT !.tracks = Splice(@, op.index, op.track)],
            <<[type |-> "track.remove", trackId |-> op.track.id]>>)
  ELSE Refused

RemoveTrack(d, op) ==
  LET t == FindTrack(d, op.trackId)
  IN Done([d EXCEPT !.tracks = RemoveAt(@, t)],
          <<[type |-> "track.add", track |-> d.tracks[t], index |-> t - 1]>>)

InsertClip(d, op) ==
  LET t == FindTrack(d, op.trackId)
  IN IF op.clip.id \notin SequenceIds(d) /\ CanInsert(op.index, d.tracks[t].clips)
     THEN Done([d EXCEPT !.tracks[t].clips = Splice(@, op.index, op.clip)],
               <<[type |-> "clip.remove", clipId |-> op.clip.id]>>)
     ELSE Refused

RemoveClip(d, op) ==
  LET at == FindClip(d, op.clipId)
  IN Done([d EXCEPT !.tracks[at.track].clips = RemoveAt(@, at.index)],
          <<[type |-> "clip.insert", trackId |-> d.tracks[at.track].id,
             clip |-> ClipAt(d, at), index |-> at.index - 1]>>)

(* Mutant of SplitClip: the inverse removes the left piece. *)
SplitClipTakesLeft(d, op) ==
  LET at == FindClip(d, op.clipId)
      clip == ClipAt(d, at)
      cut == op.at - clip.range.start
      Rest(r) == [start |-> r.start + cut, dur |-> r.dur - cut]
      left == [clip EXCEPT !.range.dur = cut,
                           !.src = IF @ = NoRange THEN @ ELSE [@ EXCEPT !.dur = cut]]
      right == [clip EXCEPT !.id = op.rightClipId, !.range = Rest(@),
                            !.src = IF @ = NoRange THEN @ ELSE Rest(@)]
  IN IF /\ op.rightClipId \notin SequenceIds(d)
        /\ clip.range.start < op.at /\ op.at < RangeEnd(clip.range)
        /\ ~Warped(clip)
     THEN Done([d EXCEPT !.tracks[at.track].clips =
                  Splice([@ EXCEPT ![at.index] = left], at.index, right)],
               <<[type |-> "clip.remove", clipId |-> clip.id],
                 [type |-> "clip.replace", clipId |-> clip.id, clip |-> clip]>>)
     ELSE Refused

SplitClip(d, op) ==
  LET at == FindClip(d, op.clipId)
      clip == ClipAt(d, at)
      cut == op.at - clip.range.start
      Rest(r) == [start |-> r.start + cut, dur |-> r.dur - cut]
      left == [clip EXCEPT !.range.dur = cut,
                           !.src = IF @ = NoRange THEN @ ELSE [@ EXCEPT !.dur = cut]]
      right == [clip EXCEPT !.id = op.rightClipId, !.range = Rest(@),
                            !.src = IF @ = NoRange THEN @ ELSE Rest(@)]
  IN IF /\ op.rightClipId \notin SequenceIds(d)
        /\ clip.range.start < op.at /\ op.at < RangeEnd(clip.range)
        /\ ~Warped(clip)
     THEN Done([d EXCEPT !.tracks[at.track].clips =
                  Splice([@ EXCEPT ![at.index] = left], at.index, right)],
               <<[type |-> "clip.remove", clipId |-> op.rightClipId],
                 [type |-> "clip.replace", clipId |-> clip.id, clip |-> clip]>>)
     ELSE Refused

(* An omitted toTrackId means the clip's own track, an omitted toIndex its  *)
(* own place there, or the end of another track: callers' defaults.        *)
MoveClip(d, op) ==
  LET at == FindClip(d, op.clipId)
      clip == ClipAt(d, at)
      to == FindTrack(d, op.toTrackId)
      lifted == [d EXCEPT !.tracks[at.track].clips = RemoveAt(@, at.index)]
  IN IF op.toTrackId \in TrackIds(d) /\ CanInsert(op.toIndex, lifted.tracks[to].clips)
     THEN Done([lifted EXCEPT !.tracks[to].clips =
                  Splice(@, op.toIndex, [clip EXCEPT !.range.start = op.start])],
               <<[type |-> "clip.move", clipId |-> clip.id, toTrackId |-> d.tracks[at.track].id,
                  toIndex |-> at.index - 1, start |-> clip.range.start]>>)
     ELSE Refused

TrimClip(d, op) ==
  LET at == FindClip(d, op.clipId)
      clip == ClipAt(d, at)
  IN Done([d EXCEPT !.tracks[at.track].clips[at.index] =
             [@ EXCEPT !.range = op.range, !.src = op.src]],
          <<[op EXCEPT !.range = clip.range, !.src = clip.src]>>)

ReplaceClip(d, op) ==
  LET at == FindClip(d, op.clipId)
  IN IF op.clip.id = op.clipId
     THEN Done([d EXCEPT !.tracks[at.track].clips[at.index] = op.clip],
               <<[type |-> "clip.replace", clipId |-> op.clipId, clip |-> ClipAt(d, at)]>>)
     ELSE Refused

(* Object.assign(clip, patch) *)
Patched(clip, patch) == [key \in DOMAIN clip |-> IF key \in DOMAIN patch THEN patch[key] ELSE clip[key]]

(* What takes it back names the clip by the id it has got. *)
UpdateClip(d, op) ==
  LET at == FindClip(d, op.clipId)
      clip == ClipAt(d, at)
      new == Patched(clip, op.patch)
  IN Done([d EXCEPT !.tracks[at.track].clips[at.index] = new],
          <<[type |-> "clip.replace", clipId |-> new.id, clip |-> clip]>>)

AddLock(d, op) ==
  IF op.lock.id \notin SequenceIds(d) /\ CanInsert(op.index, d.locks)
  THEN Done([d EXCEPT !.locks = Splice(@, op.index, op.lock)],
            <<[type |-> "lock.remove", lockId |-> op.lock.id]>>)
  ELSE Refused

RemoveLock(d, op) ==
  LET i == FindLock(d, op.lockId)
  IN Done([d EXCEPT !.locks = RemoveAt(@, i)],
          <<[type |-> "lock.add", lock |-> d.locks[i], index |-> i - 1]>>)

-----------------------------------------------------------------------------
(* Ripple deletion. `op.right` maps a clip that is cut in the middle to the *)
(* id of its right-hand piece.                                              *)

HasLeft(clip, r) == clip.range.start < r.start
HasRight(clip, r) == RangeEnd(clip.range) > RangeEnd(r)

(* Mutant of SliceClip: the source does not move with the cut. *)
SliceClipFromStart(clip, from, to, start, id) ==
  [clip EXCEPT !.id = id, !.range = [start |-> start, dur |-> to - from],
     !.src = IF @ = NoRange THEN @ ELSE [start |-> @.start, dur |-> to - from]]

(* The slice [from, to) of the clip, placed at `start`. *)
SliceClip(clip, from, to, start, id) ==
  [clip EXCEPT !.id = id, !.range = [start |-> start, dur |-> to - from],
     !.src = IF @ = NoRange THEN @
             ELSE [start |-> @.start + (from - clip.range.start), dur |-> to - from]]

(* What is left of one clip: shifted, untouched, or zero to two pieces. *)
RipplePieces(clip, op) ==
  LET r == op.range
      rightId == IF HasLeft(clip, r) THEN op.right[clip.id] ELSE clip.id
  IN IF RangesOverlap(clip.range, r)
     THEN (IF HasLeft(clip, r)
           THEN <<SliceClip(clip, clip.range.start, r.start, clip.range.start, clip.id)>>
           ELSE <<>>)
          \o (IF HasRight(clip, r)
              THEN <<SliceClip(clip, RangeEnd(r), RangeEnd(clip.range), r.start, rightId)>>
              ELSE <<>>)
     ELSE IF clip.range.start >= RangeEnd(r) THEN <<[clip EXCEPT !.range.start = @ - r.dur]>>
     ELSE <<clip>>

RippleTrack(clips, op) == FlattenSeq([i \in DOMAIN clips |-> RipplePieces(clips[i], op)])

(* Remove the new pieces, then put back each clip that changed, in order.   *)
(* A clip is matched with the last one of its id after the deletion.        *)
RippleInverse(trackId, before, after) ==
  LET Added(clip) == \A old \in ToSet(before) : old.id # clip.id
      Match(clip) == Max({0} \cup {j \in DOMAIN after : after[j].id = clip.id})
      Restore(i) ==
        LET clip == before[i]
        IN IF Match(clip) = 0
           THEN <<[type |-> "clip.insert", trackId |-> trackId, clip |-> clip, index |-> i - 1]>>
           ELSE IF after[Match(clip)] = clip THEN <<>>
           ELSE <<[type |-> "clip.replace", clipId |-> clip.id, clip |-> clip]>>
      TakeOut(clip) == IF Added(clip) THEN <<[type |-> "clip.remove", clipId |-> clip.id]>> ELSE <<>>
  IN FlattenSeq([j \in DOMAIN after |-> TakeOut(after[j])])
       \o FlattenSeq([i \in DOMAIN before |-> Restore(i)])

RippleDelete(d, op) ==
  LET cut == {clip \in UNION {ToSet(Track(d, id).clips) : id \in ToSet(op.trackIds)} :
                RangesOverlap(clip.range, op.range)}
      parted == {clip \in cut : HasLeft(clip, op.range) /\ HasRight(clip, op.range)}
      sliced == {clip \in cut : HasLeft(clip, op.range) \/ HasRight(clip, op.range)}
      rights == {op.right[id] : id \in DOMAIN op.right}
      Rippled(track) == IF track.id \in ToSet(op.trackIds)
                        THEN [track EXCEPT !.clips = RippleTrack(track.clips, op)] ELSE track
      after == [d EXCEPT !.tracks = [t \in DOMAIN d.tracks |-> Rippled(d.tracks[t])]]
      TakeBack(id) == RippleInverse(id, Track(d, id).clips, Track(after, id).clips)
  IN IF /\ op.range.dur > 0
        /\ op.trackIds # <<>> /\ Cardinality(ToSet(op.trackIds)) = Len(op.trackIds)
        /\ Cardinality(rights) = Cardinality(DOMAIN op.right)
        /\ rights \cap SequenceIds(d) = {}
        /\ DOMAIN op.right = {clip.id : clip \in parted}   \* required there, refused elsewhere
        /\ \A clip \in sliced : ~Warped(clip)
     THEN Done(after, FlattenSeq([i \in DOMAIN op.trackIds |-> TakeBack(op.trackIds[i])]))
     ELSE Refused

-----------------------------------------------------------------------------
ApplyOperation(d, op) ==
  CASE op.type = "library.put" -> PutObject(d, op)
    [] op.type = "library.remove" -> RemoveObject(d, op)
    [] op.type = "track.add" -> AddTrack(d, op)
    [] op.type = "track.remove" -> RemoveTrack(d, op)
    [] op.type = "clip.insert" -> InsertClip(d, op)
    [] op.type = "clip.remove" -> RemoveClip(d, op)
    [] op.type = "clip.split" -> SplitClip(d, op)
    [] op.type = "clip.move" -> MoveClip(d, op)
    [] op.type = "clip.trim" -> TrimClip(d, op)
    [] op.type = "clip.replace" -> ReplaceClip(d, op)
    [] op.type = "clip.update" -> UpdateClip(d, op)
    [] op.type = "range.deleteRipple" -> RippleDelete(d, op)
    [] op.type = "lock.add" -> AddLock(d, op)
    [] op.type = "lock.remove" -> RemoveLock(d, op)

(* Mutant of ApplyNext: the inverse operations are kept in forward order. *)
ApplyNextForward(result, actor, op) ==
  IF ~result.ok THEN Refused
  ELSE IF Resolves(result.doc, op) /\ OperationUnlocked(result.doc, actor, op)
       THEN LET one == ApplyOperation(result.doc, op)
            IN IF one.ok THEN Done(one.doc, result.inverse \o one.inverse) ELSE Refused
       ELSE Refused

(* The loop of applyTransaction over one operation of the working copy: the *)
(* newest operation is taken back first.                                    *)
ApplyNext(result, actor, op) ==
  IF ~result.ok THEN Refused
  ELSE IF Resolves(result.doc, op) /\ OperationUnlocked(result.doc, actor, op)
       THEN LET one == ApplyOperation(result.doc, op)
            IN IF one.ok THEN Done(one.doc, one.inverse \o result.inverse) ELSE Refused
       ELSE Refused

ApplyAll(d, actor, ops) ==
  LET after[n \in 0 .. Len(ops)] ==
        IF n = 0 THEN Done(d, <<>>) ELSE ApplyNext(after[n - 1], actor, ops[n])
  IN after[Len(ops)]

(* As many ids as objects: no id is given twice.                            *)
DistinctIds(d) ==
  LET clips == FlattenSeq([t \in DOMAIN d.tracks |-> d.tracks[t].clips])
  IN Cardinality(ObjectIds(d))
       = Len(d.tracks) + Len(clips) + Len(d.locks) + Len(d.assets) + Len(d.artifacts)

(* The semantic validation a committed document passes: ids are unique,     *)
(* durations positive, assets and the targets of locks exist.  Clips may    *)
(* overlap.  Compatibility of clip and track kinds is left out.             *)
ValidDocument(d) ==
  LET Target(scope) == CASE scope.kind = "track" -> {scope.trackId} \subseteq TrackIds(d)
                         [] scope.kind = "clip" -> {scope.clipId} \subseteq ClipIds(d)
                         [] scope.kind = "property" -> scope.objectId \in TrackIds(d) \cup ClipIds(d)
                         [] scope.kind = "range" -> scope.trackIds \subseteq TrackIds(d)
                         [] scope.kind = "source_range" -> scope.assetId \in AssetIds(d)
  IN /\ DistinctIds(d)
     /\ \A clip \in ClipsOf(d) :
          clip.range.dur > 0 /\ clip.asset \in AssetIds(d) \cup {NoAsset}
     /\ \A lock \in ToSet(d.locks) : Target(lock.scope)

ApplyTransaction(d, actor, ops) ==
  LET result == ApplyAll(d, actor, ops)
  IN IF result.ok /\ ops # <<>> THEN IF ValidDocument(result.doc) THEN result ELSE Refused
     ELSE Refused
=============================================================================
