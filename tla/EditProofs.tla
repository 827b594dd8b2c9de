----------------------------- MODULE EditProofs -----------------------------
(***************************************************************************)
(* The theorems of the transaction engine of EditEngine.  From what each   *)
(* operation of EditOperations leaves of a document, what a lock lets      *)
(* through and what the recorded operations replay to, every transaction   *)
(* keeps the types, the locks and, where it cuts, what plays.  From what   *)
(* the inverse of each operation does, undoing a transaction restores the  *)
(* document it started from and is accepted from its author.               *)
(***************************************************************************)
EXTENDS EditEngine, EditOperationsProofs

-----------------------------------------------------------------------------
(***************************************************************************)
(* The operations callers submit.                                          *)
(***************************************************************************)
LEMMA OfferedRanges ==
  ASSUME NEW r \in Ranges
  PROVE  r \in TimeRange
  BY OffersTyped DEF Ranges, TimeRange

\* The track operations offered are well typed.
LEMMA TrackOffers ==
  ASSUME NEW d, NEW op \in TrackOperations(d)
  PROVE  IsOperation(op)
  <1> DEFINE Adds == [type : {"track.add"}, track : SpareTracks, index : Ends(d.tracks)]
             Removes == [type : {"track.remove"}, trackId : TrackIds(d)]
             Locks == [type : {"lock.add"}, lock : SpareLocks, index : {0}]
             Unlocks == [type : {"lock.remove"}, lockId : LockIds(d)]
  <1>1. op \in Adds \/ op \in Removes \/ op \in Locks \/ op \in Unlocks
    BY DEF TrackOperations
  <1>2. CASE op \in Adds
    <2>1. op.type = "track.add" /\ op.track \in SpareTracks
      BY <1>2
    <2>2. QED
      BY <2>1, OffersTyped DEF IsOperation, OperationTypes
  <1>3. CASE op \in Removes
    <2>1. op.type = "track.remove"
      BY <1>3
    <2>2. QED
      BY <2>1 DEF IsOperation, OperationTypes
  <1>4. CASE op \in Locks
    <2>1. op.type = "lock.add" /\ op.lock \in SpareLocks
      BY <1>4
    <2>2. QED
      BY <2>1, OffersTyped DEF IsOperation, OperationTypes
  <1>5. CASE op \in Unlocks
    <2>1. op.type = "lock.remove"
      BY <1>5
    <2>2. QED
      BY <2>1 DEF IsOperation, OperationTypes
  <1>6. QED
    BY <1>1, <1>2, <1>3, <1>4, <1>5

\* The library operations offered are well typed.
LEMMA LibraryOffers ==
  ASSUME NEW d, NEW op \in LibraryOperations(d)
  PROVE  IsOperation(op)
  <1>1. PICK list \in {"assets", "artifacts"} :
          op \in [type : {"library.put"}, list : {list}, object : {SpareObjects[list]}, index : Ends(d[list])]
                   \cup [type : {"library.remove"}, list : {list}, object : ToSet(d[list])]
    BY DEF LibraryOperations
  <1>2. op.type \in {"library.put", "library.remove"} /\ op.list = list
    BY <1>1
  <1>3. QED
    BY <1>2 DEF IsOperation, OperationTypes

\* The clip operations offered are well typed.
LEMMA ClipOffers ==
  ASSUME NEW d, IsDocument(d), NEW op \in ClipOperations(d)
  PROVE  IsOperation(op)
  <1> DEFINE InsertsOn(track) == [type : {"clip.insert"}, trackId : {track.id}, clip : SpareClips, index : Ends(track.clips)]
             MovesTo(track) == [type : {"clip.move"}, clipId : ClipIds(d), toTrackId : {track.id},
                                toIndex : Ends(track.clips), start : Starts]
             TrimsOf(clip) == [type : {"clip.trim"}, clipId : {clip.id}, range : Ranges, src : {NoRange, clip.src}]
             Removes == [type : {"clip.remove"}, clipId : ClipIds(d)]
             Splits == [type : {"clip.split"}, clipId : ClipIds(d), at : Starts, rightClipId : SplitIds]
             Updates == [type : {"clip.update"}, clipId : ClipIds(d), patch : Patches]
             Other(clip, start) == [clip EXCEPT !.range.start = start, !.look = 1]
             Replaces == {Replacement(clip, start) : clip \in ClipsOf(d), start \in Starts}
  <1>0. \A clip \in ClipsOf(d) : IsClip(clip)
    BY ClipsStand, ClipIsOnTrack
  <1>1. \/ op \in UNION {InsertsOn(track) : track \in ToSet(d.tracks)}
        \/ op \in UNION {MovesTo(track) : track \in ToSet(d.tracks)}
        \/ op \in UNION {TrimsOf(clip) : clip \in ClipsOf(d)}
        \/ op \in Removes \/ op \in Splits \/ op \in Updates \/ op \in Replaces
    <2> DEFINE A == UNION {InsertsOn(track) : track \in ToSet(d.tracks)}
               B == UNION {MovesTo(track) : track \in ToSet(d.tracks)}
               C == UNION {TrimsOf(clip) : clip \in ClipsOf(d)}
    <2>1. ClipOperations(d) = A \cup B \cup Removes \cup Splits \cup C \cup Updates \cup Replaces
      BY DEF ClipOperations
    <2> HIDE DEF A, B, C, Removes, Splits, Updates, Replaces
    <2>2. op \in A \/ op \in B \/ op \in Removes \/ op \in Splits \/ op \in C \/ op \in Updates \/ op \in Replaces
      BY <2>1
    <2>3. QED
      BY <2>2 DEF A, B, C
  <1>2. CASE op \in UNION {InsertsOn(track) : track \in ToSet(d.tracks)}
    <2>1. PICK track : op \in InsertsOn(track)
      BY <1>2
    <2>2. op.type = "clip.insert" /\ op.clip \in SpareClips
      BY <2>1
    <2>3. QED
      BY <2>2, OffersTyped DEF IsOperation, OperationTypes
  <1>3. CASE op \in UNION {MovesTo(track) : track \in ToSet(d.tracks)}
    <2>1. PICK track : op \in MovesTo(track)
      BY <1>3
    <2>2. op.type = "clip.move" /\ op.start \in Int
      BY <2>1, OffersTyped
    <2>3. QED
      BY <2>2 DEF IsOperation, OperationTypes
  <1>4. CASE op \in UNION {TrimsOf(clip) : clip \in ClipsOf(d)}
    <2>1. PICK clip \in ClipsOf(d) : op \in TrimsOf(clip)
      BY <1>4
    <2>2. /\ op.type = "clip.trim" /\ op.range \in Ranges /\ op.src \in {NoRange, clip.src}
          /\ op = [type |-> op.type, clipId |-> op.clipId, range |-> op.range, src |-> op.src]
      BY <2>1
    <2>3. op.range \in TimeRange /\ op.src \in TimeRange
      <3>1. NoRange \in TimeRange
        BY DEF NoRange, TimeRange
      <3>2. clip.src \in TimeRange
        BY <1>0 DEF IsClip
      <3>3. QED
        BY <2>2, <3>1, <3>2, OfferedRanges
    <2>4. QED
      BY <2>2, <2>3 DEF IsOperation, OperationTypes
  <1>5. CASE op \in Removes
    <2>1. op.type = "clip.remove"
      BY <1>5
    <2>2. QED
      BY <2>1 DEF IsOperation, OperationTypes
  <1>6. CASE op \in Splits
    <2>1. op.type = "clip.split" /\ op.at \in Int
      BY <1>6, OffersTyped
    <2>2. QED
      BY <2>1 DEF IsOperation, OperationTypes
  <1>7. CASE op \in Updates
    <2>1. op.type = "clip.update" /\ op.patch \in Patches
      BY <1>7
    <2>2. QED
      BY <2>1, OffersTyped DEF IsOperation, OperationTypes
  <1>8. CASE op \in Replaces
    <2>1. PICK clip \in ClipsOf(d), start \in Starts : op = Replacement(clip, start)
      BY <1>8
    <2> DEFINE new == Other(clip, start)
    <2>2. op.type = "clip.replace" /\ op.clip = new
      BY <2>1 DEF Replacement
    <2>3. IsClip(new)
      <3>1. /\ clip = [id |-> clip.id, asset |-> clip.asset, range |-> clip.range, src |-> clip.src,
                        look |-> clip.look, enabled |-> clip.enabled]
            /\ clip.range \in TimeRange /\ clip.src \in TimeRange /\ clip.enabled \in BOOLEAN /\ start \in Int
        BY <1>0, OffersTyped DEF IsClip
      <3> DEFINE moved == [clip.range EXCEPT !.start = start]
      <3>2. moved \in TimeRange
        BY <3>1 DEF TimeRange
      <3>3. new = [id |-> clip.id, asset |-> clip.asset, range |-> moved, src |-> clip.src,
                   look |-> 1, enabled |-> clip.enabled]
        <4> DEFINE mid == [clip EXCEPT !.range.start = start]
        <4>1. mid = [id |-> clip.id, asset |-> clip.asset, range |-> moved, src |-> clip.src,
                     look |-> clip.look, enabled |-> clip.enabled]
          BY <3>1
        <4>2. new = [mid EXCEPT !.look = 1]
          BY <3>1
        <4> HIDE DEF mid, moved, new
        <4>3. QED
          BY <4>1, <4>2
      <3> HIDE DEF new, moved
      <3>4. new.range = moved /\ new.src = clip.src /\ new.enabled = clip.enabled
            /\ new = [id |-> new.id, asset |-> new.asset, range |-> new.range, src |-> new.src,
                      look |-> new.look, enabled |-> new.enabled]
        BY <3>3
      <3>5. QED
        BY <3>1, <3>2, <3>4 DEF IsClip
    <2> HIDE DEF new
    <2>4. QED
      BY <2>2, <2>3 DEF IsOperation, OperationTypes
  <1> HIDE DEF InsertsOn, MovesTo, TrimsOf, Removes, Splits, Updates, Replaces
  <1>9. QED
    BY <1>1, <1>2, <1>3, <1>4, <1>5, <1>6, <1>7, <1>8

\* The ripple deletions offered are well typed.
LEMMA RippleOffers ==
  ASSUME NEW d, IsDocument(d), NEW op \in RippleOperations(d)
  PROVE  IsOperation(op)
  <1> DEFINE all == [t \in DOMAIN d.tracks |-> d.tracks[t].id]
             Named == {<<id>> : id \in TrackIds(d)} \cup {all}
             Cuts == {<<>>} \cup [ClipIds(d) -> SplitIds] \cup UNION {[{id} -> SplitIds] : id \in ClipIds(d)}
  <1>1. op \in [type : {"range.deleteRipple"}, range : Ranges, trackIds : Named, right : Cuts]
    BY DEF RippleOperations
  <1>2. op.type = "range.deleteRipple" /\ op.range \in Ranges /\ op.trackIds \in Named
    <2> HIDE DEF Named, Cuts
    <2>1. QED
      BY <1>1
  <1>3. IsSequence(op.trackIds)
    <2>1. IsSequence(all)
      <3>1. IsSequence(d.tracks) /\ DOMAIN all = DOMAIN d.tracks /\ all = [t \in DOMAIN d.tracks |-> all[t]]
        BY DocumentFacts
      <3> HIDE DEF all
      <3>2. QED
        BY <3>1, MappedSequence
    <2>2. \A id : IsSequence(<<id>>)
      BY OneElement
    <2> HIDE DEF all
    <2>3. QED
      BY <1>2, <2>1, <2>2
  <1>4. op.range \in TimeRange
    BY <1>2, OfferedRanges
  <1>5. QED
    BY <1>2, <1>3, <1>4 DEF IsOperation, OperationTypes

\* Every operation offered is well typed.
LEMMA OfferedTyped ==
  ASSUME NEW d, IsDocument(d), NEW op \in Operations(d)
  PROVE  IsOperation(op)
  BY TrackOffers, LibraryOffers, ClipOffers, RippleOffers DEF Operations

\* Another operation at the end of a transaction.
LEMMA TypedAppend ==
  ASSUME NEW ops, TypedInverse(ops), NEW op, IsOperation(op)
  PROVE  TypedInverse(Append(ops, op)) /\ Append(ops, op) # <<>>
  <1> DEFINE T == ToSet(ops) \cup {op}
             s == Append(ops, op)
  <1>1. ops \in Seq(T) /\ op \in T
    BY SequencesGrow DEF TypedInverse
  <1> HIDE DEF T
  <1>2. s \in Seq(T) /\ Len(s) = Len(ops) + 1 /\ \A i \in 1 .. Len(s) : s[i] = op \/ s[i] \in ToSet(ops)
    BY <1>1 DEF ToSet
  <1> HIDE DEF s
  <1>3. IsSequence(s) /\ DOMAIN s = 1 .. Len(s)
    BY <1>2, SequenceOfElements
  <1>4. \A x \in ToSet(s) : IsOperation(x)
    BY <1>2, <1>3 DEF ToSet, TypedInverse
  <1>5. s # <<>>
    <2>1. Len(ops) \in Nat
      BY SequenceFacts DEF TypedInverse
    <2>2. Len(s) # 0
      BY <1>2, <2>1
    <2>3. QED
      BY <2>2, EmptySequence
  <1>6. QED
    BY <1>3, <1>4, <1>5 DEF TypedInverse, s

-----------------------------------------------------------------------------
(***************************************************************************)
(* The engine.                                                             *)
(***************************************************************************)
\* A record tells what its operations made of the document before them.
Replays(r) ==
  LET result == ApplyAll(r.before, r.actor, r.ops)
  IN result.ok /\ r.after = result.doc /\ r.inverse = result.inverse

RecordHolds(r) ==
  /\ r.actor \in Actors /\ TypedInverse(r.ops)
  /\ IsDocument(r.before) /\ ValidDocument(r.before)
  /\ Replays(r)

\* The document is the one the newest record left, each record starts where the
\* one before it ended, and an undo carries the inverse of an earlier record.
LedgerInv ==
  /\ IsDocument(document) /\ ValidDocument(document)
  /\ IsSequence(records)
  /\ \A i \in DOMAIN records :
       /\ RecordHolds(records[i]) /\ records[i].undoes \in 0 .. (i - 1)
       /\ records[i].undoes # 0 => records[i].ops = records[records[i].undoes].inverse
       /\ records[i].after = IF i = Len(records) THEN document ELSE records[i + 1].before

\* A draft is what its operations make of the committed document.
DraftInv ==
  Idle \/ /\ draft = [actor |-> draft.actor, ops |-> draft.ops, result |-> draft.result]
          /\ draft.actor \in Actors /\ TypedInverse(draft.ops)
          /\ draft.result.ok /\ draft.result = ApplyAll(document, draft.actor, draft.ops)

EngineInv == LedgerInv /\ DraftInv

\* A replay on a valid document holds what every run must.
LEMMA ReplayHolds ==
  ASSUME NEW b, IsDocument(b), ValidDocument(b), NEW actor, NEW ops, TypedInverse(ops),
         NEW result, result = ApplyAll(b, actor, ops), result.ok
  PROVE  RunHolds(b, actor, ToSet(ops), result)
  BY ValidUnique, RunHoldsThroughout

\* A record's after document is typed and keeps what its before document protects.
LEMMA RecordKeeps ==
  ASSUME NEW r, RecordHolds(r)
  PROVE  /\ IsDocument(r.after) /\ TracksUnique(r.after) /\ TypedInverse(r.inverse)
         /\ Keeps(r.before, r.after, r.actor, ToSet(r.ops))
         /\ IdsUnique(r.before) /\ TracksUnique(r.before)
  <1> DEFINE result == ApplyAll(r.before, r.actor, r.ops)
  <1>1. result.ok /\ r.after = result.doc /\ r.inverse = result.inverse
    BY DEF RecordHolds, Replays
  <1>2. RunHolds(r.before, r.actor, ToSet(r.ops), result)
    BY <1>1, ReplayHolds DEF RecordHolds
  <1>3. IdsUnique(r.before) /\ TracksUnique(r.before)
    BY ValidUnique DEF RecordHolds
  <1> HIDE DEF result
  <1>4. QED
    BY <1>1, <1>2, <1>3 DEF RunHolds

\* Accepting a transaction keeps the invariant of the ledger.
LEMMA AcceptKeepsLedger ==
  ASSUME LedgerInv, NEW actor \in Actors, NEW undoes \in 0 .. Len(records), NEW ops, TypedInverse(ops),
         undoes # 0 => ops = records[undoes].inverse,
         NEW result, result = ApplyAll(document, actor, ops), result.ok, ValidDocument(result.doc),
         Accept(actor, undoes, ops, result)
  PROVE  LedgerInv'
  <1> DEFINE n == Len(records)
             r == [actor |-> actor, undoes |-> undoes, ops |-> ops,
                   before |-> document, after |-> result.doc, inverse |-> result.inverse]
  <1>1. document' = result.doc /\ records' = Append(records, r)
    BY DEF Accept
  <1>2. r.actor = actor /\ r.undoes = undoes /\ r.ops = ops /\ r.before = document /\ r.after = result.doc
        /\ r.inverse = result.inverse
    OBVIOUS
  <1> HIDE DEF r
  <1>3. RecordHolds(r)
    BY <1>2 DEF RecordHolds, Replays, LedgerInv
  <1>4. IsDocument(document') /\ ValidDocument(document')
    BY <1>1, <1>2, <1>3, RecordKeeps
  <1>5. n \in Nat /\ DOMAIN records = 1 .. n /\ records \in Seq(ToSet(records))
    BY SequenceFacts DEF LedgerInv
  <1> DEFINE T == ToSet(records) \cup {r}
  <1>6. records \in Seq(T) /\ r \in T
    BY SequencesGrow DEF LedgerInv
  <1> HIDE DEF T
  <1>7. /\ records' \in Seq(T) /\ Len(records') = n + 1 /\ DOMAIN records' = 1 .. n + 1
        /\ records'[n + 1] = r /\ \A i \in 1 .. n : records'[i] = records[i]
    BY <1>1, <1>5, <1>6
  <1>8. IsSequence(records')
    BY <1>7, SequenceOfElements
  <1> HIDE DEF n
  <1>9. ASSUME NEW i \in 1 .. n + 1
        PROVE  /\ RecordHolds(records'[i]) /\ records'[i].undoes \in 0 .. (i - 1)
               /\ records'[i].undoes # 0 => records'[i].ops = records'[records'[i].undoes].inverse
               /\ records'[i].after = IF i = n + 1 THEN document' ELSE records'[i + 1].before
    <2>1. CASE i = n + 1
      <3>1. records'[i] = r /\ undoes \in 0 .. n /\ n = i - 1
        BY <1>5, <1>7, <2>1 DEF n
      <3>2. undoes # 0 => records'[undoes] = records[undoes]
        BY <1>5, <1>7, <3>1
      <3>3. QED
        BY <1>1, <1>2, <1>3, <2>1, <3>1, <3>2
    <2>2. CASE i \in 1 .. n
      <3>1. records'[i] = records[i]
        BY <1>7, <2>2
      <3>2. /\ RecordHolds(records[i]) /\ records[i].undoes \in 0 .. (i - 1)
            /\ records[i].undoes # 0 => records[i].ops = records[records[i].undoes].inverse
            /\ records[i].after = IF i = n THEN document ELSE records[i + 1].before
        BY <1>5, <2>2 DEF LedgerInv, n
      <3>3. records[i].undoes # 0 => records'[records[i].undoes] = records[records[i].undoes]
        BY <1>5, <1>7, <2>2, <3>2
      <3>4. i # n + 1 /\ records'[i + 1].before = IF i = n THEN document ELSE records[i + 1].before
        BY <1>2, <1>5, <1>7, <2>2
      <3>5. QED
        BY <3>1, <3>2, <3>3, <3>4, SMTT(30)
    <2>3. QED
      BY <1>5, <2>1, <2>2
  <1>10. QED
    BY <1>4, <1>7, <1>8, <1>9 DEF LedgerInv

\* The initial state satisfies the engine's invariant.
LEMMA EngineBegins == Init => EngineInv
  <1> SUFFICES ASSUME Init PROVE EngineInv
    OBVIOUS
  <1>1. IsDocument(document) /\ ValidDocument(document)
    BY OffersTyped, DocumentsValid DEF Init
  <1>2. IsSequence(records) /\ DOMAIN records = {}
    BY EmptySequence DEF Init
  <1>3. Idle
    BY DEF Init, Idle
  <1>4. QED
    BY <1>1, <1>2, <1>3 DEF EngineInv, LedgerInv, DraftInv

\* Every step of the engine preserves its invariant.
LEMMA EngineStep == EngineInv /\ [Next]_vars => EngineInv'
  <1> SUFFICES ASSUME EngineInv, [Next]_vars PROVE EngineInv'
    OBVIOUS
  <1>1. ASSUME UNCHANGED <<document, records>> PROVE LedgerInv'
    BY <1>1 DEF EngineInv, LedgerInv
  <1>2. ASSUME NEW actor \in Actors, Begin(actor) PROVE EngineInv'
    <2>1. draft' = [actor |-> actor, ops |-> <<>>, result |-> Done(document, <<>>)] /\ document' = document
          /\ UNCHANGED <<document, records>>
      BY <1>2 DEF Begin
    <2>2. draft'.actor = actor /\ draft'.ops = <<>> /\ draft'.result = Done(document, <<>>)
          /\ draft' = [actor |-> draft'.actor, ops |-> draft'.ops, result |-> draft'.result]
      BY <2>1
    <2>3. ApplyAll(document, actor, <<>>) = Done(document, <<>>)
      <3>1. <<>> \in Seq({0}) /\ 0 \in {0}
        OBVIOUS
      <3>2. QED
        BY <3>1, ApplyAppend
    <2>4. Done(document, <<>>).ok
      BY DEF Done
    <2>5. DraftInv'
      BY <2>1, <2>2, <2>3, <2>4, EmptyTyped DEF DraftInv
    <2>6. QED
      BY <1>1, <2>1, <2>5 DEF EngineInv
  <1>3. ASSUME NEW actor \in Actors, Undo(actor) PROVE EngineInv'
    <2>1. PICK i \in DOMAIN records :
            LET result == ApplyTransaction(document, actor, records[i].inverse)
            IN result.ok /\ Accept(actor, i, records[i].inverse, result)
      BY <1>3 DEF Undo
    <2> DEFINE ops == records[i].inverse
               result == ApplyAll(document, actor, ops)
    <2>2. result.ok /\ ValidDocument(result.doc) /\ Accept(actor, i, ops, result)
      BY <2>1 DEF ApplyTransaction, Refused
    <2>3. DOMAIN records = 1 .. Len(records) /\ RecordHolds(records[i]) /\ Len(records) \in Nat
      BY SequenceFacts DEF EngineInv, LedgerInv
    <2>4. TypedInverse(ops) /\ i \in 0 .. Len(records)
      BY <2>3, RecordKeeps
    <2> HIDE DEF result
    <2>5. LedgerInv'
      <3>1. result = ApplyAll(document, actor, ops) /\ ops = records[i].inverse
        BY DEF result
      <3> HIDE DEF ops
      <3>2. LedgerInv
        BY DEF EngineInv
      <3>3. QED
        BY <2>2, <2>4, <3>1, <3>2, AcceptKeepsLedger
    <2>6. Idle /\ draft' = draft
      BY <1>3 DEF Undo
    <2>7. DraftInv'
      BY <2>6 DEF DraftInv, Idle
    <2>8. QED
      BY <2>5, <2>7 DEF EngineInv
  <1>4. ASSUME Apply PROVE EngineInv'
    <2>1. PICK op \in Operations(draft.result.doc) :
            draft' = IF ApplyNext(draft.result, draft.actor, op).ok
                     THEN [draft EXCEPT !.ops = Append(@, op), !.result = ApplyNext(draft.result, draft.actor, op)]
                     ELSE NoDraft
      BY <1>4 DEF Apply
    <2>2. /\ draft = [actor |-> draft.actor, ops |-> draft.ops, result |-> draft.result]
          /\ draft.actor \in Actors /\ TypedInverse(draft.ops)
          /\ draft.result.ok /\ draft.result = ApplyAll(document, draft.actor, draft.ops)
          /\ document' = document /\ UNCHANGED <<document, records>>
      BY <1>4 DEF Apply, EngineInv, DraftInv
    <2>3. IsDocument(document) /\ ValidDocument(document)
      BY DEF EngineInv, LedgerInv
    <2>4. RunHolds(document, draft.actor, ToSet(draft.ops), draft.result)
      BY <2>2, <2>3, ReplayHolds
    <2>5. IsOperation(op)
      BY <2>4, OfferedTyped DEF RunHolds
    <2> DEFINE result == ApplyNext(draft.result, draft.actor, op)
               ops == Append(draft.ops, op)
    <2>6. CASE result.ok
      <3>1. draft' = [draft EXCEPT !.ops = ops, !.result = result]
        BY <2>1, <2>6
      <3>2. TypedInverse(ops)
        BY <2>2, <2>5, TypedAppend
      <3>3. result = ApplyAll(document, draft.actor, ops)
        <4> DEFINE T == ToSet(draft.ops) \cup {op}
        <4>1. draft.ops \in Seq(T) /\ op \in T
          BY <2>2, SequencesGrow DEF TypedInverse
        <4> HIDE DEF T
        <4>2. QED
          BY <2>2, <4>1, ApplyAppend
      <3> HIDE DEF result, ops
      <3>4. draft' = [actor |-> draft.actor, ops |-> ops, result |-> result]
        BY <2>2, <3>1
      <3>5. draft'.actor = draft.actor /\ draft'.ops = ops /\ draft'.result = result
            /\ draft' = [actor |-> draft'.actor, ops |-> draft'.ops, result |-> draft'.result]
        BY <3>4
      <3>6. DraftInv'
        BY <2>2, <2>6, <3>2, <3>3, <3>5 DEF DraftInv
      <3>7. QED
        BY <1>1, <2>2, <3>6 DEF EngineInv
    <2>7. CASE ~ result.ok
      <3>1. DraftInv'
        BY <2>1, <2>7 DEF DraftInv, Idle
      <3>2. QED
        BY <1>1, <2>2, <3>1 DEF EngineInv
    <2>8. QED
      BY <2>6, <2>7
  <1>5. ASSUME Commit PROVE EngineInv'
    <2>1. DraftInv'
      BY <1>5 DEF Commit, DraftInv, Idle
    <2>2. CASE ValidDocument(draft.result.doc)
      <3> DEFINE actor == draft.actor
                 ops == draft.ops
                 result == draft.result
      <3>1. /\ actor \in Actors /\ TypedInverse(ops) /\ result.ok /\ result = ApplyAll(document, actor, ops)
            /\ ValidDocument(result.doc) /\ Accept(actor, 0, ops, result)
        BY <1>5, <2>2 DEF Commit, EngineInv, DraftInv
      <3>2. LedgerInv /\ 0 \in 0 .. Len(records)
        BY SequenceFacts DEF EngineInv, LedgerInv
      <3> HIDE DEF actor, ops, result
      <3> DEFINE none == 0
      <3>3. none = 0
        OBVIOUS
      <3> HIDE DEF none
      <3>4. LedgerInv'
        BY <3>1, <3>2, <3>3, AcceptKeepsLedger
      <3>5. QED
        BY <2>1, <3>4 DEF EngineInv
    <2>3. CASE ~ ValidDocument(draft.result.doc)
      <3>1. UNCHANGED <<document, records>>
        BY <1>5, <2>3 DEF Commit
      <3>2. QED
        BY <1>1, <2>1, <3>1 DEF EngineInv
    <2>4. QED
      BY <2>2, <2>3
  <1>6. ASSUME UNCHANGED vars PROVE EngineInv'
    <2>1. document' = document /\ draft' = draft /\ records' = records
      BY <1>6 DEF vars
    <2>2. QED
      BY <1>1, <2>1 DEF EngineInv, DraftInv, Idle
  <1>7. QED
    BY <1>2, <1>3, <1>4, <1>5, <1>6 DEF Next

\* In every state: each record holds what its operations do to the document it
\* starts from, and a draft what its operations do to the committed one.
THEOREM EngineAlwaysReplays == Spec => []EngineInv
  <1>1. Init => EngineInv
    BY EngineBegins
  <1>2. EngineInv /\ [Next]_vars => EngineInv'
    BY EngineStep
  <1>3. QED
    BY <1>1, <1>2, PTL DEF Spec

\* The committed document is always one the schema accepts and validation passes,
\* and the records chain its versions.
THEOREM EngineTyped == Spec => []TypeOK
  <1>1. ASSUME EngineInv PROVE TypeOK
    <2>1. IsDocument(document) /\ ValidDocument(document)
      BY <1>1 DEF EngineInv, LedgerInv
    <2>2. ASSUME NEW i \in DOMAIN records
          PROVE  /\ records[i].actor \in Actors /\ records[i].undoes \in 0 .. (i - 1)
                 /\ IsDocument(records[i].before) /\ ValidDocument(records[i].before)
                 /\ \A op \in ToSet(records[i].inverse) : IsOperation(op)
                 /\ records[i].after = IF i = Len(records) THEN document ELSE records[i + 1].before
      <3>1. /\ RecordHolds(records[i]) /\ records[i].undoes \in 0 .. (i - 1)
            /\ records[i].after = IF i = Len(records) THEN document ELSE records[i + 1].before
        BY <1>1 DEF EngineInv, LedgerInv
      <3>2. TypedInverse(records[i].inverse)
        BY <3>1, RecordKeeps
      <3>3. QED
        BY <3>1, <3>2 DEF RecordHolds, TypedInverse
    <2>3. Idle \/ draft.actor \in Actors
      BY <1>1 DEF EngineInv, DraftInv
    <2>4. QED
      BY <2>1, <2>2, <2>3 DEF TypeOK
  <1>2. QED
    BY <1>1, EngineAlwaysReplays, PTL

\* What the inductive invariant says of the newest record.
LEMMA NewestHolds ==
  ASSUME EngineInv, Recorded
  PROVE  RecordHolds(Newest) /\ Newest.after = document
  <1>1. IsSequence(records) /\ records # <<>>
    BY DEF EngineInv, LedgerInv, Recorded
  <1>2. Len(records) \in DOMAIN records
    <2>1. records \in Seq(ToSet(records)) /\ DOMAIN records = 1 .. Len(records) /\ Len(records) \in Nat
      BY <1>1, SequenceFacts
    <2>2. Len(records) # 0
      BY <1>1, <2>1
    <2>3. QED
      BY <2>1, <2>2
  <1>3. Newest = records[Len(records)]
    BY DEF Newest, Last
  <1>4. QED
    BY <1>2, <1>3 DEF EngineInv, LedgerInv

\* The one clip of an id.
LEMMA OneOfId ==
  ASSUME NEW d, IsDocument(d), IdsUnique(d), NEW id, NEW a \in ClipsOfId(d, id), NEW b \in ClipsOfId(d, id)
  PROVE  a = b
  <1>1. a \in ClipsOf(d) /\ b \in ClipsOf(d) /\ a.id = b.id
    BY DEF ClipsOfId
  <1>2. PICK s \in DOMAIN d.tracks : \E i \in DOMAIN d.tracks[s].clips : a = d.tracks[s].clips[i]
    BY <1>1, ClipsByPosition
  <1>3. PICK t \in DOMAIN d.tracks : \E j \in DOMAIN d.tracks[t].clips : b = d.tracks[t].clips[j]
    BY <1>1, ClipsByPosition
  <1>4. PICK i \in DOMAIN d.tracks[s].clips : a = d.tracks[s].clips[i]
    BY <1>2
  <1>5. PICK j \in DOMAIN d.tracks[t].clips : b = d.tracks[t].clips[j]
    BY <1>3
  <1>6. s = t /\ i = j
    BY <1>1, <1>4, <1>5 DEF IdsUnique
  <1>7. QED
    BY <1>4, <1>5, <1>6

\* A clip's id is in a document exactly when some clip has it, and the lookup finds one.
LEMMA FoundOfId ==
  ASSUME NEW d, IsDocument(d), NEW id
  PROVE  /\ ClipsOfId(d, id) # {} <=> id \in ClipIds(d)
         /\ id \in ClipIds(d) => Clip(d, id) \in ClipsOfId(d, id)
  <1>1. ClipsOfId(d, id) # {} <=> id \in ClipIds(d)
    BY DEF ClipsOfId, ClipIds
  <1>2. ASSUME id \in ClipIds(d) PROVE Clip(d, id) \in ClipsOfId(d, id)
    <2> DEFINE at == FindClip(d, id)
    <2>1. at = FindClip(d, id)
      OBVIOUS
    <2> HIDE DEF at
    <2>2. /\ at.track \in DOMAIN d.tracks /\ Clip(d, id) = ClipAt(d, at)
          /\ ClipAt(d, at).id = id /\ ClipAt(d, at) \in ToSet(d.tracks[at.track].clips)
      BY <1>2, <2>1, ClipFound
    <2>3. QED
      BY <2>2, ClipIsOnTrack DEF ClipsOfId
  <1>3. QED
    BY <1>1, <1>2

\* A track that is the only one of its id before and after is found unchanged.
LEMMA TracksStand ==
  ASSUME NEW d, IsDocument(d), TracksUnique(d), NEW e, IsDocument(e), NEW id \in TrackIds(d),
         TracksOfId(e, id) = TracksOfId(d, id)
  PROVE  Track(e, id) = Track(d, id)
  <1>1. ASSUME NEW a \in TracksOfId(d, id), NEW b \in TracksOfId(d, id) PROVE a = b
    BY DEF TracksOfId, TracksUnique, ToSet
  <1>2. \A x : IsDocument(x) /\ id \in TrackIds(x) => Track(x, id) \in TracksOfId(x, id)
    <2>1. TAKE x
    <2>2. HAVE IsDocument(x) /\ id \in TrackIds(x)
    <2>3. FindTrack(x, id) \in DOMAIN x.tracks /\ x.tracks[FindTrack(x, id)].id = id
          /\ Track(x, id) = x.tracks[FindTrack(x, id)]
      BY <2>2, TrackFound
    <2>4. QED
      BY <2>3 DEF TracksOfId, ToSet
  <1>3. id \in TrackIds(e)
    <2>1. TracksOfId(d, id) # {}
      BY DEF TracksOfId, TrackIds
    <2>2. QED
      BY <2>1 DEF TracksOfId, TrackIds
  <1>4. QED
    BY <1>1, <1>2, <1>3

\* What a lock asks of an actor it blocks, once its scope stands in a document.
LEMMA ScopeStands ==
  ASSUME NEW d, IsDocument(d), ValidDocument(d), NEW e, IsDocument(e), ValidDocument(e), NEW lock \in ToSet(d.locks),
         Protected(d, e, lock.scope), NEW scope, scope = lock.scope
  PROVE  /\ scope.kind = "track" => Track(e, scope.trackId) = Track(d, scope.trackId)
         /\ scope.kind = "clip" => Clip(e, scope.clipId) = Clip(d, scope.clipId)
         /\ scope.kind = "property" => (scope.objectId \in ClipIds(d) =>
              Property(Clip(e, scope.objectId), scope.path) = Property(Clip(d, scope.objectId), scope.path))
         /\ scope.kind = "range" => Within(d, scope) \subseteq Within(e, scope)
         /\ scope.kind = "source_range" =>
              SourceShown(d, scope.assetId) \cap Instants(scope.range) \subseteq SourceShown(e, scope.assetId)
         /\ scope.kind \in ScopeKinds
  <1>1. IdsUnique(d) /\ TracksUnique(d) /\ IdsUnique(e)
    BY ValidUnique
  <1>2. scope.kind \in ScopeKinds
    BY DEF IsDocument, IsLock
  <1>3. /\ scope.kind = "track" => scope.trackId \in TrackIds(d)
        /\ scope.kind = "clip" => scope.clipId \in ClipIds(d)
    BY DEF ValidDocument
  <1>4. ASSUME scope.kind = "track" PROVE Track(e, scope.trackId) = Track(d, scope.trackId)
    <2>1. TracksOfId(e, scope.trackId) = TracksOfId(d, scope.trackId)
      BY <1>4 DEF Protected
    <2>2. QED
      BY <1>1, <1>3, <1>4, <2>1, TracksStand
  <1>5. ASSUME scope.kind = "clip" PROVE Clip(e, scope.clipId) = Clip(d, scope.clipId)
    <2> DEFINE id == scope.clipId
    <2>1. id \in ClipIds(d) /\ ClipsOfId(d, id) \subseteq ClipsOfId(e, id)
      BY <1>3, <1>5 DEF Protected
    <2>2. Clip(d, id) \in ClipsOfId(d, id)
      BY <2>1, FoundOfId
    <2>3. Clip(d, id) \in ClipsOfId(e, id) /\ Clip(e, id) \in ClipsOfId(e, id)
      BY <2>1, <2>2, FoundOfId
    <2>4. QED
      BY <1>1, <2>3, OneOfId
  <1>6. ASSUME scope.kind = "property", scope.objectId \in ClipIds(d)
        PROVE  Property(Clip(e, scope.objectId), scope.path) = Property(Clip(d, scope.objectId), scope.path)
    <2> DEFINE id == scope.objectId
    <2>1. PropertyStands(d, e, id, scope.path)
      BY <1>6 DEF Protected
    <2>2. ClipsOfId(d, id) # {} /\ Clip(d, id) \in ClipsOfId(d, id)
      BY <1>6, FoundOfId
    <2>3. /\ ClipsOfId(e, id) # {}
          /\ \A new \in ClipsOfId(e, id) : \E old \in ClipsOfId(d, id) : Property(new, scope.path) = Property(old, scope.path)
      BY <2>1, <2>2 DEF PropertyStands
    <2>4. Clip(e, id) \in ClipsOfId(e, id)
      BY <2>3, FoundOfId
    <2>5. PICK old \in ClipsOfId(d, id) : Property(Clip(e, id), scope.path) = Property(old, scope.path)
      BY <2>3, <2>4
    <2>6. old = Clip(d, id)
      BY <1>1, <2>2, OneOfId
    <2>7. QED
      BY <2>5, <2>6
  <1>7. scope.kind = "range" => Within(d, scope) \subseteq Within(e, scope)
    BY DEF Protected
  <1>8. scope.kind = "source_range" =>
          SourceShown(d, scope.assetId) \cap Instants(scope.range) \subseteq SourceShown(e, scope.assetId)
    BY DEF Protected, ShownOf
  <1>9. QED
    BY <1>2, <1>4, <1>5, <1>6, <1>7, <1>8

\* Locks hold: whatever operations a transaction combines, an actor a lock blocks
\* neither removes it nor changes what it protects, and a locked track stays.
THEOREM LocksHold == Spec => []ProtectedStays
  <1>1. ASSUME EngineInv PROVE ProtectedStays
    <2> SUFFICES ASSUME Recorded
                 PROVE  LET r == Newest IN
                   /\ \A track \in ToSet(r.before.tracks) : track.locked => track \in ToSet(r.after.tracks)
                   /\ \A lock \in ToSet(r.before.locks) :
                        LockBlocksActor(lock, r.actor) /\ lock.owner # r.actor.id =>
                          /\ lock \in ToSet(r.after.locks)
                          /\ LET scope == lock.scope
                             IN (\A op \in ToSet(r.ops) : ~Escapes(op, scope)) =>
                                CASE scope.kind = "track" -> Track(r.after, scope.trackId) = Track(r.before, scope.trackId)
                                  [] scope.kind = "clip" -> Clip(r.after, scope.clipId) = Clip(r.before, scope.clipId)
                                  [] scope.kind = "property" -> scope.objectId \in ClipIds(r.before) =>
                                       Property(Clip(r.after, scope.objectId), scope.path)
                                         = Property(Clip(r.before, scope.objectId), scope.path)
                                  [] scope.kind = "range" -> Within(r.before, scope) \subseteq Within(r.after, scope)
                                  [] scope.kind = "source_range" ->
                                       SourceShown(r.before, scope.assetId) \cap Instants(scope.range)
                                         \subseteq SourceShown(r.after, scope.assetId)
      BY DEF ProtectedStays
    <2> DEFINE r == Newest
               d == r.before
               e == r.after
    <2>1. RecordHolds(r)
      BY <1>1, NewestHolds
    <2> HIDE DEF r
    <2>2. /\ IsDocument(d) /\ ValidDocument(d) /\ IsDocument(e) /\ Keeps(d, e, r.actor, ToSet(r.ops))
      BY <2>1, RecordKeeps DEF RecordHolds
    <2>6. ValidDocument(e)
      <3>1. e = document
        BY <1>1, NewestHolds DEF r
      <3>2. QED
        BY <1>1, <3>1 DEF EngineInv, LedgerInv
    <2>3. \A track \in ToSet(d.tracks) : track.locked => track \in ToSet(e.tracks)
      BY <2>2 DEF Keeps
    <2>4. ASSUME NEW lock \in ToSet(d.locks), LockBlocksActor(lock, r.actor) /\ lock.owner # r.actor.id
          PROVE  /\ lock \in ToSet(e.locks)
                 /\ LET scope == lock.scope
                    IN (\A op \in ToSet(r.ops) : ~Escapes(op, scope)) =>
                       CASE scope.kind = "track" -> Track(e, scope.trackId) = Track(d, scope.trackId)
                         [] scope.kind = "clip" -> Clip(e, scope.clipId) = Clip(d, scope.clipId)
                         [] scope.kind = "property" -> scope.objectId \in ClipIds(d) =>
                              Property(Clip(e, scope.objectId), scope.path) = Property(Clip(d, scope.objectId), scope.path)
                         [] scope.kind = "range" -> Within(d, scope) \subseteq Within(e, scope)
                         [] scope.kind = "source_range" ->
                              SourceShown(d, scope.assetId) \cap Instants(scope.range) \subseteq SourceShown(e, scope.assetId)
      <3> DEFINE scope == lock.scope
      <3>0. lock \in ToSet(e.locks)
        BY <2>2, <2>4 DEF Keeps, Blocks
      <3> SUFFICES ASSUME \A op \in ToSet(r.ops) : ~Escapes(op, scope)
                   PROVE  CASE scope.kind = "track" -> Track(e, scope.trackId) = Track(d, scope.trackId)
                         [] scope.kind = "clip" -> Clip(e, scope.clipId) = Clip(d, scope.clipId)
                         [] scope.kind = "property" -> scope.objectId \in ClipIds(d) =>
                              Property(Clip(e, scope.objectId), scope.path) = Property(Clip(d, scope.objectId), scope.path)
                         [] scope.kind = "range" -> Within(d, scope) \subseteq Within(e, scope)
                         [] scope.kind = "source_range" ->
                              SourceShown(d, scope.assetId) \cap Instants(scope.range) \subseteq SourceShown(e, scope.assetId)
        BY <3>0
      <3>1. Protected(d, e, lock.scope)
        BY <2>2, <2>4 DEF Keeps, Blocks
      <3>2. scope = lock.scope
        OBVIOUS
      <3> HIDE DEF d, e, scope
      <3>3. /\ scope.kind = "track" => Track(e, scope.trackId) = Track(d, scope.trackId)
            /\ scope.kind = "clip" => Clip(e, scope.clipId) = Clip(d, scope.clipId)
            /\ scope.kind = "property" => (scope.objectId \in ClipIds(d) =>
                 Property(Clip(e, scope.objectId), scope.path) = Property(Clip(d, scope.objectId), scope.path))
            /\ scope.kind = "range" => Within(d, scope) \subseteq Within(e, scope)
            /\ scope.kind = "source_range" =>
                 SourceShown(d, scope.assetId) \cap Instants(scope.range) \subseteq SourceShown(e, scope.assetId)
            /\ scope.kind \in ScopeKinds
        BY <2>2, <2>6, <3>1, <3>2, ScopeStands
      <3>4. QED
        BY <3>3 DEF ScopeKinds
    <2>5. QED
      BY <2>3, <2>4 DEF r
  <1>2. QED
    BY <1>1, EngineAlwaysReplays, PTL

-----------------------------------------------------------------------------
(***************************************************************************)
(* What plays before and after a cut.                                      *)
(***************************************************************************)
PlayOf(clip, t) ==
  <<clip.asset, IF clip.src = NoRange THEN -1 ELSE clip.src.start + (t - clip.range.start), clip.look>>

\* A clip shows at t what another shows at u, and plays if the other does.
PlaysAs(p, t, c, u) ==
  t \in Instants(p.range) /\ u \in Instants(c.range) /\ PlayOf(p, t) = PlayOf(c, u) /\ p.enabled = c.enabled

\* Two tracks play the same at two instants when their clips there do.
LEMMA PlaysSame ==
  ASSUME NEW new, NEW old, NEW t, NEW u,
         \A p \in ToSet(new.clips) : t \in Instants(p.range) => \E c \in ToSet(old.clips) : PlaysAs(p, t, c, u),
         \A c \in ToSet(old.clips) : u \in Instants(c.range) => \E p \in ToSet(new.clips) : PlaysAs(p, t, c, u)
  PROVE  PlaysAt(new, t) = PlaysAt(old, u)
  <1>1. /\ PlaysAt(new, t) = {PlayOf(p, t) : p \in {c \in ToSet(new.clips) : c.enabled /\ t \in Instants(c.range)}}
        /\ PlaysAt(old, u) = {PlayOf(p, u) : p \in {c \in ToSet(old.clips) : c.enabled /\ u \in Instants(c.range)}}
    BY DEF PlaysAt, PlayOf
  <1>2. QED
    BY <1>1 DEF PlaysAs

\* Where a track stands does not depend on its clips.
LEMMA SameTrack ==
  ASSUME NEW d, IsDocument(d), NEW e, IsDocument(e), DOMAIN e.tracks = DOMAIN d.tracks,
         \A t \in DOMAIN d.tracks : e.tracks[t].id = d.tracks[t].id, NEW id \in TrackIds(d)
  PROVE  \E t \in DOMAIN d.tracks : d.tracks[t].id = id /\ Track(d, id) = d.tracks[t] /\ Track(e, id) = e.tracks[t]
  <1>1. FindTrack(e, id) = FindTrack(d, id)
    <2>1. {t \in DOMAIN e.tracks : e.tracks[t].id = id} = {t \in DOMAIN d.tracks : d.tracks[t].id = id}
      OBVIOUS
    <2>2. QED
      BY <2>1 DEF FindTrack
  <1>2. FindTrack(d, id) \in DOMAIN d.tracks /\ d.tracks[FindTrack(d, id)].id = id
    BY TrackFound
  <1>3. QED
    BY <1>1, <1>2 DEF Track

\* The two parts of a cut clip play together what the whole clip played.
LEMMA PartsPlay ==
  ASSUME NEW clip, IsClip(clip), ~ Warped(clip), NEW cut \in Int, 0 < cut, cut < clip.range.dur, NEW id,
         NEW left, left = LeftPart(clip, cut), NEW right, right = RightPart(clip, cut, id), NEW t
  PROVE  /\ t \in Instants(left.range) => PlaysAs(left, t, clip, t)
         /\ t \in Instants(right.range) => PlaysAs(right, t, clip, t)
         /\ t \in Instants(clip.range) => PlaysAs(left, t, clip, t) \/ PlaysAs(right, t, clip, t)
  <1> DEFINE a == clip.range.start
             n == clip.range.dur
  <1>1. a \in Int /\ n \in Int /\ clip.src.start \in Int /\ clip.src.dur \in Int /\ (clip.src # NoRange => clip.src.dur = n)
    BY RangeFacts DEF IsClip, Warped
  <1>2. /\ left.asset = clip.asset /\ left.look = clip.look /\ left.enabled = clip.enabled
        /\ left.range.start = a /\ left.range.dur = cut
        /\ clip.src = NoRange => left.src = NoRange
        /\ clip.src # NoRange => left.src.start = clip.src.start /\ left.src.dur = cut
    BY DEF LeftPart
  <1>3. /\ right.asset = clip.asset /\ right.look = clip.look /\ right.enabled = clip.enabled
        /\ right.range.start = a + cut /\ right.range.dur = n - cut
        /\ clip.src = NoRange => right.src = NoRange
        /\ clip.src # NoRange => right.src.start = clip.src.start + cut /\ right.src.dur = clip.src.dur - cut
    BY DEF RightPart
  <1>4. NoRange.dur = 0
    BY DEF NoRange
  <1>5. clip.src # NoRange => left.src # NoRange /\ right.src # NoRange
    BY <1>1, <1>2, <1>3, <1>4
  <1>6. /\ Instants(left.range) = a .. (a + cut) - 1 /\ Instants(clip.range) = a .. (a + n) - 1
        /\ Instants(right.range) = (a + cut) .. ((a + cut) + (n - cut)) - 1
    BY <1>2, <1>3 DEF Instants, RangeEnd
  <1> HIDE DEF a, n
  <1>7. t \in Int => /\ clip.src.start + (t - a) = left.src.start + (t - left.range.start) \/ clip.src = NoRange
                     /\ clip.src.start + (t - a) = right.src.start + (t - right.range.start) \/ clip.src = NoRange
    BY <1>1, <1>2, <1>3
  <1>8. t \in Int => PlayOf(left, t) = PlayOf(clip, t) /\ PlayOf(right, t) = PlayOf(clip, t)
    BY <1>2, <1>3, <1>5, <1>7 DEF PlayOf, a
  <1>9. QED
    <2>1. cut < n
      BY DEF n
    <2>2. /\ t \in Instants(left.range) => t \in Instants(clip.range) /\ t \in Int
          /\ t \in Instants(right.range) => t \in Instants(clip.range) /\ t \in Int
          /\ t \in Instants(clip.range) => t \in Int /\ (t \in Instants(left.range) \/ t \in Instants(right.range))
      BY <1>1, <1>6, <2>1
    <2>3. QED
      BY <1>2, <1>3, <1>8, <2>2 DEF PlaysAs

\* A split changes nothing that plays.
LEMMA SplitPlays ==
  ASSUME NEW d, IsDocument(d), NEW op, IsOperation(op), op.type = "clip.split",
         Resolves(d, op), NEW r, r = SplitClip(d, op), r.ok, NEW id \in TrackIds(d), NEW t
  PROVE  PlaysAt(Track(r.doc, id), t) = PlaysAt(Track(d, id), t)
  <1> DEFINE e == r.doc
             at == FindClip(d, op.clipId)
             clip == ClipAt(d, at)
             cut == op.at - clip.range.start
             clips == d.tracks[at.track].clips
             left == LeftPart(clip, cut)
             right == RightPart(clip, cut, op.rightClipId)
             put == PutAt(clips, at.index, left)
             s == Splice(put, at.index, right)
  <1>1. op.type \in OnClip /\ at = FindClip(d, op.clipId) /\ clip = ClipAt(d, at) /\ op.at \in Int
    BY DEF OnClip, IsOperation
  <1> HIDE DEF at, clip
  <1>2. /\ at.track \in DOMAIN d.tracks /\ at.index \in DOMAIN clips /\ clip = clips[at.index] /\ IsClip(clip)
        /\ clip \in ToSet(clips) /\ IsSequence(clips)
    BY <1>1, AffectedByClip
  <1>3. /\ ~ Warped(clip) /\ clip.range.start < op.at /\ op.at < RangeEnd(clip.range)
        /\ e = WithClips(d, at.track, s)
    <2>1. cut = op.at - clip.range.start /\ r = SplitClip(d, op) /\ r.ok
      OBVIOUS
    <2> HIDE DEF cut
    <2>2. IsClip(clip)
      BY <1>2
    <2>3. /\ ~ Warped(clip) /\ clip.range.start < op.at /\ op.at < RangeEnd(clip.range)
          /\ r.doc = WithClips(d, at.track,
                       Splice(PutAt(d.tracks[at.track].clips, at.index, LeftPart(clip, cut)), at.index,
                              RightPart(clip, cut, op.rightClipId)))
      BY ONLY <1>1, <2>1, <2>2, SplitShape, SMTT(30)
    <2>4. QED
      BY <2>3
  <1>4. clip.range.start \in Int /\ clip.range.dur \in Int
    BY <1>2, RangeFacts DEF IsClip
  <1>5. cut \in Int /\ 0 < cut /\ cut < clip.range.dur
    BY <1>1, <1>3, <1>4, SMTT(30) DEF RangeEnd
  <1>6. /\ t \in Instants(left.range) => PlaysAs(left, t, clip, t)
        /\ t \in Instants(right.range) => PlaysAs(right, t, clip, t)
        /\ t \in Instants(clip.range) => PlaysAs(left, t, clip, t) \/ PlaysAs(right, t, clip, t)
    <2>1. left = LeftPart(clip, cut) /\ right = RightPart(clip, cut, op.rightClipId)
      OBVIOUS
    <2> HIDE DEF cut, left, right
    <2>2. QED
      BY <1>2, <1>3, <1>5, <2>1, PartsPlay
  <1>7. /\ IsSequence(s) /\ left \in ToSet(s) /\ right \in ToSet(s)
        /\ ToSet(s) \subseteq ToSet(clips) \cup {left, right} /\ ToSet(clips) \subseteq ToSet(s) \cup {clip}
    <2> HIDE DEF left, right, clips
    <2>1. /\ IsSequence(put) /\ Len(put) = Len(clips)
          /\ ToSet(put) \subseteq ToSet(clips) \cup {left} /\ ToSet(clips) \subseteq ToSet(put) \cup {clips[at.index]}
          /\ left \in ToSet(put)
      BY <1>2, Replaced
    <2>2. at.index \in 0 .. Len(put)
      <3>1. DOMAIN clips = 1 .. Len(clips) /\ Len(clips) \in Nat
        BY <1>2, SequenceFacts
      <3> HIDE DEF put
      <3>2. QED
        BY <1>2, <2>1, <3>1
    <2> HIDE DEF put
    <2> DEFINE k == at.index
    <2>3. k \in 0 .. Len(put) /\ s = Splice(put, k, right)
      BY <2>2
    <2> HIDE DEF k, s
    <2>4. IsSequence(s) /\ ToSet(s) = ToSet(put) \cup {right}
      BY <2>1, <2>3, Spliced
    <2>5. QED
      BY <1>2, <2>1, <2>4
  <1>8. /\ IsDocument(e) /\ DOMAIN e.tracks = DOMAIN d.tracks
        /\ \A u \in DOMAIN d.tracks :
             /\ e.tracks[u].id = d.tracks[u].id
             /\ e.tracks[u].clips = IF u = at.track THEN s ELSE d.tracks[u].clips
    <2>1. IsClip(left) /\ IsClip(right)
      <3>1. left = LeftPart(clip, cut) /\ right = RightPart(clip, cut, op.rightClipId)
        OBVIOUS
      <3> HIDE DEF cut, left, right
      <3>2. QED
        BY <1>2, <1>3, <1>5, <3>1, PartsPlayAll
    <2>2. \A c \in ToSet(clips) : IsClip(c)
      BY <1>2, ClipIsOnTrack
    <2> HIDE DEF clips, left, right, s, e
    <2>3. \A i \in DOMAIN s : IsClip(s[i])
      BY <1>7, <2>1, <2>2 DEF ToSet
    <2>4. QED
      BY <1>2, <1>3, <1>7, <2>3, Reclipped, SMTT(30)
  <1>9. PICK u \in DOMAIN d.tracks : Track(d, id) = d.tracks[u] /\ Track(e, id) = e.tracks[u]
    BY <1>8, SameTrack
  <1> HIDE DEF e, left, right, s
  <1>10. CASE u = at.track
    <2>1. e.tracks[u].clips = s /\ d.tracks[u].clips = clips
      BY <1>8, <1>10
    <2>2. ASSUME NEW p \in ToSet(s), t \in Instants(p.range) PROVE \E c \in ToSet(clips) : PlaysAs(p, t, c, t)
      <3>1. p \in ToSet(clips) \/ p = left \/ p = right
        BY <1>7
      <3>2. p \in ToSet(clips) => PlaysAs(p, t, p, t)
        BY <2>2 DEF PlaysAs
      <3>3. QED
        BY <1>2, <1>6, <2>2, <3>1, <3>2
    <2>3. ASSUME NEW c \in ToSet(clips), t \in Instants(c.range) PROVE \E p \in ToSet(s) : PlaysAs(p, t, c, t)
      <3>1. c \in ToSet(s) \/ c = clip
        BY <1>7
      <3>2. PlaysAs(c, t, c, t)
        BY <2>3 DEF PlaysAs
      <3>3. QED
        BY <1>6, <1>7, <2>3, <3>1, <3>2
    <2> HIDE DEF clips
    <2>4. PlaysAt(e.tracks[u], t) = PlaysAt(d.tracks[u], t)
      <3> DEFINE new == e.tracks[u]
                 old == d.tracks[u]
      <3>1. new.clips = s /\ old.clips = clips
        BY <2>1
      <3> HIDE DEF new, old
      <3>2. PlaysAt(new, t) = PlaysAt(old, t)
        BY <2>2, <2>3, <3>1, PlaysSame
      <3>3. QED
        BY <3>2 DEF new, old
    <2>5. QED
      BY <1>9, <2>4 DEF e
  <1>11. CASE u # at.track
    <2>1. e.tracks[u].clips = d.tracks[u].clips
      BY <1>8, <1>11
    <2>2. QED
      BY <1>9, <2>1 DEF PlaysAt, e
  <1>12. QED
    BY <1>10, <1>11

\* Where what plays at t after a ripple deletion played before it.
Shifted(r, t) == IF t >= r.start THEN t + r.dur ELSE t

\* One clip and what is left of it.
LEMMA PiecesPlay ==
  ASSUME NEW clip, IsClip(clip), clip.range.dur > 0, NEW op, op.range \in TimeRange, op.range.dur > 0, NEW t \in Int,
         NEW u, u = Shifted(op.range, t)
  PROVE  /\ \A p \in ToSet(RipplePieces(clip, op)) : t \in Instants(p.range) => PlaysAs(p, t, clip, u)
         /\ u \in Instants(clip.range) => \E p \in ToSet(RipplePieces(clip, op)) : PlaysAs(p, t, clip, u)
  <1> DEFINE a == clip.range.start
             n == clip.range.dur
             b == op.range.start
             m == op.range.dur
             pieces == RipplePieces(clip, op)
  <1>1. a \in Int /\ n \in Int /\ b \in Int /\ m \in Int /\ clip.src.start \in Int /\ n > 0 /\ m > 0
    BY RangeFacts DEF IsClip
  <1>2. u = (IF t >= b THEN t + m ELSE t) /\ u \in Int
    BY <1>1 DEF Shifted
  <1>3. /\ Reached(clip, op.range) <=> (a < b + m /\ b < a + n) \/ a >= b + m
        /\ RangesOverlap(clip.range, op.range) <=> a < b + m /\ b < a + n
        /\ HasLeft(clip, op.range) <=> a < b
        /\ HasRight(clip, op.range) <=> a + n > b + m
        /\ Instants(clip.range) = a .. (a + n) - 1
    BY DEF Reached, RangesOverlap, RangeEnd, HasLeft, HasRight, Instants
  <1>4. NoRange.dur = 0
    BY DEF NoRange
  <1>5. CASE ~ Reached(clip, op.range)
    <2>1. pieces = <<clip>>
      BY <1>5, PiecesShape
    <2>2. ToSet(pieces) = {clip}
      BY <2>1, OneElement
    <2>3. /\ t \in Instants(clip.range) => u = t
          /\ u \in Instants(clip.range) => u = t
      <3> HIDE DEF a, b, m, n
      <3>1. a + n <= b
        BY <1>1, <1>3, <1>5
      <3>2. QED
        BY <1>1, <1>2, <1>3, <3>1
    <2> HIDE DEF pieces
    <2>4. QED
      BY <2>2, <2>3 DEF PlaysAs, pieces
  <1>6. CASE ~ RangesOverlap(clip.range, op.range) /\ Reached(clip, op.range)
    <2> DEFINE new == MovedTo(clip, a - m)
    <2>1. pieces = <<new>>
      BY <1>6, PiecesShape
    <2>2. new.asset = clip.asset /\ new.src = clip.src /\ new.look = clip.look /\ new.enabled = clip.enabled
          /\ new.range.start = a - m /\ new.range.dur = n
      BY DEF MovedTo
    <2> HIDE DEF new
    <2>3. ToSet(pieces) = {new}
      BY <2>1, OneElement
    <2>4. Instants(new.range) = (a - m) .. ((a - m) + n) - 1
      BY <2>2 DEF Instants, RangeEnd
    <2>5. /\ t \in Instants(new.range) => t >= b /\ u \in Instants(clip.range)
          /\ u \in Instants(clip.range) => t >= b /\ t \in Instants(new.range)
      <3> HIDE DEF a, b, m, n
      <3>1. a >= b + m
        BY <1>3, <1>6
      <3>2. QED
        BY <1>1, <1>2, <1>3, <2>4, <3>1
    <2>6. t >= b => clip.src.start + (t - (a - m)) = clip.src.start + (u - a)
      BY <1>1, <1>2
    <2>7. t >= b => PlayOf(new, t) = PlayOf(clip, u)
      BY <2>2, <2>6 DEF PlayOf
    <2> HIDE DEF pieces
    <2>8. QED
      BY <2>2, <2>3, <2>5, <2>7 DEF PlaysAs, pieces
  <1> DEFINE left == LeftOf(clip, op.range)
             Right(id) == RightOf(clip, op.range, id)
  <1>7. ASSUME RangesOverlap(clip.range, op.range), HasLeft(clip, op.range)
        PROVE  /\ t \in Instants(left.range) => PlaysAs(left, t, clip, u)
               /\ t < b /\ u \in Instants(clip.range) => PlaysAs(left, t, clip, u)
    <2>1. /\ left.asset = clip.asset /\ left.look = clip.look /\ left.enabled = clip.enabled
          /\ left.range.start = a /\ left.range.dur = b - a
          /\ clip.src = NoRange => left.src = NoRange
          /\ clip.src # NoRange => left.src.start = clip.src.start /\ left.src.dur = b - a
      BY LeftFacts
    <2> HIDE DEF left
    <2>2. a < b /\ b < a + n
      BY <1>3, <1>7
    <2> HIDE DEF a, b, m, n
    <2>3. clip.src # NoRange => left.src # NoRange
      BY <1>1, <1>4, <2>1, <2>2
    <2>4. Instants(left.range) = a .. (a + (b - a)) - 1
      BY <2>1 DEF Instants, RangeEnd
    <2>5. /\ t \in Instants(left.range) => u = t /\ t \in Instants(clip.range)
          /\ t < b /\ u \in Instants(clip.range) => u = t /\ t \in Instants(left.range)
      BY <1>1, <1>2, <1>3, <2>2, <2>4
    <2>6. PlayOf(left, t) = PlayOf(clip, t)
      BY <2>1, <2>3 DEF PlayOf, a
    <2>7. QED
      BY <2>1, <2>5, <2>6 DEF PlaysAs
  <1>8. ASSUME RangesOverlap(clip.range, op.range), HasRight(clip, op.range), NEW id
        PROVE  /\ t \in Instants(Right(id).range) => PlaysAs(Right(id), t, clip, u)
               /\ t >= b /\ u \in Instants(clip.range) => PlaysAs(Right(id), t, clip, u)
    <2> DEFINE right == Right(id)
    <2>0. right = RightOf(clip, op.range, id)
      OBVIOUS
    <2> HIDE DEF right
    <2>1. /\ right.asset = clip.asset /\ right.look = clip.look /\ right.enabled = clip.enabled
          /\ right.range.start = b /\ right.range.dur = (a + n) - (b + m)
          /\ clip.src = NoRange => right.src = NoRange
          /\ clip.src # NoRange => right.src.start = clip.src.start + ((b + m) - a) /\ right.src.dur = (a + n) - (b + m)
      BY <2>0, RightFacts DEF RangeEnd
    <2>2. a < b + m /\ b < a + n /\ a + n > b + m
      BY <1>3, <1>8
    <2> HIDE DEF a, b, m, n
    <2>3. clip.src # NoRange => right.src # NoRange
      BY <1>1, <1>4, <2>1, <2>2
    <2>4. Instants(right.range) = b .. (b + ((a + n) - (b + m))) - 1
      BY <2>1 DEF Instants, RangeEnd
    <2>5. /\ t \in Instants(right.range) => t >= b /\ u \in Instants(clip.range)
          /\ t >= b /\ u \in Instants(clip.range) => t \in Instants(right.range)
      BY <1>1, <1>2, <1>3, <2>2, <2>4
    <2>6. t >= b => (clip.src.start + ((b + m) - a)) + (t - b) = clip.src.start + (u - a)
      BY <1>1, <1>2
    <2>7. t >= b => PlayOf(right, t) = PlayOf(clip, u)
      BY <2>1, <2>3, <2>6 DEF PlayOf, a
    <2>8. /\ t \in Instants(right.range) => PlaysAs(right, t, clip, u)
          /\ t >= b /\ u \in Instants(clip.range) => PlaysAs(right, t, clip, u)
      BY <2>1, <2>5, <2>7 DEF PlaysAs
    <2>9. QED
      BY <2>8 DEF right
  <1> HIDE DEF left, Right
  <1>9. CASE RangesOverlap(clip.range, op.range)
    <2>1. CASE HasLeft(clip, op.range) /\ HasRight(clip, op.range)
      <3> DEFINE right == Right(op.right[clip.id])
      <3>1. pieces = <<left, right>>
        BY <1>9, <2>1, PiecesShape DEF left, Right
      <3>2. ToSet(pieces) = {left, right}
        BY <3>1, TwoElements
      <3>3. /\ t \in Instants(right.range) => PlaysAs(right, t, clip, u)
            /\ t >= b /\ u \in Instants(clip.range) => PlaysAs(right, t, clip, u)
        BY <1>8, <1>9, <2>1
      <3> HIDE DEF pieces, right
      <3>4. t >= b \/ t < b
        BY <1>1
      <3>5. QED
        BY <1>7, <1>9, <2>1, <3>2, <3>3, <3>4 DEF pieces
    <2>2. CASE HasLeft(clip, op.range) /\ ~ HasRight(clip, op.range)
      <3>1. pieces = <<left>>
        BY <1>9, <2>2, PiecesShape DEF left
      <3>2. ToSet(pieces) = {left}
        BY <3>1, OneElement
      <3>3. u \in Instants(clip.range) => t < b
        BY <1>1, <1>2, <1>3, <2>2
      <3> HIDE DEF pieces
      <3>4. QED
        BY <1>7, <1>9, <2>2, <3>2, <3>3 DEF pieces
    <2>3. CASE ~ HasLeft(clip, op.range) /\ HasRight(clip, op.range)
      <3> DEFINE right == Right(clip.id)
      <3>1. pieces = <<right>>
        BY <1>9, <2>3, PiecesShape DEF Right
      <3>2. ToSet(pieces) = {right}
        BY <3>1, OneElement
      <3>3. /\ t \in Instants(right.range) => PlaysAs(right, t, clip, u)
            /\ t >= b /\ u \in Instants(clip.range) => PlaysAs(right, t, clip, u)
        BY <1>8, <1>9, <2>3
      <3>4. u \in Instants(clip.range) => t >= b
        BY <1>1, <1>2, <1>3, <2>3
      <3> HIDE DEF pieces, right
      <3>5. QED
        BY <3>2, <3>3, <3>4 DEF pieces
    <2>4. CASE ~ HasLeft(clip, op.range) /\ ~ HasRight(clip, op.range)
      <3>1. pieces = <<>>
        BY <1>9, <2>4, PiecesShape
      <3>2. ToSet(pieces) = {}
        BY <3>1, EmptySequence
      <3>3. u \notin Instants(clip.range)
        <4> HIDE DEF a, b, m, n
        <4>1. b <= a /\ a + n <= b + m
          BY <1>1, <1>3, <2>4
        <4>2. QED
          BY <1>1, <1>2, <1>3, <4>1
      <3> HIDE DEF pieces
      <3>4. QED
        BY <3>2, <3>3 DEF pieces
    <2>5. QED
      BY <2>1, <2>2, <2>3, <2>4
  <1>10. QED
    BY <1>5, <1>6, <1>9 DEF Reached

\* A ripple deletion takes out what plays in the range, on the tracks it names.
LEMMA RipplePlays ==
  ASSUME NEW d, IsDocument(d), \A clip \in ClipsOf(d) : clip.range.dur > 0, NEW op, IsOperation(op),
         op.type = "range.deleteRipple",
         NEW r, r = RippleDelete(d, op), r.ok, NEW id \in TrackIds(d), NEW t \in Int,
         NEW u, u = IF id \in ToSet(op.trackIds) THEN Shifted(op.range, t) ELSE t
  PROVE  PlaysAt(Track(r.doc, id), t) = PlaysAt(Track(d, id), u)
  <1> DEFINE e == r.doc
  <1>1. op.range \in TimeRange
    BY DEF IsOperation
  <1>2. e = RippledDoc(d, op) /\ op.range.dur > 0
    BY RippleShape
  <1> HIDE DEF e
  <1>3. /\ IsDocument(e) /\ DOMAIN e.tracks = DOMAIN d.tracks
        /\ \A k \in DOMAIN d.tracks :
             /\ e.tracks[k].id = d.tracks[k].id
             /\ d.tracks[k].id \in ToSet(op.trackIds) => e.tracks[k].clips = RippleTrack(d.tracks[k].clips, op)
             /\ d.tracks[k].id \notin ToSet(op.trackIds) => e.tracks[k] = d.tracks[k]
    BY <1>1, <1>2, RippledDocument
  <1>4. PICK k \in DOMAIN d.tracks : d.tracks[k].id = id /\ Track(d, id) = d.tracks[k] /\ Track(e, id) = e.tracks[k]
    BY <1>3, SameTrack
  <1>5. CASE id \notin ToSet(op.trackIds)
    BY <1>3, <1>4, <1>5 DEF e
  <1>6. CASE id \in ToSet(op.trackIds)
    <2> DEFINE new == e.tracks[k]
               old == d.tracks[k]
    <2>1. new.clips = RippleTrack(old.clips, op) /\ IsSequence(old.clips)
          /\ \A c \in ToSet(old.clips) : IsClip(c) /\ c \in ClipsOf(d)
      BY <1>3, <1>4, <1>6, DocumentFacts, ClipIsOnTrack
    <2> HIDE DEF new, old
    <2>2. \A p : p \in ToSet(new.clips) <=> \E c \in ToSet(old.clips) : p \in ToSet(RipplePieces(c, op))
      BY <1>1, <2>1, RippledClips
    <2>3. u = Shifted(op.range, t)
      BY <1>6
    <2>4. ASSUME NEW c \in ToSet(old.clips)
          PROVE  /\ \A p \in ToSet(RipplePieces(c, op)) : t \in Instants(p.range) => PlaysAs(p, t, c, u)
                 /\ u \in Instants(c.range) => \E p \in ToSet(RipplePieces(c, op)) : PlaysAs(p, t, c, u)
      BY <1>1, <1>2, <2>1, <2>3, PiecesPlay
    <2>5. ASSUME NEW p \in ToSet(new.clips), t \in Instants(p.range) PROVE \E c \in ToSet(old.clips) : PlaysAs(p, t, c, u)
      BY <2>2, <2>4, <2>5
    <2>6. ASSUME NEW c \in ToSet(old.clips), u \in Instants(c.range) PROVE \E p \in ToSet(new.clips) : PlaysAs(p, t, c, u)
      BY <2>2, <2>4, <2>6
    <2>7. PlaysAt(new, t) = PlaysAt(old, u)
      BY <2>5, <2>6, PlaysSame
    <2>8. QED
      BY <1>4, <2>7 DEF new, old, e
  <1>7. QED
    BY <1>5, <1>6

\* A transaction of one operation is that operation.
LEMMA OneOperation ==
  ASSUME NEW r, RecordHolds(r), Len(r.ops) = 1, NEW op, op = r.ops[1]
  PROVE  /\ IsOperation(op) /\ Resolves(r.before, op) /\ OperationUnlocked(r.before, r.actor, op)
         /\ ApplyOperation(r.before, op).ok /\ r.after = ApplyOperation(r.before, op).doc
  <1> DEFINE none == Done(r.before, <<>>)
             one == ApplyOperation(r.before, op)
             result == ApplyAll(r.before, r.actor, r.ops)
  <1>1. result.ok /\ r.after = result.doc
    BY DEF RecordHolds, Replays
  <1>2. r.ops \in Seq(ToSet(r.ops)) /\ \A x \in ToSet(r.ops) : IsOperation(x)
    BY DEF RecordHolds, TypedInverse, IsSequence
  <1>3. op \in ToSet(r.ops)
    BY <1>2 DEF ToSet
  <1>4. r.ops = Append(<<>>, op)
    <2> DEFINE s == Append(<<>>, op)
    <2>1. s \in Seq(ToSet(r.ops)) /\ Len(s) = 1 /\ s[1] = op
      BY <1>3
    <2> HIDE DEF s
    <2>2. r.ops = s
      BY <1>2, <2>1, SeqEqual
    <2>3. QED
      BY <2>2 DEF s
  <1>5. result = ApplyNext(none, r.actor, op)
    <2> DEFINE s == <<>>
               b == r.before
               actor == r.actor
    <2>1. s \in Seq({op}) /\ op \in {op}
      OBVIOUS
    <2> HIDE DEF s, b, actor
    <2>4. ApplyAll(b, actor, <<>>) = Done(b, <<>>)
          /\ ApplyAll(b, actor, Append(s, op)) = ApplyNext(ApplyAll(b, actor, s), actor, op)
      BY ONLY <2>1, ApplyAppend
    <2>2. ApplyAll(r.before, r.actor, <<>>) = Done(r.before, <<>>)
          /\ ApplyAll(r.before, r.actor, Append(<<>>, op)) = ApplyNext(ApplyAll(r.before, r.actor, <<>>), r.actor, op)
      BY <2>4 DEF s, b, actor
    <2>3. QED
      BY <1>4, <2>2
  <1>6. none.ok /\ none.doc = r.before /\ none.inverse = <<>> /\ ~ Refused.ok
    BY DEF Done, Refused
  <1> HIDE DEF none, one, result
  <1>7. Resolves(r.before, op) /\ OperationUnlocked(r.before, r.actor, op) /\ one.ok /\ result.doc = one.doc
    BY <1>1, <1>5, <1>6 DEF ApplyNext, one, Done
  <1>8. QED
    BY <1>1, <1>2, <1>3, <1>7 DEF one

\* The two cuts lose, repeat and move nothing: see CutsAreExact.
THEOREM CutsExact == Spec => []CutsAreExact
  <1>1. ASSUME EngineInv PROVE CutsAreExact
    <2> DEFINE r == Newest
               op == r.ops[1]
               End == Max({0} \cup {RangeEnd(clip.range) : clip \in ClipsOf(r.before)})
               Shift(id, t) == IF op.type = "range.deleteRipple"
                               THEN IF id \in ToSet(op.trackIds) /\ t >= op.range.start THEN t + op.range.dur ELSE t
                               ELSE t
    <2> SUFFICES ASSUME Recorded, Len(r.ops) = 1, op.type \in {"clip.split", "range.deleteRipple"},
                        NEW id \in TrackIds(r.before), NEW t \in 0 .. End
                 PROVE  PlaysAt(Track(r.after, id), t) = PlaysAt(Track(r.before, id), Shift(id, t))
      BY DEF CutsAreExact
    <2>1. RecordHolds(r)
      BY <1>1, NewestHolds
    <2>2. t \in Int
      OBVIOUS
    <2> DEFINE d == r.before
               one == ApplyOperation(d, op)
    <2>3. op = r.ops[1]
      OBVIOUS
    <2> HIDE DEF r, op, End
    <2>4. /\ IsOperation(op) /\ Resolves(d, op) /\ one.ok /\ r.after = one.doc
      BY <2>1, <2>3, OneOperation
    <2>5. IsDocument(d) /\ \A clip \in ClipsOf(d) : clip.range.dur > 0
      BY <2>1, ValidUnique DEF RecordHolds
    <2> HIDE DEF d
    <2>6. CASE op.type = "clip.split"
      <3>1. one = SplitClip(d, op)
        BY <2>6 DEF ApplyOperation
      <3> HIDE DEF one
      <3>2. PlaysAt(Track(one.doc, id), t) = PlaysAt(Track(d, id), t)
        BY <2>4, <2>5, <2>6, <3>1, SplitPlays DEF d
      <3>3. Shift(id, t) = t
        BY <2>6
      <3>4. QED
        BY <2>4, <3>2, <3>3 DEF d
    <2>7. CASE op.type = "range.deleteRipple"
      <3>1. one = RippleDelete(d, op)
        BY <2>7 DEF ApplyOperation
      <3> DEFINE u == IF id \in ToSet(op.trackIds) THEN Shifted(op.range, t) ELSE t
      <3>2. u = Shift(id, t)
        BY <2>7 DEF Shifted
      <3>3. u = IF id \in ToSet(op.trackIds) THEN Shifted(op.range, t) ELSE t
        OBVIOUS
      <3> HIDE DEF one, u, Shift
      <3>4. PlaysAt(Track(one.doc, id), t) = PlaysAt(Track(d, id), u)
        BY <2>2, <2>4, <2>5, <2>7, <3>1, <3>3, RipplePlays DEF d
      <3>5. QED
        BY <2>4, <3>2, <3>4 DEF d
    <2>8. QED
      BY <2>6, <2>7
  <1>2. QED
    BY <1>1, EngineAlwaysReplays, PTL

-----------------------------------------------------------------------------
(***************************************************************************)
(* What taking operations back restores.                                   *)
(***************************************************************************)
\* The operations, when none is refused, make y of x.
Reaches(x, actor, ops, y) == ApplyAll(x, actor, ops).ok => ApplyAll(x, actor, ops).doc = y

\* When one more operation of a run is applied, and what it makes.
LEMMA AppliedNext ==
  ASSUME NEW result, NEW actor, NEW op, NEW new, new = ApplyNext(result, actor, op)
  PROVE  /\ new.ok <=> /\ result.ok /\ Resolves(result.doc, op) /\ OperationUnlocked(result.doc, actor, op)
                       /\ ApplyOperation(result.doc, op).ok
         /\ new.ok => new.doc = ApplyOperation(result.doc, op).doc
  <1>1. ~ Refused.ok
    BY DEF Refused
  <1> DEFINE one == ApplyOperation(result.doc, op)
             Fits == Resolves(result.doc, op) /\ OperationUnlocked(result.doc, actor, op) /\ one.ok
             inverse == one.inverse \o result.inverse
  <1>2. new = IF result.ok /\ Fits THEN Done(one.doc, inverse) ELSE Refused
    BY DEF ApplyNext
  <1>3. Done(one.doc, inverse).ok /\ Done(one.doc, inverse).doc = one.doc
    BY DEF Done
  <1> HIDE DEF one, inverse
  <1>4. (new.ok <=> result.ok /\ Fits) /\ (new.ok => new.doc = one.doc)
    <2> HIDE DEF Fits
    <2>1. CASE result.ok /\ Fits
      BY <1>2, <1>3, <2>1
    <2>2. CASE ~ (result.ok /\ Fits)
      BY <1>1, <1>2, <2>2
    <2>3. QED
      BY <2>1, <2>2
  <1>5. QED
    BY <1>4 DEF one

\* A run of no operations leaves the document alone.
LEMMA AppliedNone ==
  ASSUME NEW x, NEW actor
  PROVE  ApplyAll(x, actor, <<>>).ok /\ ApplyAll(x, actor, <<>>).doc = x
  <1>1. ApplyAll(x, actor, <<>>) = Done(x, <<>>)
    <2>1. <<>> \in Seq({0}) /\ 0 \in {0}
      OBVIOUS
    <2>2. QED
      BY <2>1, ApplyAppend
  <1>2. QED
    BY <1>1 DEF Done

\* A run is a run of its first operations and then of the others.
Splits(x, actor, a, b, c) ==
  ApplyAll(x, actor, c).ok =>
    /\ ApplyAll(x, actor, a).ok
    /\ ApplyAll(ApplyAll(x, actor, a).doc, actor, b).ok
    /\ ApplyAll(x, actor, c).doc = ApplyAll(ApplyAll(x, actor, a).doc, actor, b).doc

\* A run of two sequences in a row is a run of the second on the first's result.
LEMMA RunSplit ==
  ASSUME NEW x, NEW actor, NEW a, IsSequence(a), NEW b, IsSequence(b), NEW c, c = a \o b
  PROVE  Splits(x, actor, a, b, c)
  <1> DEFINE E == ToSet(a) \cup ToSet(b)
             first == ApplyAll(x, actor, a)
             both(s) == ApplyAll(x, actor, a \o s)
             second(s) == ApplyAll(first.doc, actor, s)
             Bad == {s \in Seq(E) : ~ (both(s).ok => first.ok /\ second(s).ok /\ both(s).doc = second(s).doc)}
  <1>1. a \in Seq(E) /\ b \in Seq(E)
    BY SequencesGrow
  <1> HIDE DEF E
  <1>ax. \A z, s, e : s \in Seq(E) /\ e \in E =>
           ApplyAll(z, actor, Append(s, e)) = ApplyNext(ApplyAll(z, actor, s), actor, e)
    <2> SUFFICES ASSUME NEW z, NEW s \in Seq(E), NEW e \in E
                 PROVE  ApplyAll(z, actor, Append(s, e)) = ApplyNext(ApplyAll(z, actor, s), actor, e)
      OBVIOUS
    <2>1. QED
      BY ApplyAppend
  <1>2. <<>> \notin Bad
    <2>1. a \o <<>> = a
      BY <1>1
    <2>2. second(<<>>).ok /\ second(<<>>).doc = first.doc
      BY AppliedNone
    <2>3. QED
      BY <2>1, <2>2
  <1>3. ASSUME NEW s \in Seq(E), NEW e \in E, s \notin Bad PROVE Append(s, e) \notin Bad
    <2> DEFINE u == Append(s, e)
    <2>1. a \o u = Append(a \o s, e) /\ a \o s \in Seq(E)
      BY <1>1
    <2>2. both(u) = ApplyNext(both(s), actor, e)
      <3> DEFINE w == a \o s
      <3>1. a \o u = Append(w, e) /\ w \in Seq(E) /\ e \in E
        BY <2>1
      <3> HIDE DEF w
      <3>2. ApplyAll(x, actor, Append(w, e)) = ApplyNext(ApplyAll(x, actor, w), actor, e)
        BY <3>1, <1>ax
      <3>3. ApplyAll(x, actor, a \o u) = ApplyNext(ApplyAll(x, actor, w), actor, e)
        BY <3>1, <3>2
      <3>4. QED
        BY <3>3 DEF w
    <2>3. second(u) = ApplyNext(second(s), actor, e)
      BY ApplyAppend
    <2>4. both(s).ok => first.ok /\ second(s).ok /\ both(s).doc = second(s).doc
      BY <1>3
    <2> HIDE DEF u, both, second, first
    <2>5. /\ both(u).ok <=> /\ both(s).ok /\ Resolves(both(s).doc, e) /\ OperationUnlocked(both(s).doc, actor, e)
                            /\ ApplyOperation(both(s).doc, e).ok
          /\ both(u).ok => both(u).doc = ApplyOperation(both(s).doc, e).doc
      BY <2>2, AppliedNext
    <2>6. /\ second(u).ok <=> /\ second(s).ok /\ Resolves(second(s).doc, e) /\ OperationUnlocked(second(s).doc, actor, e)
                              /\ ApplyOperation(second(s).doc, e).ok
          /\ second(u).ok => second(u).doc = ApplyOperation(second(s).doc, e).doc
      BY <2>3, AppliedNext
    <2>7. both(u).ok => first.ok /\ second(u).ok /\ both(u).doc = second(u).doc
      BY <2>4, <2>5, <2>6
    <2>8. QED
      BY <2>7 DEF u
  <1>4. Bad \in SUBSET Seq(E)
    OBVIOUS
  <1>5. Bad = {}
    <2> HIDE DEF Bad
    <2>1. QED
      BY <1>2, <1>3, <1>4, SequenceInduction
  <1>6. both(b).ok => first.ok /\ second(b).ok /\ both(b).doc = second(b).doc
    BY <1>1, <1>5
  <1>7. QED
    BY <1>6 DEF Splits

\* No operations lead where they started.
LEMMA ReachesNone ==
  ASSUME NEW x, NEW actor
  PROVE  Reaches(x, actor, <<>>, x)
  BY AppliedNone DEF Reaches

\* Two sequences in a row lead on from where the first led.
LEMMA ReachesOn ==
  ASSUME NEW x, NEW actor, NEW a, IsSequence(a), NEW b, IsSequence(b), NEW c, c = a \o b,
         NEW y, Reaches(x, actor, a, y), NEW z, Reaches(y, actor, b, z)
  PROVE  Reaches(x, actor, c, z)
  <1> SUFFICES ASSUME ApplyAll(x, actor, c).ok PROVE ApplyAll(x, actor, c).doc = z
    BY DEF Reaches
  <1>1. /\ ApplyAll(x, actor, a).ok
        /\ ApplyAll(ApplyAll(x, actor, a).doc, actor, b).ok
        /\ ApplyAll(x, actor, c).doc = ApplyAll(ApplyAll(x, actor, a).doc, actor, b).doc
    <2>1. IsSequence(a) /\ IsSequence(b) /\ c = a \o b
      OBVIOUS
    <2>2. Splits(x, actor, a, b, c)
      BY ONLY <2>1, RunSplit
    <2>3. QED
      BY <2>2 DEF Splits
  <1>2. ApplyAll(x, actor, a).doc = y
    BY <1>1 DEF Reaches
  <1>3. QED
    BY <1>1, <1>2 DEF Reaches

\* One operation leads where applying it does.
LEMMA ReachesOne ==
  ASSUME NEW x, NEW actor, NEW op, NEW y,
         NEW one, one = ApplyOperation(x, op), Resolves(x, op) /\ one.ok => one.doc = y
  PROVE  Reaches(x, actor, <<op>>, y)
  <1> DEFINE s == <<>>
  <1>1. s \in Seq({op}) /\ op \in {op} /\ Append(s, op) = <<op>>
    OBVIOUS
  <1>ap. ApplyAll(x, actor, Append(s, op)) = ApplyNext(ApplyAll(x, actor, s), actor, op)
    <2> HIDE DEF s
    <2>1. s \in Seq({op}) /\ op \in {op}
      BY <1>1
    <2>2. QED
      BY ONLY <2>1, ApplyAppend
  <1>2. ApplyAll(x, actor, s).ok /\ ApplyAll(x, actor, s).doc = x
    BY AppliedNone
  <1> HIDE DEF s
  <1> DEFINE none == ApplyAll(x, actor, s)
             new == ApplyAll(x, actor, <<op>>)
  <1>3. new = ApplyNext(none, actor, op)
    BY <1>1, <1>ap
  <1>4. none.ok /\ none.doc = x
    BY <1>2
  <1> HIDE DEF none, new
  <1>5. new.ok => Resolves(x, op) /\ one.ok /\ new.doc = one.doc
    BY <1>3, <1>4, AppliedNext
  <1>6. QED
    BY <1>5 DEF Reaches, new

\* An operation taken back: its inverse operations, whoever commits them, give the
\* document it was applied to.
Undone(d, r, actor) == Reaches(r.doc, actor, r.inverse, d)

\* A part of a document changed and changed back.
LEMMA PartsBack ==
  ASSUME NEW d, IsDocument(d), NEW s
  PROVE  /\ \A list \in {"assets", "artifacts"} :
              WithList(d, list, s)[list] = s /\ WithList(WithList(d, list, s), list, d[list]) = d
         /\ WithLocks(d, s).locks = s /\ WithLocks(WithLocks(d, s), d.locks) = d
         /\ WithTracks(d, s).tracks = s /\ WithTracks(WithTracks(d, s), d.tracks) = d
  <1>1. d = [tracks |-> d.tracks, locks |-> d.locks, assets |-> d.assets, artifacts |-> d.artifacts]
    BY DEF IsDocument
  <1>2. ASSUME NEW list \in {"assets", "artifacts"}
        PROVE  WithList(d, list, s)[list] = s /\ WithList(WithList(d, list, s), list, d[list]) = d
    BY <1>1 DEF WithList
  <1>3. WithLocks(d, s).locks = s /\ WithLocks(WithLocks(d, s), d.locks) = d
    BY <1>1 DEF WithLocks
  <1>4. WithTracks(d, s).tracks = s /\ WithTracks(WithTracks(d, s), d.tracks) = d
    BY <1>1 DEF WithTracks
  <1>5. QED
    BY <1>2, <1>3, <1>4

\* It is enough that the one inverse operation, if not refused, gives the document.
LEMMA UndoneByOne ==
  ASSUME NEW d, NEW r, NEW actor, NEW op, r.inverse = <<op>>, NEW one, one = ApplyOperation(r.doc, op),
         Resolves(r.doc, op) /\ one.ok => one.doc = d
  PROVE  Undone(d, r, actor)
  <1> DEFINE x == r.doc
  <1>1. one = ApplyOperation(x, op) /\ (Resolves(x, op) /\ one.ok => one.doc = d)
    OBVIOUS
  <1> HIDE DEF x
  <1>2. Reaches(x, actor, <<op>>, d)
    BY <1>1, ReachesOne
  <1>3. QED
    BY <1>2 DEF Undone, x

\* The inverse of library.put restores the document.
LEMMA PutObjectUndone ==
  ASSUME NEW d, IsDocument(d), NEW op, IsOperation(op), op.type = "library.put",
         NEW r, r = PutObject(d, op), r.ok, NEW actor
  PROVE  Undone(d, r, actor)
  <1> DEFINE e == r.doc
             list == op.list
             undo == RemoveObjectOp(list, op.object)
             one == ApplyOperation(e, undo)
  <1>1. /\ IsDocument(e) /\ op.object \notin ObjectIds(d) /\ CanInsert(op.index, d[list]) /\ list \in {"assets", "artifacts"}
        /\ e = WithList(d, list, Splice(d[list], op.index, op.object))
        /\ r.inverse = <<undo>>
    BY PutObjectKeeps
  <1>2. /\ IsOperation(undo) /\ undo.type = "library.remove" /\ undo.list = list /\ undo.object = op.object
        /\ one = RemoveObject(e, undo)
    BY <1>1 DEF RemoveObjectOp, IsOperation, OperationTypes, ApplyOperation
  <1>3. IsSequence(d[list]) /\ op.index \in 0 .. Len(d[list]) /\ op.object \notin ToSet(d[list])
    BY <1>1 DEF IsDocument, CanInsert, ObjectIds, AssetIds
  <1> DEFINE s == Splice(d[list], op.index, op.object)
  <1>4. e[list] = s /\ WithList(e, list, d[list]) = d
    BY <1>1, PartsBack
  <1> HIDE DEF e, undo, one
  <1>5. ASSUME one.ok PROVE one.doc = d
    <2>1. PICK i \in DOMAIN e[list] : e[list][i] = op.object /\ one.doc = WithList(e, list, RemoveAt(e[list], i))
      <3>1. \E i \in DOMAIN e[undo.list] :
              /\ e[undo.list][i] = undo.object
              /\ one.doc = WithList(e, undo.list, RemoveAt(e[undo.list], i))
        BY <1>1, <1>2, <1>5, RemoveObjectKeeps
      <3>2. QED
        BY <3>1, <1>2
    <2> DEFINE m == d[list]
               k == op.index
               o == op.object
    <2>2. /\ DOMAIN s = 1 .. Len(m) + 1 /\ RemoveAt(s, k + 1) = m /\ Len(m) \in Nat /\ DOMAIN m = 1 .. Len(m)
          /\ \A j \in 1 .. Len(m) + 1 : s[j] = IF j <= k THEN m[j] ELSE IF j = k + 1 THEN o ELSE m[j - 1]
          /\ \A j \in 1 .. Len(m) : m[j] \in ToSet(m)
      <3>1. IsSequence(m) /\ k \in 0 .. Len(m)
        BY <1>3
      <3> HIDE DEF m, k, o
      <3>2. /\ IsSequence(Splice(m, k, o)) /\ Len(Splice(m, k, o)) = Len(m) + 1 /\ RemoveAt(Splice(m, k, o), k + 1) = m
            /\ \A j \in 1 .. Len(m) + 1 :
                 Splice(m, k, o)[j] = IF j <= k THEN m[j] ELSE IF j = k + 1 THEN o ELSE m[j - 1]
        BY <3>1, Spliced
      <3>3. Len(m) \in Nat /\ DOMAIN m = 1 .. Len(m) /\ \A j \in 1 .. Len(m) : m[j] \in ToSet(m)
        BY <3>1, SequenceFacts
      <3>4. DOMAIN Splice(m, k, o) = 1 .. Len(m) + 1
        BY <3>2, SequenceFacts
      <3>5. s = Splice(m, k, o)
        BY DEF m, k, o
      <3>6. QED
        BY <3>2, <3>3, <3>4, <3>5
    <2>3. i = k + 1
      <3>1. o \notin ToSet(m) /\ k \in 0 .. Len(m) /\ i \in DOMAIN s /\ s[i] = o
        BY <1>3, <1>4, <2>1
      <3> HIDE DEF m, k, o, s
      <3>2. QED
        BY <2>2, <3>1
    <2>4. QED
      BY <1>4, <2>1, <2>2, <2>3
  <1>6. QED
    BY <1>1, <1>5, UndoneByOne DEF e, one

\* The inverse of library.remove restores the document.
LEMMA RemoveObjectUndone ==
  ASSUME NEW d, IsDocument(d), NEW op, IsOperation(op), op.type = "library.remove",
         NEW r, r = RemoveObject(d, op), r.ok, NEW actor
  PROVE  Undone(d, r, actor)
  <1> DEFINE e == r.doc
             list == op.list
  <1>1. IsDocument(e) /\ list \in {"assets", "artifacts"}
    BY RemoveObjectKeeps
  <1>2. PICK i \in DOMAIN d[list] :
          /\ d[list][i] = op.object /\ e = WithList(d, list, RemoveAt(d[list], i))
          /\ r.inverse = <<PutObjectOp(list, op.object, i - 1)>>
    BY RemoveObjectKeeps
  <1> DEFINE undo == PutObjectOp(list, op.object, i - 1)
             one == ApplyOperation(e, undo)
  <1>3. /\ IsOperation(undo) /\ undo.type = "library.put" /\ undo.list = list /\ undo.object = op.object /\ undo.index = i - 1
        /\ one = PutObject(e, undo)
    BY <1>1 DEF PutObjectOp, IsOperation, OperationTypes, ApplyOperation
  <1>4. e[list] = RemoveAt(d[list], i) /\ WithList(e, list, d[list]) = d
    BY <1>1, <1>2, PartsBack
  <1>5. Splice(RemoveAt(d[list], i), i - 1, d[list][i]) = d[list]
    <2> DEFINE m == d[list]
    <2>1. IsSequence(m) /\ i \in DOMAIN m
      BY <1>1 DEF IsDocument
    <2> HIDE DEF m
    <2>2. Splice(RemoveAt(m, i), i - 1, m[i]) = m
      BY <2>1, Taken
    <2>3. QED
      BY <2>2 DEF m
  <1> HIDE DEF e, undo, one
  <1>6. ASSUME one.ok PROVE one.doc = d
    <2>1. one.doc = WithList(e, undo.list, Splice(e[undo.list], undo.index, undo.object))
      BY <1>1, <1>3, <1>6, PutObjectKeeps
    <2>2. QED
      BY <2>1, <1>2, <1>3, <1>4, <1>5
  <1>7. QED
    BY <1>2, <1>6, UndoneByOne DEF e, one, undo

\* The inverse of lock.add restores the document.
LEMMA AddLockUndone ==
  ASSUME NEW d, IsDocument(d), NEW op, IsOperation(op), op.type = "lock.add",
         NEW r, r = AddLock(d, op), r.ok, IdsUnique(r.doc), NEW actor
  PROVE  Undone(d, r, actor)
  <1> DEFINE e == r.doc
             k == op.index
             id == op.lock.id
             undo == RemoveLockOp(id)
             one == ApplyOperation(e, undo)
  <1>1. /\ IsDocument(e) /\ CanInsert(k, d.locks)
        /\ e = WithLocks(d, Splice(d.locks, k, op.lock))
        /\ r.inverse = <<undo>>
    BY AddLockKeeps
  <1>2. /\ IsOperation(undo) /\ undo.type = "lock.remove" /\ undo.lockId = id
        /\ one = RemoveLock(e, undo)
    BY <1>1 DEF RemoveLockOp, IsOperation, OperationTypes, ApplyOperation
  <1>3. IsSequence(d.locks) /\ k \in 0 .. Len(d.locks)
    BY <1>1 DEF IsDocument, CanInsert
  <1>4. e.locks = Splice(d.locks, k, op.lock) /\ WithLocks(e, d.locks) = d
    BY <1>1, PartsBack
  <1>5. /\ k + 1 \in DOMAIN e.locks /\ e.locks[k + 1] = op.lock
        /\ RemoveAt(e.locks, k + 1) = d.locks
    <2> DEFINE m == d.locks
    <2> HIDE DEF m, k
    <2>1. /\ k + 1 \in DOMAIN Splice(m, k, op.lock) /\ Splice(m, k, op.lock)[k + 1] = op.lock
          /\ RemoveAt(Splice(m, k, op.lock), k + 1) = m
      <3>1. IsSequence(m) /\ k \in 0 .. Len(m)
        BY <1>3 DEF m
      <3>2. QED
        BY <3>1, Spliced
    <2>2. QED
      BY <1>4, <2>1 DEF m
  <1> HIDE DEF e, undo, one, k
  <1>6. ASSUME Resolves(e, undo) PROVE one.doc = d
    <2>1. FindLock(e, id) = k + 1
      BY <1>1, <1>5, LockFoundAt DEF e
    <2>2. PICK i \in DOMAIN e.locks : i = FindLock(e, undo.lockId) /\ one.doc = WithLocks(e, RemoveAt(e.locks, i))
      BY <1>1, <1>2, <1>6, RemoveLockKeeps
    <2>3. QED
      BY <1>2, <1>4, <1>5, <2>1, <2>2
  <1>7. QED
    BY <1>1, <1>6, UndoneByOne DEF e, one

\* The inverse of lock.remove restores the document.
LEMMA RemoveLockUndone ==
  ASSUME NEW d, IsDocument(d), NEW op, IsOperation(op), op.type = "lock.remove", Resolves(d, op),
         NEW r, r = RemoveLock(d, op), NEW actor
  PROVE  Undone(d, r, actor)
  <1> DEFINE e == r.doc
  <1>1. IsDocument(e)
    BY RemoveLockKeeps
  <1>2. PICK i \in DOMAIN d.locks :
          /\ e = WithLocks(d, RemoveAt(d.locks, i))
          /\ r.inverse = <<AddLockOp(d.locks[i], i - 1)>>
    BY RemoveLockKeeps
  <1> DEFINE undo == AddLockOp(d.locks[i], i - 1)
             one == ApplyOperation(e, undo)
  <1>3. IsSequence(d.locks) /\ IsLock(d.locks[i])
    BY DocumentFacts
  <1>4. /\ IsOperation(undo) /\ undo.type = "lock.add" /\ undo.lock = d.locks[i] /\ undo.index = i - 1
        /\ one = AddLock(e, undo)
    BY <1>3 DEF AddLockOp, IsOperation, OperationTypes, ApplyOperation
  <1>5. e.locks = RemoveAt(d.locks, i) /\ WithLocks(e, d.locks) = d
    BY <1>2, PartsBack
  <1>6. Splice(RemoveAt(d.locks, i), i - 1, d.locks[i]) = d.locks
    BY <1>3, Taken
  <1> HIDE DEF e, undo, one
  <1>7. ASSUME one.ok PROVE one.doc = d
    <2>1. one.doc = WithLocks(e, Splice(e.locks, undo.index, undo.lock))
      BY <1>1, <1>4, <1>7, AddLockKeeps
    <2>2. QED
      BY <2>1, <1>4, <1>5, <1>6
  <1>8. QED
    BY <1>2, <1>7, UndoneByOne DEF e, one, undo

\* The inverse of track.add restores the document.
LEMMA AddTrackUndone ==
  ASSUME NEW d, IsDocument(d), NEW op, IsOperation(op), op.type = "track.add",
         NEW r, r = AddTrack(d, op), r.ok, IdsUnique(r.doc), NEW actor
  PROVE  Undone(d, r, actor)
  <1> DEFINE e == r.doc
             k == op.index
             id == op.track.id
             undo == RemoveTrackOp(id)
             one == ApplyOperation(e, undo)
  <1>1. /\ IsDocument(e) /\ CanInsert(k, d.tracks)
        /\ e = WithTracks(d, Splice(d.tracks, k, op.track))
        /\ r.inverse = <<undo>>
    BY AddTrackKeeps
  <1>2. /\ IsOperation(undo) /\ undo.type = "track.remove" /\ undo.trackId = id
        /\ one = RemoveTrack(e, undo)
    BY <1>1 DEF RemoveTrackOp, IsOperation, OperationTypes, ApplyOperation
  <1>3. IsSequence(d.tracks) /\ k \in 0 .. Len(d.tracks)
    BY <1>1 DEF IsDocument, CanInsert
  <1>4. e.tracks = Splice(d.tracks, k, op.track) /\ WithTracks(e, d.tracks) = d
    BY <1>1, PartsBack
  <1>5. /\ k + 1 \in DOMAIN e.tracks /\ e.tracks[k + 1] = op.track
        /\ RemoveAt(e.tracks, k + 1) = d.tracks
    <2> DEFINE m == d.tracks
    <2> HIDE DEF m, k
    <2>1. /\ k + 1 \in DOMAIN Splice(m, k, op.track) /\ Splice(m, k, op.track)[k + 1] = op.track
          /\ RemoveAt(Splice(m, k, op.track), k + 1) = m
      <3>1. IsSequence(m) /\ k \in 0 .. Len(m)
        BY <1>3 DEF m
      <3>2. QED
        BY <3>1, Spliced
    <2>2. QED
      BY <1>4, <2>1 DEF m
  <1> HIDE DEF e, undo, one, k
  <1>6. ASSUME Resolves(e, undo) PROVE one.doc = d
    <2>1. FindTrack(e, id) = k + 1
      BY <1>1, <1>5, TrackFoundAt DEF e
    <2>2. PICK i \in DOMAIN e.tracks : i = FindTrack(e, undo.trackId) /\ one.doc = WithTracks(e, RemoveAt(e.tracks, i))
      BY <1>1, <1>2, <1>6, RemoveTrackKeeps
    <2>3. QED
      BY <1>2, <1>4, <1>5, <2>1, <2>2
  <1>7. QED
    BY <1>1, <1>6, UndoneByOne DEF e, one

\* The inverse of track.remove restores the document.
LEMMA RemoveTrackUndone ==
  ASSUME NEW d, IsDocument(d), NEW op, IsOperation(op), op.type = "track.remove", Resolves(d, op),
         NEW r, r = RemoveTrack(d, op), NEW actor
  PROVE  Undone(d, r, actor)
  <1> DEFINE e == r.doc
  <1>1. IsDocument(e)
    BY RemoveTrackKeeps
  <1>2. PICK i \in DOMAIN d.tracks :
          /\ e = WithTracks(d, RemoveAt(d.tracks, i))
          /\ r.inverse = <<AddTrackOp(d.tracks[i], i - 1)>>
    BY RemoveTrackKeeps
  <1> DEFINE undo == AddTrackOp(d.tracks[i], i - 1)
             one == ApplyOperation(e, undo)
  <1>3. IsSequence(d.tracks) /\ IsTrack(d.tracks[i])
    BY DocumentFacts
  <1>4. /\ IsOperation(undo) /\ undo.type = "track.add" /\ undo.track = d.tracks[i] /\ undo.index = i - 1
        /\ one = AddTrack(e, undo)
    BY <1>3 DEF AddTrackOp, IsOperation, OperationTypes, ApplyOperation
  <1>5. e.tracks = RemoveAt(d.tracks, i) /\ WithTracks(e, d.tracks) = d
    BY <1>2, PartsBack
  <1>6. Splice(RemoveAt(d.tracks, i), i - 1, d.tracks[i]) = d.tracks
    BY <1>3, Taken
  <1> HIDE DEF e, undo, one
  <1>7. ASSUME one.ok PROVE one.doc = d
    <2>1. one.doc = WithTracks(e, Splice(e.tracks, undo.index, undo.track))
      BY <1>1, <1>4, <1>7, AddTrackKeeps
    <2>2. QED
      BY <2>1, <1>4, <1>5, <1>6
  <1>8. QED
    BY <1>2, <1>7, UndoneByOne DEF e, one, undo

\* The clips of one track changed and changed back.
LEMMA ClipsBack ==
  ASSUME NEW d, IsDocument(d), NEW t \in DOMAIN d.tracks, NEW s, NEW e, e = WithClips(d, t, s)
  PROVE  /\ DOMAIN e.tracks = DOMAIN d.tracks /\ t \in DOMAIN e.tracks
         /\ e.tracks[t].clips = s /\ e.tracks[t].id = d.tracks[t].id
         /\ \A v : WithClips(e, t, v) = WithClips(d, t, v)
         /\ WithClips(d, t, d.tracks[t].clips) = d
         /\ WithClips(e, t, d.tracks[t].clips) = d
  <1> DEFINE track == d.tracks[t]
  <1>1. d = [tracks |-> d.tracks, locks |-> d.locks, assets |-> d.assets, artifacts |-> d.artifacts]
    BY DEF IsDocument
  <1>2. IsSequence(d.tracks) /\ track = [id |-> track.id, locked |-> track.locked, clips |-> track.clips]
    BY DocumentFacts DEF IsTrack
  <1>3. d.tracks = [u \in DOMAIN d.tracks |-> d.tracks[u]]
    BY <1>2 DEF IsSequence
  <1>4. e = [d EXCEPT !.tracks = [d.tracks EXCEPT ![t] = [d.tracks[t] EXCEPT !.clips = s]]]
    BY DEF WithClips
  <1>5. e.tracks = [d.tracks EXCEPT ![t] = [d.tracks[t] EXCEPT !.clips = s]]
    BY <1>1, <1>4
  <1>6. /\ DOMAIN e.tracks = DOMAIN d.tracks /\ e.tracks[t] = [d.tracks[t] EXCEPT !.clips = s]
        /\ \A u \in DOMAIN d.tracks : u # t => e.tracks[u] = d.tracks[u]
    BY <1>3, <1>5
  <1>7. e.tracks[t].clips = s /\ e.tracks[t].id = d.tracks[t].id
    BY <1>2, <1>6
  <1>8. ASSUME NEW v PROVE WithClips(e, t, v) = WithClips(d, t, v)
    <2>1. [e.tracks[t] EXCEPT !.clips = v] = [d.tracks[t] EXCEPT !.clips = v]
      BY <1>2, <1>6
    <2>2. [e.tracks EXCEPT ![t] = [e.tracks[t] EXCEPT !.clips = v]] = [d.tracks EXCEPT ![t] = [d.tracks[t] EXCEPT !.clips = v]]
      <3> DEFINE w == [d.tracks[t] EXCEPT !.clips = v]
                 w0 == [d.tracks[t] EXCEPT !.clips = s]
                 T == d.tracks
      <3>1. T = [u \in DOMAIN T |-> T[u]] /\ e.tracks = [T EXCEPT ![t] = w0] /\ t \in DOMAIN T
        BY <1>3, <1>5
      <3> HIDE DEF w, w0, T
      <3>2. [e.tracks EXCEPT ![t] = w] = [T EXCEPT ![t] = w]
        BY <3>1
      <3>3. QED
        BY <2>1, <3>2 DEF w, T
    <2>3. QED
      BY <1>1, <1>4, <2>2 DEF WithClips
  <1>9. WithClips(d, t, d.tracks[t].clips) = d
    <2>1. [d.tracks[t] EXCEPT !.clips = d.tracks[t].clips] = d.tracks[t]
      BY <1>2
    <2>2. [d.tracks EXCEPT ![t] = [d.tracks[t] EXCEPT !.clips = d.tracks[t].clips]] = d.tracks
      BY <1>3, <2>1
    <2>3. QED
      BY <1>1, <2>2 DEF WithClips
  <1>10. QED
    BY <1>6, <1>7, <1>8, <1>9

\* What the operations that undo a cut reach, on a document that gives each id once.
LEMMA RemovesAt ==
  ASSUME NEW e, IsDocument(e), IdsUnique(e), NEW t \in DOMAIN e.tracks, NEW i \in DOMAIN e.tracks[t].clips,
         NEW id, e.tracks[t].clips[i].id = id, NEW actor, NEW y, y = WithClips(e, t, RemoveAt(e.tracks[t].clips, i))
  PROVE  Reaches(e, actor, <<RemoveClipOp(id)>>, y)
  <1> DEFINE op == RemoveClipOp(id)
             one == ApplyOperation(e, op)
             at == FindClip(e, id)
  <1>1. IsOperation(op) /\ op.type = "clip.remove" /\ op.clipId = id /\ one = RemoveClip(e, op)
    BY DEF RemoveClipOp, IsOperation, OperationTypes, ApplyOperation
  <1>2. at.track = t /\ at.index = i
    <2>1. at = [track |-> t, index |-> i]
      BY ClipFoundAt
    <2>2. QED
      BY <2>1
  <1>3. ASSUME Resolves(e, op) PROVE one.doc = y
    <2> DEFINE clip == ClipAt(e, at)
    <2>1. at = FindClip(e, op.clipId) /\ clip = ClipAt(e, at)
      BY <1>1
    <2> HIDE DEF op, one, at, clip
    <2>2. one.doc = WithClips(e, at.track, RemoveAt(e.tracks[at.track].clips, at.index))
      BY <1>1, <1>3, <2>1, RemoveClipKeeps
    <2>3. QED
      BY <1>2, <2>2
  <1> HIDE DEF one
  <1>4. Reaches(e, actor, <<op>>, y)
    <2>1. one = ApplyOperation(e, op) /\ (Resolves(e, op) /\ one.ok => one.doc = y)
      BY <1>3 DEF one
    <2> HIDE DEF op
    <2>2. QED
      BY ONLY <2>1, ReachesOne
  <1>5. QED
    BY <1>4

\* A recorded clip.replace leads to the document with that clip replaced.
LEMMA ReplacesAt ==
  ASSUME NEW e, IsDocument(e), IdsUnique(e), NEW t \in DOMAIN e.tracks, NEW i \in DOMAIN e.tracks[t].clips,
         NEW id, e.tracks[t].clips[i].id = id, NEW new, IsClip(new),
         NEW actor, NEW y, y = WithClips(e, t, PutAt(e.tracks[t].clips, i, new))
  PROVE  Reaches(e, actor, <<ReplaceClipOp(id, new)>>, y)
  <1> DEFINE op == ReplaceClipOp(id, new)
             one == ApplyOperation(e, op)
             at == FindClip(e, id)
  <1>1. IsOperation(op) /\ op.type = "clip.replace" /\ op.clipId = id /\ op.clip = new /\ one = ReplaceClip(e, op)
    BY DEF ReplaceClipOp, IsOperation, OperationTypes, ApplyOperation
  <1>2. at.track = t /\ at.index = i
    <2>1. at = [track |-> t, index |-> i]
      BY ClipFoundAt
    <2>2. QED
      BY <2>1
  <1>3. ASSUME Resolves(e, op), one.ok PROVE one.doc = y
    <2> DEFINE clip == ClipAt(e, at)
    <2>1. at = FindClip(e, op.clipId) /\ clip = ClipAt(e, at)
      BY <1>1
    <2> HIDE DEF op, one, at, clip
    <2>2. one.doc = WithClips(e, at.track, PutAt(e.tracks[at.track].clips, at.index, new))
      BY <1>1, <1>3, <2>1, ReplaceClipKeeps
    <2>3. QED
      BY <1>2, <2>2
  <1> HIDE DEF one
  <1>4. Reaches(e, actor, <<op>>, y)
    <2>1. one = ApplyOperation(e, op) /\ (Resolves(e, op) /\ one.ok => one.doc = y)
      BY <1>3 DEF one
    <2> HIDE DEF op
    <2>2. QED
      BY ONLY <2>1, ReachesOne
  <1>5. QED
    BY <1>4

\* A recorded clip.insert leads to the document with that clip put in.
LEMMA InsertsAt ==
  ASSUME NEW e, IsDocument(e), IdsUnique(e), NEW t \in DOMAIN e.tracks, NEW id, e.tracks[t].id = id,
         NEW clip, IsClip(clip), NEW k, NEW actor, NEW y, y = WithClips(e, t, Splice(e.tracks[t].clips, k, clip))
  PROVE  Reaches(e, actor, <<InsertClipOp(id, clip, k)>>, y)
  <1> DEFINE op == InsertClipOp(id, clip, k)
             one == ApplyOperation(e, op)
  <1>1. /\ IsOperation(op) /\ op.type = "clip.insert" /\ op.trackId = id /\ op.clip = clip /\ op.index = k
        /\ one = InsertClip(e, op)
    BY DEF InsertClipOp, IsOperation, OperationTypes, ApplyOperation
  <1>2. FindTrack(e, id) = t
    BY TrackFoundAt
  <1>3. ASSUME Resolves(e, op), one.ok PROVE one.doc = y
    <2> HIDE DEF op, one
    <2>1. PICK u \in DOMAIN e.tracks : u = FindTrack(e, op.trackId) /\ one.doc = WithClips(e, u, Splice(e.tracks[u].clips, op.index, op.clip))
      BY <1>1, <1>3, InsertClipKeeps
    <2>2. QED
      BY <1>1, <1>2, <2>1
  <1> HIDE DEF one
  <1>4. Reaches(e, actor, <<op>>, y)
    <2>1. one = ApplyOperation(e, op) /\ (Resolves(e, op) /\ one.ok => one.doc = y)
      BY <1>3 DEF one
    <2> HIDE DEF op
    <2>2. QED
      BY ONLY <2>1, ReachesOne
  <1>5. QED
    BY <1>4

\* The inverse of clip.insert restores the document.
LEMMA InsertClipUndone ==
  ASSUME NEW d, IsDocument(d), NEW op, IsOperation(op), op.type = "clip.insert", Resolves(d, op),
         NEW r, r = InsertClip(d, op), r.ok, IdsUnique(r.doc), NEW actor
  PROVE  Undone(d, r, actor)
  <1> DEFINE e == r.doc
             k == op.index
  <1>1. IsDocument(e)
    BY InsertClipKeeps
  <1>2. PICK t \in DOMAIN d.tracks :
          /\ CanInsert(k, d.tracks[t].clips)
          /\ e = WithClips(d, t, Splice(d.tracks[t].clips, k, op.clip))
          /\ r.inverse = <<RemoveClipOp(op.clip.id)>>
    BY InsertClipKeeps
  <1> DEFINE m == d.tracks[t].clips
             s == Splice(m, k, op.clip)
  <1>3. IsSequence(m) /\ k \in 0 .. Len(m)
    BY <1>2, DocumentFacts DEF CanInsert
  <1>4. k + 1 \in DOMAIN s /\ s[k + 1] = op.clip /\ RemoveAt(s, k + 1) = m
    <2> HIDE DEF m, k
    <2>1. QED
      BY <1>3, Spliced
  <1>5. t \in DOMAIN e.tracks /\ e.tracks[t].clips = s /\ WithClips(e, t, m) = d
    <2>1. e = WithClips(d, t, s)
      BY <1>2
    <2> HIDE DEF s, e
    <2>2. QED
      BY <2>1, ClipsBack
  <1>6. Reaches(e, actor, <<RemoveClipOp(op.clip.id)>>, d)
    <2> DEFINE i == k + 1
               id == op.clip.id
    <2>1. /\ IdsUnique(e) /\ i \in DOMAIN e.tracks[t].clips /\ e.tracks[t].clips[i].id = id
          /\ d = WithClips(e, t, RemoveAt(e.tracks[t].clips, i))
      BY <1>4, <1>5, SMTT(30)
    <2> HIDE DEF i, id, e
    <2>2. Reaches(e, actor, <<RemoveClipOp(id)>>, d)
      BY <1>1, <1>5, <2>1, RemovesAt
    <2>3. QED
      BY <2>2 DEF id
  <1>7. QED
    BY <1>2, <1>6 DEF Undone

\* The inverse of clip.remove restores the document.
LEMMA RemoveClipUndone ==
  ASSUME NEW d, IsDocument(d), NEW op, IsOperation(op), op.type = "clip.remove", Resolves(d, op),
         NEW r, r = RemoveClip(d, op), IdsUnique(r.doc), NEW actor
  PROVE  Undone(d, r, actor)
  <1> DEFINE e == r.doc
             at == FindClip(d, op.clipId)
             clip == ClipAt(d, at)
             t == at.track
             i == at.index
             m == d.tracks[t].clips
             s == RemoveAt(m, i)
             id == d.tracks[t].id
  <1>1. /\ IsDocument(e) /\ e = WithClips(d, t, s)
        /\ r.inverse = <<InsertClipOp(id, clip, i - 1)>>
    BY RemoveClipKeeps
  <1>2. t \in DOMAIN d.tracks /\ i \in DOMAIN m /\ IsClip(clip) /\ clip = m[i] /\ IsSequence(m)
    <2>1. op.clipId \in ClipIds(d)
      BY DEF Resolves, OnClip
    <2>2. QED
      BY <2>1, ClipFound, DocumentFacts
  <1>3. Splice(s, i - 1, clip) = m
    <2> HIDE DEF m, i
    <2>1. QED
      BY <1>2, Taken
  <1>4. t \in DOMAIN e.tracks /\ e.tracks[t].clips = s /\ e.tracks[t].id = id /\ WithClips(e, t, m) = d
    <2> HIDE DEF s, e, t
    <2>1. QED
      BY <1>1, <1>2, ClipsBack
  <1>5. Reaches(e, actor, <<InsertClipOp(id, clip, i - 1)>>, d)
    <2> DEFINE k == i - 1
    <2>1. IdsUnique(e) /\ d = WithClips(e, t, Splice(e.tracks[t].clips, k, clip))
      BY <1>3, <1>4, SMTT(30)
    <2> HIDE DEF k, id, e, clip, t
    <2>2. Reaches(e, actor, <<InsertClipOp(id, clip, k)>>, d)
      BY <1>1, <1>2, <1>4, <2>1, InsertsAt
    <2>3. QED
      BY <2>2 DEF k
  <1>6. QED
    BY <1>1, <1>5 DEF Undone

\* A clip put in the place of another, and put back.
LEMMA PutBack ==
  ASSUME NEW d, IsDocument(d), NEW t \in DOMAIN d.tracks, NEW m, m = d.tracks[t].clips,
         NEW i \in DOMAIN m, NEW old, old = m[i], NEW new,
         NEW s, s = PutAt(m, i, new), NEW e, e = WithClips(d, t, s)
  PROVE  /\ t \in DOMAIN e.tracks /\ e.tracks[t].clips = s /\ i \in DOMAIN s /\ s[i] = new
         /\ WithClips(e, t, PutAt(s, i, old)) = d
  <1>1. IsSequence(m) /\ i \in DOMAIN m
    BY DocumentFacts
  <1>2. DOMAIN s = DOMAIN m /\ s[i] = new /\ PutAt(s, i, m[i]) = m
    BY <1>1, Replaced
  <1>4. t \in DOMAIN e.tracks /\ e.tracks[t].clips = s /\ WithClips(e, t, m) = d
    BY ClipsBack
  <1>5. QED
    BY <1>1, <1>2, <1>4

\* The inverse of clip.trim restores the document.
LEMMA TrimClipUndone ==
  ASSUME NEW d, IsDocument(d), NEW op, IsOperation(op), op.type = "clip.trim", Resolves(d, op),
         NEW r, r = TrimClip(d, op), IdsUnique(r.doc), NEW actor
  PROVE  Undone(d, r, actor)
  <1> DEFINE e == r.doc
             at == FindClip(d, op.clipId)
             clip == ClipAt(d, at)
             t == at.track
             i == at.index
             undo == TrimClipOp(op.clipId, clip.range, clip.src)
             one == ApplyOperation(e, undo)
  <1>1. IsDocument(e) /\ TypedInverse(r.inverse) /\ r.inverse = <<undo>>
    BY TrimClipKeeps
  <1>2. PICK new : /\ new = TrimmedTo(clip, op.range, op.src) /\ IsClip(new) /\ new.id = clip.id
                   /\ e = WithClips(d, t, PutAt(d.tracks[t].clips, i, new))
    BY TrimClipKeeps
  <1>3. /\ t \in DOMAIN d.tracks /\ i \in DOMAIN d.tracks[t].clips /\ IsClip(clip)
        /\ clip = d.tracks[t].clips[i] /\ clip.id = op.clipId
    <2>1. op.clipId \in ClipIds(d)
      BY DEF Resolves, OnClip
    <2>2. QED
      BY <2>1, ClipFound
  <1>4. /\ undo.type = "clip.trim" /\ undo.clipId = op.clipId /\ undo.range = clip.range /\ undo.src = clip.src
        /\ one = TrimClip(e, undo)
    BY DEF TrimClipOp, ApplyOperation
  <1>5. IsOperation(undo)
    <2> HIDE DEF undo
    <2>1. undo \in ToSet(r.inverse)
      BY <1>1, OneElement
    <2>2. QED
      BY <1>1, <2>1 DEF TypedInverse
  <1> HIDE DEF undo, one, e, at, clip
  <1>6. /\ t \in DOMAIN e.tracks /\ i \in DOMAIN e.tracks[t].clips /\ e.tracks[t].clips[i] = new
        /\ WithClips(e, t, PutAt(e.tracks[t].clips, i, clip)) = d
    <2> HIDE DEF t, i
    <2> DEFINE m == d.tracks[t].clips
               s == PutAt(m, i, new)
    <2>1. /\ IsDocument(d) /\ t \in DOMAIN d.tracks /\ m = d.tracks[t].clips /\ i \in DOMAIN m /\ clip = m[i]
          /\ s = PutAt(m, i, new) /\ e = WithClips(d, t, s)
      BY <1>2, <1>3
    <2> HIDE DEF m, s
    <2>2. /\ t \in DOMAIN e.tracks /\ e.tracks[t].clips = s /\ i \in DOMAIN s /\ s[i] = new
          /\ WithClips(e, t, PutAt(s, i, clip)) = d
      BY ONLY <2>1, PutBack, SMTT(30)
    <2>3. QED
      BY <2>2
  <1>7. TrimmedTo(new, clip.range, clip.src) = clip
    BY <1>2, <1>3 DEF TrimmedTo, IsClip
  <1>8. ASSUME Resolves(e, undo) PROVE one.doc = d
    <2> DEFINE here == FindClip(e, undo.clipId)
               old == ClipAt(e, here)
    <2>1. here.track = t /\ here.index = i
      <3>1. IdsUnique(e) /\ e.tracks[t].clips[i].id = undo.clipId
        BY <1>2, <1>3, <1>4, <1>6 DEF e
      <3> HIDE DEF t, i
      <3>2. here = [track |-> t, index |-> i]
        BY <1>1, <1>6, <3>1, ClipFoundAt
      <3>3. QED
        BY <3>2, SMTT(30)
    <2>2. old = new
      BY <1>6, <2>1 DEF ClipAt
    <2> HIDE DEF here, old
    <2>3. here = FindClip(e, undo.clipId) /\ old = ClipAt(e, here)
      BY DEF here, old
    <2>4. PICK back : /\ back = TrimmedTo(old, undo.range, undo.src)
                      /\ one.doc = WithClips(e, here.track, PutAt(e.tracks[here.track].clips, here.index, back))
      BY <1>1, <1>4, <1>5, <1>8, <2>3, TrimClipKeeps
    <2>5. back = clip
      BY <1>4, <1>7, <2>2, <2>4
    <2>6. QED
      BY <1>6, <2>1, <2>4, <2>5
  <1>9. QED
    BY <1>1, <1>8, UndoneByOne DEF e, one

\* A clip set where it stood under its id is set back by a clip.replace.
LEMMA SetUndone ==
  ASSUME NEW d, IsDocument(d), NEW op, op.type \in OnClip, Resolves(d, op),
         NEW at, at = FindClip(d, op.clipId), NEW clip, clip = ClipAt(d, at), NEW new, new.id = op.clipId,
         NEW r, IsDocument(r.doc), IdsUnique(r.doc),
         r.doc = WithClips(d, at.track, PutAt(d.tracks[at.track].clips, at.index, new)),
         r.inverse = <<ReplaceClipOp(new.id, clip)>>, NEW actor
  PROVE  Undone(d, r, actor)
  <1> DEFINE e == r.doc
             t == at.track
             i == at.index
             id == op.clipId
  <1>1. /\ t \in DOMAIN d.tracks /\ i \in DOMAIN d.tracks[t].clips /\ IsClip(clip)
        /\ clip = d.tracks[t].clips[i] /\ clip.id = id /\ clip = Clip(d, id)
    <2>1. op.clipId \in ClipIds(d)
      BY DEF Resolves, OnClip
    <2>2. QED
      BY <2>1, ClipFound
  <1>2. /\ IsDocument(e) /\ new.id = id
        /\ e = WithClips(d, t, PutAt(d.tracks[t].clips, i, new))
        /\ r.inverse = <<ReplaceClipOp(id, clip)>>
    OBVIOUS
  <1>3. /\ t \in DOMAIN e.tracks /\ i \in DOMAIN e.tracks[t].clips /\ e.tracks[t].clips[i] = new
        /\ WithClips(e, t, PutAt(e.tracks[t].clips, i, clip)) = d
    <2> HIDE DEF t, i, e
    <2> DEFINE m == d.tracks[t].clips
               s == PutAt(m, i, new)
    <2>1. /\ IsDocument(d) /\ t \in DOMAIN d.tracks /\ m = d.tracks[t].clips /\ i \in DOMAIN m /\ clip = m[i]
          /\ s = PutAt(m, i, new) /\ e = WithClips(d, t, s)
      BY <1>1, <1>2
    <2> HIDE DEF m, s
    <2>2. /\ t \in DOMAIN e.tracks /\ e.tracks[t].clips = s /\ i \in DOMAIN s /\ s[i] = new
          /\ WithClips(e, t, PutAt(s, i, clip)) = d
      BY ONLY <2>1, PutBack
    <2>3. QED
      BY <2>2
  <1>4. Reaches(e, actor, <<ReplaceClipOp(id, clip)>>, d)
    <2>1. IdsUnique(e) /\ e.tracks[t].clips[i].id = id
      BY <1>2, <1>3
    <2> HIDE DEF t, i, e, id
    <2>2. QED
      BY <1>1, <1>2, <1>3, <2>1, ReplacesAt
  <1>5. QED
    BY <1>2, <1>4 DEF Undone

\* The inverse of clip.replace restores the document.
LEMMA ReplaceUndone ==
  ASSUME NEW d, IsDocument(d), NEW op, IsOperation(op), op.type = "clip.replace", Resolves(d, op),
         NEW r, r = ReplaceClip(d, op), r.ok, IdsUnique(r.doc), NEW actor
  PROVE  Undone(d, r, actor)
  <1> DEFINE at == FindClip(d, op.clipId)
             clip == ClipAt(d, at)
             new == op.clip
  <1>1. at = FindClip(d, op.clipId) /\ clip = ClipAt(d, at) /\ new = op.clip /\ op.type \in OnClip
    BY DEF OnClip
  <1> HIDE DEF at, clip, new
  <1>2. /\ IsDocument(r.doc) /\ new.id = op.clipId
        /\ r.doc = WithClips(d, at.track, PutAt(d.tracks[at.track].clips, at.index, new))
        /\ r.inverse = <<ReplaceClipOp(new.id, clip)>>
    BY <1>1, ReplaceClipKeeps
  <1>3. QED
    BY ONLY IsDocument(d), Resolves(d, op), IdsUnique(r.doc), <1>1, <1>2, SetUndone

\* The inverse of clip.update restores the document, or is refused: a clip of a
\* new id cannot be replaced by the one of the old id.
LEMMA UpdateUndone ==
  ASSUME NEW d, IsDocument(d), NEW op, IsOperation(op), op.type = "clip.update", Resolves(d, op),
         NEW r, r = UpdateClip(d, op), IdsUnique(r.doc), NEW actor
  PROVE  Undone(d, r, actor)
  <1> DEFINE at == FindClip(d, op.clipId)
             clip == ClipAt(d, at)
             new == Patched(clip, op.patch)
  <1>1. at = FindClip(d, op.clipId) /\ clip = ClipAt(d, at) /\ new = Patched(clip, op.patch) /\ op.type \in OnClip
    BY DEF OnClip
  <1>2. clip.id = op.clipId
    <2>1. op.clipId \in ClipIds(d)
      BY DEF Resolves, OnClip
    <2>2. QED
      BY <2>1, ClipFound
  <1> HIDE DEF at, clip, new
  <1>3. /\ IsDocument(r.doc)
        /\ r.doc = WithClips(d, at.track, PutAt(d.tracks[at.track].clips, at.index, new))
        /\ r.inverse = <<ReplaceClipOp(new.id, clip)>>
    BY <1>1, UpdateClipKeeps
  <1>4. CASE new.id = op.clipId
    BY ONLY IsDocument(d), Resolves(d, op), IdsUnique(r.doc), <1>1, <1>3, <1>4, SetUndone
  <1>5. CASE new.id # op.clipId
    <2> DEFINE undo == ReplaceClipOp(new.id, clip)
               one == ApplyOperation(r.doc, undo)
    <2>1. undo.type = "clip.replace" /\ undo.clipId = new.id /\ undo.clip = clip /\ one = ReplaceClip(r.doc, undo)
      BY DEF ReplaceClipOp, ApplyOperation
    <2>2. one = ApplyOperation(r.doc, undo) /\ r.inverse = <<undo>>
      BY <1>3
    <2> HIDE DEF undo, one
    <2>3. ~ one.ok
      BY <1>2, <1>5, <2>1 DEF ReplaceClip, Refused
    <2>4. QED
      BY ONLY <2>2, <2>3, UndoneByOne
  <1>6. QED
    BY <1>4, <1>5

\* What clip.move makes of a document, or that it is refused.
LEMMA MoveShape ==
  ASSUME NEW d, NEW op, NEW at, at = FindClip(d, op.clipId), NEW clip, clip = ClipAt(d, at),
         NEW new, new = [clip EXCEPT !.range.start = op.start],
         NEW lifted, lifted = WithClips(d, at.track, RemoveAt(d.tracks[at.track].clips, at.index)),
         NEW to, to = FindTrack(d, op.toTrackId)
  PROVE  MoveClip(d, op) =
           IF op.toTrackId \in TrackIds(d) /\ CanInsert(op.toIndex, lifted.tracks[to].clips)
           THEN Done(WithClips(lifted, to, Splice(lifted.tracks[to].clips, op.toIndex, new)),
                     <<MoveClipOp(clip.id, d.tracks[at.track].id, at.index - 1, clip.range.start)>>)
           ELSE Refused
  BY DEF MoveClip, WithClips, MoveClipOp

\* The inverse of a move finds the clip and its old place, and affects no other track.
MovesBack(d, op, r) ==
  \E undo : /\ r.inverse = <<undo>> /\ undo.type = "clip.move"
            /\ Resolves(r.doc, undo) /\ ApplyOperation(r.doc, undo).ok
            /\ Affected(r.doc, undo).tracks \subseteq Affected(d, op).tracks

\* The inverse of clip.move restores the document.
LEMMA MoveClipUndone ==
  ASSUME NEW d, IsDocument(d), IdsUnique(d), NEW op, IsOperation(op), op.type = "clip.move", Resolves(d, op),
         NEW r, r = MoveClip(d, op), r.ok, IdsUnique(r.doc), NEW actor
  PROVE  Undone(d, r, actor) /\ MovesBack(d, op, r)
  <1> DEFINE e == r.doc
             at == FindClip(d, op.clipId)
             clip == ClipAt(d, at)
             a == at.track
             i == at.index
             m == d.tracks[a].clips
             new == MovedTo(clip, op.start)
             lifted == WithClips(d, a, RemoveAt(m, i))
             to == FindTrack(d, op.toTrackId)
             k == op.toIndex
             there == lifted.tracks[to].clips
             trackId == d.tracks[a].id
             undo == MoveClipOp(clip.id, trackId, i - 1, clip.range.start)
             one == ApplyOperation(e, undo)
  <1>1. /\ IsDocument(e) /\ TypedInverse(r.inverse) /\ IsClip(new)
        /\ to \in DOMAIN d.tracks /\ IsDocument(lifted) /\ DOMAIN lifted.tracks = DOMAIN d.tracks
        /\ CanInsert(k, there) /\ e = WithClips(lifted, to, Splice(there, k, new))
        /\ r.inverse = <<undo>>
    BY MoveClipKeeps
  <1>2. a \in DOMAIN d.tracks /\ i \in DOMAIN m /\ IsClip(clip) /\ clip = m[i] /\ clip.id = op.clipId /\ IsSequence(m)
    <2>1. op.clipId \in ClipIds(d)
      BY DEF Resolves, OnClip
    <2>2. QED
      BY <2>1, ClipFound, DocumentFacts
  <1>3. op.start \in Int /\ new.id = clip.id /\ MovedTo(new, clip.range.start) = clip
    <2>1. op.start \in Int
      BY SMTT(30) DEF IsOperation
    <2> DEFINE start == op.start
    <2>2. IsClip(clip) /\ start \in Int /\ new = MovedTo(clip, start)
      BY <1>2, <2>1
    <2> HIDE DEF clip, start, new
    <2>3. new.id = clip.id /\ MovedTo(new, clip.range.start) = clip
      BY ONLY <2>2, MovedClip
    <2>4. QED
      BY <2>1, <2>3
  <1>4. /\ undo.type = "clip.move" /\ undo.clipId = clip.id /\ undo.toTrackId = trackId /\ undo.toIndex = i - 1
        /\ undo.start = clip.range.start /\ one = MoveClip(e, undo)
    BY SMTT(30) DEF MoveClipOp, ApplyOperation
  <1>5. IsOperation(undo)
    <2> HIDE DEF undo
    <2>1. undo \in ToSet(r.inverse)
      BY <1>1, OneElement
    <2>2. QED
      BY <1>1, <2>1 DEF TypedInverse
  <1> HIDE DEF undo, one, e, at, clip, a, i, new, to, k
  <1>6. /\ a \in DOMAIN lifted.tracks /\ lifted.tracks[a].clips = RemoveAt(m, i)
        /\ WithClips(lifted, a, m) = d /\ lifted.tracks[a].id = trackId
    <2> DEFINE s == RemoveAt(m, i)
    <2>1. lifted = WithClips(d, a, s)
      OBVIOUS
    <2> HIDE DEF s, lifted
    <2>2. /\ a \in DOMAIN lifted.tracks /\ lifted.tracks[a].clips = s
          /\ WithClips(lifted, a, d.tracks[a].clips) = d /\ lifted.tracks[a].id = d.tracks[a].id
      BY <1>2, <2>1, ClipsBack
    <2>3. QED
      BY <2>2 DEF s
  <1>7. Splice(RemoveAt(m, i), i - 1, clip) = m
    <2> HIDE DEF m
    <2>1. QED
      BY <1>2, Taken
  <1> HIDE DEF lifted
  <1>8. /\ to \in DOMAIN e.tracks /\ e.tracks[to].clips = Splice(there, k, new)
        /\ WithClips(e, to, there) = lifted /\ DOMAIN e.tracks = DOMAIN d.tracks
    <2> DEFINE s == Splice(there, k, new)
    <2>1. e = WithClips(lifted, to, s) /\ IsDocument(lifted) /\ to \in DOMAIN lifted.tracks
      BY <1>1
    <2> HIDE DEF s
    <2>2. /\ to \in DOMAIN e.tracks /\ e.tracks[to].clips = s
          /\ WithClips(e, to, lifted.tracks[to].clips) = lifted /\ DOMAIN e.tracks = DOMAIN lifted.tracks
      BY <2>1, ClipsBack
    <2>3. QED
      BY <1>1, <2>2 DEF s
  <1>9. /\ k + 1 \in DOMAIN Splice(there, k, new) /\ Splice(there, k, new)[k + 1] = new
        /\ RemoveAt(Splice(there, k, new), k + 1) = there
    <2>1. IsSequence(there) /\ k \in 0 .. Len(there)
      BY <1>1, DocumentFacts DEF CanInsert
    <2> HIDE DEF there
    <2>2. QED
      BY <2>1, Spliced
  <1>10. e.tracks[a].id = trackId
    <2>1. e.tracks[a].id = lifted.tracks[a].id
      <3> DEFINE s == Splice(there, k, new)
      <3>1. e = WithClips(lifted, to, s) /\ to \in DOMAIN lifted.tracks
        BY <1>1
      <3> HIDE DEF s
      <3>2. QED
        BY <1>1, <1>6, <3>1, ReclippedIds
    <2>2. QED
      BY <1>6, <2>1
  <1> DEFINE here == FindClip(e, undo.clipId)
             old == ClipAt(e, here)
             back == MovedTo(old, undo.start)
             took == WithClips(e, here.track, RemoveAt(e.tracks[here.track].clips, here.index))
             home == FindTrack(e, undo.toTrackId)
  <1>11. here.track = to /\ here.index = k + 1
    <2> DEFINE n == k + 1
    <2>1. IdsUnique(e) /\ n \in DOMAIN e.tracks[to].clips /\ e.tracks[to].clips[n].id = undo.clipId
      BY <1>3, <1>4, <1>8, <1>9 DEF e
    <2> HIDE DEF n
    <2>2. here = [track |-> to, index |-> n]
      BY <1>1, <1>8, <2>1, ClipFoundAt
    <2>3. QED
      BY <2>2 DEF n
  <1>12. old = new /\ took = lifted
    BY <1>8, <1>9, <1>11 DEF ClipAt
  <1>13. home = a /\ a \in DOMAIN e.tracks
    <2>1. IdsUnique(e) /\ a \in DOMAIN e.tracks /\ e.tracks[a].id = undo.toTrackId
      BY <1>2, <1>4, <1>8, <1>10 DEF e
    <2>2. QED
      BY <1>1, <2>1, TrackFoundAt
  <1>14. ASSUME Resolves(e, undo), one.ok PROVE one.doc = d
    <2>1. back = clip
      BY <1>3, <1>4, <1>12
    <2>2. one.doc = WithClips(took, home, Splice(took.tracks[home].clips, undo.toIndex, back))
      <3>1. here = FindClip(e, undo.clipId) /\ old = ClipAt(e, here) /\ back = MovedTo(old, undo.start)
            /\ took = WithClips(e, here.track, RemoveAt(e.tracks[here.track].clips, here.index))
            /\ home = FindTrack(e, undo.toTrackId)
        OBVIOUS
      <3> HIDE DEF here, old, back, took, home
      <3>2. /\ IsDocument(e) /\ IsOperation(undo) /\ undo.type = "clip.move" /\ Resolves(e, undo)
            /\ one = MoveClip(e, undo) /\ one.ok
        BY <1>1, <1>4, <1>5, <1>14
      <3>3. QED
        BY ONLY <3>1, <3>2, MoveClipKeeps
    <2>3. QED
      BY <1>4, <1>6, <1>7, <1>12, <1>13, <2>1, <2>2
  <1>15. Resolves(e, undo)
    <2>1. new.id \in ClipIds(e)
      BY <1>1, <1>8, <1>9, ClipFacts
    <2>2. QED
      BY <1>3, <1>4, <2>1 DEF Resolves, OnClip
  <1>16. one.ok
    <2> DEFINE doc == WithClips(took, home, Splice(took.tracks[home].clips, undo.toIndex, back))
               inv == MoveClipOp(old.id, e.tracks[here.track].id, here.index - 1, old.range.start)
               Fits == undo.toTrackId \in TrackIds(e) /\ CanInsert(undo.toIndex, took.tracks[home].clips)
    <2>1. undo.toTrackId \in TrackIds(e)
      BY <1>4, <1>10, <1>13 DEF TrackIds, ToSet
    <2>2. CanInsert(undo.toIndex, took.tracks[home].clips)
      <3>1. i - 1 \in 0 .. Len(RemoveAt(m, i))
        <4> HIDE DEF m
        <4>1. QED
          BY <1>2, Taken
      <3>2. QED
        BY <1>4, <1>6, <1>12, <1>13, <3>1 DEF CanInsert
    <2>3. old.range = [start |-> old.range.start, dur |-> old.range.dur]
          /\ old = [id |-> old.id, asset |-> old.asset, range |-> old.range, src |-> old.src,
                    look |-> old.look, enabled |-> old.enabled]
      BY <1>1, <1>12, RangeFacts, SMTT(30) DEF IsClip
    <2>4. one = IF Fits THEN Done(doc, <<inv>>) ELSE Refused
      <3>1. back = [old EXCEPT !.range.start = undo.start]
        <4> DEFINE start == undo.start
        <4>1. IsClip(old) /\ start \in Int /\ back = MovedTo(old, start)
          BY <1>1, <1>2, <1>4, <1>12, RangeFacts DEF IsClip
        <4> HIDE DEF old, start, back
        <4>2. back = [old EXCEPT !.range.start = start]
          BY ONLY <4>1, MovedClip
        <4>3. QED
          BY <4>2, SMTT(30) DEF start
      <3>2. one = MoveClip(e, undo)
        BY <1>4
      <3>3. /\ here = FindClip(e, undo.clipId) /\ old = ClipAt(e, here)
            /\ took = WithClips(e, here.track, RemoveAt(e.tracks[here.track].clips, here.index))
            /\ home = FindTrack(e, undo.toTrackId)
        OBVIOUS
      <3> HIDE DEF one, undo, e, back, here, old, took, home
      <3>4. QED
        BY ONLY <3>1, <3>2, <3>3, MoveShape DEF doc, inv, Fits
    <2> HIDE DEF doc, inv, Fits, one
    <2>5. one = Done(doc, <<inv>>)
      BY <2>1, <2>2, <2>4 DEF Fits
    <2>6. QED
      BY <2>5 DEF Done
  <1>17. Affected(e, undo).tracks = {e.tracks[to].id, trackId}
    BY <1>4, <1>11 DEF Affected, OnClip
  <1>18. e.tracks[to].id = op.toTrackId /\ {trackId, op.toTrackId} \subseteq Affected(d, op).tracks
    <2>1. op.toTrackId \in TrackIds(d)
      BY DEF MoveClip, Refused
    <2>2. d.tracks[to].id = op.toTrackId
      BY <2>1, TrackFound DEF to
    <2>3. e.tracks[to].id = lifted.tracks[to].id
      <3> DEFINE s == Splice(there, k, new)
      <3>1. e = WithClips(lifted, to, s) /\ to \in DOMAIN lifted.tracks
        BY <1>1
      <3> HIDE DEF s
      <3>2. QED
        BY <1>1, <3>1, ReclippedIds
    <2>4. lifted.tracks[to].id = d.tracks[to].id
      <3> DEFINE s == RemoveAt(m, i)
      <3>1. lifted = WithClips(d, a, s)
        BY DEF lifted
      <3> HIDE DEF s
      <3>2. QED
        BY <1>1, <1>2, <3>1, ReclippedIds
    <2>5. {trackId, op.toTrackId} \subseteq Affected(d, op).tracks
      <3>1. op.type \in OnClip
        BY DEF OnClip
      <3>2. QED
        BY <3>1, AffectedByClip DEF at, a
    <2>6. QED
      BY <2>2, <2>3, <2>4, <2>5, SMTT(30)
  <1>19. MovesBack(d, op, r)
    <2>1. Affected(e, undo).tracks \subseteq Affected(d, op).tracks
      BY <1>17, <1>18
    <2>2. r.inverse = <<undo>> /\ undo.type = "clip.move" /\ Resolves(e, undo) /\ ApplyOperation(e, undo).ok
      BY <1>1, <1>4, <1>15, <1>16 DEF one
    <2> HIDE DEF undo
    <2>3. QED
      BY <2>1, <2>2 DEF MovesBack, e
  <1>20. Undone(d, r, actor)
    BY <1>1, <1>14, UndoneByOne DEF e, one
  <1>21. QED
    BY <1>19, <1>20

\* What a document names stays named when its clips keep their ids and places.
LEMMA SameIds ==
  ASSUME NEW d, IdsUnique(d), NEW e, e.locks = d.locks, DOMAIN e.tracks = DOMAIN d.tracks,
         \A t \in DOMAIN d.tracks :
           /\ e.tracks[t].id = d.tracks[t].id /\ DOMAIN e.tracks[t].clips = DOMAIN d.tracks[t].clips
           /\ \A i \in DOMAIN d.tracks[t].clips : e.tracks[t].clips[i].id = d.tracks[t].clips[i].id
  PROVE  IdsUnique(e)
  BY DEF IdsUnique

\* Replacing a clip by one of its id leaves a document of distinct ids.
LEMMA PutSameIds ==
  ASSUME NEW d, IsDocument(d), IdsUnique(d), NEW t \in DOMAIN d.tracks, NEW m, m = d.tracks[t].clips,
         NEW i \in DOMAIN m, NEW new, IsClip(new), new.id = m[i].id, NEW s, s = PutAt(m, i, new),
         NEW e, e = WithClips(d, t, s)
  PROVE  IsDocument(e) /\ IdsUnique(e)
  <1>1. IsSequence(m) /\ \A j \in DOMAIN m : IsClip(m[j])
    BY DocumentFacts, ClipFacts
  <1>2. IsSequence(s) /\ DOMAIN s = DOMAIN m /\ \A j \in DOMAIN m : s[j] = IF j = i THEN new ELSE m[j]
    BY <1>1, Replaced
  <1>3. \A j \in DOMAIN s : IsClip(s[j])
    BY <1>1, <1>2
  <1>4. /\ IsDocument(e) /\ e.locks = d.locks /\ DOMAIN e.tracks = DOMAIN d.tracks
        /\ \A u \in DOMAIN d.tracks : e.tracks[u].id = d.tracks[u].id
        /\ \A u \in DOMAIN d.tracks : e.tracks[u].clips = IF u = t THEN s ELSE d.tracks[u].clips
    <2>1. /\ IsDocument(WithClips(d, t, s)) /\ WithClips(d, t, s).locks = d.locks
          /\ DOMAIN WithClips(d, t, s).tracks = DOMAIN d.tracks
          /\ \A u \in DOMAIN d.tracks :
               /\ WithClips(d, t, s).tracks[u].id = d.tracks[u].id
               /\ WithClips(d, t, s).tracks[u].clips = IF u = t THEN s ELSE d.tracks[u].clips
      BY <1>2, <1>3, Reclipped, SMTT(30)
    <2>2. QED
      BY <2>1
  <1>5. \A u \in DOMAIN d.tracks :
          /\ e.tracks[u].id = d.tracks[u].id /\ DOMAIN e.tracks[u].clips = DOMAIN d.tracks[u].clips
          /\ \A j \in DOMAIN d.tracks[u].clips : e.tracks[u].clips[j].id = d.tracks[u].clips[j].id
    BY <1>2, <1>4
  <1>6. IdsUnique(e)
    <2>1. IdsUnique(d) /\ e.locks = d.locks /\ DOMAIN e.tracks = DOMAIN d.tracks
      BY <1>4
    <2>2. QED
      BY ONLY <2>1, <1>5, SameIds
  <1>7. QED
    BY <1>4, <1>6

\* Where a split left its two pieces, and the document in which only the left one is.
SplitInto(d, e, id, a, i, clip, mid) ==
  /\ IsDocument(e) /\ a \in DOMAIN d.tracks /\ a \in DOMAIN e.tracks
  /\ \E s : e = WithClips(d, a, s)
  /\ i + 1 \in DOMAIN e.tracks[a].clips /\ e.tracks[a].clips[i + 1].id = id
  /\ mid = WithClips(e, a, RemoveAt(e.tracks[a].clips, i + 1)) /\ \E p : mid = WithClips(d, a, p)
  /\ IsDocument(mid) /\ IdsUnique(mid) /\ a \in DOMAIN mid.tracks /\ mid.locks = d.locks
  /\ i \in DOMAIN mid.tracks[a].clips /\ mid.tracks[a].clips[i].id = clip.id /\ IsClip(clip)
  /\ d = WithClips(mid, a, PutAt(mid.tracks[a].clips, i, clip))

\* A successful clip.split puts a shortened clip and its right part for the clip.
LEMMA SplitPieces ==
  ASSUME NEW d, IsDocument(d), IdsUnique(d), NEW op, IsOperation(op), op.type = "clip.split", Resolves(d, op),
         NEW r, r = SplitClip(d, op), r.ok
  PROVE  \E clip, mid :
           /\ SplitInto(d, r.doc, op.rightClipId, FindClip(d, op.clipId).track, FindClip(d, op.clipId).index, clip, mid)
           /\ r.inverse = <<RemoveClipOp(op.rightClipId)>> \o <<ReplaceClipOp(clip.id, clip)>>
  <1> DEFINE e == r.doc
             at == FindClip(d, op.clipId)
             clip == ClipAt(d, at)
             a == at.track
             i == at.index
             m == d.tracks[a].clips
             cut == op.at - clip.range.start
             left == LeftPart(clip, cut)
             right == RightPart(clip, cut, op.rightClipId)
             p == PutAt(m, i, left)
             s == Splice(p, i, right)
             mid == WithClips(d, a, p)
             A == <<RemoveClipOp(op.rightClipId)>>
             B == <<ReplaceClipOp(clip.id, clip)>>
  <1>1. a \in DOMAIN d.tracks /\ i \in DOMAIN m /\ IsClip(clip) /\ clip = m[i] /\ clip.id = op.clipId /\ IsSequence(m)
    <2>1. op.clipId \in ClipIds(d)
      BY DEF Resolves, OnClip
    <2>2. QED
      BY <2>1, ClipFound, DocumentFacts
  <1>2. IsDocument(e)
    BY SplitClipKeeps
  <1>3. /\ ~ Warped(clip) /\ clip.range.start < op.at /\ op.at < RangeEnd(clip.range)
        /\ e = WithClips(d, a, s) /\ r.inverse = <<RemoveClipOp(op.rightClipId), ReplaceClipOp(clip.id, clip)>>
    <2> HIDE DEF clip, at
    <2>1. at = FindClip(d, op.clipId) /\ clip = ClipAt(d, at) /\ IsClip(clip)
      BY <1>1 DEF at, clip
    <2>2. cut = op.at - clip.range.start
      OBVIOUS
    <2> HIDE DEF cut
    <2>3. QED
      BY <2>1, <2>2, SplitShape, SMTT(30)
  <1>4. r.inverse = A \o B /\ IsSequence(A) /\ IsSequence(B)
    <2> DEFINE x == RemoveClipOp(op.rightClipId)
               y == ReplaceClipOp(clip.id, clip)
    <2>1. r.inverse = <<x, y>> /\ A = <<x>> /\ B = <<y>>
      BY <1>3
    <2> HIDE DEF x, y, A, B
    <2>2. <<x>> \o <<y>> = <<x, y>>
      BY TwoJoined
    <2>3. QED
      BY <2>1, <2>2, OneElement
  <1>5. IsClip(left) /\ left.id = clip.id /\ right.id = op.rightClipId
    <2>1. cut \in Int /\ 0 < cut /\ cut < clip.range.dur
      <3>1. op.at \in Int /\ clip.range.start \in Int /\ clip.range.dur \in Int
        BY <1>1 DEF IsOperation, IsClip, TimeRange
      <3>2. QED
        BY <1>3, <3>1, SMTT(30) DEF RangeEnd
    <2> DEFINE id == op.rightClipId
    <2>2. IsClip(clip) /\ ~ Warped(clip) /\ left = LeftPart(clip, cut) /\ right = RightPart(clip, cut, id)
      BY <1>1, <1>3
    <2> HIDE DEF clip, cut, left, right, id
    <2>3. IsClip(left) /\ left.id = clip.id /\ right.id = id
      BY ONLY <2>1, <2>2, PartsPlayAll
    <2>4. QED
      BY <2>3 DEF id
  <1> HIDE DEF clip, at, cut, left, right, a, i
  <1>6. IsSequence(p) /\ DOMAIN p = DOMAIN m /\ p[i] = left /\ Len(p) = Len(m)
    <2>1. p = PutAt(m, i, left)
      OBVIOUS
    <2> HIDE DEF p, m
    <2>2. QED
      BY <1>1, <2>1, Replaced
  <1>7. i + 1 \in DOMAIN s /\ s[i + 1] = right /\ RemoveAt(s, i + 1) = p
    <2>1. i \in 0 .. Len(p)
      <3>1. IsSequence(m) /\ i \in DOMAIN m
        BY <1>1
      <3>2. Len(p) = Len(m)
        BY <1>6
      <3> HIDE DEF m, p
      <3>3. Len(m) \in Nat /\ DOMAIN m = 1 .. Len(m)
        BY <3>1, SequenceFacts
      <3>4. QED
        BY <3>1, <3>2, <3>3
    <2> HIDE DEF p
    <2>2. QED
      BY <1>6, <2>1, Spliced
  <1>8. IsDocument(mid) /\ IdsUnique(mid)
    <2>1. /\ IsDocument(d) /\ IdsUnique(d) /\ a \in DOMAIN d.tracks /\ m = d.tracks[a].clips /\ i \in DOMAIN m
          /\ IsClip(left) /\ left.id = m[i].id /\ p = PutAt(m, i, left) /\ mid = WithClips(d, a, p)
      BY <1>1, <1>5
    <2> HIDE DEF m, p, mid
    <2>2. QED
      BY ONLY <2>1, PutSameIds
  <1>9. /\ a \in DOMAIN mid.tracks /\ mid.tracks[a].clips = p /\ i \in DOMAIN p /\ p[i] = left
        /\ WithClips(mid, a, PutAt(p, i, clip)) = d
    <2>1. /\ IsDocument(d) /\ a \in DOMAIN d.tracks /\ m = d.tracks[a].clips /\ i \in DOMAIN m
          /\ clip = m[i] /\ p = PutAt(m, i, left) /\ mid = WithClips(d, a, p)
      BY <1>1
    <2> HIDE DEF m, p, mid
    <2>2. QED
      BY ONLY <2>1, PutBack
  <1>10. a \in DOMAIN e.tracks /\ e.tracks[a].clips = s /\ WithClips(e, a, p) = mid
    <2>1. IsDocument(d) /\ a \in DOMAIN d.tracks /\ e = WithClips(d, a, s)
      BY <1>1, <1>3
    <2> HIDE DEF s, e, p
    <2>2. QED
      BY <2>1, ClipsBack
  <1>11. mid.locks = d.locks
    BY DEF WithClips, IsDocument
  <1> HIDE DEF mid, e, p, s
  <1>12. SplitInto(d, e, op.rightClipId, a, i, clip, mid)
    <2>1. mid = WithClips(e, a, RemoveAt(e.tracks[a].clips, i + 1))
      BY <1>7, <1>10
    <2>2. (\E v : e = WithClips(d, a, v)) /\ \E v : mid = WithClips(d, a, v)
      BY <1>3 DEF mid
    <2>3. e.tracks[a].clips[i + 1].id = op.rightClipId /\ i + 1 \in DOMAIN e.tracks[a].clips
      BY <1>5, <1>7, <1>10
    <2>4. mid.tracks[a].clips[i].id = clip.id /\ i \in DOMAIN mid.tracks[a].clips
      BY <1>5, <1>9
    <2>5. d = WithClips(mid, a, PutAt(mid.tracks[a].clips, i, clip))
      BY <1>9
    <2> HIDE DEF m
    <2>6. QED
      BY ONLY <1>1, <1>2, <1>8, <1>9, <1>10, <1>11, <2>1, <2>2, <2>3, <2>4, <2>5 DEF SplitInto
  <1>13. QED
    <2>1. SplitInto(d, r.doc, op.rightClipId, FindClip(d, op.clipId).track, FindClip(d, op.clipId).index, clip, mid)
      BY <1>12 DEF e, a, i, at
    <2>2. r.inverse = <<RemoveClipOp(op.rightClipId)>> \o <<ReplaceClipOp(clip.id, clip)>>
      BY <1>4
    <2> HIDE DEF A, B
    <2>3. QED
      BY <2>1, <2>2

\* The inverse of clip.split restores the document.
LEMMA SplitClipUndone ==
  ASSUME NEW d, IsDocument(d), IdsUnique(d), NEW op, IsOperation(op), op.type = "clip.split", Resolves(d, op),
         NEW r, r = SplitClip(d, op), r.ok, IdsUnique(r.doc), NEW actor
  PROVE  Undone(d, r, actor)
  <1> DEFINE e == r.doc
             a == FindClip(d, op.clipId).track
             i == FindClip(d, op.clipId).index
             n == i + 1
             id == op.rightClipId
             c == r.inverse
  <1>1. PICK clip, mid : SplitInto(d, e, id, a, i, clip, mid) /\ c = <<RemoveClipOp(id)>> \o <<ReplaceClipOp(clip.id, clip)>>
    BY SplitPieces
  <1> HIDE DEF a, i, id, c
  <1> DEFINE A == <<RemoveClipOp(id)>>
             B == <<ReplaceClipOp(clip.id, clip)>>
  <1>2. Reaches(e, actor, A, mid)
    <2>1. /\ IsDocument(e) /\ IdsUnique(e) /\ a \in DOMAIN e.tracks /\ n \in DOMAIN e.tracks[a].clips
          /\ e.tracks[a].clips[n].id = id /\ mid = WithClips(e, a, RemoveAt(e.tracks[a].clips, n))
      BY <1>1 DEF SplitInto
    <2> HIDE DEF n, e
    <2>2. QED
      BY ONLY <2>1, RemovesAt
  <1>3. Reaches(mid, actor, B, d)
    <2> DEFINE old == clip.id
    <2>1. /\ IsDocument(mid) /\ IdsUnique(mid) /\ a \in DOMAIN mid.tracks /\ i \in DOMAIN mid.tracks[a].clips
          /\ mid.tracks[a].clips[i].id = old /\ IsClip(clip)
          /\ d = WithClips(mid, a, PutAt(mid.tracks[a].clips, i, clip))
      BY <1>1 DEF SplitInto
    <2> HIDE DEF old
    <2>2. Reaches(mid, actor, <<ReplaceClipOp(old, clip)>>, d)
      BY ONLY <2>1, ReplacesAt
    <2>3. QED
      BY <2>2, SMTT(30) DEF old
  <1>4. Reaches(e, actor, c, d)
    <2>1. IsSequence(A) /\ IsSequence(B) /\ c = A \o B
      BY <1>1, OneElement
    <2> HIDE DEF A, B, e
    <2>2. QED
      BY ONLY <1>2, <1>3, <2>1, ReachesOn
  <1>5. QED
    BY <1>4 DEF Undone, c

-----------------------------------------------------------------------------
(***************************************************************************)
(* Taking back a ripple deletion: track by track, the new pieces are taken *)
(* out and what is left of each clip is exchanged for the clip.            *)
(***************************************************************************)
LEMMA SameSequence ==
  ASSUME NEW a, IsSequence(a), NEW b, IsSequence(b), Len(a) = Len(b), \A i \in 1 .. Len(a) : a[i] = b[i]
  PROVE  a = b
  <1> DEFINE T == ToSet(a) \cup ToSet(b)
  <1>1. a \in Seq(T) /\ b \in Seq(T)
    BY SequencesGrow
  <1> HIDE DEF T
  <1>2. QED
    BY <1>1, SeqEqual

\* What putting an element into a sequence does, by position.
LEMMA SplicedIn ==
  ASSUME NEW s, IsSequence(s), NEW e, NEW k \in 0 .. Len(s), NEW u, u = Splice(s, k, e)
  PROVE  IsSequence(u) /\ SplicedAs(s, k, e, u)
  BY Spliced DEF SplicedAs

\* An element between two sequences.
Around(s, c, B) == s \o (<<c>> \o B)
AroundAt(s, c, B, w) ==
  /\ IsSequence(w) /\ Len(w) = Len(s) + 1 + Len(B)
  /\ \A i \in 1 .. Len(s) + 1 + Len(B) :
       w[i] = IF i <= Len(s) THEN s[i] ELSE IF i = Len(s) + 1 THEN c ELSE B[i - (Len(s) + 1)]

\* A clip between what stands before it and what is to come.
LEMMA AroundFacts ==
  ASSUME NEW s, IsSequence(s), NEW c, NEW B, IsSequence(B)
  PROVE  /\ AroundAt(s, c, B, Around(s, c, B)) /\ ToSet(Around(s, c, B)) = ToSet(s) \cup {c} \cup ToSet(B)
         /\ Len(s) \in Nat /\ Len(B) \in Nat
         /\ IsSequence(<<c>> \o B)
  <1> DEFINE o == <<c>>
             v == o \o B
             w == s \o v
  <1>1. IsSequence(o) /\ ToSet(o) = {c} /\ Len(o) = 1 /\ o[1] = c
    BY OneElement
  <1>2. Len(s) \in Nat /\ Len(B) \in Nat
    BY SequenceFacts
  <1> HIDE DEF o
  <1>3. /\ IsSequence(v) /\ ToSet(v) = ToSet(o) \cup ToSet(B) /\ Len(v) = Len(o) + Len(B)
        /\ \A i \in 1 .. Len(o) + Len(B) : v[i] = IF i <= Len(o) THEN o[i] ELSE B[i - Len(o)]
    <2>1. v = o \o B
      OBVIOUS
    <2> HIDE DEF v
    <2>2. JoinedAs(o, B, v)
      BY <1>1, <2>1, Joined
    <2>3. QED
      BY <2>2 DEF JoinedAs
  <1> HIDE DEF v
  <1>4. /\ IsSequence(w) /\ ToSet(w) = ToSet(s) \cup ToSet(v) /\ Len(w) = Len(s) + Len(v)
        /\ \A i \in 1 .. Len(s) + Len(v) : w[i] = IF i <= Len(s) THEN s[i] ELSE v[i - Len(s)]
    <2>1. w = s \o v
      OBVIOUS
    <2> HIDE DEF w
    <2>2. JoinedAs(s, v, w)
      BY <1>3, <2>1, Joined
    <2>3. QED
      BY <2>2 DEF JoinedAs
  <1>5. w = Around(s, c, B)
    BY DEF Around, v, o
  <1> HIDE DEF w
  <1>6. Len(v) = 1 + Len(B) /\ Len(w) = Len(s) + 1 + Len(B)
    BY <1>1, <1>2, <1>3, <1>4
  <1>7. ASSUME NEW i \in 1 .. Len(s) + 1 + Len(B)
        PROVE  w[i] = IF i <= Len(s) THEN s[i] ELSE IF i = Len(s) + 1 THEN c ELSE B[i - (Len(s) + 1)]
    <2>1. w[i] = IF i <= Len(s) THEN s[i] ELSE v[i - Len(s)]
      BY <1>2, <1>4, <1>6
    <2>2. CASE i <= Len(s)
      BY <2>1, <2>2
    <2>3. CASE i = Len(s) + 1
      <3>1. i - Len(s) = 1 /\ ~ (i <= Len(s)) /\ 1 \in 1 .. Len(o) + Len(B) /\ 1 <= Len(o)
        BY <1>1, <1>2, <2>3
      <3>2. QED
        BY <1>1, <1>3, <2>1, <2>3, <3>1
    <2>4. CASE i > Len(s) + 1
      <3> DEFINE j == i - Len(s)
      <3>1. j \in 1 .. Len(o) + Len(B) /\ ~ (j <= Len(o)) /\ ~ (i <= Len(s)) /\ i # Len(s) + 1
            /\ j - Len(o) = i - (Len(s) + 1)
        BY <1>1, <1>2, <2>4
      <3> HIDE DEF j
      <3>2. v[j] = B[j - Len(o)]
        BY <1>3, <3>1
      <3>3. QED
        BY <2>1, <3>1, <3>2 DEF j
    <2>5. i <= Len(s) \/ i = Len(s) + 1 \/ i > Len(s) + 1
      BY <1>2
    <2>6. QED
      BY <2>2, <2>3, <2>4, <2>5
  <1>8. QED
    BY <1>1, <1>2, <1>3, <1>4, <1>5, <1>6, <1>7 DEF AroundAt, v, o

\* Taken out, exchanged, put in, and the element as the last of the first ones.
LEMMA AroundChanges ==
  ASSUME NEW s, IsSequence(s), NEW c, NEW B, IsSequence(B), NEW w, w = Around(s, c, B), NEW n, n = Len(s) + 1
  PROVE  /\ IsSequence(w) /\ n \in DOMAIN w /\ w[n] = c /\ IsSequence(s \o B)
         /\ RemoveAt(w, n) = s \o B
         /\ \A a : PutAt(w, n, a) = Around(s, a, B)
         /\ Splice(s \o B, Len(s), c) = w
         /\ Append(s, c) \o B = w
  <1>1. AroundAt(s, c, B, w) /\ Len(s) \in Nat /\ Len(B) \in Nat
    BY AroundFacts
  <1> DEFINE l == Len(s)
             b == Len(B)
             v == s \o B
  <1>2. /\ IsSequence(w) /\ Len(w) = l + 1 + b /\ l \in Nat /\ b \in Nat /\ n = l + 1
        /\ \A i \in 1 .. l + 1 + b : w[i] = IF i <= l THEN s[i] ELSE IF i = l + 1 THEN c ELSE B[i - (l + 1)]
    BY <1>1 DEF AroundAt
  <1>3. DOMAIN w = 1 .. l + 1 + b
    BY <1>2, SequenceFacts
  <1>4. n \in DOMAIN w /\ w[n] = c
    <2> HIDE DEF l, b
    <2>1. n \in 1 .. l + 1 + b /\ ~ (n <= l)
      BY <1>2
    <2>2. QED
      BY <1>2, <1>3, <2>1
  <1>5. IsSequence(v) /\ Len(v) = l + b /\ \A i \in 1 .. l + b : v[i] = IF i <= l THEN s[i] ELSE B[i - l]
    <2>1. v = s \o B
      OBVIOUS
    <2> HIDE DEF v
    <2>2. JoinedAs(s, B, v)
      BY <2>1, Joined
    <2>3. QED
      BY <2>2 DEF JoinedAs
  <1>6. RemoveAt(w, n) = v
    <2>1. /\ IsSequence(RemoveAt(w, n)) /\ Len(RemoveAt(w, n)) = Len(w) - 1
          /\ \A i \in 1 .. Len(w) - 1 : RemoveAt(w, n)[i] = IF i < n THEN w[i] ELSE w[i + 1]
      BY <1>2, <1>4, Taken
    <2> DEFINE u == RemoveAt(w, n)
    <2> HIDE DEF u, v, l, b
    <2>2. Len(w) - 1 = l + b /\ Len(u) = l + b
      BY <1>2, <2>1 DEF u
    <2>3. ASSUME NEW i \in 1 .. l + b PROVE u[i] = v[i]
      <3>1. u[i] = IF i < n THEN w[i] ELSE w[i + 1]
        BY <2>1, <2>2 DEF u
      <3>2. CASE i <= l
        <4>1. i < n /\ i \in 1 .. l + 1 + b
          BY <1>2, <3>2
        <4>2. QED
          BY <1>2, <1>5, <3>1, <3>2, <4>1
      <3>3. CASE ~ (i <= l)
        <4>1. ~ (i < n) /\ i + 1 \in 1 .. l + 1 + b /\ ~ (i + 1 <= l) /\ i + 1 # l + 1 /\ i + 1 - (l + 1) = i - l
          BY <1>2, <3>3
        <4> DEFINE k == i + 1
        <4>2. w[k] = B[k - (l + 1)]
          <5>1. k \in 1 .. l + 1 + b /\ ~ (k <= l) /\ k # l + 1
            BY <4>1
          <5> HIDE DEF k
          <5>2. QED
            BY <1>2, <5>1
        <4>3. v[i] = B[i - l]
          BY <1>5, <3>3
        <4>4. k - (l + 1) = i - l
          BY <1>2, <4>1
        <4> HIDE DEF k
        <4>5. w[k] = v[i]
          BY <4>2, <4>3, <4>4
        <4>6. u[i] = w[k]
          BY <3>1, <4>1 DEF k
        <4>7. QED
          BY <4>5, <4>6
      <3>4. QED
        BY <3>2, <3>3
    <2>4. IsSequence(u)
      BY <2>1 DEF u
    <2>5. u = v
      BY <1>5, <2>2, <2>3, <2>4, SameSequence
    <2>6. QED
      BY <2>5 DEF u
  <1>7. ASSUME NEW a PROVE PutAt(w, n, a) = Around(s, a, B)
    <2> DEFINE u == PutAt(w, n, a)
               y == Around(s, a, B)
    <2>1. AroundAt(s, a, B, y)
      BY AroundFacts
    <2> HIDE DEF y
    <2>2. /\ IsSequence(y) /\ Len(y) = l + 1 + b
          /\ \A i \in 1 .. l + 1 + b : y[i] = IF i <= l THEN s[i] ELSE IF i = l + 1 THEN a ELSE B[i - (l + 1)]
      BY <2>1 DEF AroundAt
    <2>3. IsSequence(u) /\ Len(u) = Len(w) /\ \A i \in DOMAIN w : u[i] = IF i = n THEN a ELSE w[i]
      <3>1. u = PutAt(w, n, a)
        OBVIOUS
      <3> HIDE DEF u
      <3>2. QED
        BY <1>2, <1>4, <3>1, Replaced
    <2> HIDE DEF u, l, b
    <2>4. ASSUME NEW i \in 1 .. l + 1 + b PROVE u[i] = y[i]
      <3>1. CASE i = n
        <4>1. ~ (i <= l) /\ i = l + 1
          BY <1>2, <3>1
        <4>2. QED
          BY <1>3, <2>2, <2>3, <3>1, <4>1
      <3>2. CASE i # n
        BY <1>2, <1>3, <2>2, <2>3, <3>2
      <3>3. QED
        BY <3>1, <3>2
    <2>5. u = y
      BY <1>2, <2>2, <2>3, <2>4, SameSequence
    <2>6. QED
      BY <2>5 DEF u, y
  <1>8. Splice(v, l, c) = w
    <2>1. l \in 0 .. Len(v)
      <3> HIDE DEF l, v, b
      <3>1. QED
        BY <1>2, <1>5
    <2> DEFINE u == Splice(v, l, c)
    <2>2. IsSequence(u) /\ SplicedAs(v, l, c, u)
      <3>1. IsSequence(v) /\ l \in 0 .. Len(v) /\ u = Splice(v, l, c)
        BY <1>5, <2>1
      <3> HIDE DEF l, v, u
      <3>2. QED
        BY ONLY <3>1, SplicedIn
    <2>3. /\ IsSequence(u) /\ Len(u) = Len(v) + 1
          /\ \A i \in 1 .. Len(v) + 1 : u[i] = IF i <= l THEN v[i] ELSE IF i = l + 1 THEN c ELSE v[i - 1]
      <3> HIDE DEF l, v, u
      <3>1. QED
        BY <2>2 DEF SplicedAs
    <2> HIDE DEF u, v, l, b
    <2>4. Len(u) = l + 1 + b /\ Len(v) + 1 = l + 1 + b
      BY <1>2, <1>5, <2>3
    <2>5. ASSUME NEW i \in 1 .. l + 1 + b PROVE u[i] = w[i]
      <3>1. u[i] = IF i <= l THEN v[i] ELSE IF i = l + 1 THEN c ELSE v[i - 1]
        BY <2>3, <2>4
      <3>2. CASE i <= l
        <4>1. i \in 1 .. l + b
          BY <1>2, <3>2
        <4>2. QED
          BY <1>2, <1>5, <3>1, <3>2, <4>1
      <3>3. CASE i = l + 1
        <4>1. ~ (i <= l)
          BY <1>2, <3>3
        <4>2. QED
          BY <1>2, <3>1, <3>3, <4>1
      <3>4. CASE i > l + 1
        <4> DEFINE k == i - 1
        <4>1. ~ (i <= l) /\ i # l + 1 /\ k \in 1 .. l + b /\ ~ (k <= l) /\ k - l = i - (l + 1)
          BY <1>2, <3>4
        <4> HIDE DEF k
        <4>2. v[k] = B[k - l]
          BY <1>5, <4>1
        <4>3. QED
          BY <1>2, <3>1, <4>1, <4>2 DEF k
      <3>5. i <= l \/ i = l + 1 \/ i > l + 1
        BY <1>2
      <3>6. QED
        BY <3>2, <3>3, <3>4, <3>5
    <2>6. u = w
      BY <1>2, <2>3, <2>4, <2>5, SameSequence
    <2>7. QED
      BY <2>6 DEF u
  <1>9. Append(s, c) \o B = w
    <2> DEFINE T == ToSet(s) \cup {c} \cup ToSet(B)
    <2>1. s \in Seq(T) /\ B \in Seq(T) /\ c \in T
      BY SequencesGrow
    <2> HIDE DEF T
    <2>2. Append(s, c) \o B = s \o (<<c>> \o B)
      BY <2>1
    <2>3. QED
      BY <2>2 DEF Around
  <1>10. QED
    BY <1>2, <1>4, <1>5, <1>6, <1>7, <1>8, <1>9

\* What a list of sequences strings together, one element of the list at a time.
LEMMA FlatNone ==
  ASSUME NEW f, DOMAIN f = {}, f = [i \in DOMAIN f |-> f[i]]
  PROVE  FlattenSeq(f) = <<>>
  <1>1. f = <<>>
    OBVIOUS
  <1>2. <<>> \in Seq(Seq({0})) /\ <<>> \in Seq({0})
    OBVIOUS
  <1>3. FlattenSeq(<<>>) = <<>>
    BY <1>2, FlattenAppend
  <1>4. QED
    BY <1>1, <1>3

\* g lists what f lists, and `last` after it.
Extends(s, u, f, g, last) ==
  /\ DOMAIN f = DOMAIN s /\ f = [i \in DOMAIN f |-> f[i]] /\ DOMAIN g = DOMAIN u /\ g = [i \in DOMAIN g |-> g[i]]
  /\ \A i \in DOMAIN f : g[i] = f[i]
  /\ \A i \in DOMAIN g : IsSequence(g[i])
  /\ last = g[Len(s) + 1]

\* Flattening one more sequence appends its elements.
LEMMA FlatOne ==
  ASSUME NEW s, IsSequence(s), NEW c, NEW u, u = Append(s, c), NEW f, NEW g, NEW last, Extends(s, u, f, g, last)
  PROVE  FlattenSeq(g) = FlattenSeq(f) \o last /\ IsSequence(FlattenSeq(f)) /\ IsSequence(FlattenSeq(g))
  <1>0. /\ DOMAIN f = DOMAIN s /\ f = [i \in DOMAIN f |-> f[i]] /\ DOMAIN g = DOMAIN u /\ g = [i \in DOMAIN g |-> g[i]]
        /\ \A i \in DOMAIN f : g[i] = f[i]
        /\ \A i \in DOMAIN g : IsSequence(g[i])
        /\ last = g[Len(s) + 1]
    BY DEF Extends
  <1> DEFINE n == Len(s)
             T == UNION {ToSet(g[i]) : i \in DOMAIN g}
             S == ToSet(s) \cup {c}
  <1>1. n \in Nat /\ DOMAIN s = 1 .. n
    BY SequenceFacts
  <1>2. DOMAIN u = 1 .. n + 1
    <2>1. s \in Seq(S) /\ c \in S
      BY SequencesGrow
    <2> HIDE DEF S
    <2>2. QED
      BY <2>1
  <1>3. \A i \in 1 .. n + 1 : g[i] \in Seq(T)
    <2>1. ASSUME NEW i \in 1 .. n + 1 PROVE g[i] \in Seq(T)
      <3>1. IsSequence(g[i]) /\ ToSet(g[i]) \subseteq T
        BY <1>0, <1>2
      <3> HIDE DEF T
      <3>2. QED
        BY <3>1, SequencesGrow
    <2>2. QED
      BY <2>1
  <1> HIDE DEF T, n
  <1>4. f \in Seq(Seq(T)) /\ g \in Seq(Seq(T)) /\ Len(f) = n /\ Len(g) = n + 1 /\ last \in Seq(T)
    <2>1. f = [i \in 1 .. n |-> f[i]] /\ \A i \in 1 .. n : f[i] \in Seq(T)
      BY <1>0, <1>1, <1>2, <1>3
    <2>2. g = [i \in 1 .. n + 1 |-> g[i]] /\ n + 1 \in Nat
      BY <1>0, <1>1, <1>2
    <2>3. last \in Seq(T)
      BY <1>0, <1>1, <1>3 DEF n
    <2>4. f \in Seq(Seq(T)) /\ Len(f) = n
      BY <1>1, <2>1
    <2>5. g \in Seq(Seq(T)) /\ Len(g) = n + 1
      BY <1>3, <2>2
    <2>6. QED
      BY <2>3, <2>4, <2>5
  <1>5. g = Append(f, last)
    <2> DEFINE h == Append(f, last)
    <2>1. h \in Seq(Seq(T)) /\ Len(h) = n + 1 /\ (\A i \in 1 .. n : h[i] = f[i]) /\ h[n + 1] = last
      <3> DEFINE Q == Seq(T)
      <3>1. f \in Seq(Q) /\ last \in Q /\ Len(f) = n /\ n \in Nat
        BY <1>1, <1>4
      <3> HIDE DEF Q
      <3>2. h \in Seq(Q) /\ Len(h) = n + 1 /\ (\A i \in 1 .. n : h[i] = f[i]) /\ h[n + 1] = last
        BY ONLY <3>1
      <3>3. QED
        BY <3>2 DEF Q
    <2> HIDE DEF h
    <2>2. ASSUME NEW i \in 1 .. n + 1 PROVE g[i] = h[i]
      <3>1. CASE i \in 1 .. n
        BY <1>0, <1>1, <2>1, <3>1
      <3>2. CASE i = n + 1
        BY <1>0, <2>1, <3>2 DEF n
      <3>3. QED
        BY <1>1, <3>1, <3>2
    <2>3. g = h
      BY <1>4, <2>1, <2>2, SeqEqual
    <2>4. QED
      BY <2>3 DEF h
  <1>6. FlattenSeq(f) \in Seq(T) /\ FlattenSeq(g) \in Seq(T)
    BY <1>4, FlattenElements
  <1>7. FlattenSeq(g) = FlattenSeq(f) \o last
    <2>1. FlattenSeq(<<>>) = <<>> /\ FlattenSeq(Append(f, last)) = IF f = <<>> THEN last ELSE FlattenSeq(f) \o last
      <3>1. f \in Seq(Seq(T)) /\ last \in Seq(T)
        BY <1>4
      <3>2. QED
        BY ONLY <3>1, FlattenAppend
    <2>2. <<>> \o last = last
      BY <1>4
    <2>3. CASE f = <<>>
      BY <1>5, <2>1, <2>2, <2>3
    <2>4. CASE f # <<>>
      BY <1>5, <2>1, <2>4
    <2>5. QED
      BY <2>3, <2>4
  <1>8. QED
    BY <1>6, <1>7, SequenceOfElements

\* The operations that take the new pieces out, and what they leave.
Outs(before, s) == FlattenSeq(TakeOuts(before, s))
KeptOne(before, c) == IF \A old \in ToSet(before) : old.id # c.id THEN <<>> ELSE <<c>>
KeptList(before, s) == [j \in DOMAIN s |-> KeptOne(before, s[j])]
Kept(before, s) == FlattenSeq(KeptList(before, s))

\* The operations that put the clips back, and what is left of them before.
Backs(id, after, s) == FlattenSeq(Restores(id, s, after))
LeftOne(after, c) == IF MatchIn(after, c) = 0 THEN <<>> ELSE <<after[MatchIn(after, c)]>>
LeftList(after, s) == [i \in DOMAIN s |-> LeftOne(after, s[i])]
LeftOvers(after, s) == FlattenSeq(LeftList(after, s))

PieceList(s, op) == [i \in DOMAIN s |-> RipplePieces(s[i], op)]

AppendAs(s, c, u, n) ==
  /\ IsSequence(u) /\ DOMAIN s \subseteq DOMAIN u /\ n \in DOMAIN u /\ u[n] = c /\ Len(u) = n
  /\ \A i \in DOMAIN s : u[i] = s[i]
  /\ ToSet(u) = ToSet(s) \cup {c}
  /\ \A i \in DOMAIN u : i \in DOMAIN s \/ i = n

\* What appending one element does, by position.
LEMMA AppendFacts ==
  ASSUME NEW s, IsSequence(s), NEW c, NEW u, u = Append(s, c), NEW n, n = Len(s) + 1
  PROVE  AppendAs(s, c, u, n)
  <1> DEFINE S == ToSet(s) \cup {c}
  <1>1. s \in Seq(S) /\ c \in S /\ Len(s) \in Nat /\ DOMAIN s = 1 .. Len(s)
    BY SequencesGrow, SequenceFacts
  <1>2. \A x \in ToSet(s) : \E i \in DOMAIN s : x = s[i]
    BY DEF ToSet
  <1> HIDE DEF S
  <1>3. /\ u \in Seq(S) /\ Len(u) = n /\ DOMAIN u = 1 .. n /\ u[n] = c /\ n \in Nat /\ n \in 1 .. n
        /\ \A i \in DOMAIN s : u[i] = s[i]
    BY <1>1
  <1>4. DOMAIN s \subseteq DOMAIN u /\ \A i \in DOMAIN u : i \in DOMAIN s \/ i = n
    BY <1>1, <1>3
  <1>5. IsSequence(u)
    BY <1>3, SequenceOfElements
  <1>6. ToSet(u) = ToSet(s) \cup {c}
    <2>1. ASSUME NEW x \in ToSet(u) PROVE x \in ToSet(s) \cup {c}
      BY <1>3, <1>4 DEF ToSet
    <2>2. ASSUME NEW x \in ToSet(s) PROVE x \in ToSet(u)
      <3>1. PICK i \in DOMAIN s : x = s[i]
        BY <1>2
      <3>2. i \in DOMAIN u /\ u[i] = x
        BY <1>3, <1>4, <3>1
      <3>3. QED
        BY <3>2 DEF ToSet
    <2>3. c \in ToSet(u)
      BY <1>3 DEF ToSet
    <2>4. QED
      BY <2>1, <2>2, <2>3
  <1>7. QED
    BY <1>3, <1>4, <1>5, <1>6 DEF AppendAs

\* Of no clips nothing is taken out, kept, put back or left over.
LEMMA NoneOf ==
  ASSUME NEW before, NEW id, NEW after
  PROVE  /\ Outs(before, <<>>) = <<>> /\ Kept(before, <<>>) = <<>>
         /\ Backs(id, after, <<>>) = <<>> /\ LeftOvers(after, <<>>) = <<>>
  <1>1. DOMAIN <<>> = {}
    OBVIOUS
  <1>2. Outs(before, <<>>) = <<>>
    <2> DEFINE f == TakeOuts(before, <<>>)
    <2>1. DOMAIN f = {} /\ f = [i \in DOMAIN f |-> f[i]]
      BY <1>1 DEF TakeOuts
    <2> HIDE DEF f
    <2>2. FlattenSeq(f) = <<>>
      BY <2>1, FlatNone
    <2>3. QED
      BY <2>2 DEF Outs, f
  <1>3. Kept(before, <<>>) = <<>>
    <2> DEFINE f == KeptList(before, <<>>)
    <2>1. DOMAIN f = {} /\ f = [i \in DOMAIN f |-> f[i]]
      BY <1>1 DEF KeptList
    <2> HIDE DEF f
    <2>2. FlattenSeq(f) = <<>>
      BY <2>1, FlatNone
    <2>3. QED
      BY <2>2 DEF Kept, f
  <1>4. Backs(id, after, <<>>) = <<>>
    <2> DEFINE f == Restores(id, <<>>, after)
    <2>1. DOMAIN f = {} /\ f = [i \in DOMAIN f |-> f[i]]
      BY <1>1 DEF Restores
    <2> HIDE DEF f
    <2>2. FlattenSeq(f) = <<>>
      BY <2>1, FlatNone
    <2>3. QED
      BY <2>2 DEF Backs, f
  <1>5. LeftOvers(after, <<>>) = <<>>
    <2> DEFINE f == LeftList(after, <<>>)
    <2>1. DOMAIN f = {} /\ f = [i \in DOMAIN f |-> f[i]]
      BY <1>1 DEF LeftList
    <2> HIDE DEF f
    <2>2. FlattenSeq(f) = <<>>
      BY <2>1, FlatNone
    <2>3. QED
      BY <2>2 DEF LeftOvers, f
  <1>6. QED
    BY <1>2, <1>3, <1>4, <1>5

BackOne(id, after, c, i) ==
  IF MatchIn(after, c) = 0 THEN <<InsertClipOp(id, c, i - 1)>>
  ELSE IF after[MatchIn(after, c)] = c THEN <<>>
  ELSE <<ReplaceClipOp(c.id, c)>>

\* Every part is a sequence of none or one.
LEMMA PartsAreShort ==
  ASSUME NEW before, NEW after, NEW c, NEW id, NEW i
  PROVE  /\ IsSequence(TakeOut(before, c)) /\ IsSequence(KeptOne(before, c))
         /\ IsSequence(BackOne(id, after, c, i)) /\ IsSequence(LeftOne(after, c))
  <1>1. \A a : IsSequence(<<a>>)
    BY OneElement
  <1>2. IsSequence(<<>>)
    BY EmptySequence
  <1>3. IsSequence(TakeOut(before, c))
    BY <1>1, <1>2 DEF TakeOut
  <1>4. IsSequence(KeptOne(before, c))
    BY <1>1, <1>2 DEF KeptOne
  <1>5. IsSequence(BackOne(id, after, c, i))
    BY <1>1, <1>2 DEF BackOne
  <1>6. IsSequence(LeftOne(after, c))
    BY <1>1, <1>2 DEF LeftOne
  <1>7. QED
    BY <1>3, <1>4, <1>5, <1>6

\* The pieces taken out of one more clip.
LEMMA OutsOn ==
  ASSUME NEW before, NEW s, IsSequence(s), NEW c, NEW u, u = Append(s, c)
  PROVE  /\ Outs(before, u) = Outs(before, s) \o TakeOut(before, c)
         /\ IsSequence(Outs(before, s)) /\ IsSequence(TakeOut(before, c))
  <1> DEFINE f == TakeOuts(before, s)
             g == TakeOuts(before, u)
             n == Len(s) + 1
             last == g[n]
  <1>1. /\ IsSequence(u) /\ DOMAIN s \subseteq DOMAIN u /\ n \in DOMAIN u /\ u[n] = c
        /\ \A i \in DOMAIN s : u[i] = s[i]
    <2>1. u = Append(s, c) /\ n = Len(s) + 1
      OBVIOUS
    <2> HIDE DEF n
    <2>2. AppendAs(s, c, u, n)
      BY ONLY <2>1, AppendFacts, IsSequence(s)
    <2>3. QED
      BY ONLY <2>2 DEF AppendAs
  <1> HIDE DEF n
  <1>2. /\ DOMAIN f = DOMAIN s /\ f = [i \in DOMAIN f |-> f[i]] /\ DOMAIN g = DOMAIN u /\ g = [i \in DOMAIN g |-> g[i]]
        /\ \A i \in DOMAIN f : g[i] = f[i]
        /\ \A i \in DOMAIN g : g[i] = TakeOut(before, u[i])
    BY <1>1 DEF TakeOuts
  <1> HIDE DEF f, g
  <1>3. last = TakeOut(before, c) /\ \A i \in DOMAIN g : IsSequence(g[i])
    BY <1>1, <1>2, PartsAreShort
  <1>4. last = g[Len(s) + 1]
    BY DEF n
  <1> HIDE DEF last
  <1>5. FlattenSeq(g) = FlattenSeq(f) \o last /\ IsSequence(FlattenSeq(f)) /\ IsSequence(FlattenSeq(g))
    <2>1. Extends(s, u, f, g, last)
      BY <1>2, <1>3, <1>4 DEF Extends
    <2>2. QED
      BY ONLY <2>1, FlatOne, IsSequence(s), u = Append(s, c)
  <1>6. QED
    BY <1>3, <1>5, PartsAreShort DEF Outs, f, g

\* The pieces kept of one more clip.
LEMMA KeptOn ==
  ASSUME NEW before, NEW s, IsSequence(s), NEW c, NEW u, u = Append(s, c)
  PROVE  /\ Kept(before, u) = Kept(before, s) \o KeptOne(before, c)
         /\ IsSequence(Kept(before, s)) /\ IsSequence(Kept(before, u)) /\ IsSequence(KeptOne(before, c))
  <1> DEFINE f == KeptList(before, s)
             g == KeptList(before, u)
             n == Len(s) + 1
             last == g[n]
  <1>1. /\ IsSequence(u) /\ DOMAIN s \subseteq DOMAIN u /\ n \in DOMAIN u /\ u[n] = c
        /\ \A i \in DOMAIN s : u[i] = s[i]
    <2>1. u = Append(s, c) /\ n = Len(s) + 1
      OBVIOUS
    <2> HIDE DEF n
    <2>2. AppendAs(s, c, u, n)
      BY ONLY <2>1, AppendFacts, IsSequence(s)
    <2>3. QED
      BY ONLY <2>2 DEF AppendAs
  <1> HIDE DEF n
  <1>2. /\ DOMAIN f = DOMAIN s /\ f = [i \in DOMAIN f |-> f[i]] /\ DOMAIN g = DOMAIN u /\ g = [i \in DOMAIN g |-> g[i]]
        /\ \A i \in DOMAIN f : g[i] = f[i]
        /\ \A i \in DOMAIN g : g[i] = KeptOne(before, u[i])
    BY <1>1 DEF KeptList
  <1> HIDE DEF f, g
  <1>3. last = KeptOne(before, c) /\ \A i \in DOMAIN g : IsSequence(g[i])
    BY <1>1, <1>2, PartsAreShort
  <1>4. last = g[Len(s) + 1]
    BY DEF n
  <1> HIDE DEF last
  <1>5. FlattenSeq(g) = FlattenSeq(f) \o last /\ IsSequence(FlattenSeq(f)) /\ IsSequence(FlattenSeq(g))
    <2>1. Extends(s, u, f, g, last)
      BY <1>2, <1>3, <1>4 DEF Extends
    <2>2. QED
      BY ONLY <2>1, FlatOne, IsSequence(s), u = Append(s, c)
  <1>6. QED
    BY <1>3, <1>5, PartsAreShort DEF Kept, f, g

\* The clips left in place, with one more.
LEMMA LeftOn ==
  ASSUME NEW after, NEW s, IsSequence(s), NEW c, NEW u, u = Append(s, c)
  PROVE  /\ LeftOvers(after, u) = LeftOvers(after, s) \o LeftOne(after, c)
         /\ IsSequence(LeftOvers(after, s)) /\ IsSequence(LeftOvers(after, u)) /\ IsSequence(LeftOne(after, c))
  <1> DEFINE f == LeftList(after, s)
             g == LeftList(after, u)
             n == Len(s) + 1
             last == g[n]
  <1>1. /\ IsSequence(u) /\ DOMAIN s \subseteq DOMAIN u /\ n \in DOMAIN u /\ u[n] = c
        /\ \A i \in DOMAIN s : u[i] = s[i]
    <2>1. u = Append(s, c) /\ n = Len(s) + 1
      OBVIOUS
    <2> HIDE DEF n
    <2>2. AppendAs(s, c, u, n)
      BY ONLY <2>1, AppendFacts, IsSequence(s)
    <2>3. QED
      BY ONLY <2>2 DEF AppendAs
  <1> HIDE DEF n
  <1>2. /\ DOMAIN f = DOMAIN s /\ f = [i \in DOMAIN f |-> f[i]] /\ DOMAIN g = DOMAIN u /\ g = [i \in DOMAIN g |-> g[i]]
        /\ \A i \in DOMAIN f : g[i] = f[i]
        /\ \A i \in DOMAIN g : g[i] = LeftOne(after, u[i])
    BY <1>1 DEF LeftList
  <1> HIDE DEF f, g
  <1>3. last = LeftOne(after, c) /\ \A i \in DOMAIN g : IsSequence(g[i])
    BY <1>1, <1>2, PartsAreShort
  <1>4. last = g[Len(s) + 1]
    BY DEF n
  <1> HIDE DEF last
  <1>5. FlattenSeq(g) = FlattenSeq(f) \o last /\ IsSequence(FlattenSeq(f)) /\ IsSequence(FlattenSeq(g))
    <2>1. Extends(s, u, f, g, last)
      BY <1>2, <1>3, <1>4 DEF Extends
    <2>2. QED
      BY ONLY <2>1, FlatOne, IsSequence(s), u = Append(s, c)
  <1>6. QED
    BY <1>3, <1>5, PartsAreShort DEF LeftOvers, f, g

\* c is appended to s: u, whose last position is n.
Appended(s, c, u, n) == IsSequence(s) /\ u = Append(s, c) /\ n = Len(s) + 1

\* The clips put back, with one more.
LEMMA BacksOn ==
  ASSUME NEW id, NEW after, NEW s, NEW c, NEW u, NEW n, Appended(s, c, u, n)
  PROVE  /\ Backs(id, after, u) = Backs(id, after, s) \o BackOne(id, after, c, n)
         /\ IsSequence(Backs(id, after, s)) /\ IsSequence(BackOne(id, after, c, n))
  <1>0. IsSequence(s) /\ u = Append(s, c) /\ n = Len(s) + 1
    BY DEF Appended
  <1> DEFINE f == Restores(id, s, after)
             g == Restores(id, u, after)
             last == g[n]
  <1>1. /\ IsSequence(u) /\ DOMAIN s \subseteq DOMAIN u /\ n \in DOMAIN u /\ u[n] = c
        /\ \A i \in DOMAIN s : u[i] = s[i]
    <2>2. AppendAs(s, c, u, n)
      BY ONLY <1>0, AppendFacts
    <2>3. QED
      BY ONLY <2>2 DEF AppendAs
  <1>2. /\ DOMAIN f = DOMAIN s /\ f = [i \in DOMAIN f |-> f[i]] /\ DOMAIN g = DOMAIN u /\ g = [i \in DOMAIN g |-> g[i]]
        /\ \A i \in DOMAIN f : f[i] = BackOne(id, after, s[i], i)
        /\ \A i \in DOMAIN g : g[i] = BackOne(id, after, u[i], i)
    BY <1>1 DEF Restores, RestoreOne, BackOne
  <1> HIDE DEF f, g
  <1>3. /\ last = BackOne(id, after, c, n) /\ \A i \in DOMAIN g : IsSequence(g[i])
        /\ \A i \in DOMAIN f : g[i] = f[i]
    BY <1>1, <1>2, PartsAreShort
  <1>4. last = g[Len(s) + 1]
    BY <1>0
  <1> HIDE DEF last
  <1>5. FlattenSeq(g) = FlattenSeq(f) \o last /\ IsSequence(FlattenSeq(f)) /\ IsSequence(FlattenSeq(g))
    <2>1. Extends(s, u, f, g, last)
      BY <1>2, <1>3, <1>4 DEF Extends
    <2>2. QED
      BY ONLY <1>0, <2>1, FlatOne
  <1>6. QED
    BY <1>3, <1>5, PartsAreShort DEF Backs, f, g

\* The ripple of a track with one more clip.
LEMMA PiecesOn ==
  ASSUME NEW op, op.range \in TimeRange, NEW s, IsSequence(s), \A clip \in ToSet(s) : IsClip(clip),
         NEW c, IsClip(c), NEW u, u = Append(s, c)
  PROVE  /\ RippleTrack(u, op) = RippleTrack(s, op) \o RipplePieces(c, op)
         /\ IsSequence(RippleTrack(s, op)) /\ IsSequence(RipplePieces(c, op))
  <1> DEFINE f == PieceList(s, op)
             g == PieceList(u, op)
             n == Len(s) + 1
             last == g[n]
  <1>1. /\ IsSequence(u) /\ DOMAIN s \subseteq DOMAIN u /\ n \in DOMAIN u /\ u[n] = c
        /\ \A i \in DOMAIN s : u[i] = s[i]
        /\ \A i \in DOMAIN u : i \in DOMAIN s \/ i = n
    <2>1. u = Append(s, c) /\ n = Len(s) + 1
      OBVIOUS
    <2> HIDE DEF n
    <2>2. AppendAs(s, c, u, n)
      BY ONLY <2>1, AppendFacts, IsSequence(s)
    <2>3. QED
      BY ONLY <2>2 DEF AppendAs
  <1> HIDE DEF n
  <1>2. /\ DOMAIN f = DOMAIN s /\ f = [i \in DOMAIN f |-> f[i]] /\ DOMAIN g = DOMAIN u /\ g = [i \in DOMAIN g |-> g[i]]
        /\ \A i \in DOMAIN f : g[i] = f[i]
        /\ \A i \in DOMAIN g : g[i] = RipplePieces(u[i], op)
    BY <1>1 DEF PieceList
  <1> HIDE DEF f, g
  <1>3. last = RipplePieces(c, op)
    BY <1>1, <1>2
  <1>4. \A i \in DOMAIN g : IsSequence(g[i])
    <2>1. ASSUME NEW i \in DOMAIN u PROVE IsClip(u[i])
      BY <1>1 DEF ToSet
    <2>2. QED
      BY <1>2, <2>1, PiecesAreClips
  <1>5. last = g[Len(s) + 1]
    BY DEF n
  <1> HIDE DEF last
  <1>6. FlattenSeq(g) = FlattenSeq(f) \o last /\ IsSequence(FlattenSeq(f)) /\ IsSequence(FlattenSeq(g))
    <2>1. Extends(s, u, f, g, last)
      BY <1>2, <1>4, <1>5 DEF Extends
    <2>2. QED
      BY ONLY <2>1, FlatOne, IsSequence(s), u = Append(s, c)
  <1>7. QED
    BY <1>3, <1>6, PiecesAreClips DEF RippleTrack, PieceList, f, g

\* A track's clips exchanged for others.
LEMMA ClipsDocument ==
  ASSUME NEW x, IsDocument(x), NEW t \in DOMAIN x.tracks, NEW q, IsSequence(q), \A c \in ToSet(q) : IsClip(c),
         NEW y, y = WithClips(x, t, q)
  PROVE  /\ IsDocument(y) /\ t \in DOMAIN y.tracks /\ y.tracks[t].clips = q /\ y.tracks[t].id = x.tracks[t].id
         /\ y.locks = x.locks /\ DOMAIN y.tracks = DOMAIN x.tracks
         /\ \A u \in DOMAIN x.tracks : y.tracks[u].id = x.tracks[u].id
         /\ \A u \in DOMAIN x.tracks : u # t => y.tracks[u].clips = x.tracks[u].clips
  <1>1. \A i \in DOMAIN q : IsClip(q[i])
    BY DEF ToSet
  <1>2. /\ IsDocument(WithClips(x, t, q)) /\ WithClips(x, t, q).locks = x.locks
        /\ DOMAIN WithClips(x, t, q).tracks = DOMAIN x.tracks
        /\ \A u \in DOMAIN x.tracks :
             /\ WithClips(x, t, q).tracks[u].id = x.tracks[u].id
             /\ WithClips(x, t, q).tracks[u].clips = IF u = t THEN q ELSE x.tracks[u].clips
    BY <1>1, Reclipped
  <1>3. QED
    BY <1>2

\* A clip less, and every id is still given once.
LEMMA TakenIds ==
  ASSUME NEW x, IsDocument(x), IdsUnique(x), NEW t \in DOMAIN x.tracks, NEW m, m = x.tracks[t].clips,
         NEW n \in DOMAIN m, NEW v, v = RemoveAt(m, n), NEW y, y = WithClips(x, t, v)
  PROVE  IsDocument(y) /\ IdsUnique(y)
  <1> DEFINE l == Len(m)
             Was(i) == IF i < n THEN i ELSE i + 1
  <1>1. IsSequence(m) /\ (\A c \in ToSet(m) : IsClip(c)) /\ DOMAIN m = 1 .. l /\ l \in Nat
    <2>1. IsSequence(m) /\ \A i \in DOMAIN m : IsClip(m[i])
      BY DocumentFacts, ClipFacts
    <2>2. QED
      BY <2>1, SequenceFacts DEF ToSet
  <1>2. /\ IsSequence(v) /\ Len(v) = l - 1 /\ ToSet(v) \subseteq ToSet(m)
        /\ \A i \in 1 .. l - 1 : v[i] = IF i < n THEN m[i] ELSE m[i + 1]
    <2>1. /\ IsSequence(RemoveAt(m, n)) /\ Len(RemoveAt(m, n)) = Len(m) - 1
          /\ ToSet(RemoveAt(m, n)) \subseteq ToSet(m)
          /\ \A i \in 1 .. Len(m) - 1 : RemoveAt(m, n)[i] = IF i < n THEN m[i] ELSE m[i + 1]
      <3>1. IsSequence(m) /\ n \in DOMAIN m
        BY <1>1
      <3>2. QED
        BY ONLY <3>1, Taken
    <2>2. QED
      BY <2>1
  <1>3. DOMAIN v = 1 .. l - 1
    BY <1>2, SequenceFacts
  <1> HIDE DEF l
  <1>4. /\ \A i \in DOMAIN v : Was(i) \in DOMAIN m /\ v[i] = m[Was(i)]
        /\ \A i, j \in DOMAIN v : Was(i) = Was(j) => i = j
    <2>1. n \in 1 .. l
      BY <1>1
    <2>2. ASSUME NEW i \in 1 .. l - 1 PROVE Was(i) \in 1 .. l /\ v[i] = m[Was(i)]
      BY <1>1, <1>2, <2>1
    <2>3. ASSUME NEW i \in 1 .. l - 1, NEW j \in 1 .. l - 1, Was(i) = Was(j) PROVE i = j
      BY <1>1, <2>1, <2>3
    <2> HIDE DEF Was
    <2>4. QED
      BY <1>1, <1>3, <2>2, <2>3
  <1> HIDE DEF Was
  <1>5. \A c \in ToSet(v) : IsClip(c)
    BY <1>1, <1>2
  <1>6. /\ IsDocument(y) /\ y.tracks[t].clips = v /\ y.locks = x.locks /\ DOMAIN y.tracks = DOMAIN x.tracks
        /\ \A u \in DOMAIN x.tracks : y.tracks[u].id = x.tracks[u].id
        /\ \A u \in DOMAIN x.tracks : u # t => y.tracks[u].clips = x.tracks[u].clips
    BY <1>2, <1>5, ClipsDocument
  <1>7. /\ \A s, u \in DOMAIN x.tracks : x.tracks[s].id = x.tracks[u].id => s = u
        /\ \A s, u \in DOMAIN x.tracks : \A i \in DOMAIN x.tracks[s].clips, j \in DOMAIN x.tracks[u].clips :
             x.tracks[s].clips[i].id = x.tracks[u].clips[j].id => s = u /\ i = j
        /\ \A i, j \in DOMAIN x.locks : x.locks[i].id = x.locks[j].id => i = j
    BY DEF IdsUnique
  <1>8. ASSUME NEW s \in DOMAIN x.tracks, NEW u \in DOMAIN x.tracks,
               NEW i \in DOMAIN y.tracks[s].clips, NEW j \in DOMAIN y.tracks[u].clips,
               y.tracks[s].clips[i].id = y.tracks[u].clips[j].id
        PROVE  s = u /\ i = j
    <2>1. CASE s = t /\ u = t
      <3>1. i \in DOMAIN v /\ j \in DOMAIN v /\ v[i].id = v[j].id
        BY <1>6, <1>8, <2>1
      <3>2. Was(i) = Was(j)
        BY <1>4, <1>7, <3>1
      <3>3. QED
        BY <1>4, <2>1, <3>1, <3>2, SMTT(30)
    <2>2. CASE s = t /\ u # t
      <3>1. i \in DOMAIN v /\ j \in DOMAIN x.tracks[u].clips /\ v[i].id = x.tracks[u].clips[j].id
        BY <1>6, <1>8, <2>2
      <3>2. Was(i) \in DOMAIN x.tracks[t].clips /\ v[i] = x.tracks[t].clips[Was(i)]
        BY <1>4, <3>1
      <3>3. t = u
        BY <1>7, <3>1, <3>2
      <3>4. QED
        BY <2>2, <3>3, SMTT(30)
    <2>3. CASE s # t /\ u = t
      <3>1. j \in DOMAIN v /\ i \in DOMAIN x.tracks[s].clips /\ v[j].id = x.tracks[s].clips[i].id
        BY <1>6, <1>8, <2>3
      <3>2. Was(j) \in DOMAIN x.tracks[t].clips /\ v[j] = x.tracks[t].clips[Was(j)]
        BY <1>4, <3>1
      <3>3. t = s
        BY <1>7, <3>1, <3>2
      <3>4. QED
        BY <2>3, <3>3, SMTT(30)
    <2>4. CASE s # t /\ u # t
      <3>1. y.tracks[s].clips = x.tracks[s].clips /\ y.tracks[u].clips = x.tracks[u].clips
        BY <1>6, <2>4, SMTT(30)
      <3>2. QED
        BY <1>7, <1>8, <3>1
    <2>5. QED
      BY <2>1, <2>2, <2>3, <2>4
  <1>9. /\ \A s, u \in DOMAIN y.tracks : y.tracks[s].id = y.tracks[u].id => s = u
        /\ \A i, j \in DOMAIN y.locks : y.locks[i].id = y.locks[j].id => i = j
    BY <1>6, <1>7
  <1>10. IdsUnique(y)
    <2>1. \A s, u \in DOMAIN y.tracks : \A i \in DOMAIN y.tracks[s].clips, j \in DOMAIN y.tracks[u].clips :
            y.tracks[s].clips[i].id = y.tracks[u].clips[j].id => s = u /\ i = j
      <3>1. DOMAIN y.tracks = DOMAIN x.tracks
        BY <1>6
      <3>2. QED
        BY ONLY <1>8, <3>1
    <2>2. QED
      BY ONLY <1>9, <2>1 DEF IdsUnique
  <1>11. QED
    BY <1>6, <1>10

-----------------------------------------------------------------------------
(***************************************************************************)
(* When taking operations back is accepted.                                *)
(***************************************************************************)
\* None of the operations is refused.
Allows(x, actor, ops) == ApplyAll(x, actor, ops).ok

\* No lock of the document stands in the actor's way.
Free(x, actor) == \A lock \in ToSet(x.locks) : ~ LockBlocksActor(lock, actor)

\* A run that continues where another one ended is accepted if both are.
LEMMA AllowsOn ==
  ASSUME NEW x, NEW actor, NEW a, IsSequence(a), NEW b, IsSequence(b), NEW c, c = a \o b,
         NEW y, Reaches(x, actor, a, y), Allows(x, actor, a), Allows(y, actor, b)
  PROVE  Allows(x, actor, c)
  <1> DEFINE E == ToSet(a) \cup ToSet(b)
             both(s) == ApplyAll(x, actor, a \o s)
             second(s) == ApplyAll(y, actor, s)
             Bad == {s \in Seq(E) : ~ (second(s).ok => both(s).ok /\ both(s).doc = second(s).doc)}
  <1>1. a \in Seq(E) /\ b \in Seq(E)
    BY SequencesGrow
  <1>2. ApplyAll(x, actor, a).ok /\ ApplyAll(x, actor, a).doc = y
    BY DEF Reaches, Allows
  <1> HIDE DEF E
  <1>ax. \A z, s, e : s \in Seq(E) /\ e \in E =>
           ApplyAll(z, actor, Append(s, e)) = ApplyNext(ApplyAll(z, actor, s), actor, e)
    <2> SUFFICES ASSUME NEW z, NEW s \in Seq(E), NEW e \in E
                 PROVE  ApplyAll(z, actor, Append(s, e)) = ApplyNext(ApplyAll(z, actor, s), actor, e)
      OBVIOUS
    <2>1. QED
      BY ApplyAppend
  <1>3. <<>> \notin Bad
    <2>1. a \o <<>> = a
      BY <1>1
    <2>2. second(<<>>).ok /\ second(<<>>).doc = y
      BY AppliedNone
    <2>3. QED
      BY <1>2, <2>1, <2>2
  <1>4. ASSUME NEW s \in Seq(E), NEW e \in E, s \notin Bad PROVE Append(s, e) \notin Bad
    <2> DEFINE u == Append(s, e)
    <2>1. a \o u = Append(a \o s, e) /\ a \o s \in Seq(E)
      BY <1>1
    <2>2. both(u) = ApplyNext(both(s), actor, e)
      <3> DEFINE w == a \o s
      <3>1. a \o u = Append(w, e) /\ w \in Seq(E) /\ e \in E
        BY <2>1
      <3> HIDE DEF w
      <3>2. ApplyAll(x, actor, Append(w, e)) = ApplyNext(ApplyAll(x, actor, w), actor, e)
        BY <3>1, <1>ax
      <3>3. ApplyAll(x, actor, a \o u) = ApplyNext(ApplyAll(x, actor, w), actor, e)
        BY <3>1, <3>2
      <3>4. QED
        BY <3>3 DEF w
    <2>3. second(u) = ApplyNext(second(s), actor, e)
      BY ApplyAppend
    <2>4. second(s).ok => both(s).ok /\ both(s).doc = second(s).doc
      BY <1>4
    <2> HIDE DEF u, both, second
    <2>5. /\ both(u).ok <=> /\ both(s).ok /\ Resolves(both(s).doc, e) /\ OperationUnlocked(both(s).doc, actor, e)
                            /\ ApplyOperation(both(s).doc, e).ok
          /\ both(u).ok => both(u).doc = ApplyOperation(both(s).doc, e).doc
      BY <2>2, AppliedNext
    <2>6. /\ second(u).ok <=> /\ second(s).ok /\ Resolves(second(s).doc, e) /\ OperationUnlocked(second(s).doc, actor, e)
                              /\ ApplyOperation(second(s).doc, e).ok
          /\ second(u).ok => second(u).doc = ApplyOperation(second(s).doc, e).doc
      BY <2>3, AppliedNext
    <2>7. second(u).ok => both(u).ok /\ both(u).doc = second(u).doc
      BY <2>4, <2>5, <2>6
    <2>8. QED
      BY <2>7 DEF u
  <1>5. Bad \in SUBSET Seq(E)
    OBVIOUS
  <1>6. Bad = {}
    <2> HIDE DEF Bad
    <2>1. QED
      BY <1>3, <1>4, <1>5, SequenceInduction
  <1>7. second(b).ok => both(b).ok
    BY <1>1, <1>6
  <1>8. QED
    BY <1>7 DEF Allows

\* One operation is accepted when nothing in it is refused.
LEMMA AllowsOne ==
  ASSUME NEW x, NEW actor, NEW op, Resolves(x, op), OperationUnlocked(x, actor, op), ApplyOperation(x, op).ok
  PROVE  Allows(x, actor, <<op>>)
  <1> DEFINE s == <<>>
  <1>1. s \in Seq({op}) /\ op \in {op} /\ Append(s, op) = <<op>>
    OBVIOUS
  <1>2. ApplyAll(x, actor, Append(s, op)) = ApplyNext(ApplyAll(x, actor, s), actor, op)
    <2> HIDE DEF s
    <2>1. s \in Seq({op}) /\ op \in {op}
      BY <1>1
    <2>2. QED
      BY ONLY <2>1, ApplyAppend
  <1>3. ApplyAll(x, actor, s).ok /\ ApplyAll(x, actor, s).doc = x
    BY AppliedNone
  <1> HIDE DEF s
  <1> DEFINE none == ApplyAll(x, actor, s)
             new == ApplyAll(x, actor, <<op>>)
  <1>4. new = ApplyNext(none, actor, op)
    BY <1>1, <1>2
  <1>5. none.ok /\ none.doc = x
    BY <1>3
  <1> HIDE DEF none, new
  <1>6. new.ok
    BY <1>4, <1>5, AppliedNext
  <1>7. QED
    BY <1>6 DEF Allows, new

\* Nothing to do is always accepted.
LEMMA AllowsNone ==
  ASSUME NEW x, NEW actor
  PROVE  Allows(x, actor, <<>>)
  BY AppliedNone DEF Allows

Guarded(op) == op.type \notin OnLibrary \cup {"lock.add", "lock.remove"}

\* What an operation that is let through affects is on no locked track, and where
\* no lock is in the way that is all it takes.
LEMMA UnlockedTracks ==
  ASSUME NEW x, NEW actor, NEW op, Guarded(op)
  PROVE  /\ OperationUnlocked(x, actor, op) =>
              \A track \in ToSet(x.tracks) : track.id \in Affected(x, op).tracks => ~ track.locked
         /\ (Free(x, actor) /\ \A track \in ToSet(x.tracks) : track.id \in Affected(x, op).tracks => ~ track.locked)
              => OperationUnlocked(x, actor, op)
  <1>1. OperationUnlocked(x, actor, op) <=>
          /\ \A track \in ToSet(x.tracks) : track.id \in Affected(x, op).tracks => ~ track.locked
          /\ \A lock \in ToSet(x.locks) : LockBlocksActor(lock, actor) => ~ LockRefuses(x, lock, op, Affected(x, op))
    BY DEF OperationUnlocked, Guarded, OnLibrary
  <1>2. QED
    BY <1>1 DEF Free

\* What stands at one place of a sequence without repetition stands at no other.
LEMMA TakenOnce ==
  ASSUME NEW s, IsSequence(s), NEW k \in DOMAIN s, \A i, j \in DOMAIN s : s[i] = s[j] => i = j
  PROVE  s[k] \notin ToSet(RemoveAt(s, k))
  <1> DEFINE w == RemoveAt(s, k)
  <1>1. /\ IsSequence(w) /\ Len(w) = Len(s) - 1 /\ Len(s) \in Nat /\ DOMAIN s = 1 .. Len(s)
        /\ \A i \in 1 .. Len(s) - 1 : w[i] = IF i < k THEN s[i] ELSE s[i + 1]
    BY Taken, SequenceFacts
  <1>2. DOMAIN w = 1 .. Len(s) - 1
    BY <1>1, SequenceFacts
  <1> HIDE DEF w
  <1>3. ASSUME NEW i \in DOMAIN w, w[i] = s[k] PROVE FALSE
    <2>1. CASE i < k
      BY <1>1, <1>2, <1>3, <2>1
    <2>2. CASE i >= k
      <3>1. i + 1 \in DOMAIN s /\ w[i] = s[i + 1]
        BY <1>1, <1>2, <2>2
      <3>2. i + 1 = k
        BY <1>3, <3>1
      <3>3. QED
        BY <1>1, <1>2, <2>2, <3>2
    <2>3. QED
      BY <1>1, <1>2, <2>1, <2>2
  <1>4. QED
    BY <1>3 DEF ToSet, w

\* An object that is in a list can be removed from it.
LEMMA ObjectRemovable ==
  ASSUME NEW x, IsDocument(x), NEW op, op.list \in {"assets", "artifacts"}, op.object \in ToSet(x[op.list])
  PROVE  RemoveObject(x, op).ok
  <1> DEFINE m == x[op.list]
             P == {j \in DOMAIN m : m[j] = op.object}
  <1>1. IsSequence(m)
    BY DEF IsDocument
  <1>2. P # {} /\ P \subseteq 1 .. Len(m) /\ Len(m) \in Nat
    BY <1>1, SequenceFacts DEF ToSet
  <1> HIDE DEF P
  <1>3. First(P) \in P
    <2>1. P \in SUBSET Nat /\ 0 \notin P
      BY <1>2
    <2>2. QED
      BY <1>2, <2>1, FirstPosition
  <1>4. First(P) # 0
    BY <1>2, <1>3
  <1>5. QED
    BY <1>4 DEF RemoveObject, Done, P

\* The inverse of library.put is accepted.
LEMMA PutObjectBack ==
  ASSUME NEW d, IsDocument(d), NEW op, IsOperation(op), op.type = "library.put",
         NEW r, r = PutObject(d, op), r.ok, NEW actor
  PROVE  Allows(r.doc, actor, r.inverse)
  <1> DEFINE e == r.doc
             list == op.list
             undo == RemoveObjectOp(list, op.object)
  <1>1. /\ IsDocument(e) /\ CanInsert(op.index, d[list]) /\ list \in {"assets", "artifacts"}
        /\ e = WithList(d, list, Splice(d[list], op.index, op.object))
        /\ r.inverse = <<undo>>
    BY PutObjectKeeps
  <1>2. /\ undo.type = "library.remove" /\ undo.list = list /\ undo.object = op.object
        /\ ApplyOperation(e, undo) = RemoveObject(e, undo)
    BY DEF RemoveObjectOp, ApplyOperation
  <1>3. op.object \in ToSet(e[list])
    <2> DEFINE m == d[list]
    <2>1. IsSequence(m) /\ op.index \in 0 .. Len(m)
      BY <1>1 DEF IsDocument, CanInsert
    <2>2. e[list] = Splice(m, op.index, op.object)
      BY <1>1, PartsBack
    <2> HIDE DEF m
    <2>3. QED
      BY <2>1, <2>2, Spliced
  <1> HIDE DEF undo, e
  <1>4. RemoveObject(e, undo).ok
    BY <1>1, <1>2, <1>3, ObjectRemovable
  <1>5. Resolves(e, undo) /\ OperationUnlocked(e, actor, undo)
    BY <1>2 DEF Resolves, OperationUnlocked, OnClip, OnLibrary
  <1>6. Allows(e, actor, <<undo>>)
    BY <1>2, <1>4, <1>5, AllowsOne
  <1>7. QED
    BY <1>1, <1>6 DEF e

\* The inverse of library.remove is accepted: the object's id is free again.
LEMMA RemoveObjectBack ==
  ASSUME NEW d, IsDocument(d), IdsApart(d), NEW op, IsOperation(op), op.type = "library.remove",
         NEW r, r = RemoveObject(d, op), r.ok, NEW actor
  PROVE  Allows(r.doc, actor, r.inverse)
  <1> DEFINE e == r.doc
             list == op.list
             o == op.object
  <1>1. IsDocument(e) /\ list \in {"assets", "artifacts"} /\ e.tracks = d.tracks /\ e.locks = d.locks
    BY RemoveObjectKeeps
  <1>2. PICK i \in DOMAIN d[list] :
          /\ d[list][i] = o /\ e = WithList(d, list, RemoveAt(d[list], i))
          /\ r.inverse = <<PutObjectOp(list, o, i - 1)>>
    BY RemoveObjectKeeps
  <1> DEFINE undo == PutObjectOp(list, o, i - 1)
             other == IF list = "assets" THEN "artifacts" ELSE "assets"
  <1>3. /\ undo.type = "library.put" /\ undo.list = list /\ undo.object = o /\ undo.index = i - 1
        /\ ApplyOperation(e, undo) = PutObject(e, undo)
    BY DEF PutObjectOp, ApplyOperation
  <1>4. e[list] = RemoveAt(d[list], i) /\ e[other] = d[other]
    BY <1>1, <1>2 DEF WithList, IsDocument
  <1>5. o \in ToSet(d[list]) /\ o \notin ToSet(e[list]) /\ CanInsert(i - 1, e[list])
    <2> DEFINE m == d[list]
    <2>1. IsSequence(m) /\ i \in DOMAIN m /\ (\A a, b \in DOMAIN m : m[a] = m[b] => a = b) /\ m[i] = o
      BY <1>1, <1>2 DEF IsDocument, IdsApart
    <2> HIDE DEF m
    <2>2. m[i] \notin ToSet(RemoveAt(m, i)) /\ i - 1 \in 0 .. Len(RemoveAt(m, i)) /\ m[i] \in ToSet(m)
      BY ONLY <2>1, TakenOnce, Taken
    <2>3. e[list] = RemoveAt(m, i)
      BY <1>4 DEF m
    <2>4. QED
      BY <2>1, <2>2, <2>3 DEF CanInsert, m
  <1>6. SequenceIds(e) = SequenceIds(d)
    BY <1>1 DEF SequenceIds, TrackIds, ClipIds, LockIds, ClipsOf
  <1>7. o \notin ObjectIds(e)
    <2>1. o \notin SequenceIds(d) /\ o \notin ToSet(d[other])
      BY <1>1, <1>5 DEF IdsApart
    <2>2. ObjectIds(e) = SequenceIds(e) \cup ToSet(e[list]) \cup ToSet(e[other])
      BY <1>1 DEF ObjectIds, AssetIds
    <2>3. QED
      BY <1>4, <1>5, <1>6, <2>1, <2>2
  <1> HIDE DEF undo, e
  <1>8. PutObject(e, undo).ok
    BY <1>3, <1>5, <1>7 DEF PutObject, Done
  <1>9. Resolves(e, undo) /\ OperationUnlocked(e, actor, undo)
    BY <1>3 DEF Resolves, OperationUnlocked, OnClip, OnLibrary
  <1>10. Allows(e, actor, <<undo>>)
    BY <1>3, <1>8, <1>9, AllowsOne
  <1>11. QED
    BY <1>2, <1>10 DEF e, undo

\* The inverse of lock.add is accepted when the actor owns the lock.
LEMMA AddLockBack ==
  ASSUME NEW d, IsDocument(d), NEW op, IsOperation(op), op.type = "lock.add",
         NEW r, r = AddLock(d, op), r.ok, IdsUnique(r.doc), NEW actor, op.lock.owner = actor.id
  PROVE  Allows(r.doc, actor, r.inverse)
  <1> DEFINE e == r.doc
             k == op.index
             id == op.lock.id
             undo == RemoveLockOp(id)
             m == d.locks
  <1>1. /\ IsDocument(e) /\ CanInsert(k, m) /\ e.locks = Splice(m, k, op.lock) /\ r.inverse = <<undo>>
    BY AddLockKeeps
  <1>2. /\ undo.type = "lock.remove" /\ undo.lockId = id /\ ApplyOperation(e, undo) = RemoveLock(e, undo)
    BY DEF RemoveLockOp, ApplyOperation
  <1>3. IsSequence(m) /\ k \in 0 .. Len(m)
    BY <1>1 DEF IsDocument, CanInsert
  <1>4. k + 1 \in DOMAIN e.locks /\ e.locks[k + 1] = op.lock /\ op.lock \in ToSet(e.locks)
    <2> HIDE DEF m, k
    <2>1. /\ k + 1 \in DOMAIN Splice(m, k, op.lock) /\ Splice(m, k, op.lock)[k + 1] = op.lock
          /\ ToSet(Splice(m, k, op.lock)) = ToSet(m) \cup {op.lock}
      BY <1>3, Spliced
    <2>2. QED
      BY <1>1, <2>1
  <1> HIDE DEF e, undo, k, m
  <1>5. FindLock(e, id) = k + 1
    BY <1>1, <1>4, LockFoundAt DEF e
  <1>6. Resolves(e, undo)
    BY <1>2, <1>4 DEF Resolves, LockIds, OnClip
  <1>7. OperationUnlocked(e, actor, undo)
    BY <1>2, <1>4, <1>5 DEF OperationUnlocked, OnLibrary
  <1>8. RemoveLock(e, undo).ok
    BY DEF RemoveLock, Done
  <1>9. Allows(e, actor, <<undo>>)
    BY <1>2, <1>6, <1>7, <1>8, AllowsOne
  <1>10. QED
    BY <1>1, <1>9 DEF e

\* The inverse of lock.remove is accepted: the lock's id is free again.
LEMMA RemoveLockBack ==
  ASSUME NEW d, IsDocument(d), IdsUnique(d), IdsApart(d), NEW op, IsOperation(op), op.type = "lock.remove",
         Resolves(d, op), NEW r, r = RemoveLock(d, op), NEW actor
  PROVE  Allows(r.doc, actor, r.inverse)
  <1> DEFINE e == r.doc
             m == d.locks
  <1>1. PICK i \in DOMAIN m :
          e.locks = RemoveAt(m, i) /\ e.tracks = d.tracks /\ r.inverse = <<AddLockOp(m[i], i - 1)>>
    BY RemoveLockKeeps
  <1> DEFINE undo == AddLockOp(m[i], i - 1)
             id == m[i].id
  <1>2. /\ undo.type = "lock.add" /\ undo.lock = m[i] /\ undo.index = i - 1 /\ ApplyOperation(e, undo) = AddLock(e, undo)
    BY DEF AddLockOp, ApplyOperation
  <1>3. IsSequence(m) /\ \A a, b \in DOMAIN m : m[a].id = m[b].id => a = b
    BY DEF IsDocument, IdsUnique
  <1>4. ToSet(RemoveAt(m, i)) \subseteq ToSet(m) /\ i - 1 \in 0 .. Len(RemoveAt(m, i)) /\ m[i] \notin ToSet(RemoveAt(m, i))
    <2> HIDE DEF m
    <2>1. \A a, b \in DOMAIN m : m[a] = m[b] => a = b
      BY <1>3
    <2>2. QED
      BY ONLY <1>1, <1>3, <2>1, Taken, TakenOnce
  <1>5. id \in LockIds(d) /\ id \notin LockIds(e)
    <2>1. \A x \in ToSet(m) : x.id = id => x = m[i]
      BY <1>1, <1>3 DEF ToSet
    <2>2. m[i] \in ToSet(m)
      BY <1>1 DEF ToSet
    <2> HIDE DEF m
    <2>3. id \notin {x.id : x \in ToSet(e.locks)}
      BY <1>1, <1>4, <2>1
    <2>4. QED
      BY <2>2, <2>3 DEF LockIds, m
  <1>6. TrackIds(e) = TrackIds(d) /\ ClipIds(e) = ClipIds(d)
    BY <1>1 DEF TrackIds, ClipIds, ClipsOf
  <1>7. id \notin SequenceIds(e)
    BY <1>5, <1>6 DEF SequenceIds, IdsApart
  <1> HIDE DEF undo, e
  <1>8. CanInsert(i - 1, e.locks)
    BY <1>1, <1>4 DEF CanInsert
  <1>9. AddLock(e, undo).ok
    BY <1>2, <1>7, <1>8 DEF AddLock, Done
  <1>10. Resolves(e, undo) /\ OperationUnlocked(e, actor, undo)
    BY <1>2 DEF Resolves, OperationUnlocked, OnClip, OnLibrary
  <1>11. Allows(e, actor, <<undo>>)
    BY <1>2, <1>9, <1>10, AllowsOne
  <1>12. QED
    BY <1>1, <1>11 DEF e, undo

\* The inverse of track.add is accepted unless the track came locked.
LEMMA AddTrackBack ==
  ASSUME NEW d, IsDocument(d), NEW op, IsOperation(op), op.type = "track.add",
         NEW r, r = AddTrack(d, op), r.ok, IdsUnique(r.doc), NEW actor, Free(r.doc, actor), ~ op.track.locked
  PROVE  Allows(r.doc, actor, r.inverse)
  <1> DEFINE e == r.doc
             k == op.index
             id == op.track.id
             undo == RemoveTrackOp(id)
             m == d.tracks
  <1>1. /\ IsDocument(e) /\ CanInsert(k, m) /\ e.tracks = Splice(m, k, op.track) /\ r.inverse = <<undo>>
    BY AddTrackKeeps
  <1>2. /\ undo.type = "track.remove" /\ undo.trackId = id /\ ApplyOperation(e, undo) = RemoveTrack(e, undo)
    BY DEF RemoveTrackOp, ApplyOperation
  <1>3. IsSequence(m) /\ k \in 0 .. Len(m)
    BY <1>1 DEF IsDocument, CanInsert
  <1>4. k + 1 \in DOMAIN e.tracks /\ e.tracks[k + 1] = op.track /\ op.track \in ToSet(e.tracks)
    <2> HIDE DEF m, k
    <2>1. /\ k + 1 \in DOMAIN Splice(m, k, op.track) /\ Splice(m, k, op.track)[k + 1] = op.track
          /\ ToSet(Splice(m, k, op.track)) = ToSet(m) \cup {op.track}
      BY <1>3, Spliced
    <2>2. QED
      BY <1>1, <2>1
  <1> HIDE DEF e, undo, k, m
  <1>5. \A track \in ToSet(e.tracks) : track.id = id => track = op.track
    <2>1. \A a \in DOMAIN e.tracks : e.tracks[a].id = id => a = k + 1
      BY <1>4 DEF IdsUnique, e
    <2>2. QED
      BY <1>4, <2>1 DEF ToSet
  <1>6. Track(e, id) = op.track
    BY <1>1, <1>4, TrackFoundAt DEF e
  <1>7. Resolves(e, undo)
    BY <1>2, <1>4 DEF Resolves, TrackIds, OnClip
  <1>8. Affected(e, undo).tracks = {id}
    BY <1>2, <1>6 DEF Affected
  <1>9. OperationUnlocked(e, actor, undo)
    <2>1. Guarded(undo) /\ Free(e, actor)
      BY <1>2 DEF Guarded, OnLibrary, e
    <2>2. \A track \in ToSet(e.tracks) : track.id \in Affected(e, undo).tracks => ~ track.locked
      BY <1>5, <1>8
    <2>3. QED
      BY ONLY <2>1, <2>2, UnlockedTracks
  <1>10. RemoveTrack(e, undo).ok
    BY DEF RemoveTrack, Done
  <1>11. Allows(e, actor, <<undo>>)
    BY <1>2, <1>7, <1>9, <1>10, AllowsOne
  <1>12. QED
    BY <1>1, <1>11 DEF e

\* The inverse of track.remove is accepted: the track's id is free again.
LEMMA RemoveTrackBack ==
  ASSUME NEW d, IsDocument(d), IdsUnique(d), IdsApart(d), NEW op, IsOperation(op), op.type = "track.remove",
         Resolves(d, op), NEW r, r = RemoveTrack(d, op), NEW actor, Free(r.doc, actor)
  PROVE  Allows(r.doc, actor, r.inverse)
  <1> DEFINE e == r.doc
             m == d.tracks
  <1>1. PICK i \in DOMAIN m :
          e.tracks = RemoveAt(m, i) /\ e.locks = d.locks /\ r.inverse = <<AddTrackOp(m[i], i - 1)>>
    BY RemoveTrackKeeps
  <1> DEFINE undo == AddTrackOp(m[i], i - 1)
             id == m[i].id
  <1>2. /\ undo.type = "track.add" /\ undo.track = m[i] /\ undo.index = i - 1 /\ ApplyOperation(e, undo) = AddTrack(e, undo)
    BY DEF AddTrackOp, ApplyOperation
  <1>3. IsSequence(m) /\ \A a, b \in DOMAIN m : m[a].id = m[b].id => a = b
    BY DEF IsDocument, IdsUnique
  <1>4. ToSet(RemoveAt(m, i)) \subseteq ToSet(m) /\ i - 1 \in 0 .. Len(RemoveAt(m, i)) /\ m[i] \notin ToSet(RemoveAt(m, i))
    <2> HIDE DEF m
    <2>1. \A a, b \in DOMAIN m : m[a] = m[b] => a = b
      BY <1>3
    <2>2. QED
      BY ONLY <1>1, <1>3, <2>1, Taken, TakenOnce
  <1>5. id \in TrackIds(d) /\ id \notin TrackIds(e)
    <2>1. \A x \in ToSet(m) : x.id = id => x = m[i]
      BY <1>1, <1>3 DEF ToSet
    <2>2. m[i] \in ToSet(m)
      BY <1>1 DEF ToSet
    <2> HIDE DEF m
    <2>3. id \notin {x.id : x \in ToSet(e.tracks)}
      BY <1>1, <1>4, <2>1
    <2>4. QED
      BY <2>2, <2>3 DEF TrackIds, m
  <1>6. LockIds(e) = LockIds(d) /\ ClipIds(e) \subseteq ClipIds(d)
    <2>1. ToSet(e.tracks) \subseteq ToSet(d.tracks)
      BY <1>1, <1>4
    <2>2. QED
      BY <1>1, <2>1 DEF LockIds, ClipIds, ClipsOf
  <1>7. id \notin SequenceIds(e)
    BY <1>5, <1>6 DEF SequenceIds, IdsApart
  <1> HIDE DEF undo, e
  <1>8. CanInsert(i - 1, e.tracks)
    BY <1>1, <1>4 DEF CanInsert
  <1>9. AddTrack(e, undo).ok
    BY <1>2, <1>7, <1>8 DEF AddTrack, Done
  <1>10. OperationUnlocked(e, actor, undo)
    <2>1. Guarded(undo) /\ Free(e, actor)
      BY <1>2 DEF Guarded, OnLibrary, e
    <2>2. Affected(e, undo).tracks = {id}
      BY <1>2 DEF Affected
    <2>3. \A track \in ToSet(e.tracks) : track.id \in Affected(e, undo).tracks => ~ track.locked
      BY <1>5, <2>2 DEF TrackIds
    <2>4. QED
      BY ONLY <2>1, <2>3, UnlockedTracks
  <1>11. Resolves(e, undo)
    BY <1>2 DEF Resolves, OnClip
  <1>12. Allows(e, actor, <<undo>>)
    BY <1>2, <1>9, <1>10, <1>11, AllowsOne
  <1>13. QED
    BY <1>1, <1>12 DEF e, undo

\* Nothing keeps the actor from changing the clips of a track.
Open(e, actor, t) ==
  /\ IsDocument(e) /\ IdsUnique(e) /\ Free(e, actor)
  /\ t \in DOMAIN e.tracks /\ ~ e.tracks[t].locked

\* A track is open after an operation on its clips if the operation was let through.
LEMMA OpenAfter ==
  ASSUME NEW d, IsDocument(d), NEW t \in DOMAIN d.tracks, NEW actor, NEW op, Guarded(op),
         OperationUnlocked(d, actor, op), d.tracks[t].id \in Affected(d, op).tracks,
         NEW s, NEW e, e = WithClips(d, t, s), IsDocument(e), IdsUnique(e), Free(e, actor)
  PROVE  Open(e, actor, t)
  <1>1. ~ d.tracks[t].locked
    <2>1. d.tracks[t] \in ToSet(d.tracks)
      BY DEF ToSet
    <2>2. QED
      BY <2>1, UnlockedTracks
  <1>2. IsTrack(d.tracks[t]) /\ d = [tracks |-> d.tracks, locks |-> d.locks, assets |-> d.assets, artifacts |-> d.artifacts]
    BY DocumentFacts
  <1>3. t \in DOMAIN e.tracks /\ e.tracks[t].locked = d.tracks[t].locked
    <2> DEFINE T == d.tracks
               new == [T[t] EXCEPT !.clips = s]
    <2>1. e = [d EXCEPT !.tracks = [T EXCEPT ![t] = new]]
      BY DEF WithClips
    <2>2. new.locked = T[t].locked
      BY <1>2 DEF IsTrack
    <2> HIDE DEF T, new
    <2>3. e.tracks = [T EXCEPT ![t] = new]
      BY <1>2, <2>1
    <2>4. IsSequence(T)
      BY DocumentFacts DEF T
    <2>5. t \in DOMAIN e.tracks /\ e.tracks[t] = new
      <3>1. t \in DOMAIN T
        BY DEF T
      <3>2. QED
        BY ONLY <2>3, <3>1
    <2>6. QED
      BY <2>2, <2>5 DEF T
  <1>4. QED
    BY <1>1, <1>3 DEF Open

\* An operation on a clip of an open track finds it and is let through.
LEMMA ClipOperationAllowed ==
  ASSUME NEW e, NEW actor, NEW t, Open(e, actor, t), NEW i \in DOMAIN e.tracks[t].clips,
         NEW op, op.type \in OnClip \ {"clip.move"}, op.clipId = e.tracks[t].clips[i].id
  PROVE  Resolves(e, op) /\ OperationUnlocked(e, actor, op) /\ FindClip(e, op.clipId) = [track |-> t, index |-> i]
  <1>1. IsDocument(e) /\ IdsUnique(e) /\ Free(e, actor) /\ t \in DOMAIN e.tracks /\ ~ e.tracks[t].locked
    BY DEF Open
  <1>2. FindClip(e, op.clipId) = [track |-> t, index |-> i]
    BY <1>1, ClipFoundAt
  <1>3. Resolves(e, op)
    <2>1. op.clipId \in ClipIds(e)
      BY <1>1, ClipFacts
    <2>2. QED
      BY <2>1 DEF Resolves, OnClip
  <1>4. Affected(e, op).tracks = {e.tracks[t].id}
    BY <1>2 DEF Affected, OnClip
  <1>5. \A track \in ToSet(e.tracks) : track.id = e.tracks[t].id => ~ track.locked
    BY <1>1 DEF IdsUnique, ToSet
  <1>6. Guarded(op)
    BY DEF Guarded, OnClip, OnLibrary
  <1>7. OperationUnlocked(e, actor, op)
    <2>1. \A track \in ToSet(e.tracks) : track.id \in Affected(e, op).tracks => ~ track.locked
      BY <1>4, <1>5
    <2>2. QED
      BY ONLY <1>1, <1>6, <2>1, UnlockedTracks
  <1>8. QED
    BY <1>2, <1>3, <1>7

\* On an open track, a clip can be removed and replaced, and one of a new id inserted.
LEMMA RemoveAllowed ==
  ASSUME NEW e, NEW actor, NEW t, Open(e, actor, t), NEW i \in DOMAIN e.tracks[t].clips,
         NEW id, id = e.tracks[t].clips[i].id
  PROVE  Allows(e, actor, <<RemoveClipOp(id)>>)
  <1> DEFINE op == RemoveClipOp(id)
  <1>1. op.type \in OnClip \ {"clip.move"} /\ op.clipId = e.tracks[t].clips[i].id /\ ApplyOperation(e, op) = RemoveClip(e, op)
    BY DEF RemoveClipOp, OnClip, ApplyOperation
  <1> HIDE DEF op
  <1>2. Resolves(e, op) /\ OperationUnlocked(e, actor, op)
    BY <1>1, ClipOperationAllowed
  <1>3. RemoveClip(e, op).ok
    BY DEF RemoveClip, Done
  <1>4. Allows(e, actor, <<op>>)
    BY <1>1, <1>2, <1>3, AllowsOne
  <1>5. QED
    BY <1>4 DEF op

\* A clip of an open track may be replaced by one of its id.
LEMMA ReplaceAllowed ==
  ASSUME NEW e, NEW actor, NEW t, Open(e, actor, t), NEW i \in DOMAIN e.tracks[t].clips,
         NEW id, id = e.tracks[t].clips[i].id, NEW new, new.id = id
  PROVE  Allows(e, actor, <<ReplaceClipOp(id, new)>>)
  <1> DEFINE op == ReplaceClipOp(id, new)
  <1>1. /\ op.type \in OnClip \ {"clip.move"} /\ op.clipId = id
        /\ ApplyOperation(e, op) = ReplaceClip(e, op) /\ op.clip.id = id
    BY DEF ReplaceClipOp, OnClip, ApplyOperation
  <1> HIDE DEF op
  <1>2. Resolves(e, op) /\ OperationUnlocked(e, actor, op)
    BY <1>1, ClipOperationAllowed
  <1>3. ReplaceClip(e, op).ok
    BY <1>1 DEF ReplaceClip, Done
  <1>4. Allows(e, actor, <<op>>)
    BY <1>1, <1>2, <1>3, AllowsOne
  <1>5. QED
    BY <1>4 DEF op

\* A clip of a fresh id may be put into an open track.
LEMMA InsertAllowed ==
  ASSUME NEW e, NEW actor, NEW t, Open(e, actor, t), NEW id, id = e.tracks[t].id,
         NEW clip, clip.id \notin SequenceIds(e), NEW k \in 0 .. Len(e.tracks[t].clips)
  PROVE  Allows(e, actor, <<InsertClipOp(id, clip, k)>>)
  <1> DEFINE op == InsertClipOp(id, clip, k)
  <1>1. /\ op.type = "clip.insert" /\ op.trackId = id /\ op.clip = clip /\ op.index = k
        /\ ApplyOperation(e, op) = InsertClip(e, op)
    BY DEF InsertClipOp, ApplyOperation
  <1>2. IsDocument(e) /\ IdsUnique(e) /\ Free(e, actor) /\ t \in DOMAIN e.tracks /\ ~ e.tracks[t].locked
    BY DEF Open
  <1> HIDE DEF op
  <1>3. FindTrack(e, id) = t
    BY <1>2, TrackFoundAt
  <1>4. Resolves(e, op)
    <2>1. e.tracks[t] \in ToSet(e.tracks)
      BY <1>2 DEF ToSet
    <2>2. id \in TrackIds(e)
      BY <2>1 DEF TrackIds
    <2>3. QED
      BY <1>1, <2>2 DEF Resolves, OnClip
  <1>5. OperationUnlocked(e, actor, op)
    <2>1. Affected(e, op).tracks = {id}
      BY <1>1 DEF Affected
    <2>2. \A track \in ToSet(e.tracks) : track.id = id => ~ track.locked
      BY <1>2 DEF IdsUnique, ToSet
    <2>3. \A track \in ToSet(e.tracks) : track.id \in Affected(e, op).tracks => ~ track.locked
      BY <2>1, <2>2
    <2>4. Guarded(op)
      BY <1>1 DEF Guarded, OnLibrary
    <2>5. QED
      BY ONLY <1>2, <2>3, <2>4, UnlockedTracks
  <1>6. InsertClip(e, op).ok
    BY <1>1, <1>3 DEF InsertClip, Done, CanInsert
  <1>7. Allows(e, actor, <<op>>)
    BY <1>1, <1>4, <1>5, <1>6, AllowsOne
  <1>8. QED
    BY <1>7 DEF op

\* An id that a document gives one clip is free in a document without that clip.
LEMMA FreshWithout ==
  ASSUME NEW z, IsDocument(z), IdsUnique(z), IdsApart(z), NEW t \in DOMAIN z.tracks, NEW i \in DOMAIN z.tracks[t].clips,
         NEW id, id = z.tracks[t].clips[i].id,
         NEW e, IsDocument(e), e.locks = z.locks, TrackIds(e) = TrackIds(z),
         \A u \in DOMAIN e.tracks : \A j \in DOMAIN e.tracks[u].clips :
           \E v \in DOMAIN z.tracks : \E k \in DOMAIN z.tracks[v].clips :
             z.tracks[v].clips[k].id = e.tracks[u].clips[j].id /\ ~ (v = t /\ k = i)
  PROVE  id \notin SequenceIds(e)
  <1>1. id \in ClipIds(z)
    BY ClipFacts
  <1>2. id \notin TrackIds(e) /\ id \notin LockIds(e)
    BY <1>1 DEF IdsApart, LockIds
  <1>3. ASSUME id \in ClipIds(e) PROVE FALSE
    <2>1. PICK c \in ClipsOf(e) : c.id = id
      BY <1>3 DEF ClipIds
    <2>2. PICK u \in DOMAIN e.tracks : \E j \in DOMAIN e.tracks[u].clips : c = e.tracks[u].clips[j]
      BY ClipsByPosition
    <2>3. PICK v \in DOMAIN z.tracks : \E k \in DOMAIN z.tracks[v].clips : z.tracks[v].clips[k].id = id /\ ~ (v = t /\ k = i)
      BY <2>1, <2>2
    <2>4. PICK k \in DOMAIN z.tracks[v].clips : z.tracks[v].clips[k].id = id /\ ~ (v = t /\ k = i)
      BY <2>3
    <2>5. v = t /\ k = i
      BY <2>4 DEF IdsUnique
    <2>6. QED
      BY <2>4, <2>5
  <1>4. QED
    BY <1>2, <1>3 DEF SequenceIds

\* What is left of a document when a clip is taken from one track.
LEMMA FreshTaken ==
  ASSUME NEW d, IsDocument(d), IdsUnique(d), IdsApart(d), NEW t \in DOMAIN d.tracks, NEW m, m = d.tracks[t].clips,
         NEW i \in DOMAIN m, NEW e, e = WithClips(d, t, RemoveAt(m, i)), IsDocument(e)
  PROVE  m[i].id \notin SequenceIds(e)
  <1> DEFINE w == RemoveAt(m, i)
  <1>1. IsSequence(m) /\ \A j \in DOMAIN m : IsClip(m[j])
    BY DocumentFacts, ClipFacts
  <1>2. /\ IsSequence(w) /\ Len(w) = Len(m) - 1 /\ Len(m) \in Nat /\ DOMAIN m = 1 .. Len(m) /\ ToSet(w) \subseteq ToSet(m)
        /\ \A j \in 1 .. Len(m) - 1 : w[j] = IF j < i THEN m[j] ELSE m[j + 1]
    <2>1. Len(m) \in Nat /\ DOMAIN m = 1 .. Len(m)
      BY ONLY <1>1, SequenceFacts
    <2>2. i \in DOMAIN m
      OBVIOUS
    <2> HIDE DEF w
    <2>3. w = RemoveAt(m, i)
      BY DEF w
    <2>4. /\ IsSequence(w) /\ Len(w) = Len(m) - 1 /\ ToSet(w) \subseteq ToSet(m)
          /\ \A j \in 1 .. Len(m) - 1 : w[j] = IF j < i THEN m[j] ELSE m[j + 1]
      BY ONLY <1>1, <2>2, <2>3, Taken, ZenonT(60)
    <2>5. QED
      BY ONLY <2>1, <2>4
  <1>3. DOMAIN w = 1 .. Len(m) - 1
    BY <1>2, SequenceFacts
  <1> HIDE DEF w
  <1>4. /\ e.locks = d.locks /\ DOMAIN e.tracks = DOMAIN d.tracks
        /\ \A u \in DOMAIN d.tracks : e.tracks[u].id = d.tracks[u].id
        /\ \A u \in DOMAIN d.tracks : e.tracks[u].clips = IF u = t THEN w ELSE d.tracks[u].clips
    <2>1. \A c \in ToSet(m) : IsClip(c)
      BY <1>1 DEF ToSet
    <2>2. \A j \in DOMAIN w : IsClip(w[j])
      BY <1>2, <2>1 DEF ToSet
    <2>3. e = WithClips(d, t, w)
      BY DEF w
    <2>4. /\ WithClips(d, t, w).locks = d.locks
          /\ DOMAIN WithClips(d, t, w).tracks = DOMAIN d.tracks
          /\ \A u \in DOMAIN d.tracks :
               /\ WithClips(d, t, w).tracks[u].id = d.tracks[u].id
               /\ WithClips(d, t, w).tracks[u].clips = IF u = t THEN w ELSE d.tracks[u].clips
      BY <1>2, <2>2, Reclipped
    <2>5. QED
      BY <2>3, <2>4
  <1>5. TrackIds(e) = TrackIds(d)
    BY <1>4 DEF TrackIds, ToSet
  <1>6. ASSUME NEW u \in DOMAIN e.tracks, NEW j \in DOMAIN e.tracks[u].clips
        PROVE  \E v \in DOMAIN d.tracks : \E k \in DOMAIN d.tracks[v].clips :
                 d.tracks[v].clips[k].id = e.tracks[u].clips[j].id /\ ~ (v = t /\ k = i)
    <2>1. CASE u = t
      <3>1. PICK k \in DOMAIN m : w[j] = m[k] /\ k # i
        <4>1. j \in 1 .. Len(m) - 1
          BY <1>3, <1>4, <1>6, <2>1
        <4>2. CASE j < i
          BY <1>2, <4>1, <4>2
        <4>3. CASE j >= i
          <5>1. j + 1 \in DOMAIN m /\ w[j] = m[j + 1] /\ j + 1 # i
            BY ONLY <1>2, <4>1, <4>3, i \in DOMAIN m, SMTT(30)
          <5>2. QED
            BY ONLY <5>1
        <4>4. QED
          BY <1>2, <4>1, <4>2, <4>3
      <3>2. QED
        BY <1>4, <2>1, <3>1
    <2>2. CASE u # t
      BY <1>4, <1>6, <2>2
    <2>3. QED
      BY <2>1, <2>2, SMTT(30)
  <1> DEFINE id == m[i].id
  <1>7. id = d.tracks[t].clips[i].id /\ i \in DOMAIN d.tracks[t].clips
    BY SMTT(30)
  <1> HIDE DEF id
  <1>8. id \notin SequenceIds(e)
    BY <1>4, <1>5, <1>6, <1>7, FreshWithout
  <1>9. QED
    BY <1>8 DEF id

\* The inverse of clip.insert is accepted.
LEMMA InsertClipBack ==
  ASSUME NEW d, IsDocument(d), NEW op, IsOperation(op), op.type = "clip.insert", Resolves(d, op),
         NEW actor, OperationUnlocked(d, actor, op),
         NEW r, r = InsertClip(d, op), r.ok, IdsUnique(r.doc), Free(r.doc, actor)
  PROVE  Allows(r.doc, actor, r.inverse)
  <1> DEFINE e == r.doc
             k == op.index
             id == op.clip.id
  <1>1. IsDocument(e)
    BY InsertClipKeeps
  <1>2. PICK t \in DOMAIN d.tracks :
          /\ t = FindTrack(d, op.trackId) /\ CanInsert(k, d.tracks[t].clips)
          /\ e = WithClips(d, t, Splice(d.tracks[t].clips, k, op.clip))
          /\ r.inverse = <<RemoveClipOp(id)>>
    BY InsertClipKeeps
  <1> DEFINE m == d.tracks[t].clips
             s == Splice(m, k, op.clip)
             i == k + 1
  <1>3. i \in DOMAIN s /\ s[i] = op.clip
    <2>1. IsSequence(m) /\ k \in 0 .. Len(m)
      BY <1>2, DocumentFacts DEF CanInsert
    <2> HIDE DEF m, k
    <2>2. QED
      BY <2>1, Spliced
  <1>4. Open(e, actor, t)
    <2>1. op.trackId \in TrackIds(d)
      BY DEF Resolves, OnClip
    <2>2. d.tracks[t].id = op.trackId
      BY <1>2, <2>1, TrackFound
    <2>3. d.tracks[t].id \in Affected(d, op).tracks
      BY <2>2 DEF Affected
    <2>4. Guarded(op)
      BY DEF Guarded, OnLibrary
    <2>5. e = WithClips(d, t, s) /\ IdsUnique(e) /\ Free(e, actor)
      BY <1>2
    <2> HIDE DEF e, s
    <2>6. QED
      BY ONLY IsDocument(d), t \in DOMAIN d.tracks, OperationUnlocked(d, actor, op), <1>1, <2>3, <2>4, <2>5, OpenAfter
  <1>5. i \in DOMAIN e.tracks[t].clips /\ id = e.tracks[t].clips[i].id
    <2>1. e = WithClips(d, t, s)
      BY <1>2
    <2> HIDE DEF s, e
    <2>2. e.tracks[t].clips = s
      BY <2>1, ClipsBack
    <2>3. QED
      BY <1>3, <2>2
  <1>6. Allows(e, actor, <<RemoveClipOp(id)>>)
    <2> HIDE DEF e, i, id
    <2>1. QED
      BY <1>4, <1>5, RemoveAllowed
  <1>7. QED
    BY <1>2, <1>6

\* The inverse of clip.remove is accepted: the clip's id is free again.
LEMMA RemoveClipBack ==
  ASSUME NEW d, IsDocument(d), IdsUnique(d), IdsApart(d), NEW op, IsOperation(op), op.type = "clip.remove",
         Resolves(d, op), NEW actor, OperationUnlocked(d, actor, op),
         NEW r, r = RemoveClip(d, op), IdsUnique(r.doc), Free(r.doc, actor)
  PROVE  Allows(r.doc, actor, r.inverse)
  <1> DEFINE e == r.doc
             at == FindClip(d, op.clipId)
             clip == ClipAt(d, at)
             t == at.track
             i == at.index
             m == d.tracks[t].clips
             s == RemoveAt(m, i)
             id == d.tracks[t].id
  <1>1. IsDocument(e) /\ e = WithClips(d, t, s) /\ r.inverse = <<InsertClipOp(id, clip, i - 1)>>
    BY RemoveClipKeeps
  <1>2. t \in DOMAIN d.tracks /\ i \in DOMAIN m /\ clip = m[i] /\ IsSequence(m) /\ id \in Affected(d, op).tracks
    <2>1. op.type \in OnClip
      BY DEF OnClip
    <2>2. QED
      BY <2>1, AffectedByClip
  <1> HIDE DEF e, clip, t, i
  <1>3. Open(e, actor, t)
    <2>1. Guarded(op)
      BY DEF Guarded, OnLibrary
    <2>2. IdsUnique(e) /\ Free(e, actor)
      BY DEF e
    <2> HIDE DEF s
    <2>3. QED
      BY <1>1, <1>2, <2>1, <2>2, OpenAfter
  <1>4. clip.id \notin SequenceIds(e)
    <2>1. m = d.tracks[t].clips
      OBVIOUS
    <2> HIDE DEF m
    <2>2. m[i].id \notin SequenceIds(e)
      BY <1>1, <1>2, <2>1, FreshTaken
    <2>3. QED
      BY <1>2, <2>2
  <1>5. i - 1 \in 0 .. Len(e.tracks[t].clips) /\ id = e.tracks[t].id
    <2>1. e.tracks[t].clips = s /\ e.tracks[t].id = id
      <3> HIDE DEF s
      <3>1. QED
        BY <1>1, <1>2, ClipsBack
    <2> HIDE DEF m
    <2>2. i - 1 \in 0 .. Len(s)
      BY <1>2, Taken
    <2>3. QED
      BY <2>1, <2>2
  <1> DEFINE k == i - 1
  <1>6. Allows(e, actor, <<InsertClipOp(id, clip, k)>>)
    <2>1. k \in 0 .. Len(e.tracks[t].clips)
      BY <1>5, SMTT(30)
    <2> HIDE DEF k, id
    <2>2. QED
      BY <1>3, <1>4, <1>5, <2>1, InsertAllowed
  <1>7. QED
    BY <1>1, <1>6 DEF e

\* An operation's clip was changed where it stands.
ChangedAt(d, op, at, clip, new, e) ==
  /\ op.type \in OnClip \ {"clip.move"}
  /\ at = FindClip(d, op.clipId) /\ clip = ClipAt(d, at) /\ new.id = clip.id
  /\ e = WithClips(d, at.track, PutAt(d.tracks[at.track].clips, at.index, new))
  /\ IsDocument(e) /\ IdsUnique(e)

\* A clip changed where it stands can be changed back.
LEMMA ChangedBackAllowed ==
  ASSUME NEW d, IsDocument(d), NEW op, Resolves(d, op), NEW actor, OperationUnlocked(d, actor, op),
         NEW at, NEW clip, NEW new, NEW e, ChangedAt(d, op, at, clip, new, e), Free(e, actor)
  PROVE  /\ Open(e, actor, at.track) /\ at.index \in DOMAIN e.tracks[at.track].clips
         /\ e.tracks[at.track].clips[at.index].id = op.clipId /\ clip.id = op.clipId
  <1> DEFINE t == at.track
             i == at.index
             m == d.tracks[t].clips
             s == PutAt(m, i, new)
  <1>0. /\ op.type \in OnClip \ {"clip.move"} /\ at = FindClip(d, op.clipId) /\ clip = ClipAt(d, at)
        /\ new.id = clip.id /\ e = WithClips(d, t, s) /\ IsDocument(e) /\ IdsUnique(e)
    BY DEF ChangedAt
  <1>1. t \in DOMAIN d.tracks /\ i \in DOMAIN m /\ clip = m[i] /\ clip.id = op.clipId /\ d.tracks[t].id \in Affected(d, op).tracks
    <2>1. op.type \in OnClip
      BY <1>0
    <2>2. at = FindClip(d, op.clipId) /\ clip = ClipAt(d, at)
      BY <1>0
    <2>3. QED
      BY ONLY IsDocument(d), Resolves(d, op), <2>1, <2>2, AffectedByClip
  <1>2. Open(e, actor, t)
    <2>1. Guarded(op)
      BY <1>0 DEF Guarded, OnLibrary, OnClip
    <2> HIDE DEF t, s
    <2>2. QED
      BY ONLY IsDocument(d), OperationUnlocked(d, actor, op), Free(e, actor), <1>0, <1>1, <2>1, OpenAfter
  <1>3. i \in DOMAIN e.tracks[t].clips /\ e.tracks[t].clips[i] = new
    <2>1. e = WithClips(d, t, s) /\ m = d.tracks[t].clips /\ s = PutAt(m, i, new)
      BY <1>0
    <2> HIDE DEF t, i, m, s
    <2>2. QED
      BY ONLY IsDocument(d), <1>1, <2>1, PutBack, SMTT(30)
  <1>4. QED
    BY <1>0, <1>1, <1>2, <1>3

\* The inverse of clip.trim is accepted.
LEMMA TrimClipBack ==
  ASSUME NEW d, IsDocument(d), NEW op, IsOperation(op), op.type = "clip.trim", Resolves(d, op),
         NEW actor, OperationUnlocked(d, actor, op),
         NEW r, r = TrimClip(d, op), IdsUnique(r.doc), Free(r.doc, actor)
  PROVE  Allows(r.doc, actor, r.inverse)
  <1> DEFINE e == r.doc
             at == FindClip(d, op.clipId)
             clip == ClipAt(d, at)
             t == at.track
             i == at.index
             undo == TrimClipOp(op.clipId, clip.range, clip.src)
  <1>1. IsDocument(e) /\ r.inverse = <<undo>>
    BY TrimClipKeeps
  <1>2. PICK new : new.id = clip.id /\ e = WithClips(d, t, PutAt(d.tracks[t].clips, i, new))
    BY TrimClipKeeps
  <1>3. /\ undo.type \in OnClip \ {"clip.move"} /\ undo.clipId = op.clipId
        /\ ApplyOperation(e, undo) = TrimClip(e, undo)
    BY DEF TrimClipOp, ApplyOperation, OnClip
  <1>4. /\ Open(e, actor, t) /\ i \in DOMAIN e.tracks[t].clips /\ e.tracks[t].clips[i].id = op.clipId
    <2>1. ChangedAt(d, op, at, clip, new, e) /\ Free(e, actor)
      BY <1>1, <1>2 DEF ChangedAt, OnClip
    <2> HIDE DEF at, clip, e
    <2>2. QED
      BY ONLY IsDocument(d), Resolves(d, op), OperationUnlocked(d, actor, op), <2>1, ChangedBackAllowed DEF t, i
  <1> HIDE DEF undo, e, at
  <1>5. Resolves(e, undo) /\ OperationUnlocked(e, actor, undo)
    <2> HIDE DEF t, i
    <2>1. QED
      BY <1>3, <1>4, ClipOperationAllowed
  <1>6. TrimClip(e, undo).ok
    BY DEF TrimClip, Done
  <1>7. Allows(e, actor, <<undo>>)
    BY <1>3, <1>5, <1>6, AllowsOne
  <1>8. QED
    BY <1>1, <1>7 DEF e

\* A clip set where it stood under its id may be set back.
LEMMA SetBack ==
  ASSUME NEW d, IsDocument(d), NEW op, op.type \in OnClip \ {"clip.move"}, Resolves(d, op),
         NEW actor, OperationUnlocked(d, actor, op),
         NEW at, at = FindClip(d, op.clipId), NEW clip, clip = ClipAt(d, at), NEW new, new.id = op.clipId,
         NEW r, IsDocument(r.doc), IdsUnique(r.doc), Free(r.doc, actor),
         r.doc = WithClips(d, at.track, PutAt(d.tracks[at.track].clips, at.index, new)),
         r.inverse = <<ReplaceClipOp(new.id, clip)>>
  PROVE  Allows(r.doc, actor, r.inverse)
  <1> DEFINE e == r.doc
             t == at.track
             i == at.index
             id == op.clipId
  <1>1. clip.id = id /\ clip = Clip(d, id)
    <2>1. op.clipId \in ClipIds(d)
      BY DEF Resolves, OnClip
    <2>2. QED
      BY <2>1, ClipFound
  <1>2. /\ IsDocument(e) /\ new.id = id
        /\ e = WithClips(d, t, PutAt(d.tracks[t].clips, i, new))
        /\ r.inverse = <<ReplaceClipOp(id, clip)>>
    OBVIOUS
  <1>3. /\ Open(e, actor, t) /\ i \in DOMAIN e.tracks[t].clips /\ e.tracks[t].clips[i].id = id
    <2>1. ChangedAt(d, op, at, clip, new, e) /\ Free(e, actor)
      BY <1>1, <1>2 DEF ChangedAt, OnClip
    <2> HIDE DEF e
    <2>2. QED
      BY ONLY IsDocument(d), Resolves(d, op), OperationUnlocked(d, actor, op), <2>1, ChangedBackAllowed DEF t, i, id
  <1>4. Allows(e, actor, <<ReplaceClipOp(id, clip)>>)
    <2> HIDE DEF e, t, i, id
    <2>1. QED
      BY <1>1, <1>3, ReplaceAllowed
  <1>5. QED
    BY <1>2, <1>4

\* The inverse of clip.replace is accepted.
LEMMA ReplaceClipBack ==
  ASSUME NEW d, IsDocument(d), NEW op, IsOperation(op), op.type = "clip.replace", Resolves(d, op),
         NEW actor, OperationUnlocked(d, actor, op),
         NEW r, r = ReplaceClip(d, op), r.ok, IdsUnique(r.doc), Free(r.doc, actor)
  PROVE  Allows(r.doc, actor, r.inverse)
  <1> DEFINE at == FindClip(d, op.clipId)
             clip == ClipAt(d, at)
             new == op.clip
  <1>1. /\ at = FindClip(d, op.clipId) /\ clip = ClipAt(d, at) /\ new = op.clip
        /\ op.type \in OnClip \ {"clip.move"}
    BY DEF OnClip
  <1> HIDE DEF at, clip, new
  <1>2. /\ IsDocument(r.doc) /\ new.id = op.clipId
        /\ r.doc = WithClips(d, at.track, PutAt(d.tracks[at.track].clips, at.index, new))
        /\ r.inverse = <<ReplaceClipOp(new.id, clip)>>
    BY <1>1, ReplaceClipKeeps
  <1>3. QED
    BY ONLY IsDocument(d), Resolves(d, op), OperationUnlocked(d, actor, op), IdsUnique(r.doc), Free(r.doc, actor),
            <1>1, <1>2, SetBack

\* The inverse of a clip.update that renames no clip is accepted.
LEMMA UpdateClipBack ==
  ASSUME NEW d, IsDocument(d), NEW op, IsOperation(op), op.type = "clip.update", ~ Renames(op), Resolves(d, op),
         NEW actor, OperationUnlocked(d, actor, op),
         NEW r, r = UpdateClip(d, op), IdsUnique(r.doc), Free(r.doc, actor)
  PROVE  Allows(r.doc, actor, r.inverse)
  <1> DEFINE at == FindClip(d, op.clipId)
             clip == ClipAt(d, at)
             new == Patched(clip, op.patch)
  <1>1. /\ at = FindClip(d, op.clipId) /\ clip = ClipAt(d, at) /\ new = Patched(clip, op.patch)
        /\ op.type \in OnClip \ {"clip.move"}
    BY DEF OnClip
  <1> HIDE DEF at, clip, new
  <1>2. /\ IsDocument(r.doc) /\ new.id = op.clipId
        /\ r.doc = WithClips(d, at.track, PutAt(d.tracks[at.track].clips, at.index, new))
        /\ r.inverse = <<ReplaceClipOp(new.id, clip)>>
    BY <1>1, UpdateClipKeeps
  <1>3. QED
    BY ONLY IsDocument(d), Resolves(d, op), OperationUnlocked(d, actor, op), IdsUnique(r.doc), Free(r.doc, actor),
            <1>1, <1>2, SetBack

\* The inverse of clip.split is accepted.
LEMMA SplitClipBack ==
  ASSUME NEW d, IsDocument(d), IdsUnique(d), NEW op, IsOperation(op), op.type = "clip.split", Resolves(d, op),
         NEW actor, OperationUnlocked(d, actor, op),
         NEW r, r = SplitClip(d, op), r.ok, IdsUnique(r.doc), Free(r.doc, actor)
  PROVE  Allows(r.doc, actor, r.inverse)
  <1> DEFINE e == r.doc
             a == FindClip(d, op.clipId).track
             i == FindClip(d, op.clipId).index
             n == i + 1
             id == op.rightClipId
             c == r.inverse
  <1>1. PICK clip, mid : SplitInto(d, e, id, a, i, clip, mid) /\ c = <<RemoveClipOp(id)>> \o <<ReplaceClipOp(clip.id, clip)>>
    BY SplitPieces
  <1>2. e.locks = d.locks
    BY SplitClipKeeps
  <1>3. /\ Guarded(op) /\ a \in DOMAIN d.tracks /\ d.tracks[a].id \in Affected(d, op).tracks
    <2>1. op.type \in OnClip
      BY SMTT(30) DEF OnClip
    <2>2. QED
      BY <2>1, AffectedByClip DEF Guarded, OnLibrary
  <1> HIDE DEF a, i, id, c
  <1> DEFINE A == <<RemoveClipOp(id)>>
             B == <<ReplaceClipOp(clip.id, clip)>>
  <1>4. Reaches(e, actor, A, mid)
    <2>1. /\ IsDocument(e) /\ IdsUnique(e) /\ a \in DOMAIN e.tracks /\ n \in DOMAIN e.tracks[a].clips
          /\ e.tracks[a].clips[n].id = id /\ mid = WithClips(e, a, RemoveAt(e.tracks[a].clips, n))
      BY <1>1 DEF SplitInto
    <2> HIDE DEF n, e
    <2>2. QED
      BY ONLY <2>1, RemovesAt
  <1>5. Allows(e, actor, A)
    <2>1. PICK s : e = WithClips(d, a, s)
      BY <1>1 DEF SplitInto
    <2>2. IsDocument(e) /\ IdsUnique(e) /\ Free(e, actor) /\ n \in DOMAIN e.tracks[a].clips /\ e.tracks[a].clips[n].id = id
      BY <1>1 DEF SplitInto
    <2> HIDE DEF n, e
    <2>3. Open(e, actor, a)
      BY ONLY IsDocument(d), OperationUnlocked(d, actor, op), <1>3, <2>1, <2>2, OpenAfter
    <2>4. QED
      BY <2>2, <2>3, RemoveAllowed, SMTT(30)
  <1>6. Allows(mid, actor, B)
    <2>1. PICK p : mid = WithClips(d, a, p)
      BY <1>1 DEF SplitInto
    <2>2. IsDocument(mid) /\ IdsUnique(mid) /\ i \in DOMAIN mid.tracks[a].clips /\ mid.tracks[a].clips[i].id = clip.id
      BY <1>1 DEF SplitInto
    <2>3. Free(mid, actor)
      BY <1>1, <1>2 DEF SplitInto, Free
    <2>4. Open(mid, actor, a)
      BY ONLY IsDocument(d), OperationUnlocked(d, actor, op), <1>3, <2>1, <2>2, <2>3, OpenAfter
    <2> DEFINE old == clip.id
    <2>5. old = mid.tracks[a].clips[i].id /\ clip.id = old
      BY <2>2
    <2> HIDE DEF old
    <2>6. Allows(mid, actor, <<ReplaceClipOp(old, clip)>>)
      BY ONLY <2>2, <2>4, <2>5, ReplaceAllowed
    <2>7. QED
      BY <2>6, SMTT(30) DEF old
  <1>7. Allows(e, actor, c)
    <2>1. IsSequence(A) /\ IsSequence(B) /\ c = A \o B
      BY <1>1, OneElement
    <2> HIDE DEF A, B, e
    <2>2. QED
      BY ONLY <1>4, <1>5, <1>6, <2>1, AllowsOn
  <1>8. QED
    BY <1>7 DEF c, e

\* The operations lead from x to y and are accepted if the track t of x is open:
\* in any case, or if no two objects of y have an id.
Leads(x, actor, t, ops, y) == Reaches(x, actor, ops, y) /\ (Open(x, actor, t) => Allows(x, actor, ops))
Returns(x, actor, t, ops, y) ==
  Reaches(x, actor, ops, y) /\ (Open(x, actor, t) /\ IdsApart(y) => Allows(x, actor, ops))

\* No operations lead anywhere else, and all of them are accepted.
LEMMA LeadsNone ==
  ASSUME NEW x, NEW actor, NEW t
  PROVE  Leads(x, actor, t, <<>>, x) /\ Returns(x, actor, t, <<>>, x)
  BY ReachesNone, AllowsNone DEF Leads, Returns

\* Two documents that differ in the clips of one track.
Siblings(x, t, from, mid) ==
  /\ IsDocument(x) /\ t \in DOMAIN x.tracks
  /\ (\E p : from = WithClips(x, t, p)) /\ (\E q : mid = WithClips(x, t, q))
  /\ IsDocument(mid) /\ IdsUnique(mid)

\* The track is as open in the one as in the other.
LEMMA OpenStill ==
  ASSUME NEW x, NEW t, NEW from, NEW mid, Siblings(x, t, from, mid), NEW actor, Open(from, actor, t)
  PROVE  Open(mid, actor, t)
  <1>1. IsDocument(x) /\ t \in DOMAIN x.tracks /\ IsDocument(mid) /\ IdsUnique(mid)
    BY DEF Siblings
  <1>2. PICK p : from = WithClips(x, t, p)
    BY DEF Siblings
  <1>3. PICK q : mid = WithClips(x, t, q)
    BY DEF Siblings
  <1>4. ASSUME NEW s PROVE /\ WithClips(x, t, s).locks = x.locks
                           /\ t \in DOMAIN WithClips(x, t, s).tracks /\ WithClips(x, t, s).tracks[t].locked = x.tracks[t].locked
    <2> DEFINE T == x.tracks
               new == [T[t] EXCEPT !.clips = s]
               e == WithClips(x, t, s)
    <2>1. IsTrack(T[t]) /\ x = [tracks |-> x.tracks, locks |-> x.locks, assets |-> x.assets, artifacts |-> x.artifacts]
      BY <1>1, DocumentFacts
    <2>2. e = [x EXCEPT !.tracks = [T EXCEPT ![t] = new]]
      BY DEF WithClips
    <2>3. new.locked = T[t].locked
      BY <2>1 DEF IsTrack
    <2> HIDE DEF new, e
    <2>4. e.tracks = [x.tracks EXCEPT ![t] = new] /\ e.locks = x.locks
      BY <2>1, <2>2
    <2>5. t \in DOMAIN x.tracks
      BY <1>1
    <2>6. t \in DOMAIN e.tracks /\ e.tracks[t] = new
      BY ONLY <2>4, <2>5
    <2>7. QED
      BY <2>3, <2>4, <2>6 DEF e
  <1>5. Free(from, actor) /\ ~ from.tracks[t].locked
    BY DEF Open
  <1>6. Free(mid, actor) /\ ~ mid.tracks[t].locked /\ t \in DOMAIN mid.tracks
    BY <1>2, <1>3, <1>4, <1>5 DEF Free
  <1>7. QED
    BY <1>1, <1>6 DEF Open

\* What leads on along one track is accepted on the way.
LEMMA LeadsOn ==
  ASSUME NEW x, NEW t, NEW from, NEW mid, Siblings(x, t, from, mid), NEW actor,
         NEW a, IsSequence(a), NEW b, IsSequence(b), NEW c, c = a \o b,
         Leads(from, actor, t, a, mid), NEW to, Leads(mid, actor, t, b, to)
  PROVE  Leads(from, actor, t, c, to)
  <1>1. Reaches(from, actor, a, mid) /\ Reaches(mid, actor, b, to)
    BY DEF Leads
  <1>2. Reaches(from, actor, c, to)
    BY <1>1, ReachesOn
  <1>3. ASSUME Open(from, actor, t) PROVE Allows(from, actor, c)
    <2>1. Open(mid, actor, t)
      BY <1>3, OpenStill
    <2>2. Allows(from, actor, a) /\ Allows(mid, actor, b)
      BY <1>3, <2>1 DEF Leads
    <2>3. QED
      BY <1>1, <2>2, AllowsOn
  <1>4. QED
    BY <1>2, <1>3 DEF Leads

\* Two runs on one track that lead back do so one after the other.
LEMMA ReturnsOn ==
  ASSUME NEW x, NEW t, NEW from, NEW mid, Siblings(x, t, from, mid), NEW actor,
         NEW a, IsSequence(a), NEW b, IsSequence(b), NEW c, c = a \o b,
         Returns(from, actor, t, a, mid), NEW to, Returns(mid, actor, t, b, to), IdsApart(to) => IdsApart(mid)
  PROVE  Returns(from, actor, t, c, to)
  <1>1. Reaches(from, actor, a, mid) /\ Reaches(mid, actor, b, to)
    BY DEF Returns
  <1>2. Reaches(from, actor, c, to)
    BY <1>1, ReachesOn
  <1>3. ASSUME Open(from, actor, t), IdsApart(to) PROVE Allows(from, actor, c)
    <2>1. Open(mid, actor, t)
      BY <1>3, OpenStill
    <2>2. Allows(from, actor, a) /\ Allows(mid, actor, b)
      BY <1>3, <2>1 DEF Returns
    <2>3. QED
      BY <1>1, <2>2, AllowsOn
  <1>4. QED
    BY <1>2, <1>3 DEF Returns

\* A run that leads on, and one that leads back from there, lead back together.
LEMMA LeadsBack ==
  ASSUME NEW x, NEW t, NEW from, NEW mid, Siblings(x, t, from, mid), NEW actor,
         NEW a, IsSequence(a), NEW b, IsSequence(b), NEW c, c = a \o b,
         Leads(from, actor, t, a, mid), NEW to, Returns(mid, actor, t, b, to)
  PROVE  Returns(from, actor, t, c, to)
  <1>1. Reaches(from, actor, a, mid) /\ Reaches(mid, actor, b, to)
    BY DEF Leads, Returns
  <1>2. Reaches(from, actor, c, to)
    BY <1>1, ReachesOn
  <1>3. ASSUME Open(from, actor, t), IdsApart(to) PROVE Allows(from, actor, c)
    <2>1. Open(mid, actor, t)
      BY <1>3, OpenStill
    <2>2. Allows(from, actor, a) /\ Allows(mid, actor, b)
      BY <1>3, <2>1 DEF Leads, Returns
    <2>3. QED
      BY <1>1, <2>2, AllowsOn
  <1>4. QED
    BY <1>2, <1>3 DEF Returns

\* Taking a clip out of an open track, exchanging it and putting one in.
LEMMA RemoveLeads ==
  ASSUME NEW e, IsDocument(e), IdsUnique(e), NEW t \in DOMAIN e.tracks, NEW i \in DOMAIN e.tracks[t].clips,
         NEW id, e.tracks[t].clips[i].id = id,
         NEW actor, NEW y, y = WithClips(e, t, RemoveAt(e.tracks[t].clips, i))
  PROVE  Leads(e, actor, t, <<RemoveClipOp(id)>>, y)
  <1>1. Reaches(e, actor, <<RemoveClipOp(id)>>, y)
    BY RemovesAt
  <1>2. Open(e, actor, t) => Allows(e, actor, <<RemoveClipOp(id)>>)
    BY RemoveAllowed
  <1>3. QED
    BY <1>1, <1>2 DEF Leads

\* Replacing a clip of a track by one of its id leads back to the document that has it.
LEMMA ReplaceReturns ==
  ASSUME NEW e, IsDocument(e), IdsUnique(e), NEW t \in DOMAIN e.tracks, NEW i \in DOMAIN e.tracks[t].clips,
         NEW id, e.tracks[t].clips[i].id = id, NEW new, IsClip(new), new.id = id,
         NEW actor, NEW y, y = WithClips(e, t, PutAt(e.tracks[t].clips, i, new))
  PROVE  Returns(e, actor, t, <<ReplaceClipOp(id, new)>>, y)
  <1>1. Reaches(e, actor, <<ReplaceClipOp(id, new)>>, y)
    BY ReplacesAt
  <1>2. Open(e, actor, t) => Allows(e, actor, <<ReplaceClipOp(id, new)>>)
    BY ReplaceAllowed
  <1>3. QED
    BY <1>1, <1>2 DEF Returns

\* Inserting a clip into a track leads back to the document that has it.
LEMMA InsertReturns ==
  ASSUME NEW e, IsDocument(e), IdsUnique(e), NEW t \in DOMAIN e.tracks, NEW id, e.tracks[t].id = id,
         NEW clip, IsClip(clip), NEW k \in 0 .. Len(e.tracks[t].clips),
         NEW actor, NEW y, y = WithClips(e, t, Splice(e.tracks[t].clips, k, clip)),
         IdsApart(y) => clip.id \notin SequenceIds(e)
  PROVE  Returns(e, actor, t, <<InsertClipOp(id, clip, k)>>, y)
  <1>1. Reaches(e, actor, <<InsertClipOp(id, clip, k)>>, y)
    BY InsertsAt
  <1>2. Open(e, actor, t) /\ IdsApart(y) => Allows(e, actor, <<InsertClipOp(id, clip, k)>>)
    BY InsertAllowed
  <1>3. QED
    BY <1>1, <1>2 DEF Returns

\* A document whose clips have ids that clips have in one of two others.
MadeOf(d, e, m) ==
  /\ TrackIds(d) = TrackIds(m) /\ LockIds(d) = LockIds(m) /\ d.assets = m.assets /\ d.artifacts = m.artifacts
  /\ TrackIds(e) = TrackIds(m) /\ LockIds(e) = LockIds(m) /\ e.assets = m.assets /\ e.artifacts = m.artifacts
  /\ ClipIds(m) \subseteq ClipIds(d) \cup ClipIds(e)

\* Where no kind of object has an id of another kind, none gets one.
LEMMA ApartMadeOf ==
  ASSUME NEW d, IdsApart(d), NEW e, IdsApart(e), NEW m, MadeOf(d, e, m)
  PROVE  IdsApart(m)
  <1> DEFINE L == ToSet(m.assets) \cup ToSet(m.artifacts)
  <1>1. /\ ClipIds(m) \subseteq ClipIds(d) \cup ClipIds(e) /\ d.assets = m.assets /\ d.artifacts = m.artifacts
        /\ e.assets = m.assets /\ e.artifacts = m.artifacts
        /\ TrackIds(d) = TrackIds(m) /\ LockIds(d) = LockIds(m) /\ TrackIds(e) = TrackIds(m) /\ LockIds(e) = LockIds(m)
    BY DEF MadeOf
  <1>2. /\ TrackIds(m) \cap ClipIds(d) = {} /\ ClipIds(d) \cap LockIds(m) = {} /\ TrackIds(m) \cap LockIds(m) = {}
        /\ SequenceIds(d) \cap L = {} /\ ToSet(m.assets) \cap ToSet(m.artifacts) = {}
    BY <1>1 DEF IdsApart
  <1>3. TrackIds(m) \cap ClipIds(e) = {} /\ ClipIds(e) \cap LockIds(m) = {} /\ SequenceIds(e) \cap L = {}
    BY <1>1 DEF IdsApart
  <1>4. \A list \in {"assets", "artifacts"} : \A i, j \in DOMAIN m[list] : m[list][i] = m[list][j] => i = j
    <2>1. \A i, j \in DOMAIN m.assets : m.assets[i] = m.assets[j] => i = j
      BY <1>1 DEF IdsApart
    <2>2. \A i, j \in DOMAIN m.artifacts : m.artifacts[i] = m.artifacts[j] => i = j
      BY <1>1 DEF IdsApart
    <2>3. QED
      BY <2>1, <2>2
  <1> HIDE DEF L
  <1>5. SequenceIds(m) \cap L = {}
    BY <1>1, <1>2, <1>3 DEF SequenceIds
  <1>6. TrackIds(m) \cap ClipIds(m) = {} /\ ClipIds(m) \cap LockIds(m) = {}
    BY <1>1, <1>2, <1>3
  <1>7. QED
    BY <1>2, <1>4, <1>5, <1>6 DEF IdsApart, L

\* A clip taken out or exchanged for one of its id leaves the kinds apart.
LEMMA ApartStill ==
  ASSUME NEW to, IsDocument(to), NEW t \in DOMAIN to.tracks, NEW w, w = to.tracks[t].clips,
         NEW v, IsSequence(v), \A c \in ToSet(v) : IsClip(c) /\ \E old \in ToSet(w) : old.id = c.id,
         NEW mid, mid = WithClips(to, t, v)
  PROVE  IdsApart(to) => IdsApart(mid)
  <1>1. /\ DOMAIN mid.tracks = DOMAIN to.tracks /\ mid.locks = to.locks /\ mid.assets = to.assets
        /\ mid.artifacts = to.artifacts /\ IsDocument(mid)
        /\ \A u \in DOMAIN to.tracks : /\ mid.tracks[u].id = to.tracks[u].id
                                       /\ mid.tracks[u].clips = IF u = t THEN v ELSE to.tracks[u].clips
    <2>1. \A i \in DOMAIN v : IsClip(v[i])
      BY DEF ToSet
    <2>2. QED
      BY <2>1, Reclipped
  <1>2. TrackIds(mid) = TrackIds(to)
    BY <1>1 DEF TrackIds, ToSet
  <1>3. LockIds(mid) = LockIds(to)
    BY <1>1 DEF LockIds
  <1>4. ASSUME NEW c \in ClipsOf(mid) PROVE c.id \in ClipIds(to)
    <2>1. PICK u \in DOMAIN mid.tracks : \E i \in DOMAIN mid.tracks[u].clips : c = mid.tracks[u].clips[i]
      BY <1>1, ClipsByPosition
    <2>2. PICK i \in DOMAIN mid.tracks[u].clips : c = mid.tracks[u].clips[i]
      BY <2>1
    <2>3. CASE u = t
      <3>1. c \in ToSet(v)
        BY <1>1, <2>2, <2>3 DEF ToSet
      <3>2. PICK old \in ToSet(w) : old.id = c.id
        BY <3>1
      <3>3. old.id \in ClipIds(to)
        BY <3>2, ClipIsOnTrack
      <3>4. QED
        BY <3>2, <3>3
    <2>4. CASE u # t
      BY <1>1, <2>1, <2>2, <2>4, ClipFacts
    <2>5. QED
      BY <2>3, <2>4
  <1>5. ClipIds(mid) \subseteq ClipIds(to)
    <2>1. \A id \in ClipIds(mid) : \E c \in ClipsOf(mid) : id = c.id
      BY DEF ClipIds
    <2>2. QED
      BY <1>4, <2>1
  <1>6. MadeOf(to, to, mid)
    BY <1>1, <1>2, <1>3, <1>5 DEF MadeOf
  <1>7. QED
    BY <1>6, ApartMadeOf

\* The new pieces are taken out, from the first on, and what was there stays.
LEMMA TakesOutAll ==
  ASSUME NEW x, IsDocument(x), NEW t \in DOMAIN x.tracks, NEW before, NEW actor,
         NEW E, \A c \in E : IsClip(c), NEW after \in Seq(E),
         NEW y, y = WithClips(x, t, after), IdsUnique(y),
         NEW z, z = WithClips(x, t, Kept(before, after))
  PROVE  Leads(y, actor, t, Outs(before, after), z) /\ IdsUnique(z) /\ Kept(before, after) \in Seq(E)
  <1> DEFINE X(q) == WithClips(x, t, q)
             P(s, B) == IdsUnique(X(s \o B)) =>
                          /\ IdsUnique(X(Kept(before, s) \o B))
                          /\ Leads(X(s \o B), actor, t, Outs(before, s), X(Kept(before, s) \o B))
             Bad == {s \in Seq(E) : ~ (Kept(before, s) \in Seq(E) /\ \A B \in Seq(E) : P(s, B))}
  <1>1. <<>> \notin Bad
    <2>1. Outs(before, <<>>) = <<>> /\ Kept(before, <<>>) = <<>>
      BY NoneOf
    <2>2. ASSUME NEW B \in Seq(E) PROVE P(<<>>, B)
      <3>1. \A w : Leads(w, actor, t, <<>>, w)
        BY LeadsNone
      <3>2. QED
        BY <2>1, <3>1
    <2>3. <<>> \in Seq(E)
      OBVIOUS
    <2> HIDE DEF P
    <2>4. QED
      BY <2>1, <2>2, <2>3
  <1>2. ASSUME NEW s \in Seq(E), NEW c \in E, s \notin Bad PROVE Append(s, c) \notin Bad
    <2> DEFINE u == Append(s, c)
               k == Kept(before, s)
               ku == Kept(before, u)
    <2>1. k \in Seq(E) /\ \A B \in Seq(E) : P(s, B)
      BY <1>2
    <2>2. IsSequence(s) /\ IsSequence(k)
      BY <2>1, SequenceOfElements
    <2>3. /\ Outs(before, u) = Outs(before, s) \o TakeOut(before, c)
          /\ IsSequence(Outs(before, s)) /\ IsSequence(TakeOut(before, c))
          /\ ku = k \o KeptOne(before, c)
      BY <2>2, OutsOn, KeptOn
    <2> HIDE DEF u, k, ku, P, X, Bad
    <2>4. ku \in Seq(E)
      <3>1. KeptOne(before, c) \in Seq(E)
        BY DEF KeptOne
      <3>2. QED
        BY <2>1, <2>3, <3>1
    <2>5. ASSUME NEW B \in Seq(E) PROVE P(u, B)
      <3> DEFINE C == <<c>> \o B
                 from == X(u \o B)
                 mid == X(k \o C)
                 to == X(ku \o B)
      <3>1. C \in Seq(E) /\ IsSequence(B)
        BY SequenceOfElements
      <3>2. u \o B = s \o C
        BY DEF u
      <3> SUFFICES ASSUME IdsUnique(from) PROVE IdsUnique(to) /\ Leads(from, actor, t, Outs(before, u), to)
        BY DEF P, ku
      <3>3. IdsUnique(mid) /\ Leads(from, actor, t, Outs(before, s), mid)
        <4> HIDE DEF C
        <4>1. P(s, C)
          BY <2>1, <3>1
        <4>2. QED
          BY <3>2, <4>1 DEF P, k
      <3>4. IdsUnique(to) /\ Leads(mid, actor, t, TakeOut(before, c), to)
        <4>1. CASE \A old \in ToSet(before) : old.id # c.id
          <5> DEFINE w == Around(k, c, B)
                     n == Len(k) + 1
          <5>1. IsSequence(w) /\ n \in DOMAIN w /\ w[n] = c /\ RemoveAt(w, n) = k \o B
            <6>1. w = Around(k, c, B) /\ n = Len(k) + 1
              OBVIOUS
            <6> HIDE DEF w, n
            <6>2. QED
              BY <2>2, <3>1, <6>1, AroundChanges
          <5>2. w = k \o C
            BY DEF Around
          <5>3. ku = k /\ TakeOut(before, c) = <<RemoveClipOp(c.id)>>
            <6>1. KeptOne(before, c) = <<>> /\ TakeOut(before, c) = <<RemoveClipOp(c.id)>>
              BY <4>1 DEF KeptOne, TakeOut
            <6>2. k \o <<>> = k
              BY <2>1
            <6>3. QED
              BY <2>3, <6>1, <6>2
          <5> HIDE DEF w, n, C
          <5>4. w \in Seq(E)
            BY <2>1, <3>1, <5>2
          <5>5. \A a \in ToSet(w) : IsClip(a)
            BY <5>4, SequenceOfElements
          <5>6. mid = WithClips(x, t, w) /\ to = WithClips(x, t, RemoveAt(w, n))
            BY <5>1, <5>2, <5>3 DEF X
          <5> HIDE DEF mid, to, from
          <5>7. IsDocument(mid) /\ t \in DOMAIN mid.tracks /\ mid.tracks[t].clips = w
            BY <5>1, <5>5, <5>6, ClipsDocument
          <5> DEFINE v == RemoveAt(w, n)
          <5>8. WithClips(mid, t, v) = to
            <6>1. to = WithClips(x, t, v)
              BY <5>6
            <6> HIDE DEF v
            <6>2. WithClips(mid, t, v) = WithClips(x, t, v)
              BY <5>6, ClipsBack
            <6>3. QED
              BY <6>1, <6>2
          <5>9. IdsUnique(to)
            <6>1. IsDocument(mid) /\ IdsUnique(mid) /\ t \in DOMAIN mid.tracks /\ w = mid.tracks[t].clips /\ n \in DOMAIN w
                  /\ v = RemoveAt(w, n) /\ to = WithClips(mid, t, v)
              BY <3>3, <5>1, <5>7, <5>8
            <6> HIDE DEF v
            <6>2. QED
              BY ONLY <6>1, TakenIds
          <5>10. Leads(mid, actor, t, <<RemoveClipOp(c.id)>>, to)
            <6> DEFINE id == c.id
            <6>1. /\ IsDocument(mid) /\ IdsUnique(mid) /\ t \in DOMAIN mid.tracks /\ n \in DOMAIN mid.tracks[t].clips
                  /\ mid.tracks[t].clips[n].id = id /\ to = WithClips(mid, t, RemoveAt(mid.tracks[t].clips, n))
              BY <3>3, <5>1, <5>7, <5>8
            <6> HIDE DEF id
            <6>2. Leads(mid, actor, t, <<RemoveClipOp(id)>>, to)
              BY ONLY <6>1, RemoveLeads
            <6>3. QED
              BY <6>2 DEF id
          <5>11. QED
            BY <5>3, <5>9, <5>10
        <4>2. CASE ~ (\A old \in ToSet(before) : old.id # c.id)
          <5>1. KeptOne(before, c) = <<c>> /\ TakeOut(before, c) = <<>>
            BY <4>2 DEF KeptOne, TakeOut
          <5>2. ku \o B = k \o C
            BY <2>1, <2>3, <5>1
          <5>3. to = mid
            BY <5>2
          <5>4. QED
            BY <3>3, <5>1, <5>3, LeadsNone
        <4>3. QED
          BY <4>1, <4>2
      <3>5. Siblings(x, t, from, mid)
        <4> DEFINE q == k \o C
        <4>1. q \in Seq(E) /\ mid = WithClips(x, t, q)
          BY <2>1, <3>1 DEF X
        <4> HIDE DEF q
        <4>2. IsSequence(q) /\ \A a \in ToSet(q) : IsClip(a)
          BY <4>1, SequenceOfElements
        <4> HIDE DEF mid
        <4>3. IsDocument(mid)
          BY <4>1, <4>2, ClipsDocument
        <4>4. QED
          BY <3>3, <4>1, <4>3 DEF Siblings, X
      <3>6. Leads(from, actor, t, Outs(before, u), to)
        <4> DEFINE a == Outs(before, s)
                   b == TakeOut(before, c)
                   ab == Outs(before, u)
        <4>1. IsSequence(a) /\ IsSequence(b) /\ ab = a \o b /\ Leads(from, actor, t, a, mid) /\ Leads(mid, actor, t, b, to)
          BY <2>3, <3>3, <3>4
        <4> HIDE DEF a, b, ab, from, mid, to
        <4>2. Leads(from, actor, t, ab, to)
          BY ONLY <3>5, <4>1, LeadsOn
        <4>3. QED
          BY <4>2 DEF ab
      <3>7. QED
        BY <3>4, <3>6
    <2>6. u \in Seq(E)
      BY DEF u
    <2>7. QED
      BY <2>4, <2>5, <2>6 DEF Bad, u, ku
  <1>3. Bad = {}
    <2>1. Bad \in SUBSET Seq(E)
      OBVIOUS
    <2> HIDE DEF Bad
    <2>2. QED
      BY <1>1, <1>2, <2>1, SequenceInduction
  <1>4. Kept(before, after) \in Seq(E) /\ P(after, <<>>)
    <2>1. <<>> \in Seq(E)
      OBVIOUS
    <2> HIDE DEF P
    <2>2. QED
      BY <1>3, <2>1
  <1>5. after \o <<>> = after /\ Kept(before, after) \o <<>> = Kept(before, after)
    BY <1>4
  <1>6. QED
    BY <1>4, <1>5

\* The place a clip is matched with: one of its id, or 0 when there is none.
LEMMA MatchPlace ==
  ASSUME NEW after, IsSequence(after), NEW c, NEW j, j = MatchIn(after, c)
  PROVE  /\ j = 0 => \A i \in DOMAIN after : after[i].id # c.id
         /\ j # 0 => j \in DOMAIN after /\ after[j].id = c.id
  <1> DEFINE p == {i \in DOMAIN after : after[i].id = c.id}
             n == Len(after)
             T == {n - i : i \in {0} \cup p}
  <1>1. n \in Nat /\ DOMAIN after = 1 .. n
    BY SequenceFacts
  <1>2. p \in SUBSET (1 .. n)
    BY <1>1
  <1>3. j = Max({0} \cup p)
    BY DEF MatchIn
  <1> HIDE DEF p, n
  <1>4. T \in SUBSET Nat /\ T # {}
    BY <1>1, <1>2
  <1>5. \E m \in T : \A k \in T : m <= k
    <2> HIDE DEF T
    <2>1. QED
      BY <1>4, LeastNumber
  <1>6. PICK m \in {0} \cup p : \A k \in {0} \cup p : n - m <= n - k
    BY <1>5
  <1>7. \A k \in {0} \cup p : m >= k
    BY <1>1, <1>2, <1>6
  <1>8. j \in {0} \cup p /\ \A k \in {0} \cup p : j >= k
    BY <1>3, <1>6, <1>7 DEF Max
  <1>9. CASE j = 0
    <2>1. p = {}
      BY <1>2, <1>8, <1>9
    <2>2. QED
      BY <1>9, <2>1 DEF p
  <1>10. CASE j # 0
    <2>1. j \in p
      BY <1>8, <1>10
    <2>2. QED
      BY <1>10, <2>1 DEF p
  <1>11. QED
    BY <1>9, <1>10

\* The clips as they were are put back over what is left of them, from the first on.
LEMMA PutsBackAll ==
  ASSUME NEW x, IsDocument(x), NEW t \in DOMAIN x.tracks, NEW id, id = x.tracks[t].id, NEW actor,
         NEW E, \A c \in E : IsClip(c), NEW before \in Seq(E), NEW after \in Seq(E),
         NEW y, y = WithClips(x, t, LeftOvers(after, before)),
         NEW z, z = WithClips(x, t, before), IdsUnique(z)
  PROVE  Returns(y, actor, t, Backs(id, after, before), z)
  <1> DEFINE X(q) == WithClips(x, t, q)
             P(s, B) == IdsUnique(X(s \o B)) =>
                          /\ IdsUnique(X(LeftOvers(after, s) \o B))
                          /\ Returns(X(LeftOvers(after, s) \o B), actor, t, Backs(id, after, s), X(s \o B))
             Bad == {s \in Seq(E) : ~ (LeftOvers(after, s) \in Seq(E) /\ \A B \in Seq(E) : P(s, B))}
  <1>0. IsSequence(after)
    BY SequenceOfElements
  <1>1. <<>> \notin Bad
    <2>1. Backs(id, after, <<>>) = <<>> /\ LeftOvers(after, <<>>) = <<>>
      BY NoneOf
    <2>2. ASSUME NEW B \in Seq(E) PROVE P(<<>>, B)
      <3>1. \A w : Returns(w, actor, t, <<>>, w)
        BY LeadsNone
      <3>2. QED
        BY <2>1, <3>1
    <2>3. <<>> \in Seq(E)
      OBVIOUS
    <2> HIDE DEF P
    <2>4. QED
      BY <2>1, <2>2, <2>3
  <1>2. ASSUME NEW s \in Seq(E), NEW c \in E, s \notin Bad PROVE Append(s, c) \notin Bad
    <2> DEFINE u == Append(s, c)
               k == LeftOvers(after, s)
               ku == LeftOvers(after, u)
               n == Len(s) + 1
               j == MatchIn(after, c)
    <2>1. k \in Seq(E) /\ \A B \in Seq(E) : P(s, B)
      BY <1>2
    <2>2. IsSequence(s)
      BY SequenceOfElements
    <2>3. /\ Backs(id, after, u) = Backs(id, after, s) \o BackOne(id, after, c, n)
          /\ IsSequence(Backs(id, after, s)) /\ IsSequence(BackOne(id, after, c, n))
          /\ ku = k \o LeftOne(after, c)
      <3>1. n = Len(s) + 1 /\ u = Append(s, c) /\ IsSequence(s)
        BY <2>2
      <3> HIDE DEF n, u
      <3>2. /\ Backs(id, after, u) = Backs(id, after, s) \o BackOne(id, after, c, n)
            /\ IsSequence(Backs(id, after, s)) /\ IsSequence(BackOne(id, after, c, n))
        <4>1. Appended(s, c, u, n)
          BY ONLY <3>1 DEF Appended
        <4>2. QED
          BY ONLY <4>1, BacksOn
      <3>3. LeftOvers(after, u) = LeftOvers(after, s) \o LeftOne(after, c)
        BY ONLY <3>1, LeftOn
      <3>4. QED
        BY <3>2, <3>3
    <2>4. /\ j = 0 => \A i \in DOMAIN after : after[i].id # c.id
          /\ j # 0 => j \in DOMAIN after /\ after[j].id = c.id /\ after[j] \in E
      <3> HIDE DEF j
      <3>1. j = MatchIn(after, c)
        BY DEF j
      <3>2. QED
        BY <1>0, <3>1, MatchPlace
    <2>5. n - 1 = Len(s)
      OBVIOUS
    <2> HIDE DEF u, k, ku, P, X, Bad, n
    <2>6. ku \in Seq(E)
      <3>1. LeftOne(after, c) \in Seq(E)
        BY <2>4 DEF LeftOne
      <3>2. QED
        BY <2>1, <2>3, <3>1
    <2>7. ASSUME NEW B \in Seq(E) PROVE P(u, B)
      <3> DEFINE to == X(u \o B)
                 from == X(ku \o B)
                 w == Around(s, c, B)
      <3>1. IsSequence(B)
        BY SequenceOfElements
      <3>2. /\ IsSequence(w) /\ n \in DOMAIN w /\ w[n] = c /\ IsSequence(s \o B) /\ RemoveAt(w, n) = s \o B
            /\ \A a : PutAt(w, n, a) = Around(s, a, B)
            /\ Splice(s \o B, Len(s), c) = w /\ u \o B = w
        <4>1. w = Around(s, c, B) /\ n = Len(s) + 1 /\ IsSequence(s) /\ IsSequence(B)
          BY <2>2, <3>1 DEF n
        <4> HIDE DEF w
        <4>2. /\ IsSequence(w) /\ n \in DOMAIN w /\ w[n] = c /\ IsSequence(s \o B)
              /\ RemoveAt(w, n) = s \o B
              /\ \A a : PutAt(w, n, a) = Around(s, a, B)
              /\ Splice(s \o B, Len(s), c) = w
              /\ Append(s, c) \o B = w
          BY ONLY <4>1, AroundChanges, SMTT(30)
        <4>3. QED
          BY <4>2 DEF u
      <3>3. w \in Seq(E)
        BY DEF Around
      <3>4. \A a \in ToSet(w) : IsClip(a)
        <4> HIDE DEF w
        <4>1. QED
          BY <3>3, SequenceOfElements
      <3>5. to = WithClips(x, t, w)
        BY <3>2 DEF X
      <3> HIDE DEF w
      <3> SUFFICES ASSUME IdsUnique(to) PROVE IdsUnique(from) /\ Returns(from, actor, t, Backs(id, after, u), to)
        BY DEF P, ku
      <3> HIDE DEF to
      <3>6. IsDocument(to) /\ t \in DOMAIN to.tracks /\ to.tracks[t].clips = w /\ to.tracks[t].id = id
        BY <3>2, <3>4, <3>5, ClipsDocument
      <3>7. \A q : WithClips(to, t, q) = X(q)
        BY <3>5, ClipsBack DEF X
      <3>f. \E q : from = WithClips(x, t, q)
        BY DEF X
      <3>8. \E mid : /\ IdsUnique(from) /\ Returns(from, actor, t, Backs(id, after, s), mid)
                     /\ Returns(mid, actor, t, BackOne(id, after, c, n), to)
                     /\ Siblings(x, t, from, mid) /\ (IdsApart(to) => IdsApart(mid))
        <4>1. CASE j = 0
          <5> DEFINE mid == X(s \o B)
          <5>1. LeftOne(after, c) = <<>> /\ BackOne(id, after, c, n) = <<InsertClipOp(id, c, Len(s))>>
            BY <2>5, <4>1 DEF LeftOne, BackOne
          <5>2. ku = k
            BY <2>1, <2>3, <5>1
          <5>3. IdsUnique(mid) /\ IsDocument(mid)
            <6> DEFINE v == RemoveAt(w, n)
            <6>1. /\ IsDocument(to) /\ IdsUnique(to) /\ t \in DOMAIN to.tracks /\ w = to.tracks[t].clips
                  /\ n \in DOMAIN w /\ v = RemoveAt(w, n) /\ mid = WithClips(to, t, v)
              BY <3>2, <3>6, <3>7
            <6> HIDE DEF v, mid
            <6>2. QED
              BY ONLY <6>1, TakenIds
          <5>a. Siblings(x, t, from, mid) /\ (IdsApart(to) => IdsApart(mid))
                /\ (IdsApart(to) => c.id \notin SequenceIds(mid))
            <6> DEFINE v == RemoveAt(w, n)
            <6>1. /\ IsDocument(to) /\ IdsUnique(to) /\ t \in DOMAIN to.tracks /\ w = to.tracks[t].clips
                  /\ n \in DOMAIN w /\ v = RemoveAt(w, n) /\ mid = WithClips(to, t, v) /\ w[n] = c
              BY <3>2, <3>6, <3>7
            <6>2. /\ IsSequence(v) /\ ToSet(v) \subseteq ToSet(w)
              <7>1. IsSequence(w) /\ n \in DOMAIN w /\ v = RemoveAt(w, n)
                BY <3>2
              <7> HIDE DEF w, v
              <7>2. QED
                BY ONLY <7>1, Taken
            <6>3. \A a \in ToSet(v) : IsClip(a) /\ \E old \in ToSet(w) : old.id = a.id
              BY <3>4, <6>2
            <6>4. \E q : mid = WithClips(x, t, q)
              BY DEF X
            <6> HIDE DEF v, mid
            <6>5. IdsApart(to) => IdsApart(mid)
              BY ONLY <6>1, <6>2, <6>3, ApartStill
            <6>6. IdsApart(to) => c.id \notin SequenceIds(mid)
              BY ONLY <5>3, <6>1, FreshTaken
            <6>7. QED
              BY <3>f, <5>3, <6>4, <6>5, <6>6 DEF Siblings
          <5>4. IdsUnique(from) /\ Returns(from, actor, t, Backs(id, after, s), mid)
            <6>1. P(s, B)
              BY <2>1
            <6>2. QED
              BY <5>2, <5>3, <6>1 DEF P, k
          <5>5. mid.tracks[t].clips = s \o B /\ t \in DOMAIN mid.tracks /\ mid.tracks[t].id = id
                /\ WithClips(mid, t, w) = to
            <6> DEFINE q == s \o B
            <6>1. IsDocument(to) /\ t \in DOMAIN to.tracks /\ mid = WithClips(to, t, q)
              BY <3>6, <3>7
            <6>2. mid.tracks[t].clips = q /\ t \in DOMAIN mid.tracks /\ mid.tracks[t].id = to.tracks[t].id
                  /\ WithClips(mid, t, to.tracks[t].clips) = WithClips(to, t, to.tracks[t].clips)
                  /\ WithClips(to, t, to.tracks[t].clips) = to
              <7> HIDE DEF q, mid
              <7>1. QED
                BY ONLY <6>1, ClipsBack
            <6>3. QED
              BY <3>6, <6>2
          <5>6. Returns(mid, actor, t, <<InsertClipOp(id, c, Len(s))>>, to)
            <6> DEFINE m == Len(s)
            <6>1. /\ IsDocument(mid) /\ IdsUnique(mid) /\ t \in DOMAIN mid.tracks /\ mid.tracks[t].id = id
                  /\ IsClip(c) /\ to = WithClips(mid, t, Splice(mid.tracks[t].clips, m, c))
              BY <3>2, <5>3, <5>5
            <6>a. m \in 0 .. Len(mid.tracks[t].clips)
              <7>1. s \in Seq(E) /\ B \in Seq(E)
                OBVIOUS
              <7>2. Len(s) \in 0 .. Len(s \o B)
                BY ONLY <7>1
              <7>3. QED
                BY <5>5, <7>2
            <6> HIDE DEF m, mid
            <6>2. Returns(mid, actor, t, <<InsertClipOp(id, c, m)>>, to)
              BY ONLY <5>a, <6>1, <6>a, InsertReturns
            <6>3. QED
              BY <6>2 DEF m
          <5> HIDE DEF mid
          <5>7. QED
            BY <5>1, <5>4, <5>6, <5>a
        <4>2. CASE j # 0
          <5> DEFINE a == after[j]
                     C == <<a>> \o B
                     mid == X(s \o C)
          <5>1. a \in E /\ a.id = c.id
            BY <2>4, <4>2
          <5>2. LeftOne(after, c) = <<a>> /\ BackOne(id, after, c, n) = (IF a = c THEN <<>> ELSE <<ReplaceClipOp(c.id, c)>>)
            BY <4>2 DEF LeftOne, BackOne
          <5> HIDE DEF a
          <5>3. C \in Seq(E) /\ ku \o B = k \o C /\ s \o C = Around(s, a, B)
            BY <2>1, <2>3, <5>1, <5>2 DEF Around
          <5> HIDE DEF C
          <5>4. s \o C = PutAt(w, n, a)
            BY <3>2, <5>3
          <5>5. IdsUnique(mid) /\ IsDocument(mid)
            <6> DEFINE v == PutAt(w, n, a)
            <6>1. /\ IsDocument(to) /\ IdsUnique(to) /\ t \in DOMAIN to.tracks /\ w = to.tracks[t].clips
                  /\ n \in DOMAIN w /\ IsClip(a) /\ a.id = w[n].id /\ v = PutAt(w, n, a) /\ mid = WithClips(to, t, v)
              BY <3>2, <3>6, <3>7, <5>1, <5>4
            <6> HIDE DEF v, mid
            <6>2. QED
              BY ONLY <6>1, PutSameIds
          <5>b. Siblings(x, t, from, mid) /\ (IdsApart(to) => IdsApart(mid))
            <6> DEFINE v == PutAt(w, n, a)
            <6>1. /\ IsDocument(to) /\ t \in DOMAIN to.tracks /\ w = to.tracks[t].clips
                  /\ n \in DOMAIN w /\ IsClip(a) /\ a.id = w[n].id /\ v = PutAt(w, n, a) /\ mid = WithClips(to, t, v)
              BY <3>2, <3>6, <3>7, <5>1, <5>4
            <6>2. IsSequence(v) /\ ToSet(v) \subseteq ToSet(w) \cup {a} /\ w[n] \in ToSet(w)
              <7>1. IsSequence(w) /\ n \in DOMAIN w /\ v = PutAt(w, n, a)
                BY <3>2
              <7> HIDE DEF w, v
              <7>2. IsSequence(v) /\ ToSet(v) \subseteq ToSet(w) \cup {a}
                BY ONLY <7>1, Replaced
              <7>3. w[n] \in ToSet(w)
                BY ONLY <7>1 DEF ToSet
              <7>4. QED
                BY <7>2, <7>3
            <6>3. \A e \in ToSet(v) : IsClip(e) /\ \E old \in ToSet(w) : old.id = e.id
              BY <3>4, <6>1, <6>2
            <6>4. \E q : mid = WithClips(x, t, q)
              BY DEF X
            <6> HIDE DEF v, mid
            <6>5. IdsApart(to) => IdsApart(mid)
              BY ONLY <6>1, <6>2, <6>3, ApartStill
            <6>6. QED
              BY <3>f, <5>5, <6>4, <6>5 DEF Siblings
          <5>6. IdsUnique(from) /\ Returns(from, actor, t, Backs(id, after, s), mid)
            <6>1. P(s, C)
              BY <2>1, <5>3
            <6>2. QED
              BY <5>3, <5>5, <6>1 DEF P, k
          <5>7. Returns(mid, actor, t, BackOne(id, after, c, n), to)
            <6>1. CASE a = c
              <7>1. s \o C = w
                BY <5>3, <6>1 DEF w
              <7>2. mid = to
                BY <3>5, <7>1 DEF X
              <7>3. Returns(to, actor, t, <<>>, to)
                BY LeadsNone
              <7>4. QED
                BY <5>2, <6>1, <7>2, <7>3
            <6>2. CASE a # c
              <7> DEFINE q == s \o C
              <7>1. IsDocument(to) /\ t \in DOMAIN to.tracks /\ mid = WithClips(to, t, q)
                BY <3>6, <3>7
              <7>2. /\ mid.tracks[t].clips = q /\ t \in DOMAIN mid.tracks
                    /\ WithClips(mid, t, to.tracks[t].clips) = to
                <8> HIDE DEF q, mid
                <8>1. QED
                  BY ONLY <7>1, ClipsBack
              <7>3. n \in DOMAIN q /\ q[n] = a /\ PutAt(q, n, c) = w
                <8>1. q = Around(s, a, B) /\ n = Len(s) + 1
                  BY <5>3 DEF n
                <8> HIDE DEF q
                <8>2. n \in DOMAIN q /\ q[n] = a /\ \A b : PutAt(q, n, b) = Around(s, b, B)
                  BY <2>2, <3>1, <8>1, AroundChanges
                <8>3. QED
                  BY <8>2 DEF w
              <7> HIDE DEF q
              <7> DEFINE i == c.id
              <7>4. /\ IsDocument(mid) /\ IdsUnique(mid) /\ t \in DOMAIN mid.tracks /\ n \in DOMAIN mid.tracks[t].clips
                    /\ mid.tracks[t].clips[n].id = i /\ IsClip(c) /\ c.id = i
                    /\ to = WithClips(mid, t, PutAt(mid.tracks[t].clips, n, c))
                BY <3>6, <5>1, <5>5, <7>2, <7>3
              <7> HIDE DEF i, mid
              <7>5. Returns(mid, actor, t, <<ReplaceClipOp(i, c)>>, to)
                BY ONLY <7>4, ReplaceReturns
              <7>6. QED
                BY <5>2, <6>2, <7>5 DEF i
            <6>3. QED
              BY <6>1, <6>2
          <5> HIDE DEF mid
          <5>8. QED
            BY <5>6, <5>7, <5>b
        <4>3. QED
          BY <4>1, <4>2
      <3>9. PICK mid : /\ IdsUnique(from) /\ Returns(from, actor, t, Backs(id, after, s), mid)
                       /\ Returns(mid, actor, t, BackOne(id, after, c, n), to)
                       /\ Siblings(x, t, from, mid) /\ (IdsApart(to) => IdsApart(mid))
        BY <3>8
      <3>10. Returns(from, actor, t, Backs(id, after, u), to)
        <4> DEFINE a == Backs(id, after, s)
                   b == BackOne(id, after, c, n)
                   ab == Backs(id, after, u)
        <4>1. IsSequence(a) /\ IsSequence(b) /\ ab = a \o b /\ Returns(from, actor, t, a, mid) /\ Returns(mid, actor, t, b, to)
              /\ Siblings(x, t, from, mid) /\ (IdsApart(to) => IdsApart(mid))
          BY <2>3, <3>9
        <4> HIDE DEF a, b, ab, from
        <4>2. Returns(from, actor, t, ab, to)
          BY ONLY <4>1, ReturnsOn
        <4>3. QED
          BY <4>2 DEF ab
      <3>11. QED
        BY <3>9, <3>10
    <2>8. u \in Seq(E)
      BY DEF u
    <2>9. QED
      BY <2>6, <2>7, <2>8 DEF Bad, u, ku
  <1>3. Bad = {}
    <2>1. Bad \in SUBSET Seq(E)
      OBVIOUS
    <2> HIDE DEF Bad
    <2>2. QED
      BY <1>1, <1>2, <2>1, SequenceInduction
  <1>4. LeftOvers(after, before) \in Seq(E) /\ P(before, <<>>)
    <2>1. <<>> \in Seq(E)
      OBVIOUS
    <2> HIDE DEF P
    <2>2. QED
      BY <1>3, <2>1
  <1>5. before \o <<>> = before /\ LeftOvers(after, before) \o <<>> = LeftOvers(after, before)
    BY <1>4
  <1>6. QED
    BY <1>4, <1>5

\* The clips of a track that a ripple deletion may cut: no two have an id, and
\* no new id of a right-hand piece is that of a clip.
Cuttable(before, op) ==
  /\ op.range \in TimeRange /\ IsSequence(before)
  /\ \A c \in ToSet(before) : IsClip(c)
  /\ \A c, e \in ToSet(before) : c.id = e.id => c = e
  /\ \A c, e \in ToSet(before) :
       RangesOverlap(c.range, op.range) /\ HasLeft(c, op.range) /\ HasRight(c, op.range) => op.right[c.id] # e.id

\* What a clip becomes: nothing, one piece of its id, or a second piece of a new id as well.
NoPiece(c, op) == RipplePieces(c, op) = <<>>
OnePiece(c, op, p) == RipplePieces(c, op) = <<p>> /\ p.id = c.id
TwoPieces(c, op, p, q) ==
  /\ RipplePieces(c, op) = <<p, q>> /\ p.id = c.id /\ q.id = op.right[c.id]
  /\ RangesOverlap(c.range, op.range) /\ HasLeft(c, op.range) /\ HasRight(c, op.range)

\* A ripple leaves no, one or two pieces of a clip.
LEMMA PiecesCounted ==
  ASSUME NEW c, IsClip(c), NEW op, op.range \in TimeRange
  PROVE  NoPiece(c, op) \/ (\E p : OnePiece(c, op, p)) \/ (\E p, q : TwoPieces(c, op, p, q))
  <1> DEFINE r == op.range
             left == LeftOf(c, r)
             cut == RightOf(c, r, op.right[c.id])
             rest == RightOf(c, r, c.id)
             moved == MovedTo(c, c.range.start - r.dur)
             ps == RipplePieces(c, op)
  <1>1. left.id = c.id
    BY LeftFacts
  <1>2. cut.id = op.right[c.id] /\ rest.id = c.id
    BY RightFacts
  <1>3. moved.id = c.id
    <2>1. c.range.start \in Int /\ r.dur \in Int
      BY RangeFacts DEF IsClip
    <2> DEFINE start == c.range.start - r.dur
    <2>2. start \in Int
      BY <2>1
    <2> HIDE DEF start
    <2>3. MovedTo(c, start).id = c.id
      BY <2>2, MovedClip
    <2>4. QED
      BY <2>3 DEF start
  <1>4. /\ ~ Reached(c, r) => ps = <<c>>
        /\ ~ RangesOverlap(c.range, r) /\ Reached(c, r) => ps = <<moved>>
        /\ RangesOverlap(c.range, r) =>
             /\ HasLeft(c, r) /\ HasRight(c, r) => ps = <<left, cut>>
             /\ HasLeft(c, r) /\ ~ HasRight(c, r) => ps = <<left>>
             /\ ~ HasLeft(c, r) /\ HasRight(c, r) => ps = <<rest>>
             /\ ~ HasLeft(c, r) /\ ~ HasRight(c, r) => ps = <<>>
    BY PiecesShape
  <1>5. ~ RangesOverlap(c.range, r) \/ Reached(c, r)
    BY DEF Reached
  <1> HIDE DEF left, cut, rest, moved
  <1>6. CASE ~ RangesOverlap(c.range, r)
    <2>1. OnePiece(c, op, c) \/ OnePiece(c, op, moved)
      BY <1>3, <1>4, <1>6 DEF OnePiece
    <2>2. QED
      BY <2>1
  <1>7. CASE RangesOverlap(c.range, r)
    <2>1. NoPiece(c, op) \/ OnePiece(c, op, left) \/ OnePiece(c, op, rest) \/ TwoPieces(c, op, left, cut)
      BY <1>1, <1>2, <1>4, <1>7 DEF NoPiece, OnePiece, TwoPieces
    <2>2. QED
      BY <2>1
  <1>8. QED
    BY <1>6, <1>7

\* Of the clips after a deletion, a clip is left the one of its id, if there is one.
LEMMA LeftIs ==
  ASSUME NEW after, IsSequence(after), NoRepeat(after), NEW c
  PROVE  /\ \A p \in ToSet(after) : p.id = c.id => LeftOne(after, c) = <<p>>
         /\ (\A p \in ToSet(after) : p.id # c.id) => LeftOne(after, c) = <<>>
  <1> DEFINE j == MatchIn(after, c)
  <1>1. /\ j = 0 => \A i \in DOMAIN after : after[i].id # c.id
        /\ j # 0 => j \in DOMAIN after /\ after[j].id = c.id
    <2>1. j = MatchIn(after, c)
      OBVIOUS
    <2> HIDE DEF j
    <2>2. QED
      BY <2>1, MatchPlace
  <1>2. LeftOne(after, c) = IF j = 0 THEN <<>> ELSE <<after[j]>>
    BY DEF LeftOne
  <1> HIDE DEF j
  <1>3. ASSUME NEW p \in ToSet(after), p.id = c.id PROVE LeftOne(after, c) = <<p>>
    <2>1. PICK i \in DOMAIN after : p = after[i]
      BY SequenceFacts
    <2>2. j # 0 /\ j = i
      BY <1>1, <1>3, <2>1 DEF NoRepeat
    <2>3. QED
      BY <1>2, <2>1, <2>2
  <1>4. ASSUME \A p \in ToSet(after) : p.id # c.id PROVE LeftOne(after, c) = <<>>
    <2>1. \A i \in DOMAIN after : after[i] \in ToSet(after)
      BY SequenceFacts
    <2>2. j = 0
      BY <1>1, <1>4, <2>1
    <2>3. QED
      BY <1>2, <2>2
  <1>5. QED
    BY <1>3, <1>4

\* a deletion is at the clip c: it has made the clips a, and makes b of them and the pieces of c.
PiecesAt(before, op, after, c, a, b) ==
  /\ Cuttable(before, op) /\ after = RippleTrack(before, op) /\ NoRepeat(after)
  /\ c \in ToSet(before) /\ IsSequence(a) /\ b = a \o RipplePieces(c, op)

\* The pieces of one clip that keep its id are what it is left.
LEMMA PiecesLeft ==
  ASSUME NEW op, NEW before, NEW after, NEW c, NEW a, NEW b, PiecesAt(before, op, after, c, a, b)
  PROVE  Kept(before, b) = Kept(before, a) \o LeftOne(after, c)
  <1>0. /\ Cuttable(before, op) /\ after = RippleTrack(before, op) /\ NoRepeat(after)
        /\ c \in ToSet(before) /\ IsSequence(a) /\ b = a \o RipplePieces(c, op)
    BY DEF PiecesAt
  <1>1. /\ op.range \in TimeRange /\ IsSequence(before)
        /\ \A e \in ToSet(before) : IsClip(e)
        /\ \A f, e \in ToSet(before) : f.id = e.id => f = e
        /\ \A f, e \in ToSet(before) :
             RangesOverlap(f.range, op.range) /\ HasLeft(f, op.range) /\ HasRight(f, op.range) => op.right[f.id] # e.id
    BY <1>0 DEF Cuttable
  <1>2. /\ IsSequence(after)
        /\ \A p : p \in ToSet(after) <=> \E e \in ToSet(before) : p \in ToSet(RipplePieces(e, op))
    BY <1>0, <1>1, RippledClips
  <1>3. /\ \A p \in ToSet(after) : p.id = c.id => LeftOne(after, c) = <<p>>
        /\ (\A p \in ToSet(after) : p.id # c.id) => LeftOne(after, c) = <<>>
    BY <1>0, <1>2, LeftIs
  <1>4. IsSequence(Kept(before, a))
    <2>1. IsSequence(Kept(before, a))
      BY <1>0, KeptOn
    <2>2. QED
      BY <2>1
  <1>5. CASE NoPiece(c, op)
    <2>1. \A p \in ToSet(after) : p.id # c.id
      <3> SUFFICES ASSUME NEW p \in ToSet(after), p.id = c.id PROVE FALSE
        OBVIOUS
      <3>1. PICK e \in ToSet(before) : p \in ToSet(RipplePieces(e, op))
        BY <1>2
      <3>2. PieceOf(p, e, op)
        BY <1>1, <3>1, PiecesAreClips
      <3>3. e = c
        BY <1>0, <1>1, <3>2 DEF PieceOf
      <3>4. ToSet(<<>>) = {}
        BY EmptySequence
      <3>5. QED
        BY <1>5, <3>1, <3>3, <3>4 DEF NoPiece
    <2>2. LeftOne(after, c) = <<>>
      BY <1>3, <2>1
    <2>3. b = a
      <3>1. a \o <<>> = a
        BY <1>0, SequenceFacts
      <3>2. QED
        BY <1>0, <1>5, <3>1 DEF NoPiece
    <2>4. Kept(before, a) \o <<>> = Kept(before, a)
      BY <1>4, SequenceFacts
    <2>5. QED
      BY <2>2, <2>3, <2>4
  <1>6. CASE \E p : OnePiece(c, op, p)
    <2>1. PICK p : RipplePieces(c, op) = <<p>> /\ p.id = c.id
      BY <1>6 DEF OnePiece
    <2>2. p \in ToSet(after)
      <3>1. p \in ToSet(<<p>>)
        BY OneElement
      <3>2. QED
        BY <1>0, <1>2, <2>1, <3>1
    <2>3. LeftOne(after, c) = <<p>> /\ KeptOne(before, p) = <<p>>
      BY <1>0, <1>3, <2>1, <2>2 DEF KeptOne
    <2>4. b = Append(a, p)
      BY <1>0, <2>1, SequenceFacts
    <2>5. Kept(before, b) = Kept(before, a) \o KeptOne(before, p)
      BY <1>0, <2>4, KeptOn
    <2>6. QED
      BY <2>3, <2>5
  <1>7. CASE \E p, q : TwoPieces(c, op, p, q)
    <2>1. PICK p, q : /\ RipplePieces(c, op) = <<p, q>> /\ p.id = c.id /\ q.id = op.right[c.id]
                      /\ RangesOverlap(c.range, op.range) /\ HasLeft(c, op.range) /\ HasRight(c, op.range)
      BY <1>7 DEF TwoPieces
    <2>2. p \in ToSet(after)
      <3>1. p \in ToSet(<<p, q>>)
        BY TwoElements
      <3>2. QED
        BY <1>0, <1>2, <2>1, <3>1
    <2>3. LeftOne(after, c) = <<p>> /\ KeptOne(before, p) = <<p>>
      BY <1>0, <1>3, <2>1, <2>2 DEF KeptOne
    <2>4. KeptOne(before, q) = <<>>
      BY <1>0, <1>1, <2>1 DEF KeptOne
    <2> DEFINE m == Append(a, p)
    <2>5. IsSequence(m) /\ b = Append(m, q)
      <3>1. a \in Seq(ToSet(a) \cup {p, q})
        BY <1>0, SequencesGrow
      <3>2. m \in Seq(ToSet(a) \cup {p, q})
        BY <3>1
      <3>3. IsSequence(m)
        BY <3>2, SequenceOfElements
      <3>4. b = a \o <<p, q>>
        BY <1>0, <2>1
      <3>5. a \o <<p, q>> = Append(Append(a, p), q)
        BY <3>1
      <3>6. QED
        BY <3>3, <3>4, <3>5
    <2>6. Kept(before, m) = Kept(before, a) \o KeptOne(before, p)
      BY <1>0, KeptOn
    <2> HIDE DEF m
    <2>7. Kept(before, b) = Kept(before, m) \o KeptOne(before, q) /\ IsSequence(Kept(before, m))
      BY <2>5, KeptOn
    <2>8. Kept(before, m) \o <<>> = Kept(before, m)
      BY <2>7, SequenceFacts
    <2>9. QED
      BY <2>3, <2>4, <2>6, <2>7, <2>8
  <1>8. QED
    BY <1>0, <1>1, <1>5, <1>6, <1>7, PiecesCounted

\* What is kept of the clips after a ripple deletion is what is left of those before.
LEMMA KeptIsLeft ==
  ASSUME NEW op, NEW before, Cuttable(before, op), NEW after, after = RippleTrack(before, op), NoRepeat(after)
  PROVE  Kept(before, after) = LeftOvers(after, before)
  <1> DEFINE E == ToSet(before)
             Bad == {s \in Seq(E) : Kept(before, RippleTrack(s, op)) # LeftOvers(after, s)}
  <1>1. op.range \in TimeRange /\ IsSequence(before) /\ \A c \in E : IsClip(c)
    BY DEF Cuttable
  <1>2. <<>> \notin Bad
    <2>1. RippleTrack(<<>>, op) = <<>>
      <3> DEFINE f == PieceList(<<>>, op)
      <3>1. DOMAIN f = {} /\ f = [i \in DOMAIN f |-> f[i]]
        BY DEF PieceList
      <3>2. RippleTrack(<<>>, op) = FlattenSeq(f)
        BY DEF RippleTrack, PieceList
      <3> HIDE DEF f
      <3>3. QED
        BY <3>1, <3>2, FlatNone
    <2>2. QED
      BY <2>1, NoneOf
  <1>3. ASSUME NEW s \in Seq(E), NEW c \in E, s \notin Bad PROVE Append(s, c) \notin Bad
    <2> DEFINE u == Append(s, c)
               a == RippleTrack(s, op)
               b == RippleTrack(u, op)
    <2>1. IsSequence(s) /\ \A e \in ToSet(s) : IsClip(e)
      BY <1>1, SequenceOfElements
    <2>2. u = Append(s, c)
      OBVIOUS
    <2> HIDE DEF u
    <2>3. b = a \o RipplePieces(c, op) /\ IsSequence(a)
      BY <1>1, <2>1, <2>2, PiecesOn
    <2> HIDE DEF a, b
    <2>4. Kept(before, b) = Kept(before, a) \o LeftOne(after, c)
      <3>1. PiecesAt(before, op, after, c, a, b)
        BY <2>3 DEF PiecesAt
      <3>2. QED
        BY ONLY <3>1, PiecesLeft
    <2>5. LeftOvers(after, u) = LeftOvers(after, s) \o LeftOne(after, c)
      BY <2>1, <2>2, LeftOn
    <2>6. Kept(before, a) = LeftOvers(after, s)
      BY <1>3 DEF a
    <2>7. QED
      BY <2>4, <2>5, <2>6 DEF b, u
  <1>4. Bad = {}
    <2>1. Bad \in SUBSET Seq(E)
      OBVIOUS
    <2> HIDE DEF Bad
    <2>2. QED
      BY <1>2, <1>3, <2>1, SequenceInduction
  <1>5. before \in Seq(E)
    BY <1>1, SequenceFacts
  <1>6. QED
    BY <1>4, <1>5

\* On the track t of m a ripple deletion made `after` of the clips `before`, and z is m with these again.
Cut(m, t, op, before, after, z) ==
  /\ IsDocument(m) /\ IdsUnique(m) /\ t \in DOMAIN m.tracks
  /\ Cuttable(before, op) /\ after = RippleTrack(before, op) /\ after = m.tracks[t].clips
  /\ z = WithClips(m, t, before) /\ IdsUnique(z)

\* The inverse of a ripple deletion takes back what it made of one track.
LEMMA TrackUndone ==
  ASSUME NEW m, NEW t, NEW op, NEW before, NEW after, NEW z, Cut(m, t, op, before, after, z),
         NEW id, id = m.tracks[t].id, NEW actor
  PROVE  Returns(m, actor, t, RippleInverse(id, before, after), z)
  <1>1. /\ IsDocument(m) /\ IdsUnique(m) /\ t \in DOMAIN m.tracks
        /\ Cuttable(before, op) /\ after = RippleTrack(before, op) /\ after = m.tracks[t].clips
        /\ z = WithClips(m, t, before) /\ IdsUnique(z)
    BY DEF Cut
  <1>2. op.range \in TimeRange /\ IsSequence(before) /\ \A c \in ToSet(before) : IsClip(c)
    BY <1>1 DEF Cuttable
  <1>3. IsSequence(after) /\ \A c \in ToSet(after) : IsClip(c)
    BY <1>1, <1>2, RippledClips
  <1>4. NoRepeat(after)
    BY <1>1 DEF IdsUnique, NoRepeat
  <1>5. Kept(before, after) = LeftOvers(after, before)
    BY <1>1, <1>4, KeptIsLeft
  <1>6. m = WithClips(m, t, after)
    <2>1. WithClips(m, t, m.tracks[t].clips) = m
      <3>1. m = WithClips(m, t, m.tracks[t].clips)
        BY <1>1, Reclipped, DocumentFacts, ClipFacts
      <3>2. QED
        BY <3>1
    <2>2. QED
      BY <1>1, <2>1
  <1> DEFINE E == ToSet(before) \cup ToSet(after)
             y == WithClips(m, t, LeftOvers(after, before))
             outs == Outs(before, after)
             backs == Backs(id, after, before)
  <1>7. before \in Seq(E) /\ after \in Seq(E) /\ \A c \in E : IsClip(c)
    BY <1>2, <1>3, SequencesGrow
  <1> HIDE DEF E
  <1>8. Leads(m, actor, t, outs, y) /\ IdsUnique(y) /\ Kept(before, after) \in Seq(E)
    <2>1. y = WithClips(m, t, Kept(before, after))
      BY <1>5
    <2> HIDE DEF y
    <2>2. QED
      BY <1>1, <1>6, <1>7, <2>1, TakesOutAll
  <1>9. Returns(y, actor, t, backs, z)
    <2>1. y = WithClips(m, t, LeftOvers(after, before))
      OBVIOUS
    <2> HIDE DEF y
    <2>2. QED
      BY <1>1, <1>7, <2>1, PutsBackAll
  <1>a. Siblings(m, t, m, y)
    <2> DEFINE q == LeftOvers(after, before)
    <2>1. q \in Seq(E) /\ y = WithClips(m, t, q)
      BY <1>5, <1>8
    <2> HIDE DEF q
    <2>2. IsSequence(q) /\ \A c \in ToSet(q) : IsClip(c)
      BY <1>7, <2>1, SequenceOfElements
    <2> HIDE DEF y
    <2>3. IsDocument(y)
      BY <1>1, <2>1, <2>2, ClipsDocument
    <2>4. QED
      BY <1>1, <1>6, <1>8, <2>1, <2>3 DEF Siblings
  <1>10. IsSequence(outs)
    BY <1>3, OutsOn
  <1>11. IsSequence(backs)
    <2> DEFINE n == Len(before) + 1
               u == Append(before, 0)
    <2>1. Appended(before, 0, u, n)
      BY <1>2 DEF Appended
    <2> HIDE DEF n, u
    <2>2. QED
      BY <2>1, BacksOn
  <1>12. RippleInverse(id, before, after) = outs \o backs
    BY RippleInverseShape DEF Outs, Backs
  <1> DEFINE all == RippleInverse(id, before, after)
  <1>13. all = outs \o backs
    BY <1>12
  <1> HIDE DEF all, outs, backs, y
  <1>14. Returns(m, actor, t, all, z)
    BY <1>8, <1>9, <1>a, <1>10, <1>11, <1>13, LeadsBack
  <1>15. QED
    BY <1>14 DEF all

\* The document half way back: the tracks of the ids in S are those of d, the others those of e.
MixedTracks(d, e, S) == [t \in DOMAIN d.tracks |-> IF d.tracks[t].id \in S THEN d.tracks[t] ELSE e.tracks[t]]
Mixed(d, e, S) == WithTracks(e, MixedTracks(d, e, S))

\* e is d after a deletion: its tracks are those of d, and a clip of one has the
\* id of a clip that was there, or an id that no clip had.
Recut(d, e) ==
  /\ IsDocument(d) /\ IdsUnique(d) /\ IsDocument(e) /\ IdsUnique(e)
  /\ e.locks = d.locks /\ e.assets = d.assets /\ e.artifacts = d.artifacts
  /\ DOMAIN e.tracks = DOMAIN d.tracks
  /\ \A t \in DOMAIN d.tracks :
       /\ e.tracks[t].id = d.tracks[t].id /\ e.tracks[t].locked = d.tracks[t].locked
       /\ \A i \in DOMAIN e.tracks[t].clips :
            \/ \E j \in DOMAIN d.tracks[t].clips : d.tracks[t].clips[j].id = e.tracks[t].clips[i].id
            \/ e.tracks[t].clips[i].id \notin ClipIds(d)

\* A document with some tracks as before a ripple and the others as after it.
LEMMA MixedDocument ==
  ASSUME NEW d, NEW e, Recut(d, e), NEW S, NEW m, m = Mixed(d, e, S)
  PROVE  /\ IsDocument(m) /\ IdsUnique(m) /\ DOMAIN m.tracks = DOMAIN d.tracks
         /\ \A t \in DOMAIN d.tracks : m.tracks[t] = IF d.tracks[t].id \in S THEN d.tracks[t] ELSE e.tracks[t]
         /\ m.locks = d.locks /\ m.assets = d.assets /\ m.artifacts = d.artifacts
  <1> DEFINE T == MixedTracks(d, e, S)
  <1>1. /\ IsDocument(d) /\ IdsUnique(d) /\ IsDocument(e) /\ IdsUnique(e)
        /\ e.locks = d.locks /\ e.assets = d.assets /\ e.artifacts = d.artifacts
        /\ DOMAIN e.tracks = DOMAIN d.tracks
        /\ \A t \in DOMAIN d.tracks :
             /\ e.tracks[t].id = d.tracks[t].id /\ e.tracks[t].locked = d.tracks[t].locked
             /\ \A i \in DOMAIN e.tracks[t].clips :
                  \/ \E j \in DOMAIN d.tracks[t].clips : d.tracks[t].clips[j].id = e.tracks[t].clips[i].id
                  \/ e.tracks[t].clips[i].id \notin ClipIds(d)
    BY DEF Recut
  <1>2. /\ DOMAIN T = DOMAIN d.tracks /\ T = [t \in DOMAIN d.tracks |-> T[t]]
        /\ \A t \in DOMAIN d.tracks : T[t] = IF d.tracks[t].id \in S THEN d.tracks[t] ELSE e.tracks[t]
    BY DEF MixedTracks
  <1>3. m = [e EXCEPT !.tracks = T]
    BY DEF Mixed, WithTracks
  <1> HIDE DEF T
  <1>4. IsSequence(T) /\ \A t \in DOMAIN T : IsTrack(T[t])
    <2>1. IsSequence(T)
      BY <1>1, <1>2, MappedSequence, DocumentFacts
    <2>2. \A t \in DOMAIN T : IsTrack(T[t])
      BY <1>1, <1>2, DocumentFacts
    <2>3. QED
      BY <2>1, <2>2
  <1>5. IsDocument(m) /\ m.tracks = T /\ m.locks = e.locks /\ m.assets = e.assets /\ m.artifacts = e.artifacts
    BY <1>1, <1>3, <1>4, Retracked
  <1>6. \A s, t \in DOMAIN T : T[s].id = T[t].id => s = t
    <2>1. \A s, t \in DOMAIN d.tracks : d.tracks[s].id = d.tracks[t].id => s = t
      BY <1>1 DEF IdsUnique
    <2>2. \A t \in DOMAIN T : t \in DOMAIN d.tracks /\ T[t].id = d.tracks[t].id
      BY <1>1, <1>2
    <2>3. QED
      BY <2>1, <2>2
  <1>7. ASSUME NEW s \in DOMAIN T, NEW t \in DOMAIN T, NEW i \in DOMAIN T[s].clips, NEW j \in DOMAIN T[t].clips,
               T[s].clips[i].id = T[t].clips[j].id
        PROVE  s = t /\ i = j
    <2>1. \A q \in DOMAIN d.tracks : \A k \in DOMAIN d.tracks[q].clips : d.tracks[q].clips[k].id \in ClipIds(d)
      BY <1>1, ClipFacts
    <2>2. ASSUME NEW a \in DOMAIN d.tracks, NEW b \in DOMAIN d.tracks,
                 NEW k \in DOMAIN d.tracks[a].clips, NEW l \in DOMAIN e.tracks[b].clips,
                 d.tracks[a].clips[k].id = e.tracks[b].clips[l].id
          PROVE  a = b
      <3>1. PICK n \in DOMAIN d.tracks[b].clips : d.tracks[b].clips[n].id = e.tracks[b].clips[l].id
        BY <1>1, <2>1, <2>2
      <3>2. QED
        BY <1>1, <2>2, <3>1 DEF IdsUnique
    <2>3. CASE d.tracks[s].id \in S /\ d.tracks[t].id \in S
      <3>1. T[s] = d.tracks[s] /\ T[t] = d.tracks[t] /\ s \in DOMAIN d.tracks /\ t \in DOMAIN d.tracks
        BY <1>2, <2>3
      <3>2. \A a, b \in DOMAIN d.tracks : \A k \in DOMAIN d.tracks[a].clips, l \in DOMAIN d.tracks[b].clips :
              d.tracks[a].clips[k].id = d.tracks[b].clips[l].id => a = b /\ k = l
        BY <1>1 DEF IdsUnique
      <3>3. QED
        BY <1>7, <3>1, <3>2
    <2>4. CASE d.tracks[s].id \notin S /\ d.tracks[t].id \notin S
      <3>1. T[s] = e.tracks[s] /\ T[t] = e.tracks[t] /\ s \in DOMAIN e.tracks /\ t \in DOMAIN e.tracks
        BY <1>1, <1>2, <2>4
      <3>2. \A a, b \in DOMAIN e.tracks : \A k \in DOMAIN e.tracks[a].clips, l \in DOMAIN e.tracks[b].clips :
              e.tracks[a].clips[k].id = e.tracks[b].clips[l].id => a = b /\ k = l
        BY <1>1 DEF IdsUnique
      <3>3. QED
        BY <1>7, <3>1, <3>2
    <2>5. CASE d.tracks[s].id \in S /\ d.tracks[t].id \notin S
      <3>1. T[s] = d.tracks[s] /\ T[t] = e.tracks[t] /\ s \in DOMAIN d.tracks /\ t \in DOMAIN d.tracks
        BY <1>2, <2>5
      <3>2. s = t
        BY <1>7, <2>2, <3>1
      <3>3. QED
        BY <2>5, <3>2
    <2>6. CASE d.tracks[s].id \notin S /\ d.tracks[t].id \in S
      <3>1. T[t] = d.tracks[t] /\ T[s] = e.tracks[s] /\ s \in DOMAIN d.tracks /\ t \in DOMAIN d.tracks
        BY <1>2, <2>6
      <3>2. s = t
        BY <1>7, <2>2, <3>1
      <3>3. QED
        BY <2>6, <3>2
    <2>7. QED
      BY <2>3, <2>4, <2>5, <2>6
  <1>8. \A i, j \in DOMAIN m.locks : m.locks[i].id = m.locks[j].id => i = j
    BY <1>1, <1>5 DEF IdsUnique
  <1>9. IdsUnique(m)
    BY <1>5, <1>6, <1>7, <1>8 DEF IdsUnique
  <1>10. QED
    BY <1>1, <1>2, <1>5, <1>9

\* Half way back no kind of object has an id of another kind.
LEMMA MixedApart ==
  ASSUME NEW d, NEW e, Recut(d, e), IdsApart(d), IdsApart(e), NEW S, NEW m, m = Mixed(d, e, S)
  PROVE  IdsApart(m)
  <1>1. /\ IsDocument(d) /\ IsDocument(e) /\ DOMAIN e.tracks = DOMAIN d.tracks
        /\ e.locks = d.locks /\ e.assets = d.assets /\ e.artifacts = d.artifacts
        /\ \A t \in DOMAIN d.tracks : e.tracks[t].id = d.tracks[t].id
    BY DEF Recut
  <1>2. /\ IsDocument(m) /\ DOMAIN m.tracks = DOMAIN d.tracks
        /\ \A t \in DOMAIN d.tracks : m.tracks[t] = IF d.tracks[t].id \in S THEN d.tracks[t] ELSE e.tracks[t]
        /\ m.locks = d.locks /\ m.assets = d.assets /\ m.artifacts = d.artifacts
    BY MixedDocument
  <1>3. TrackIds(m) = TrackIds(d) /\ TrackIds(e) = TrackIds(d)
    <2>1. \A t \in DOMAIN d.tracks : m.tracks[t].id = d.tracks[t].id
      BY <1>1, <1>2
    <2>2. QED
      BY <1>1, <1>2, <2>1 DEF TrackIds, ToSet
  <1>4. LockIds(m) = LockIds(d) /\ LockIds(e) = LockIds(d)
    BY <1>1, <1>2 DEF LockIds
  <1>5. ASSUME NEW c \in ClipsOf(m) PROVE c.id \in ClipIds(d) \cup ClipIds(e)
    <2>1. PICK t \in DOMAIN m.tracks : \E i \in DOMAIN m.tracks[t].clips : c = m.tracks[t].clips[i]
      BY <1>2, ClipsByPosition
    <2>2. PICK i \in DOMAIN m.tracks[t].clips : c = m.tracks[t].clips[i]
      BY <2>1
    <2>3. m.tracks[t] = d.tracks[t] \/ m.tracks[t] = e.tracks[t]
      BY <1>2
    <2>4. QED
      BY <1>1, <1>2, <2>2, <2>3, ClipFacts
  <1>6. ClipIds(m) \subseteq ClipIds(d) \cup ClipIds(e)
    <2>1. \A id \in ClipIds(m) : \E c \in ClipsOf(m) : id = c.id
      BY DEF ClipIds
    <2>2. QED
      BY <1>5, <2>1
  <1>7. MadeOf(d, e, m)
    BY <1>1, <1>2, <1>3, <1>4, <1>6 DEF MadeOf
  <1>8. QED
    BY <1>7, ApartMadeOf

\* One more track is put back.
LEMMA MixedOn ==
  ASSUME NEW d, NEW e, Recut(d, e), NEW S, NEW t \in DOMAIN d.tracks, NEW id, id = d.tracks[t].id, id \notin S,
         NEW m, m = Mixed(d, e, S), NEW z, z = Mixed(d, e, S \cup {id})
  PROVE  z = WithClips(m, t, d.tracks[t].clips)
  <1> DEFINE s == d.tracks[t].clips
             w == WithClips(m, t, s)
             Q == S \cup {id}
  <1>1. /\ IsDocument(d) /\ IdsUnique(d) /\ IsDocument(e)
        /\ \A u \in DOMAIN d.tracks : e.tracks[u].id = d.tracks[u].id /\ e.tracks[u].locked = d.tracks[u].locked
    BY DEF Recut
  <1>2. /\ IsDocument(m) /\ DOMAIN m.tracks = DOMAIN d.tracks
        /\ \A u \in DOMAIN d.tracks : m.tracks[u] = IF d.tracks[u].id \in S THEN d.tracks[u] ELSE e.tracks[u]
        /\ m.locks = d.locks /\ m.assets = d.assets /\ m.artifacts = d.artifacts
    BY MixedDocument
  <1>3. /\ IsDocument(z) /\ DOMAIN z.tracks = DOMAIN d.tracks
        /\ \A u \in DOMAIN d.tracks : z.tracks[u] = IF d.tracks[u].id \in Q THEN d.tracks[u] ELSE e.tracks[u]
        /\ z.locks = d.locks /\ z.assets = d.assets /\ z.artifacts = d.artifacts
    <2>1. z = Mixed(d, e, Q) /\ Recut(d, e)
      OBVIOUS
    <2> HIDE DEF Q
    <2>2. /\ IsDocument(z) /\ DOMAIN z.tracks = DOMAIN d.tracks
          /\ z.locks = d.locks /\ z.assets = d.assets /\ z.artifacts = d.artifacts
      BY ONLY <2>1, MixedDocument
    <2>3. \A u \in DOMAIN d.tracks : z.tracks[u] = IF d.tracks[u].id \in Q THEN d.tracks[u] ELSE e.tracks[u]
      BY ONLY <2>1, MixedDocument
    <2>4. QED
      BY ONLY <2>2, <2>3
  <1>4. IsSequence(s) /\ \A i \in DOMAIN s : IsClip(s[i])
    BY <1>1, DocumentFacts, ClipFacts
  <1> HIDE DEF s
  <1>5. /\ IsDocument(w) /\ w.locks = m.locks /\ w.assets = m.assets /\ w.artifacts = m.artifacts
        /\ DOMAIN w.tracks = DOMAIN m.tracks
        /\ \A u \in DOMAIN m.tracks :
             /\ w.tracks[u].id = m.tracks[u].id /\ w.tracks[u].locked = m.tracks[u].locked
             /\ w.tracks[u].clips = IF u = t THEN s ELSE m.tracks[u].clips
             /\ u # t => w.tracks[u] = m.tracks[u]
    BY <1>2, <1>4, Reclipped
  <1> HIDE DEF w
  <1>6. \A u \in DOMAIN d.tracks : u # t => (d.tracks[u].id \in Q <=> d.tracks[u].id \in S)
    BY <1>1 DEF IdsUnique
  <1>7. ASSUME NEW u \in DOMAIN d.tracks PROVE w.tracks[u] = z.tracks[u]
    <2>1. CASE u # t
      <3>1. w.tracks[u] = m.tracks[u]
        BY <1>2, <1>5, <2>1
      <3>2. z.tracks[u] = (IF d.tracks[u].id \in S THEN d.tracks[u] ELSE e.tracks[u])
        BY <1>3, <1>6, <2>1
      <3>3. QED
        BY <1>2, <3>1, <3>2
    <2>2. CASE u = t
      <3>1. z.tracks[t] = d.tracks[t]
        BY <1>3
      <3>2. IsTrack(w.tracks[t]) /\ IsTrack(d.tracks[t])
        BY <1>1, <1>2, <1>5, DocumentFacts
      <3>3. w.tracks[t].id = d.tracks[t].id /\ w.tracks[t].locked = d.tracks[t].locked /\ w.tracks[t].clips = d.tracks[t].clips
        BY <1>1, <1>2, <1>5 DEF s
      <3>4. \A a, b : IsTrack(a) /\ IsTrack(b) /\ a.id = b.id /\ a.locked = b.locked /\ a.clips = b.clips => a = b
        BY DEF IsTrack
      <3> DEFINE a == w.tracks[t]
                 b == d.tracks[t]
      <3>5. IsTrack(a) /\ IsTrack(b) /\ a.id = b.id /\ a.locked = b.locked /\ a.clips = b.clips
        BY <3>2, <3>3
      <3> HIDE DEF a, b
      <3>6. a = b
        BY ONLY <3>4, <3>5
      <3>7. QED
        BY <2>2, <3>1, <3>6 DEF a, b
    <2>3. QED
      BY <2>1, <2>2
  <1>8. w.tracks = z.tracks
    <2>1. IsSequence(w.tracks) /\ IsSequence(z.tracks) /\ DOMAIN w.tracks = 1 .. Len(w.tracks)
          /\ DOMAIN z.tracks = 1 .. Len(z.tracks) /\ Len(w.tracks) \in Nat /\ Len(z.tracks) \in Nat
      BY <1>3, <1>5, DocumentFacts
    <2>2. DOMAIN w.tracks = DOMAIN z.tracks
      BY <1>2, <1>3, <1>5
    <2>3. Len(w.tracks) = Len(z.tracks)
      BY <2>1, <2>2
    <2>4. \A i \in 1 .. Len(w.tracks) : w.tracks[i] = z.tracks[i]
      BY <1>3, <1>7, <2>1, <2>2
    <2> DEFINE a == w.tracks
               b == z.tracks
    <2>5. IsSequence(a) /\ IsSequence(b) /\ Len(a) = Len(b) /\ \A i \in 1 .. Len(a) : a[i] = b[i]
      BY <2>1, <2>3, <2>4
    <2> HIDE DEF a, b
    <2>6. a = b
      BY ONLY <2>5, SameSequence
    <2>7. QED
      BY <2>6 DEF a, b
  <1>9. w = z
    <2>1. w.locks = z.locks /\ w.assets = z.assets /\ w.artifacts = z.artifacts
      BY <1>2, <1>3, <1>5
    <2>2. /\ w = [tracks |-> w.tracks, locks |-> w.locks, assets |-> w.assets, artifacts |-> w.artifacts]
          /\ z = [tracks |-> z.tracks, locks |-> z.locks, assets |-> z.assets, artifacts |-> z.artifacts]
      BY <1>3, <1>5, DocumentFacts
    <2>3. QED
      BY <1>8, <2>1, <2>2
  <1>10. QED
    BY <1>9 DEF w, s

\* A ripple deletion leaves pieces of the clips there were, under ids that are theirs or new.
LEMMA RippleRecut ==
  ASSUME NEW d, IsDocument(d), IdsUnique(d), NEW op, IsOperation(op), op.type = "range.deleteRipple",
         Resolves(d, op), NEW r, r = RippleDelete(d, op), r.ok, IdsUnique(r.doc)
  PROVE  /\ Recut(d, r.doc)
         /\ \A t \in DOMAIN d.tracks : d.tracks[t].id \in ToSet(op.trackIds) =>
              Cuttable(d.tracks[t].clips, op) /\ r.doc.tracks[t].clips = RippleTrack(d.tracks[t].clips, op)
         /\ \A t \in DOMAIN d.tracks : d.tracks[t].id \notin ToSet(op.trackIds) => r.doc.tracks[t] = d.tracks[t]
  <1> DEFINE e == r.doc
             named == ToSet(op.trackIds)
  <1>1. op.range \in TimeRange /\ IsSequence(op.trackIds) /\ named \subseteq TrackIds(d)
    BY DEF IsOperation, Resolves, OnClip
  <1>2. /\ e = RippledDoc(d, op) /\ Rights(op) \cap SequenceIds(d) = {}
        /\ \A clip \in NamedClips(d, op) :
              RangesOverlap(clip.range, op.range) =>
                (HasLeft(clip, op.range) /\ HasRight(clip, op.range) => clip.id \in DOMAIN op.right)
    BY RippleShape
  <1> HIDE DEF named, e
  <1>3. /\ IsDocument(e) /\ e.locks = d.locks /\ e.assets = d.assets /\ e.artifacts = d.artifacts
        /\ DOMAIN e.tracks = DOMAIN d.tracks
        /\ \A t \in DOMAIN d.tracks :
              /\ e.tracks[t].id = d.tracks[t].id /\ e.tracks[t].locked = d.tracks[t].locked
              /\ d.tracks[t].id \in named => e.tracks[t].clips = RippleTrack(d.tracks[t].clips, op)
              /\ d.tracks[t].id \notin named => e.tracks[t] = d.tracks[t]
    BY <1>1, <1>2, RippledDocument DEF named
  <1>4. TracksUnique(d)
    BY DEF IdsUnique, TracksUnique
  <1>5. \A t \in DOMAIN d.tracks : d.tracks[t].id \in named => ToSet(d.tracks[t].clips) \subseteq NamedClips(d, op)
    BY <1>1, <1>4, NamedClipsStand DEF named
  <1>6. \A t \in DOMAIN d.tracks : \A i \in DOMAIN d.tracks[t].clips :
          IsClip(d.tracks[t].clips[i]) /\ d.tracks[t].clips[i].id \in ClipIds(d)
    BY ClipFacts
  <1>7. \A t \in DOMAIN d.tracks : /\ IsSequence(d.tracks[t].clips)
                                   /\ \A c \in ToSet(d.tracks[t].clips) : \E i \in DOMAIN d.tracks[t].clips : c = d.tracks[t].clips[i]
    BY DocumentFacts, SequenceFacts
  <1>8. ASSUME NEW t \in DOMAIN d.tracks, d.tracks[t].id \in named, NEW c \in ToSet(d.tracks[t].clips),
               RangesOverlap(c.range, op.range) /\ HasLeft(c, op.range) /\ HasRight(c, op.range)
        PROVE  op.right[c.id] \notin ClipIds(d)
    <2>1. c.id \in DOMAIN op.right
      BY <1>2, <1>5, <1>8
    <2>2. op.right[c.id] \in Rights(op)
      BY <2>1 DEF Rights
    <2>3. QED
      BY <1>2, <2>2 DEF SequenceIds
  <1>9. ASSUME NEW t \in DOMAIN d.tracks, d.tracks[t].id \in named PROVE Cuttable(d.tracks[t].clips, op)
    <2> DEFINE s == d.tracks[t].clips
    <2>1. \A i, j \in DOMAIN s : s[i].id = s[j].id => i = j
      BY DEF IdsUnique
    <2>2. \A c \in ToSet(s) : IsClip(c) /\ c.id \in ClipIds(d)
      BY <1>6, <1>7
    <2>3. \A c, f \in ToSet(s) : c.id = f.id => c = f
      BY <1>7, <2>1
    <2>4. IsSequence(s)
      BY <1>7
    <2>5. \A c, f \in ToSet(s) :
            RangesOverlap(c.range, op.range) /\ HasLeft(c, op.range) /\ HasRight(c, op.range) => op.right[c.id] # f.id
      BY <1>8, <1>9, <2>2
    <2> HIDE DEF s
    <2>6. Cuttable(s, op)
      BY <1>1, <2>2, <2>3, <2>4, <2>5 DEF Cuttable
    <2>7. QED
      BY <2>6 DEF s
  <1>10. ASSUME NEW t \in DOMAIN d.tracks, NEW i \in DOMAIN e.tracks[t].clips
         PROVE  \/ \E j \in DOMAIN d.tracks[t].clips : d.tracks[t].clips[j].id = e.tracks[t].clips[i].id
                \/ e.tracks[t].clips[i].id \notin ClipIds(d)
    <2>1. CASE d.tracks[t].id \notin named
      BY <1>3, <1>10, <2>1
    <2>2. CASE d.tracks[t].id \in named
      <3> DEFINE s == d.tracks[t].clips
                 p == e.tracks[t].clips[i]
      <3>1. p \in ToSet(RippleTrack(s, op))
        BY <1>3, <2>2, DocumentFacts, SequenceFacts
      <3>2. \A c \in ToSet(s) : IsClip(c)
        BY <1>6, <1>7
      <3>3. PICK c \in ToSet(s) : p \in ToSet(RipplePieces(c, op))
        BY <1>1, <1>7, <3>1, <3>2, RippledClips
      <3>4. PieceOf(p, c, op)
        BY <1>1, <3>2, <3>3, PiecesAreClips
      <3>5. CASE p.id = c.id
        BY <1>7, <3>5
      <3>6. CASE p.id # c.id
        <4>1. p.id = op.right[c.id] /\ RangesOverlap(c.range, op.range) /\ HasLeft(c, op.range) /\ HasRight(c, op.range)
          BY <3>4, <3>6 DEF PieceOf
        <4>2. p.id \notin ClipIds(d)
          BY <1>8, <2>2, <4>1
        <4>3. QED
          BY <4>2
      <3>7. QED
        BY <3>5, <3>6
    <2>3. QED
      BY <2>1, <2>2
  <1>11. IdsUnique(e)
    BY DEF e
  <1>12. Recut(d, e)
    BY <1>3, <1>10, <1>11 DEF Recut
  <1>13. QED
    BY <1>3, <1>9, <1>12 DEF e, named

\* A list as long as the set of its elements repeats none.
LEMMA NoneTwice ==
  ASSUME NEW s, IsSequence(s), Cardinality(ToSet(s)) = Len(s)
  PROVE  \A i, j \in DOMAIN s : s[i] = s[j] => i = j
  <1> DEFINE n == Len(s)
             T == ToSet(s)
  <1>1. n \in Nat /\ DOMAIN s = 1 .. n /\ s \in Seq(T)
        /\ (\A i \in 1 .. n : s[i] \in T) /\ \A x \in T : \E i \in 1 .. n : x = s[i]
    BY SequenceFacts
  <1>2. IsFiniteSet(1 .. n) /\ Cardinality(1 .. n) = n
    <2>1. n \in Int /\ 1 \in Int
      BY <1>1
    <2> HIDE DEF n
    <2>2. IsFiniteSet(1 .. n) /\ Cardinality(1 .. n) = IF 1 > n THEN 0 ELSE n - 1 + 1
      BY ONLY <2>1, FS_Interval
    <2>3. n \in Nat
      BY <1>1
    <2>4. QED
      BY ONLY <2>2, <2>3
  <1> HIDE DEF T, n
  <1>3. s \in [1 .. n -> T]
    BY <1>1
  <1>4. s \in Surjection(1 .. n, T)
    BY <1>1, <1>3 DEF Surjection
  <1>5. IsFiniteSet(T)
    BY <1>2, <1>4, FS_Surjection
  <1>6. Cardinality(T) = Cardinality(1 .. n)
    BY <1>2 DEF T, n
  <1>7. s \in Injection(1 .. n, T)
    BY <1>2, <1>4, <1>5, <1>6, FS_SurjSameCardinalityImpliesInj
  <1>8. QED
    BY <1>1, <1>7 DEF Injection, IsInjective

\* The inverses of a ripple deletion on the tracks of a list of ids.
TrackInverses(d, e, s) == [i \in DOMAIN s |-> RippleInverse(s[i], Track(d, s[i]).clips, Track(e, s[i]).clips)]

\* The inverse of a ripple over one more track.
LEMMA TrackInversesOn ==
  ASSUME NEW d, NEW e, NEW s, NEW id, NEW u, NEW n, Appended(s, id, u, n),
         \A q \in ToSet(u) : IsSequence(RippleInverse(q, Track(d, q).clips, Track(e, q).clips))
  PROVE  /\ FlattenSeq(TrackInverses(d, e, u)) = FlattenSeq(TrackInverses(d, e, s))
                                                   \o RippleInverse(id, Track(d, id).clips, Track(e, id).clips)
         /\ IsSequence(FlattenSeq(TrackInverses(d, e, s)))
  <1> DEFINE f == TrackInverses(d, e, s)
             g == TrackInverses(d, e, u)
             I(q) == RippleInverse(q, Track(d, q).clips, Track(e, q).clips)
             last == g[n]
  <1>0. IsSequence(s) /\ u = Append(s, id) /\ n = Len(s) + 1
    BY DEF Appended
  <1>1. /\ IsSequence(u) /\ DOMAIN s \subseteq DOMAIN u /\ n \in DOMAIN u /\ u[n] = id
        /\ \A i \in DOMAIN s : u[i] = s[i]
    <2>1. AppendAs(s, id, u, n)
      BY ONLY <1>0, AppendFacts
    <2>2. QED
      BY ONLY <2>1 DEF AppendAs
  <1>2. \A i \in DOMAIN u : IsSequence(I(u[i]))
    <2>1. \A i \in DOMAIN u : u[i] \in ToSet(u)
      BY <1>1, SequenceFacts
    <2>2. QED
      BY <2>1
  <1>3. /\ DOMAIN f = DOMAIN s /\ f = [i \in DOMAIN f |-> f[i]] /\ DOMAIN g = DOMAIN u /\ g = [i \in DOMAIN g |-> g[i]]
        /\ \A i \in DOMAIN f : f[i] = I(s[i])
        /\ \A i \in DOMAIN g : g[i] = I(u[i])
    BY <1>1 DEF TrackInverses
  <1> HIDE DEF f, g, I
  <1>4. /\ last = I(id) /\ \A i \in DOMAIN g : IsSequence(g[i])
        /\ \A i \in DOMAIN f : g[i] = f[i]
    BY <1>1, <1>2, <1>3
  <1>5. last = g[Len(s) + 1]
    BY <1>0
  <1> HIDE DEF last
  <1>6. FlattenSeq(g) = FlattenSeq(f) \o last /\ IsSequence(FlattenSeq(f)) /\ IsSequence(FlattenSeq(g))
    <2>1. Extends(s, u, f, g, last)
      BY <1>3, <1>4, <1>5 DEF Extends
    <2>2. QED
      BY ONLY <1>0, <2>1, FlatOne
  <1>7. QED
    BY <1>4, <1>6 DEF f, g, I

\* The document e that a deletion on the tracks N made of d is ready to be changed back.
Ready(d, e, actor, N) ==
  IdsApart(d) /\ IdsApart(e) /\ \A t \in DOMAIN d.tracks : d.tracks[t].id \in N => Open(e, actor, t)
ReadyReturns(d, e, actor, N, ops, y) ==
  Reaches(e, actor, ops, y) /\ (Ready(d, e, actor, N) => Allows(e, actor, ops))

\* A ripple deletion is taken back track by track.
LEMMA RippleDeleteUndone ==
  ASSUME NEW d, IsDocument(d), IdsUnique(d), NEW op, IsOperation(op), op.type = "range.deleteRipple",
         Resolves(d, op), NEW r, r = RippleDelete(d, op), r.ok, IdsUnique(r.doc), NEW actor
  PROVE  Undone(d, r, actor) /\ (Ready(d, r.doc, actor, ToSet(op.trackIds)) => Allows(r.doc, actor, r.inverse))
  <1> DEFINE e == r.doc
             ids == op.trackIds
             N == ToSet(ids)
             back(s) == FlattenSeq(TrackInverses(d, e, s))
             half(s) == Mixed(d, e, ToSet(s))
             I(q) == RippleInverse(q, Track(d, q).clips, Track(e, q).clips)
             Single(s) == \A i, j \in DOMAIN s : s[i] = s[j] => i = j
             Bad == {s \in Seq(N) : ~ (Single(s) => ReadyReturns(d, e, actor, N, back(s), half(s)))}
  <1>1. /\ IsSequence(ids) /\ N \subseteq TrackIds(d) /\ Cardinality(N) = Len(ids)
        /\ r.inverse = FlattenSeq(RippledInverses(d, e, op))
    BY RippleShape DEF IsOperation, Resolves, OnClip
  <1>2. r.inverse = back(ids)
    BY <1>1 DEF RippledInverses, TrackInverses
  <1>3. Single(ids)
    BY <1>1, NoneTwice
  <1>4. /\ Recut(d, e)
        /\ \A t \in DOMAIN d.tracks : d.tracks[t].id \in N =>
             Cuttable(d.tracks[t].clips, op) /\ e.tracks[t].clips = RippleTrack(d.tracks[t].clips, op)
        /\ \A t \in DOMAIN d.tracks : d.tracks[t].id \notin N => e.tracks[t] = d.tracks[t]
    BY RippleRecut
  <1>5. IsDocument(e) /\ IdsUnique(e) /\ DOMAIN e.tracks = DOMAIN d.tracks
        /\ \A t \in DOMAIN d.tracks : e.tracks[t].id = d.tracks[t].id
    BY <1>4 DEF Recut
  <1>6. \A id \in N : \E t \in DOMAIN d.tracks : d.tracks[t].id = id /\ Track(d, id) = d.tracks[t] /\ Track(e, id) = e.tracks[t]
    <2> SUFFICES ASSUME NEW id \in N
                 PROVE  \E t \in DOMAIN d.tracks : d.tracks[t].id = id /\ Track(d, id) = d.tracks[t] /\ Track(e, id) = e.tracks[t]
      OBVIOUS
    <2>1. PICK t \in DOMAIN d.tracks : d.tracks[t].id = id
      BY <1>1, TrackFound
    <2>2. Track(d, id) = d.tracks[t] /\ Track(e, id) = e.tracks[t]
      BY <1>5, <2>1, TrackFoundAt
    <2>3. QED
      BY <2>1, <2>2
  <1> HIDE DEF e, ids, N
  <1>7. ASSUME NEW S PROVE /\ IsDocument(Mixed(d, e, S)) /\ IdsUnique(Mixed(d, e, S))
                           /\ DOMAIN Mixed(d, e, S).tracks = DOMAIN d.tracks
                           /\ \A t \in DOMAIN d.tracks :
                                Mixed(d, e, S).tracks[t] = IF d.tracks[t].id \in S THEN d.tracks[t] ELSE e.tracks[t]
                           /\ Mixed(d, e, S).locks = d.locks /\ Mixed(d, e, S).assets = d.assets
                           /\ Mixed(d, e, S).artifacts = d.artifacts
    BY <1>4, MixedDocument
  <1>8. e = Mixed(d, e, {})
    <2> DEFINE m == Mixed(d, e, {})
    <2>1. m.tracks = e.tracks
      <3>1. \A t \in DOMAIN e.tracks : m.tracks[t] = e.tracks[t]
        BY <1>5, <1>7
      <3> DEFINE a == m.tracks
                 b == e.tracks
      <3>2. IsSequence(a) /\ IsSequence(b) /\ DOMAIN a = DOMAIN b
        BY <1>5, <1>7, DocumentFacts
      <3> HIDE DEF a, b
      <3>3. Len(a) = Len(b) /\ DOMAIN a = 1 .. Len(a)
        BY <3>2, SequenceFacts
      <3>4. \A i \in 1 .. Len(a) : a[i] = b[i]
        BY <3>1, <3>2, <3>3 DEF a, b
      <3>5. a = b
        BY ONLY <3>2, <3>3, <3>4, SameSequence
      <3>6. QED
        BY <3>5 DEF a, b
    <2>2. m.locks = e.locks /\ m.assets = e.assets /\ m.artifacts = e.artifacts
      BY <1>4, <1>7 DEF Recut
    <2>3. IsDocument(m)
      BY <1>7
    <2> HIDE DEF m
    <2>4. /\ m = [tracks |-> m.tracks, locks |-> m.locks, assets |-> m.assets, artifacts |-> m.artifacts]
          /\ e = [tracks |-> e.tracks, locks |-> e.locks, assets |-> e.assets, artifacts |-> e.artifacts]
      BY <1>5, <2>3, DocumentFacts
    <2>5. QED
      BY <2>1, <2>2, <2>4 DEF m
  <1>9. d = Mixed(d, e, N)
    <2> DEFINE m == Mixed(d, e, N)
    <2>1. m.tracks = d.tracks
      <3>1. \A t \in DOMAIN d.tracks : m.tracks[t] = d.tracks[t]
        BY <1>4, <1>7
      <3> DEFINE a == m.tracks
                 b == d.tracks
      <3>2. IsSequence(a) /\ IsSequence(b) /\ DOMAIN a = DOMAIN b
        BY <1>7, DocumentFacts
      <3> HIDE DEF a, b
      <3>3. Len(a) = Len(b) /\ DOMAIN a = 1 .. Len(a)
        BY <3>2, SequenceFacts
      <3>4. \A i \in 1 .. Len(a) : a[i] = b[i]
        BY <3>1, <3>2, <3>3 DEF a, b
      <3>5. a = b
        BY ONLY <3>2, <3>3, <3>4, SameSequence
      <3>6. QED
        BY <3>5 DEF a, b
    <2>2. m.locks = d.locks /\ m.assets = d.assets /\ m.artifacts = d.artifacts
      BY <1>7
    <2>3. IsDocument(m)
      BY <1>7
    <2> HIDE DEF m
    <2>4. /\ m = [tracks |-> m.tracks, locks |-> m.locks, assets |-> m.assets, artifacts |-> m.artifacts]
          /\ d = [tracks |-> d.tracks, locks |-> d.locks, assets |-> d.assets, artifacts |-> d.artifacts]
      BY <2>3, DocumentFacts
    <2>5. QED
      BY <2>1, <2>2, <2>4 DEF m
  <1>10. \A q \in N : IsSequence(I(q))
    <2> SUFFICES ASSUME NEW q \in N PROVE IsSequence(I(q))
      OBVIOUS
    <2>1. PICK t \in DOMAIN d.tracks : d.tracks[t].id = q /\ Track(d, q) = d.tracks[t] /\ Track(e, q) = e.tracks[t]
      BY <1>6
    <2> DEFINE before == d.tracks[t].clips
               after == e.tracks[t].clips
    <2>2. IsSequence(before) /\ (\A c \in ToSet(before) : IsClip(c)) /\ IsSequence(after)
      <3>1. \A i \in DOMAIN before : IsClip(before[i])
        BY ClipFacts
      <3>2. IsSequence(before) /\ IsSequence(after)
        BY <1>5, DocumentFacts
      <3> HIDE DEF before, after
      <3>3. \A c \in ToSet(before) : \E i \in DOMAIN before : c = before[i]
        BY ONLY <3>2, SequenceFacts
      <3>4. QED
        BY ONLY <3>1, <3>2, <3>3
    <2>3. I(q) = RippleInverse(q, before, after)
      BY <2>1
    <2> HIDE DEF before, after
    <2>4. TypedInverse(RippleInverse(q, before, after))
      BY <2>2, RippleInverseTyped
    <2>5. QED
      BY <2>3, <2>4 DEF TypedInverse
  <1>11. <<>> \notin Bad
    <2>1. ToSet(<<>>) = {}
      BY EmptySequence
    <2>2. back(<<>>) = <<>>
      <3> DEFINE f == TrackInverses(d, e, <<>>)
      <3>1. DOMAIN f = {} /\ f = [i \in DOMAIN f |-> f[i]]
        BY DEF TrackInverses
      <3> HIDE DEF f
      <3>2. FlattenSeq(f) = <<>>
        BY <3>1, FlatNone
      <3>3. QED
        BY <3>2 DEF f
    <2>3. half(<<>>) = e
      BY <1>8, <2>1
    <2> HIDE DEF back, half
    <2>4. ReadyReturns(d, e, actor, N, back(<<>>), half(<<>>))
      BY <2>2, <2>3, ReachesNone, AllowsNone DEF ReadyReturns
    <2>5. QED
      BY <2>4
  <1>12. ASSUME NEW s \in Seq(N), NEW id \in N, s \notin Bad PROVE Append(s, id) \notin Bad
    <2> DEFINE u == Append(s, id)
               n == Len(s) + 1
               S == ToSet(s)
               m == half(s)
               z == half(u)
    <2>1. Appended(s, id, u, n)
      BY SequenceOfElements DEF Appended
    <2>2. /\ n \in DOMAIN u /\ u[n] = id /\ DOMAIN s \subseteq DOMAIN u /\ n \notin DOMAIN s
          /\ (\A i \in DOMAIN s : u[i] = s[i]) /\ ToSet(u) = S \cup {id}
      <3>1. IsSequence(s) /\ DOMAIN s = 1 .. Len(s) /\ Len(s) \in Nat
        BY SequenceOfElements
      <3>2. n \notin DOMAIN s
        BY <3>1
      <3>3. AppendAs(s, id, u, n)
        <4>1. u = Append(s, id) /\ n = Len(s) + 1
          OBVIOUS
        <4> HIDE DEF u, n
        <4>2. QED
          BY ONLY <3>1, <4>1, AppendFacts
      <3> HIDE DEF u, n
      <3>4. QED
        BY <3>2, <3>3 DEF AppendAs
    <2> HIDE DEF n
    <2>3. SUFFICES ASSUME Single(u) PROVE ReadyReturns(d, e, actor, N, back(u), z)
      <3> HIDE DEF Single, back, half
      <3>1. u \in Seq(N)
        OBVIOUS
      <3>2. QED
        OBVIOUS
    <2> HIDE DEF u
    <2>4. Single(s) /\ id \notin S
      <3>1. Single(s)
        BY <2>2, <2>3
      <3>2. IsSequence(s)
        BY SequenceOfElements
      <3>3. id \notin S
        <4> SUFFICES ASSUME id \in S PROVE FALSE
          OBVIOUS
        <4>1. PICK i \in DOMAIN s : s[i] = id
          BY <3>2, SequenceFacts
        <4>2. QED
          BY <2>2, <2>3, <4>1
      <3>4. QED
        BY <3>1, <3>3
    <2>5. ReadyReturns(d, e, actor, N, back(s), m)
      <3> HIDE DEF back, half, Single
      <3>1. QED
        BY <1>12, <2>4
    <2>6. PICK t \in DOMAIN d.tracks : d.tracks[t].id = id /\ Track(d, id) = d.tracks[t] /\ Track(e, id) = e.tracks[t]
      BY <1>6
    <2> DEFINE before == d.tracks[t].clips
               after == e.tracks[t].clips
    <2>7. /\ IsDocument(m) /\ IdsUnique(m) /\ t \in DOMAIN m.tracks /\ m.tracks[t] = e.tracks[t]
          /\ IdsUnique(z)
      <3>1. m = Mixed(d, e, S) /\ z = Mixed(d, e, ToSet(u))
        OBVIOUS
      <3> HIDE DEF m, z, S
      <3>2. QED
        BY <1>7, <2>4, <2>6, <3>1
    <2>8. z = WithClips(m, t, before)
      <3>1. m = Mixed(d, e, S) /\ z = Mixed(d, e, S \cup {id}) /\ id = d.tracks[t].id
        BY <2>2, <2>6
      <3> HIDE DEF m, z, S
      <3>2. QED
        <4> DEFINE w == S \cup {id}
        <4>1. Recut(d, e) /\ t \in DOMAIN d.tracks /\ id = d.tracks[t].id /\ id \notin S /\ m = Mixed(d, e, S)
              /\ z = Mixed(d, e, S \cup {id})
          BY <1>4, <2>4, <3>1
        <4>2. QED
          BY ONLY <4>1, MixedOn
    <2>9. Cuttable(before, op) /\ after = RippleTrack(before, op)
      BY <1>4, <2>6
    <2>10. m.tracks[t].id = id /\ after = m.tracks[t].clips
      BY <1>5, <2>6, <2>7
    <2> DEFINE last == RippleInverse(id, before, after)
    <2>11. back(u) = back(s) \o last /\ IsSequence(back(s)) /\ IsSequence(last)
      <3>1. last = I(id)
        BY <2>6
      <3>2. \A q \in ToSet(u) : IsSequence(I(q))
        <4>1. S \subseteq N
          BY SequenceOfElements
        <4>2. QED
          BY <1>10, <2>2, <4>1
      <3> HIDE DEF last, before, after
      <3>3. back(u) = back(s) \o I(id) /\ IsSequence(back(s))
        BY <2>1, <3>2, TrackInversesOn
      <3>4. IsSequence(I(id))
        BY <1>10
      <3>5. QED
        BY <3>1, <3>3, <3>4
    <2> HIDE DEF m, z, before, after, back, half, S, I
    <2>12. Cut(m, t, op, before, after, z)
      BY <2>7, <2>8, <2>9, <2>10 DEF Cut
    <2>13. Returns(m, actor, t, last, z)
      BY <2>10, <2>12, TrackUndone
    <2>14. Ready(d, e, actor, N) => Open(m, actor, t) /\ IdsApart(z)
      <3> SUFFICES ASSUME Ready(d, e, actor, N) PROVE Open(m, actor, t) /\ IdsApart(z)
        OBVIOUS
      <3>1. IdsApart(d) /\ IdsApart(e) /\ Open(e, actor, t)
        BY <2>6 DEF Ready
      <3>2. IdsApart(z)
        <4>1. z = Mixed(d, e, ToSet(u))
          BY DEF z, half
        <4>2. QED
          BY ONLY <1>4, <3>1, <4>1, MixedApart
      <3>3. m.locks = e.locks
        BY <1>4, <1>7 DEF m, half, Recut
      <3>4. Free(m, actor) /\ ~ m.tracks[t].locked
        BY <2>7, <3>1, <3>3 DEF Open, Free
      <3>5. QED
        BY <2>7, <3>2, <3>4 DEF Open
    <2> DEFINE a == back(s)
               ab == back(u)
    <2>15. IsSequence(a) /\ IsSequence(last) /\ ab = a \o last
      BY <2>11
    <2>16. /\ Reaches(e, actor, a, m) /\ Reaches(m, actor, last, z)
           /\ Ready(d, e, actor, N) => Allows(e, actor, a) /\ Allows(m, actor, last)
      BY <2>5, <2>13, <2>14 DEF ReadyReturns, Returns
    <2> HIDE DEF a, last, ab
    <2>17. Reaches(e, actor, ab, z)
      BY ONLY <2>15, <2>16, ReachesOn
    <2>18. Ready(d, e, actor, N) => Allows(e, actor, ab)
      <3>1. Allows(e, actor, a) /\ Allows(m, actor, last) => Allows(e, actor, ab)
        BY ONLY <2>15, <2>16, AllowsOn
      <3>2. QED
        BY <2>16, <3>1
    <2>19. QED
      BY <2>17, <2>18 DEF ab, ReadyReturns
  <1>13. Bad = {}
    <2>1. Bad \in SUBSET Seq(N)
      OBVIOUS
    <2> HIDE DEF Bad
    <2>2. QED
      BY <1>11, <1>12, <2>1, SequenceInduction
  <1>14. ids \in Seq(N)
    BY <1>1, SequenceFacts DEF N
  <1>15. ReadyReturns(d, e, actor, N, back(ids), half(ids))
    BY <1>3, <1>13, <1>14
  <1>16. half(ids) = d
    BY <1>9 DEF N
  <1>17. Reaches(e, actor, r.inverse, d) /\ (Ready(d, e, actor, N) => Allows(e, actor, r.inverse))
    BY <1>2, <1>15, <1>16 DEF ReadyReturns
  <1>18. QED
    BY <1>17 DEF Undone, e, N, ids

\* On documents in which every id is the id of one object, what any one
\* operation did is taken back by the inverse it recorded.
LEMMA OneUndone ==
  ASSUME NEW d, IsDocument(d), IdsUnique(d), NEW op, IsOperation(op), Resolves(d, op),
         NEW r, r = ApplyOperation(d, op), r.ok, IdsUnique(r.doc), NEW actor
  PROVE  Undone(d, r, actor)
  <1>1. CASE op.type \in OnLibrary
    <2>1. CASE op.type = "library.put"
      <3>1. r = PutObject(d, op)
        BY <2>1 DEF ApplyOperation
      <3>2. QED
        BY <2>1, <3>1, PutObjectUndone
    <2>2. CASE op.type = "library.remove"
      <3>1. r = RemoveObject(d, op)
        BY <2>2 DEF ApplyOperation
      <3>2. QED
        BY <2>2, <3>1, RemoveObjectUndone
    <2>3. QED
      BY <1>1, <2>1, <2>2 DEF OnLibrary
  <1>2. CASE op.type = "track.add"
    <2>1. r = AddTrack(d, op)
      BY <1>2 DEF ApplyOperation
    <2>2. QED
      BY <1>2, <2>1, AddTrackUndone
  <1>3. CASE op.type = "track.remove"
    <2>1. r = RemoveTrack(d, op)
      BY <1>3 DEF ApplyOperation
    <2>2. QED
      BY <1>3, <2>1, RemoveTrackUndone
  <1>4. CASE op.type = "clip.insert"
    <2>1. r = InsertClip(d, op)
      BY <1>4 DEF ApplyOperation
    <2>2. QED
      BY <1>4, <2>1, InsertClipUndone
  <1>5. CASE op.type = "clip.remove"
    <2>1. r = RemoveClip(d, op)
      BY <1>5 DEF ApplyOperation
    <2>2. QED
      BY <1>5, <2>1, RemoveClipUndone
  <1>6. CASE op.type = "clip.split"
    <2>1. r = SplitClip(d, op)
      BY <1>6 DEF ApplyOperation
    <2>2. QED
      BY <1>6, <2>1, SplitClipUndone
  <1>7. CASE op.type = "clip.move"
    <2>1. r = MoveClip(d, op)
      BY <1>7 DEF ApplyOperation
    <2>2. QED
      BY <1>7, <2>1, MoveClipUndone
  <1>8. CASE op.type = "clip.trim"
    <2>1. r = TrimClip(d, op)
      BY <1>8 DEF ApplyOperation
    <2>2. QED
      BY <1>8, <2>1, TrimClipUndone
  <1>9. CASE op.type = "clip.replace"
    <2>1. r = ReplaceClip(d, op)
      BY <1>9 DEF ApplyOperation
    <2>2. QED
      BY <1>9, <2>1, ReplaceUndone
  <1>10. CASE op.type = "clip.update"
    <2>1. r = UpdateClip(d, op)
      BY <1>10 DEF ApplyOperation
    <2>2. QED
      BY <1>10, <2>1, UpdateUndone
  <1>11. CASE op.type = "range.deleteRipple"
    <2>1. r = RippleDelete(d, op)
      BY <1>11 DEF ApplyOperation
    <2>2. QED
      BY <1>11, <2>1, RippleDeleteUndone
  <1>12. CASE op.type = "lock.add"
    <2>1. r = AddLock(d, op)
      BY <1>12 DEF ApplyOperation
    <2>2. QED
      BY <1>12, <2>1, AddLockUndone
  <1>13. CASE op.type = "lock.remove"
    <2>1. r = RemoveLock(d, op)
      BY <1>13 DEF ApplyOperation
    <2>2. QED
      BY <1>13, <2>1, RemoveLockUndone
  <1>14. op.type \in OperationTypes
    BY DEF IsOperation
  <1>15. QED
    BY <1>1, <1>2, <1>3, <1>4, <1>5, <1>6, <1>7, <1>8, <1>9, <1>10, <1>11, <1>12, <1>13, <1>14
       DEF OperationTypes, OnLibrary

\* In the run of the operations s over b, and before each of them, every id is the id of one object.
UniqueThrough(b, actor, s) == \A n \in 0 .. Len(s) : IdsUnique(ApplyAll(b, actor, SubSeq(s, 1, n)).doc)

\* A run whose documents all have distinct ids has them before its last operation.
LEMMA UniqueBefore ==
  ASSUME NEW E, NEW b, NEW actor, NEW s \in Seq(E), NEW op \in E, NEW u, u = Append(s, op),
         UniqueThrough(b, actor, u)
  PROVE  /\ UniqueThrough(b, actor, s)
         /\ IdsUnique(ApplyAll(b, actor, s).doc) /\ IdsUnique(ApplyAll(b, actor, u).doc)
  <1> DEFINE n == Len(s)
  <1>1. n \in Nat /\ Len(u) = n + 1 /\ u \in Seq(E)
    OBVIOUS
  <1>2. SubSeq(s, 1, n) = s /\ SubSeq(u, 1, n + 1) = u
    OBVIOUS
  <1>3. ASSUME NEW m \in 0 .. n PROVE SubSeq(u, 1, m) = SubSeq(s, 1, m)
    OBVIOUS
  <1>4. \A m \in 0 .. n + 1 : IdsUnique(ApplyAll(b, actor, SubSeq(u, 1, m)).doc)
    BY <1>1 DEF UniqueThrough
  <1> HIDE DEF n
  <1>5. \A m \in 0 .. n : IdsUnique(ApplyAll(b, actor, SubSeq(s, 1, m)).doc)
    <2>1. \A m \in 0 .. n : m \in 0 .. n + 1
      BY <1>1
    <2>2. QED
      BY <1>3, <1>4, <2>1
  <1>6. n \in 0 .. n /\ n + 1 \in 0 .. n + 1
    BY <1>1
  <1>7. IdsUnique(ApplyAll(b, actor, s).doc)
    BY <1>2, <1>5, <1>6
  <1>8. IdsUnique(ApplyAll(b, actor, u).doc)
    BY <1>2, <1>4, <1>6
  <1>9. UniqueThrough(b, actor, s)
    BY <1>5 DEF UniqueThrough, n
  <1>10. QED
    BY <1>7, <1>8, <1>9

\* What one operation adds to a run, the inverse of the run takes back first.
LEMMA NextUndone ==
  ASSUME NEW b, NEW actor, NEW E, NEW result, result.ok => RunHolds(b, actor, E, result),
         NEW op, IsOperation(op), NEW new, new = ApplyNext(result, actor, op), new.ok,
         IdsUnique(result.doc), IdsUnique(new.doc),
         NEW who, Reaches(result.doc, who, result.inverse, b)
  PROVE  Reaches(new.doc, who, new.inverse, b)
  <1> DEFINE d == result.doc
             one == ApplyOperation(d, op)
             first == one.inverse
             rest == result.inverse
             all == new.inverse
  <1>0. ~ Refused.ok
    BY DEF Refused
  <1>1. result.ok /\ Resolves(d, op) /\ OperationUnlocked(d, actor, op) /\ one.ok
    BY <1>0 DEF ApplyNext
  <1>2. new = Done(one.doc, one.inverse \o result.inverse)
    BY <1>1 DEF ApplyNext
  <1>3. new.doc = one.doc /\ all = first \o rest
    <2> DEFINE inverse == one.inverse \o result.inverse
    <2>1. new = Done(one.doc, inverse)
      BY <1>2
    <2> HIDE DEF inverse, one
    <2>2. new.doc = one.doc /\ new.inverse = inverse
      BY <2>1 DEF Done
    <2>3. QED
      BY <2>2 DEF inverse
  <1>4. RunHolds(b, actor, E, result)
    BY <1>1
  <1>5. IsDocument(d) /\ TracksUnique(d) /\ IsSequence(rest)
    BY <1>4 DEF RunHolds, TypedInverse
  <1>6. StepHolds(d, actor, op, one)
    <2>1. one = ApplyOperation(d, op)
      OBVIOUS
    <2> HIDE DEF one, d
    <2>2. QED
      BY <1>1, <1>5, <2>1, OperationStep
  <1>7. IsSequence(first)
    BY <1>6 DEF StepHolds, TypedInverse
  <1>8. Undone(d, one, who)
    <2>1. one = ApplyOperation(d, op) /\ IdsUnique(d) /\ IdsUnique(one.doc)
      BY <1>3
    <2> HIDE DEF one, d
    <2>2. QED
      BY <1>1, <1>5, <2>1, OneUndone
  <1>9. Reaches(new.doc, who, first, d)
    BY <1>3, <1>8 DEF Undone
  <1> DEFINE x == new.doc
  <1>10. IsSequence(first) /\ IsSequence(rest) /\ all = first \o rest /\ Reaches(x, who, first, d) /\ Reaches(d, who, rest, b)
    BY <1>3, <1>5, <1>7, <1>9
  <1> HIDE DEF d, one, first, rest, all, x
  <1>11. Reaches(x, who, all, b)
    BY ONLY <1>10, ReachesOn
  <1>12. QED
    BY <1>11 DEF x, all

\* The inverse that a run of operations records takes the run back.
LEMMA RunUndone ==
  ASSUME NEW b, IsDocument(b), TracksUnique(b), NEW actor, NEW ops, TypedInverse(ops),
         UniqueThrough(b, actor, ops), NEW result, result = ApplyAll(b, actor, ops), result.ok, NEW who
  PROVE  Reaches(result.doc, who, result.inverse, b)
  <1> DEFINE E == ToSet(ops)
             R(s) == ApplyAll(b, actor, s)
             Bad == {s \in Seq(E) : ~ (UniqueThrough(b, actor, s) /\ R(s).ok => Reaches(R(s).doc, who, R(s).inverse, b))}
  <1>1. IsSequence(ops) /\ \A op \in E : IsOperation(op)
    BY DEF TypedInverse
  <1>2. <<>> \notin Bad
    <2>1. R(<<>>) = Done(b, <<>>)
      <3>1. <<>> \in Seq({0}) /\ 0 \in {0}
        OBVIOUS
      <3>2. QED
        BY <3>1, ApplyAppend
    <2>2. R(<<>>).doc = b /\ R(<<>>).inverse = <<>>
      BY <2>1 DEF Done
    <2> HIDE DEF R
    <2>3. Reaches(R(<<>>).doc, who, R(<<>>).inverse, b)
      BY <2>2, ReachesNone
    <2>4. QED
      BY <2>3
  <1>3. ASSUME NEW s \in Seq(E), NEW op \in E, s \notin Bad PROVE Append(s, op) \notin Bad
    <2> DEFINE u == Append(s, op)
               old == R(s)
               new == R(u)
    <2>1. u = Append(s, op) /\ u \in Seq(E)
      OBVIOUS
    <2>2. new = ApplyNext(old, actor, op)
      BY ApplyAppend
    <2>3. old.ok => RunHolds(b, actor, ToSet(s), old)
      <3>1. TypedInverse(s)
        BY <1>1, SequenceOfElements DEF TypedInverse
      <3>2. QED
        BY <3>1, RunHoldsThroughout
    <2>4. IsOperation(op)
      BY <1>1
    <2>5. UniqueThrough(b, actor, s) /\ old.ok => Reaches(old.doc, who, old.inverse, b)
      BY <1>3
    <2>6. UniqueThrough(b, actor, u) =>
            UniqueThrough(b, actor, s) /\ IdsUnique(old.doc) /\ IdsUnique(new.doc)
      <3> HIDE DEF u
      <3>1. QED
        BY <2>1, UniqueBefore
    <2> HIDE DEF u, old, new
    <2>7. ASSUME UniqueThrough(b, actor, u), new.ok PROVE Reaches(new.doc, who, new.inverse, b)
      <3>1. old.ok
        BY <2>2, <2>7 DEF ApplyNext, Refused
      <3>2. Reaches(old.doc, who, old.inverse, b) /\ IdsUnique(old.doc) /\ IdsUnique(new.doc)
        BY <2>5, <2>6, <2>7, <3>1
      <3>3. QED
        BY <2>2, <2>3, <2>4, <2>7, <3>2, NextUndone
    <2>8. QED
      BY <2>7 DEF u, new
  <1>4. Bad = {}
    <2>1. Bad \in SUBSET Seq(E)
      OBVIOUS
    <2> HIDE DEF Bad
    <2>2. QED
      BY <1>2, <1>3, <2>1, SequenceInduction
  <1>5. ops \in Seq(E)
    BY <1>1, SequenceFacts
  <1>6. QED
    BY <1>4, <1>5

\* Undoing a transaction on the document it left gives back exactly the document
\* it started from, if no operation of it met an id that two objects had
\* (engine.ts:85-103; docs/10-technical-validation.md:51).
THEOREM UndoIsExact == Spec => []UndoRestores
  <1>1. ASSUME EngineInv PROVE UndoRestores
    <2> DEFINE k == Len(records)
               r == records[k]
               q == records[r.undoes]
    <2> SUFFICES ASSUME Recorded, TakesBack(Newest), Unambiguous(records[Newest.undoes])
                 PROVE  Newest.after = records[Newest.undoes].before
      BY DEF UndoRestores
    <2>1. IsSequence(records) /\ records # <<>>
      BY <1>1 DEF EngineInv, LedgerInv, Recorded
    <2>2. k \in DOMAIN records /\ k \in Nat /\ DOMAIN records = 1 .. k /\ Newest = r
      <3>1. k \in Nat /\ DOMAIN records = 1 .. k /\ records \in Seq(ToSet(records))
        BY <2>1, SequenceFacts
      <3>2. k # 0
        BY <2>1, <3>1
      <3>3. QED
        BY <3>1, <3>2 DEF Newest, Last
    <2>3. r.undoes # 0 /\ r.before = q.after /\ Unambiguous(q)
      BY <2>2 DEF TakesBack
    <2> HIDE DEF k
    <2>4. r.undoes \in 0 .. (k - 1) /\ r.ops = q.inverse /\ RecordHolds(r)
      BY <1>1, <2>2, <2>3 DEF EngineInv, LedgerInv
    <2>5. r.undoes \in DOMAIN records
      BY <2>2, <2>3, <2>4
    <2>6. RecordHolds(q)
      BY <1>1, <2>5 DEF EngineInv, LedgerInv
    <2> HIDE DEF r, q
    <2> DEFINE ran == ApplyAll(q.before, q.actor, q.ops)
    <2>7. ran.ok /\ q.after = ran.doc /\ q.inverse = ran.inverse
      BY <2>6 DEF RecordHolds, Replays
    <2>8. UniqueThrough(q.before, q.actor, q.ops)
      BY <2>3 DEF Unambiguous, Copies, UniqueThrough
    <2>9. IsDocument(q.before) /\ TracksUnique(q.before) /\ TypedInverse(q.ops)
      BY <2>6, RecordKeeps DEF RecordHolds
    <2>10. Reaches(q.after, r.actor, q.inverse, q.before)
      <3>1. ran = ApplyAll(q.before, q.actor, q.ops)
        OBVIOUS
      <3> HIDE DEF ran
      <3>2. Reaches(ran.doc, r.actor, ran.inverse, q.before)
        BY <2>7, <2>8, <2>9, <3>1, RunUndone
      <3>3. QED
        BY <2>7, <3>2
    <2>11. ApplyAll(r.before, r.actor, r.ops).ok /\ r.after = ApplyAll(r.before, r.actor, r.ops).doc
      BY <2>4 DEF RecordHolds, Replays
    <2>12. r.after = q.before
      BY <2>3, <2>4, <2>10, <2>11 DEF Reaches
    <2>13. QED
      BY <2>2, <2>12 DEF r, q
  <1>2. QED
    BY <1>1, EngineAlwaysReplays, PTL

\* The tracks of e are those of d, with other clips perhaps.
SameTracks(d, e) ==
  /\ DOMAIN e.tracks = DOMAIN d.tracks
  /\ \A t \in DOMAIN d.tracks : e.tracks[t].id = d.tracks[t].id /\ e.tracks[t].locked = d.tracks[t].locked

\* Other clips leave the tracks what they are.
LEMMA ReclippedTracks ==
  ASSUME NEW d, IsDocument(d), NEW t \in DOMAIN d.tracks, NEW s
  PROVE  SameTracks(d, WithClips(d, t, s))
  <1> DEFINE e == WithClips(d, t, s)
             track == [d.tracks[t] EXCEPT !.clips = s]
             T == [d.tracks EXCEPT ![t] = track]
  <1>1. /\ d = [tracks |-> d.tracks, locks |-> d.locks, assets |-> d.assets, artifacts |-> d.artifacts]
        /\ IsTrack(d.tracks[t]) /\ IsSequence(d.tracks)
    BY DocumentFacts
  <1>2. d.tracks[t] = [id |-> d.tracks[t].id, locked |-> d.tracks[t].locked, clips |-> d.tracks[t].clips]
    BY <1>1 DEF IsTrack
  <1>3. track.locked = d.tracks[t].locked
    BY <1>2
  <1>4. e = [tracks |-> T, locks |-> d.locks, assets |-> d.assets, artifacts |-> d.artifacts]
    <2> HIDE DEF track
    <2>1. e = [d EXCEPT !.tracks = T]
      BY <1>1 DEF WithClips, track
    <2> HIDE DEF T
    <2>2. QED
      BY <1>1, <2>1
  <1> HIDE DEF track
  <1>5. DOMAIN T = DOMAIN d.tracks /\ \A u \in DOMAIN d.tracks : T[u] = IF u = t THEN track ELSE d.tracks[u]
    <2>1. d.tracks = [u \in DOMAIN d.tracks |-> d.tracks[u]]
      BY <1>1, SequenceFacts
    <2>2. QED
      BY <2>1
  <1> HIDE DEF T, e
  <1>6. e.tracks = T
    BY <1>4
  <1>7. \A u \in DOMAIN d.tracks : e.tracks[u].id = d.tracks[u].id
    BY ReclippedIds DEF e
  <1>8. QED
    BY <1>3, <1>5, <1>6, <1>7 DEF SameTracks, e

\* After an operation that was let through, one on the same tracks is, where no lock is in the way.
LEMMA UnlockedStill ==
  ASSUME NEW d, NEW e, SameTracks(d, e), NEW actor, NEW op, Guarded(op), OperationUnlocked(d, actor, op),
         Free(e, actor), NEW undo, Guarded(undo), Affected(e, undo).tracks \subseteq Affected(d, op).tracks
  PROVE  OperationUnlocked(e, actor, undo)
  <1>1. \A track \in ToSet(d.tracks) : track.id \in Affected(d, op).tracks => ~ track.locked
    BY UnlockedTracks
  <1>2. \A t \in DOMAIN d.tracks : d.tracks[t].id \in Affected(d, op).tracks => ~ d.tracks[t].locked
    BY <1>1 DEF ToSet
  <1>3. \A track \in ToSet(e.tracks) : track.id \in Affected(e, undo).tracks => ~ track.locked
    BY <1>2 DEF ToSet, SameTracks
  <1>4. QED
    BY <1>3, UnlockedTracks

\* The inverse of clip.move is accepted.
LEMMA MoveClipBack ==
  ASSUME NEW d, IsDocument(d), NEW op, IsOperation(op), op.type = "clip.move", Resolves(d, op),
         NEW actor, OperationUnlocked(d, actor, op),
         NEW r, r = MoveClip(d, op), r.ok, MovesBack(d, op, r), Free(r.doc, actor)
  PROVE  Allows(r.doc, actor, r.inverse)
  <1> DEFINE e == r.doc
             at == FindClip(d, op.clipId)
             clip == ClipAt(d, at)
             new == MovedTo(clip, op.start)
             lifted == WithClips(d, at.track, RemoveAt(d.tracks[at.track].clips, at.index))
             to == FindTrack(d, op.toTrackId)
             s == Splice(lifted.tracks[to].clips, op.toIndex, new)
  <1>1. /\ to \in DOMAIN d.tracks /\ IsDocument(lifted) /\ DOMAIN lifted.tracks = DOMAIN d.tracks
        /\ e = WithClips(lifted, to, s)
    <2>1. /\ at = FindClip(d, op.clipId) /\ clip = ClipAt(d, at) /\ new = MovedTo(clip, op.start)
          /\ lifted = WithClips(d, at.track, RemoveAt(d.tracks[at.track].clips, at.index))
          /\ to = FindTrack(d, op.toTrackId)
          /\ IsDocument(d) /\ IsOperation(op) /\ op.type = "clip.move" /\ Resolves(d, op)
          /\ r = MoveClip(d, op) /\ r.ok
      OBVIOUS
    <2> HIDE DEF at, clip, new, lifted, to
    <2>2. QED
      BY ONLY <2>1, MoveClipKeeps DEF e, s
  <1>2. at.track \in DOMAIN d.tracks
    <2>1. op.type \in OnClip
      BY DEF OnClip
    <2>2. op.clipId \in ClipIds(d)
      BY <2>1 DEF Resolves
    <2>3. QED
      BY <2>2, ClipFound
  <1> DEFINE m == RemoveAt(d.tracks[at.track].clips, at.index)
  <1>3. SameTracks(d, lifted)
    <2>1. lifted = WithClips(d, at.track, m)
      OBVIOUS
    <2> HIDE DEF m, lifted, at
    <2>2. QED
      BY <1>1, <1>2, <2>1, ReclippedTracks
  <1>4. SameTracks(lifted, e)
    <2> HIDE DEF s, lifted, e, to
    <2>1. QED
      BY <1>1, ReclippedTracks, SMTT(30)
  <1>5. SameTracks(d, e)
    BY <1>3, <1>4 DEF SameTracks
  <1> HIDE DEF e
  <1>6. PICK undo : /\ r.inverse = <<undo>> /\ undo.type = "clip.move"
                    /\ Resolves(e, undo) /\ ApplyOperation(e, undo).ok
                    /\ Affected(e, undo).tracks \subseteq Affected(d, op).tracks
    BY DEF MovesBack, e
  <1>7. Guarded(op) /\ Guarded(undo)
    BY <1>6 DEF Guarded, OnLibrary
  <1>8. OperationUnlocked(e, actor, undo)
    BY <1>5, <1>6, <1>7, UnlockedStill DEF e
  <1>9. Allows(e, actor, <<undo>>)
    BY <1>6, <1>8, AllowsOne
  <1>10. QED
    BY <1>6, <1>9 DEF e

\* The inverse of range.deleteRipple is accepted.
LEMMA RippleDeleteBack ==
  ASSUME NEW d, IsDocument(d), IdsUnique(d), IdsApart(d), NEW op, IsOperation(op),
         op.type = "range.deleteRipple", Resolves(d, op), NEW actor, OperationUnlocked(d, actor, op),
         NEW r, r = RippleDelete(d, op), r.ok, IdsUnique(r.doc), IdsApart(r.doc), Free(r.doc, actor)
  PROVE  Allows(r.doc, actor, r.inverse)
  <1> DEFINE e == r.doc
             N == ToSet(op.trackIds)
  <1>1. Recut(d, e)
    BY RippleRecut
  <1>2. /\ IsDocument(e) /\ DOMAIN e.tracks = DOMAIN d.tracks
        /\ \A t \in DOMAIN d.tracks : e.tracks[t].locked = d.tracks[t].locked
    BY <1>1 DEF Recut
  <1>3. \A track \in ToSet(d.tracks) : track.id \in Affected(d, op).tracks => ~ track.locked
    <2>1. Guarded(op)
      BY DEF Guarded, OnLibrary
    <2>2. QED
      BY <2>1, UnlockedTracks
  <1>4. Affected(d, op).tracks = N
    BY DEF Affected
  <1>5. \A t \in DOMAIN d.tracks : d.tracks[t].id \in N => ~ d.tracks[t].locked
    <2> HIDE DEF N
    <2>1. QED
      BY <1>3, <1>4 DEF ToSet
  <1>6. \A t \in DOMAIN d.tracks : d.tracks[t].id \in N => Open(e, actor, t)
    <2> HIDE DEF N
    <2>1. QED
      BY <1>2, <1>5 DEF Open
  <1>7. Ready(d, e, actor, N)
    BY <1>6 DEF Ready
  <1>8. Ready(d, e, actor, N) => Allows(e, actor, r.inverse)
    BY RippleDeleteUndone
  <1>9. QED
    BY <1>7, <1>8

\* What keeps the inverse of an operation from being refused: another one's lock, a locked track.
Reversible(op, actor) ==
  /\ op.type = "lock.add" => op.lock.owner = actor.id
  /\ op.type = "track.add" => ~ op.track.locked
  /\ op.type = "clip.update" => "id" \notin DOMAIN op.patch

\* Every object of the document has an id of its own, and no lock keeps the actor out.
Clear(d, actor) == IsDocument(d) /\ IdsUnique(d) /\ IdsApart(d) /\ Free(d, actor)

\* Where every object has an id of its own and no lock is in the way, what an
\* operation recorded as its inverse is accepted.
LEMMA OneAllowed ==
  ASSUME NEW actor, NEW d, Clear(d, actor), NEW op, IsOperation(op), Reversible(op, actor), Resolves(d, op),
         OperationUnlocked(d, actor, op), NEW r, r = ApplyOperation(d, op), r.ok, Clear(r.doc, actor)
  PROVE  Allows(r.doc, actor, r.inverse)
  <1>0. /\ IsDocument(d) /\ IdsUnique(d) /\ IdsApart(d)
        /\ IdsUnique(r.doc) /\ IdsApart(r.doc) /\ Free(r.doc, actor)
    BY DEF Clear
  <1>1. CASE op.type = "library.put"
    <2>1. r = PutObject(d, op)
      BY <1>1 DEF ApplyOperation
    <2>2. QED
      BY <1>0, <1>1, <2>1, PutObjectBack
  <1>2. CASE op.type = "library.remove"
    <2>1. r = RemoveObject(d, op)
      BY <1>2 DEF ApplyOperation
    <2>2. QED
      BY <1>0, <1>2, <2>1, RemoveObjectBack
  <1>3. CASE op.type = "track.add"
    <2>1. r = AddTrack(d, op)
      BY <1>3 DEF ApplyOperation
    <2>2. ~ op.track.locked
      BY <1>3 DEF Reversible
    <2>3. QED
      BY <1>0, <1>3, <2>1, <2>2, AddTrackBack
  <1>4. CASE op.type = "track.remove"
    <2>1. r = RemoveTrack(d, op)
      BY <1>4 DEF ApplyOperation
    <2>2. QED
      BY <1>0, <1>4, <2>1, RemoveTrackBack
  <1>5. CASE op.type = "clip.insert"
    <2>1. r = InsertClip(d, op)
      BY <1>5 DEF ApplyOperation
    <2>2. QED
      BY <1>0, <1>5, <2>1, InsertClipBack
  <1>6. CASE op.type = "clip.remove"
    <2>1. r = RemoveClip(d, op)
      BY <1>6 DEF ApplyOperation
    <2>2. QED
      BY <1>0, <1>6, <2>1, RemoveClipBack
  <1>7. CASE op.type = "clip.split"
    <2>1. r = SplitClip(d, op)
      BY <1>7 DEF ApplyOperation
    <2>2. QED
      BY <1>0, <1>7, <2>1, SplitClipBack
  <1>8. CASE op.type = "clip.move"
    <2>1. r = MoveClip(d, op)
      BY <1>8 DEF ApplyOperation
    <2>2. MovesBack(d, op, r)
      BY <1>0, <1>8, <2>1, MoveClipUndone
    <2>3. QED
      BY <1>0, <1>8, <2>1, <2>2, MoveClipBack
  <1>9. CASE op.type = "clip.trim"
    <2>1. r = TrimClip(d, op)
      BY <1>9 DEF ApplyOperation
    <2>2. QED
      BY <1>0, <1>9, <2>1, TrimClipBack
  <1>10. CASE op.type = "range.deleteRipple"
    <2>1. r = RippleDelete(d, op)
      BY <1>10 DEF ApplyOperation
    <2>2. QED
      BY <1>0, <1>10, <2>1, RippleDeleteBack
  <1>11. CASE op.type = "lock.add"
    <2>1. r = AddLock(d, op)
      BY <1>11 DEF ApplyOperation
    <2>2. op.lock.owner = actor.id
      BY <1>11 DEF Reversible
    <2>3. QED
      BY <1>0, <1>11, <2>1, <2>2, AddLockBack
  <1>12. CASE op.type = "lock.remove"
    <2>1. r = RemoveLock(d, op)
      BY <1>12 DEF ApplyOperation
    <2>2. QED
      BY <1>0, <1>12, <2>1, RemoveLockBack
  <1>13. CASE op.type = "clip.replace"
    <2>1. r = ReplaceClip(d, op)
      BY <1>13 DEF ApplyOperation
    <2>2. QED
      BY <1>0, <1>13, <2>1, ReplaceClipBack
  <1>14. CASE op.type = "clip.update"
    <2>1. r = UpdateClip(d, op) /\ ~ Renames(op)
      BY <1>14 DEF ApplyOperation, Reversible, Renames, Escapes, PropertyScope
    <2>2. QED
      BY <1>0, <1>14, <2>1, UpdateClipBack
  <1>15. op.type \in OperationTypes
    BY DEF IsOperation
  <1>16. QED
    BY <1>1, <1>2, <1>3, <1>4, <1>5, <1>6, <1>7, <1>8, <1>9, <1>10, <1>11, <1>12, <1>13, <1>14, <1>15 DEF OperationTypes

DistinctFree(d, actor) == DistinctIds(d) /\ Free(d, actor)

\* In the run of the operations s over b, and before each of them, the document is clear.
ClearThrough(b, actor, s) == \A n \in 0 .. Len(s) : DistinctFree(ApplyAll(b, actor, SubSeq(s, 1, n)).doc, actor)

\* A run whose documents are all clear has a clear one before its last operation.
LEMMA ClearBefore ==
  ASSUME NEW E, NEW b, NEW actor, NEW s \in Seq(E), NEW op \in E, NEW u, u = Append(s, op),
         ClearThrough(b, actor, u)
  PROVE  /\ ClearThrough(b, actor, s)
         /\ DistinctFree(ApplyAll(b, actor, s).doc, actor) /\ DistinctFree(ApplyAll(b, actor, u).doc, actor)
  <1> DEFINE n == Len(s)
  <1>1. n \in Nat /\ Len(u) = n + 1 /\ u \in Seq(E)
    OBVIOUS
  <1>2. SubSeq(s, 1, n) = s /\ SubSeq(u, 1, n + 1) = u
    OBVIOUS
  <1>3. ASSUME NEW m \in 0 .. n PROVE SubSeq(u, 1, m) = SubSeq(s, 1, m)
    OBVIOUS
  <1>4. \A m \in 0 .. n + 1 : DistinctFree(ApplyAll(b, actor, SubSeq(u, 1, m)).doc, actor)
    BY <1>1 DEF ClearThrough
  <1> HIDE DEF n
  <1>5. \A m \in 0 .. n : DistinctFree(ApplyAll(b, actor, SubSeq(s, 1, m)).doc, actor)
    <2>1. \A m \in 0 .. n : m \in 0 .. n + 1
      BY <1>1
    <2>2. QED
      BY <1>3, <1>4, <2>1
  <1>6. n \in 0 .. n /\ n + 1 \in 0 .. n + 1
    BY <1>1
  <1>7. DistinctFree(ApplyAll(b, actor, s).doc, actor)
    BY <1>2, <1>5, <1>6
  <1>8. DistinctFree(ApplyAll(b, actor, u).doc, actor)
    BY <1>2, <1>4, <1>6
  <1>9. ClearThrough(b, actor, s)
    BY <1>5 DEF ClearThrough, n
  <1>10. QED
    BY <1>7, <1>8, <1>9

\* What one operation adds to a run is accepted back first, then the rest of the inverse.
LEMMA NextAllowed ==
  ASSUME NEW b, NEW actor, NEW E, NEW result, result.ok => RunHolds(b, actor, E, result),
         NEW op, IsOperation(op), Reversible(op, actor), NEW new, new = ApplyNext(result, actor, op), new.ok,
         Clear(result.doc, actor), Clear(new.doc, actor), Allows(result.doc, actor, result.inverse)
  PROVE  Allows(new.doc, actor, new.inverse)
  <1> DEFINE d == result.doc
             one == ApplyOperation(d, op)
             first == one.inverse
             rest == result.inverse
             all == new.inverse
  <1>0. ~ Refused.ok
    BY DEF Refused
  <1>1. result.ok /\ Resolves(d, op) /\ OperationUnlocked(d, actor, op) /\ one.ok
    BY <1>0 DEF ApplyNext
  <1>2. new = Done(one.doc, one.inverse \o result.inverse)
    BY <1>1 DEF ApplyNext
  <1>3. new.doc = one.doc /\ all = first \o rest
    <2> DEFINE inverse == one.inverse \o result.inverse
    <2>1. new = Done(one.doc, inverse)
      BY <1>2
    <2> HIDE DEF inverse, one
    <2>2. new.doc = one.doc /\ new.inverse = inverse
      BY <2>1 DEF Done
    <2>3. QED
      BY <2>2 DEF inverse
  <1>4. RunHolds(b, actor, E, result)
    BY <1>1
  <1>5. IsDocument(d) /\ TracksUnique(d) /\ IsSequence(rest)
    BY <1>4 DEF RunHolds, TypedInverse
  <1>6. StepHolds(d, actor, op, one)
    <2>1. one = ApplyOperation(d, op)
      OBVIOUS
    <2> HIDE DEF one, d
    <2>2. QED
      BY <1>1, <1>5, <2>1, OperationStep
  <1>7. IsSequence(first)
    BY <1>6 DEF StepHolds, TypedInverse
  <1>8. Undone(d, one, actor) /\ Allows(one.doc, actor, first)
    <2>1. one = ApplyOperation(d, op) /\ Clear(d, actor) /\ Clear(one.doc, actor)
      BY <1>3
    <2> HIDE DEF one, d
    <2>2. IdsUnique(d) /\ IdsUnique(one.doc)
      BY <2>1 DEF Clear
    <2>3. QED
      BY <1>1, <1>5, <2>1, <2>2, OneUndone, OneAllowed
  <1>9. Reaches(new.doc, actor, first, d) /\ Allows(new.doc, actor, first)
    BY <1>3, <1>8 DEF Undone
  <1> DEFINE x == new.doc
  <1>10. /\ IsSequence(first) /\ IsSequence(rest) /\ all = first \o rest
         /\ Reaches(x, actor, first, d) /\ Allows(x, actor, first) /\ Allows(d, actor, rest)
    BY <1>3, <1>5, <1>7, <1>9
  <1> HIDE DEF d, one, first, rest, all, x
  <1>11. Allows(x, actor, all)
    BY ONLY <1>10, AllowsOn
  <1>12. QED
    BY <1>11 DEF x, all

TakenBack(result, actor, b) ==
  Allows(result.doc, actor, result.inverse) /\ Reaches(result.doc, actor, result.inverse, b)

\* The inverse that a run of operations records is accepted on what the run made, and takes it back.
LEMMA RunAllowed ==
  ASSUME NEW b, IsDocument(b), TracksUnique(b), NEW actor, NEW ops, TypedInverse(ops),
         \A op \in ToSet(ops) : Reversible(op, actor),
         ClearThrough(b, actor, ops), NEW result, result = ApplyAll(b, actor, ops), result.ok
  PROVE  TakenBack(result, actor, b)
  <1> DEFINE E == ToSet(ops)
             R(s) == ApplyAll(b, actor, s)
             Bad == {s \in Seq(E) : ~ (ClearThrough(b, actor, s) /\ R(s).ok => TakenBack(R(s), actor, b))}
  <1>1. IsSequence(ops) /\ \A op \in E : IsOperation(op) /\ Reversible(op, actor)
    BY DEF TypedInverse
  <1>2. <<>> \notin Bad
    <2>1. R(<<>>) = Done(b, <<>>)
      <3>1. <<>> \in Seq({0}) /\ 0 \in {0}
        OBVIOUS
      <3>2. QED
        BY <3>1, ApplyAppend
    <2>2. R(<<>>).doc = b /\ R(<<>>).inverse = <<>>
      BY <2>1 DEF Done
    <2> HIDE DEF R
    <2>3. TakenBack(R(<<>>), actor, b)
      BY <2>2, AllowsNone, ReachesNone DEF TakenBack
    <2>4. QED
      BY <2>3
  <1>3. ASSUME NEW s \in Seq(E), NEW op \in E, s \notin Bad PROVE Append(s, op) \notin Bad
    <2> DEFINE u == Append(s, op)
               old == R(s)
               new == R(u)
    <2>1. u = Append(s, op) /\ u \in Seq(E)
      OBVIOUS
    <2>2. new = ApplyNext(old, actor, op)
      BY ApplyAppend
    <2>3. old.ok => RunHolds(b, actor, ToSet(s), old)
      <3>1. TypedInverse(s)
        BY <1>1, SequenceOfElements DEF TypedInverse
      <3>2. QED
        BY <3>1, RunHoldsThroughout
    <2>8. new.ok => RunHolds(b, actor, ToSet(u), new)
      <3>1. TypedInverse(u)
        BY <1>1, <2>1, SequenceOfElements DEF TypedInverse
      <3> HIDE DEF u
      <3>2. QED
        BY <3>1, RunHoldsThroughout
    <2>4. IsOperation(op) /\ Reversible(op, actor)
      BY <1>1
    <2>5. ClearThrough(b, actor, s) /\ old.ok => TakenBack(old, actor, b)
      BY <1>3
    <2>6. ClearThrough(b, actor, u) =>
            ClearThrough(b, actor, s) /\ DistinctFree(old.doc, actor) /\ DistinctFree(new.doc, actor)
      <3> HIDE DEF u
      <3>1. QED
        BY <2>1, ClearBefore
    <2> HIDE DEF u, old, new
    <2>7. ASSUME ClearThrough(b, actor, u), new.ok PROVE TakenBack(new, actor, b)
      <3>1. old.ok
        BY <2>2, <2>7 DEF ApplyNext, Refused
      <3>2. TakenBack(old, actor, b)
        BY <2>5, <2>6, <2>7, <3>1
      <3>3. IsDocument(old.doc)
        BY <2>3, <3>1 DEF RunHolds
      <3>4. IsDocument(new.doc)
        BY <2>7, <2>8 DEF RunHolds
      <3>5. Clear(old.doc, actor) /\ Clear(new.doc, actor)
        BY <2>6, <2>7, <3>3, <3>4, DistinctAreUnique DEF Clear, DistinctFree
      <3>6. Allows(new.doc, actor, new.inverse)
        BY <2>2, <2>3, <2>4, <2>7, <3>2, <3>5, NextAllowed DEF TakenBack
      <3>7. Reaches(new.doc, actor, new.inverse, b)
        <4>1. IdsUnique(old.doc) /\ IdsUnique(new.doc) /\ Reaches(old.doc, actor, old.inverse, b)
          BY <3>2, <3>5 DEF Clear, TakenBack
        <4>2. QED
          BY <2>2, <2>3, <2>4, <2>7, <4>1, NextUndone
      <3>8. QED
        BY <3>6, <3>7 DEF TakenBack
    <2>9. QED
      BY <2>7 DEF u, new
  <1>4. Bad = {}
    <2>1. Bad \in SUBSET Seq(E)
      OBVIOUS
    <2> HIDE DEF Bad
    <2>2. QED
      BY <1>2, <1>3, <2>1, SequenceInduction
  <1>5. ops \in Seq(E)
    BY <1>1, SequenceFacts
  <1>6. QED
    BY <1>4, <1>5

\* The author of the newest transaction can take it back, if every object had an
\* id of its own and no lock stood in the way: the inverse is accepted whole and
\* what it leaves validates (engine.ts:85-103).
THEOREM UndoIsAccepted == Spec => []UndoAccepted
  <1>1. ASSUME EngineInv PROVE UndoAccepted
    <2> DEFINE k == Len(records)
               r == records[k]
    <2> SUFFICES ASSUME Recorded, Newest.inverse # <<>>,
                        \A op \in ToSet(Newest.ops) :
                          /\ op.type = "lock.add" => op.lock.owner = Newest.actor.id
                          /\ op.type = "track.add" => ~op.track.locked
                          /\ op.type = "clip.update" => "id" \notin DOMAIN op.patch,
                        \A d \in Copies(Newest) :
                          DistinctIds(d) /\ \A lock \in ToSet(d.locks) : ~LockBlocksActor(lock, Newest.actor)
                 PROVE  \E undone \in {ApplyAll(document, Newest.actor, Newest.inverse)} :
                          undone.ok /\ ValidDocument(undone.doc)
      BY DEF UndoAccepted
    <2>1. IsSequence(records) /\ records # <<>>
      BY <1>1 DEF EngineInv, LedgerInv, Recorded
    <2>2. k \in DOMAIN records /\ Newest = r
      <3>1. k \in Nat /\ DOMAIN records = 1 .. k /\ records \in Seq(ToSet(records))
        BY <2>1, SequenceFacts
      <3>2. k # 0
        BY <2>1, <3>1
      <3>3. QED
        BY <3>1, <3>2 DEF Newest, Last
    <2>3. RecordHolds(r) /\ r.after = document
      BY <1>1, <2>2 DEF EngineInv, LedgerInv
    <2> DEFINE q == Newest
    <2>4. RecordHolds(q) /\ q.after = document
      BY <2>2, <2>3
    <2>5. /\ q.inverse # <<>>
          /\ \A d \in Copies(q) : DistinctFree(d, q.actor)
          /\ \A op \in ToSet(q.ops) : Reversible(op, q.actor)
      BY DEF DistinctFree, Free, Reversible
    <2> HIDE DEF q, r, k
    <2> DEFINE ran == ApplyAll(q.before, q.actor, q.ops)
    <2>6. ran.ok /\ q.after = ran.doc /\ q.inverse = ran.inverse
      BY <2>4 DEF RecordHolds, Replays
    <2>7. ClearThrough(q.before, q.actor, q.ops)
      BY <2>5 DEF Copies, ClearThrough
    <2>8. IsDocument(q.before) /\ ValidDocument(q.before) /\ TracksUnique(q.before) /\ TypedInverse(q.ops)
      BY <2>4, RecordKeeps DEF RecordHolds
    <2>9. TakenBack(ran, q.actor, q.before)
      <3>1. ran = ApplyAll(q.before, q.actor, q.ops)
        OBVIOUS
      <3> HIDE DEF ran
      <3>2. QED
        BY <2>5, <2>6, <2>7, <2>8, <3>1, RunAllowed
    <2> DEFINE back == ApplyAll(document, q.actor, q.inverse)
    <2>10. back.ok /\ back.doc = q.before
      BY <2>4, <2>6, <2>9 DEF TakenBack, Allows, Reaches
    <2>11. back.ok /\ ValidDocument(back.doc)
      BY <2>8, <2>10
    <2>12. QED
      BY <2>10, <2>11 DEF q
  <1>2. QED
    BY <1>1, EngineAlwaysReplays, PTL
=============================================================================
