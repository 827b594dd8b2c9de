------------------------------ MODULE RenderPlan ------------------------------
(***************************************************************************)
(* What is rendered of a document: the segments of the cut, each clamped   *)
(* to what the streams of the source can deliver, and the caption cues     *)
(* made of the words that are left whole.  plan.ts builds the plan that    *)
(* preview and export share, captions.ts its cues.                         *)
(*                                                                         *)
(* Microseconds are the integers of EditOperations; ids, paths, probes and *)
(* the format of subtitle files are left out.                              *)
(***************************************************************************)
EXTENDS ReviewProjection

CONSTANTS SentenceEnds,  \* texts that end in a full stop, a question or an exclamation mark
          Decodable,     \* how much of the source its shorter stream delivers
          CueCharacters, CueDuration, CueGap   \* limits of a cue

-----------------------------------------------------------------------------
(* The words of the cut (mapTranscriptToTimeline). *)

OfTranscript(d) == {clip \in ClipsOf(d) : clip.enabled /\ clip.asset = Media /\ clip.src # NoRange}
Whole(clip) == {w \in DOMAIN Words : Encloses(clip.src, Words[w])}

(* Mutant of Mapped: a word is where the source has it. *)
MappedAsRecorded(d) ==
  LET said == UNION {{[word |-> w, clip |-> clip.id, range |-> Words[w]] : w \in Whole(clip)} :
                       clip \in OfTranscript(d)}
  IN SetToSortSeq(said, LAMBDA a, b : \/ a.range.start < b.range.start
                                      \/ a.range.start = b.range.start /\ a.word < b.word)

(* Every word some clip plays whole, as the timeline has it. *)
Mapped(d) ==
  LET said == UNION {{[word |-> w, clip |-> clip.id, range |-> OnTimeline(clip, Words[w])] :
                        w \in Whole(clip)} : clip \in OfTranscript(d)}
  IN SetToSortSeq(said, LAMBDA a, b : \/ a.range.start < b.range.start
                                      \/ a.range.start = b.range.start /\ a.word < b.word)

(* No clip is warped and no word is heard twice. *)
Mappable(d) ==
  /\ \A clip \in OfTranscript(d) : ~Warped(clip)
  /\ \A a, b \in OfTranscript(d) : a # b => Whole(a) \cap Whole(b) = {}

Removed(d) == DOMAIN Words \ {m.word : m \in ToSet(Mapped(d))}

(* Words a cut goes through: they play in part and are not captioned. *)
Parted(d) == {w \in Removed(d) : \E clip \in OfTranscript(d) : RangesOverlap(clip.src, Words[w])}

-----------------------------------------------------------------------------
(* Cues (generateCaptionCues). *)

(* Of a script written without spaces. *)
Characters(group) == FoldLeft(LAMBDA n, m : n + Len(Texts[m.word]), 0, group)

(* The next word does not go into the cue. *)
Splits(cue, m) ==
  LET previous == Last(cue)
  IN \/ previous.clip # m.clip
     \/ m.range.start - RangeEnd(previous.range) > CueGap
     \/ RangeEnd(m.range) - cue[1].range.start > CueDuration
     \/ Characters(Append(cue, m)) > CueCharacters
     \/ Texts[previous.word] \in SentenceEnds

Cues(d) ==
  FoldLeft(LAMBDA cues, m : IF cues = <<>> THEN <<<<m>>>>
                            ELSE IF Splits(Last(cues), m) THEN Append(cues, <<m>>)
                            ELSE Append(Front(cues), Append(Last(cues), m)),
           <<>>, Mapped(d))
CueRange(cue) ==
  [start |-> cue[1].range.start, dur |-> RangeEnd(Last(cue).range) - cue[1].range.start]

-----------------------------------------------------------------------------
(* The plan (buildRenderPlan): of a cut that can be played and captioned. *)

Plannable(d) == Playable(d) /\ Mappable(d)

(* A segment asks for what its clip plays and gets what there is of it. *)
Segments(d) ==
  LET Available(clip) == IF Decodable > clip.src.start THEN Decodable - clip.src.start ELSE 0
      Segment(clip) == [start |-> clip.src.start, asked |-> clip.range.dur,
                        dur |-> Min({Available(clip), clip.range.dur})]
  IN FoldLeft(LAMBDA segments, clip : Append(segments, Segment(clip)), <<>>, Track1(d))

(* The output, as the instants of the source it plays one after the other. *)
Output(d) ==
  LET Frames(segment) == [t \in 1 .. segment.dur |-> segment.start + t - 1]
  IN FoldLeft(LAMBDA output, segment : output \o Frames(segment), <<>>, Segments(d))
=============================================================================
