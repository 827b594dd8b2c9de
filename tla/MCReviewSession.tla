--------------------------- MODULE MCReviewSession ---------------------------
EXTENDS ReviewSession, CandidateDetection

Span(start, dur) == [start |-> start, dur |-> dur]

(* e we we __ hello: a filler, a repetition, and a silence. *)
MCWords == <<Span(0, 1), Span(1, 1), Span(2, 1), Span(6, 1)>>
MCTexts == <<<<"e">>, <<"w", "e">>, <<"w", "e">>, <<"h", "o">>>>
MCRecognised == <<90, 90, 90, 90>>
MCSilences == {Span(3, 3), Span(7, 1)}
MCFillers == {<<"e">>}

(* The second and third word were given up, as an agent may say too; or the  *)
(* second is said again.                                                     *)
MCFindings ==
  <<[category |-> "incomplete", from |-> 2, to |-> 3, keep |-> None, confidence |-> 60],
    [category |-> "repetition", from |-> 2, to |-> 2, keep |-> <<3, 3>>, confidence |-> 80]>>

(* What the operators of CandidateDetection make of them, as TLC evaluates   *)
(* them once before it starts.                                               *)
MCFiller == NewCandidate("mechanical", "filler", 1, 1, Span(0, 1), "words", "low", "definite_remove")
MCDetected ==
  {MCFiller,
   NewCandidate("mechanical", "repetition", 2, 2, Span(1, 1), "words", "medium", "suggest_remove"),
   NewCandidate("mechanical", "silence", 3, 4, Span(4, 1), "gap", "medium", "suggest_remove")}
MCAgentSuggested ==
  {{}, {NewCandidate("semantic", "incomplete", 2, 3, Span(1, 2), "words", "high", "suggest_remove")}}
MCSuggested ==
  MCAgentSuggested \cup
  {{NewCandidate("semantic", "repetition", 2, 2, Span(1, 1), "words", "high", "suggest_remove")}}
ASSUME DetectionAgrees == MCDetected = TalkingHeadCandidates
ASSUME ReviewsAgree ==
  /\ MCSuggested = Reviews(MCFindings, WindowWords, WindowOverlap)
  /\ MCAgentSuggested = Reviews(<<MCFindings[1]>>, Len(Words), 0)

(* Whatever is said in so many words as windows overlap by, one window sees. *)
ASSUME WindowsCover ==
  \A size \in 1 .. 5 : \A overlap \in 0 .. size - 1 : \A from, to \in DOMAIN Words :
    to - from \in 0 .. overlap =>
      \E start \in WindowStarts(size, overlap) : start <= from /\ to < start + size

(* e we e we: what is detected when the filler is the start of a repetition. *)
MCRepeated ==
  {MCFiller, NewCandidate("mechanical", "repetition", 1, 2, Span(0, 2), "words", "medium", "suggest_remove")}

\* An agent ripples a word away, or switches off the last of several clips.
MCRipple(d, range) ==
  LET parted == {clip.id : clip \in {x \in ClipsOf(d) : HasLeft(x, range) /\ HasRight(x, range)}}
  IN <<[type |-> "range.deleteRipple", range |-> range, trackIds |-> <<"v1">>, proposal |-> None,
        right |-> [id \in parted |-> RightId(id, "agent", Len(d.tracks[1].clips))]]>>
MCSwitchOff(clip) == <<[type |-> "clip.update", clipId |-> clip.id, patch |-> [enabled |-> FALSE]]>>
MCAgentEdits(d) ==
  {MCRipple(d, Span(1, 1))} \cup {MCSwitchOff(Last(d.tracks[1].clips)) : i \in {2} \cap DOMAIN d.tracks[1].clips}
MCNoEdits(d) == {}
MCNothing == {}
=============================================================================
