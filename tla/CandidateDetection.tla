-------------------------- MODULE CandidateDetection --------------------------
(***************************************************************************)
(* What an analysis of a transcript proposes to delete.  Mechanical        *)
(* detection (candidate-engine/src/candidates.ts) finds filler words,      *)
(* immediate exact repetitions and silences; a semantic review             *)
(* (semantic.ts) takes what a model, or an agent, says of each window of    *)
(* the words, and keeps what the transcript bears out.                     *)
(*                                                                         *)
(* A text is a sequence of letters, normalised.  Confidences are percents. *)
(* A finding is [category, from, to, keep, confidence]: the words to       *)
(* remove and the pair of words that says it better, or None.               *)
(***************************************************************************)
EXTENDS ReviewCommands

CONSTANTS Recognised,      \* how sure the recogniser is of each word
          Fillers,         \* texts that are always fillers
          MaybeFillers,    \* texts that may be
          Silences,        \* the silent ranges of the recording
          Handle,          \* what is left of a silence at each side
          LeastSilence,    \* the shortest silence worth removing
          LongestFiller,   \* in instants
          MaxRepetition,   \* words of a repetition
          WindowWords, WindowOverlap,
          MostFindings,    \* that are looked at
          Pause,           \* after a phrase that was given up
          Corrections      \* words that say that something was wrong

ASSUME WindowsAdvance == WindowOverlap \in 0 .. WindowWords - 1

Said(from, to) == FlattenSeq(SubSeq(Texts, from, to))
WordRange(from, to) == [start |-> Words[from].start, dur |-> RangeEnd(Words[to]) - Words[from].start]

(* Each detector has ids of its own: what both find is found twice. *)
NewCandidate(detector, reason, from, to, range, kind, risk, decision) ==
  [id |-> detector \o "_" \o reason \o "_" \o ToString(from) \o "_" \o ToString(to),
   range |-> range, kind |-> kind, words |-> IF kind = "words" THEN from .. to ELSE {},
   risk |-> risk, decision |-> decision, reason |-> reason]

-----------------------------------------------------------------------------
(* Mechanical detection. *)

Filler(w) ==
  LET definite == Texts[w] \in Fillers /\ Recognised[w] >= 85 /\ Words[w].dur <= LongestFiller
  IN NewCandidate("mechanical", "filler", w, w, Words[w], "words",
                  IF definite THEN "low" ELSE "medium",
                  IF definite THEN "definite_remove" ELSE "suggest_remove")

(* findImmediateExactRepetitions: the shortest run that ends at the boundary *)
(* and is said again right after it.                                         *)
SaidAgain(boundary, size) ==
  /\ \A w \in boundary - size + 1 .. boundary + size : Texts[w] # <<>>
  /\ Said(boundary - size + 1, boundary) = Said(boundary + 1, boundary + size)
  /\ Len(Said(boundary - size + 1, boundary)) >= 2
Repetitions ==
  LET Sizes(b) == {n \in 1 .. Min({MaxRepetition, b, Len(Words) - b}) : SaidAgain(b, n)}
  IN {<<b - Min(Sizes(b)) + 1, b>> : b \in {x \in 1 .. Len(Words) - 1 : Sizes(x) # {}}}
Repetition(from, to) ==
  LET unsure == \E w \in from .. 2 * to - from + 1 : Recognised[w] < 60
  IN NewCandidate("mechanical", "repetition", from, to, WordRange(from, to), "words",
                  IF unsure THEN "high" ELSE "medium", "suggest_remove")

(* A silence between two words, less a handle at each side, and never into   *)
(* a word: from the last word that ends before it to the first after it.     *)
Neighbours(silence) ==
  LET Adjoin(p, n) ==
        /\ RangeEnd(Words[p]) <= silence.start /\ RangeEnd(silence) <= Words[n].start
        /\ p + 1 \in DOMAIN Words => RangeEnd(Words[p + 1]) > silence.start
        /\ n - 1 \in DOMAIN Words => RangeEnd(silence) > Words[n - 1].start
  IN {pair \in (DOMAIN Words) \X (DOMAIN Words) : Adjoin(pair[1], pair[2])}
Removable(silence, p, n) ==
  {range \in [start : {Max({silence.start + Handle, RangeEnd(Words[p])})}, dur : 0 .. silence.dur] :
     RangeEnd(range) = Min({RangeEnd(silence) - Handle, Words[n].start})}
Gaps(silence) ==
  UNION {{NewCandidate("mechanical", "silence", pair[1], pair[2], range, "gap", "medium", "suggest_remove") :
            range \in {r \in Removable(silence, pair[1], pair[2]) : r.dur >= LeastSilence}} :
              pair \in Neighbours(silence)}

(* generateTalkingHeadCandidates *)
TalkingHeadCandidates ==
  {Filler(w) : w \in {x \in DOMAIN Words : Texts[x] \in Fillers \cup MaybeFillers}}
  \cup {Repetition(r[1], r[2]) : r \in Repetitions}
  \cup UNION {Gaps(silence) : silence \in Silences}

-----------------------------------------------------------------------------
(* Semantic review. *)

(* buildSemanticReviewWindows: the last one is the first to reach the end.   *)
WindowStarts(size, overlap) ==
  LET Steps == {s \in DOMAIN Words : (s - 1) % (size - overlap) = 0}
  IN {s \in Steps : \A t \in Steps : t < s => t + size - 1 < Len(Words)}

(* A word outside the window is not resolved (resolveWindowWordId). *)
Resolved(start, size, f) ==
  {f.from, f.to} \cup (IF f.keep = None THEN {} ELSE ToSet(f.keep)) \subseteq start .. start + size - 1

LongestCommon(a, b) ==
  LET common[i \in 0 .. Len(a), j \in 0 .. Len(b)] ==
        IF i = 0 \/ j = 0 THEN 0
        ELSE IF a[i] = b[j] THEN common[i - 1, j - 1] + 1
        ELSE Max({common[i - 1, j], common[i, j - 1]})
  IN common[Len(a), Len(b)]

(* hasRestatementEvidence *)
Restates(removed, kept) ==
  /\ Len(removed) >= 2 /\ Len(kept) >= 2
  /\ \/ removed = kept
     \/ LET least == Min({Len(removed), Len(kept)})
        IN least >= 4 /\ \E n \in 4 .. least : n = LongestCommon(removed, kept) /\ 100 * n >= 55 * least

(* hasAbandonedPhraseEvidence *)
Abandoned(to) == to < Len(Words) /\ Words[to + 1].start - RangeEnd(Words[to]) >= Pause

KeptText(f) == IF f.keep = None THEN <<>> ELSE Said(f.keep[1], f.keep[2])

(* refineRestatementStart: from where it begins as what is kept does. *)
Refined(f) ==
  LET starts == {w \in f.from .. f.to : /\ f.category \in {"repetition", "restatement"}
                                       /\ Len(KeptText(f)) >= 4
                                       /\ IsPrefix(SubSeq(KeptText(f), 1, 4), Said(w, f.to))}
  IN IF starts = {} THEN f.from ELSE Min(starts)

(* validateFinding: the limits are on the finding as it was given, from its  *)
(* `first` word on, the evidence is in what is left of it.                   *)
Borne(f) ==
  /\ f.first <= f.to /\ f.to - f.first <= 80 /\ f.confidence >= 50
  /\ f.category \in {"repetition", "restatement", "correction"} => f.keep # None
  /\ f.keep # None => f.keep[1] <= f.keep[2] /\ f.keep[2] - f.keep[1] <= 80 /\ f.to < f.keep[1]
  /\ \E removed \in {Said(f.from, f.to)}, kept \in {KeptText(f)} :
       /\ Len(removed) >= 2
       /\ CASE f.category \in {"repetition", "restatement"} -> Restates(removed, kept)
            [] f.category = "correction" ->
                 Corrections \cap (f.from .. f.to) # {} \/ Restates(removed, kept)
            [] OTHER -> Abandoned(f.to)

Suggestion(f) ==
  NewCandidate("semantic", f.category, f.from, f.to, WordRange(f.from, f.to), "words", "high", "suggest_remove")

(* The surest first, then the longest, then as they came. *)
Before(a, b) ==
  \/ a.confidence > b.confidence
  \/ a.confidence = b.confidence /\ a.to - a.from > b.to - b.from
  \/ a.confidence = b.confidence /\ a.to - a.from = b.to - b.from /\ a.place < b.place

(* One that shares words with one that was taken before it is left out; with *)
(* that, what two windows found is there once.                               *)
Apart(findings) ==
  LET taken[a \in findings] ==
        \A b \in findings : Before(b, a) /\ b.from <= a.to /\ a.from <= b.to => ~taken[b]
  IN {a \in findings : taken[a]}

(* generateSemanticReviewCandidates: `answer` is what the provider would say *)
(* of the whole; of a window it says what it can see, and what it said first *)
(* is looked at.                                                             *)
Suggestions(answer, size, overlap) ==
  LET Place(start, k) == start * Len(answer) + k
      Given == {Place(x[1], x[2]) : x \in
                  {y \in WindowStarts(size, overlap) \X (DOMAIN answer) : Resolved(y[1], size, answer[y[2]])}}
      Finding(place) ==
        LET f == answer[((place - 1) % Len(answer)) + 1]
        IN [category |-> f.category, first |-> f.from, from |-> Refined(f), to |-> f.to,
            keep |-> f.keep, confidence |-> f.confidence, place |-> place]
      Looked(given) == {place \in given : Cardinality({x \in given : x < place}) < MostFindings}
  IN UNION {{Suggestion(f) : f \in Apart(findings)} :
              findings \in {{f \in {Finding(place) : place \in Looked(Given)} : Borne(f)}}}

(* What a review of the whole may come to, whichever of the findings are given. *)
Reviews(findings, size, overlap) ==
  {Suggestions(SelectSeq(findings, LAMBDA f : f \in said), size, overlap) : said \in SUBSET ToSet(findings)}
=============================================================================
