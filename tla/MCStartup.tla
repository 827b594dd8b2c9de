------------------------------- MODULE MCStartup -------------------------------
(***************************************************************************)
(* A project is built; or one that is there is opened in the Studio; or a  *)
(* page of the Studio that was opened is at work.  Each needs nothing of    *)
(* what comes before but the database and a paired browser, so that one     *)
(* built project, and one opened, stand for all.                            *)
(***************************************************************************)
EXTENDS RoughCutProject, UiCredentials, Studio

VARIABLE phase

Raw(start, end, text, reliable) == [start |-> start, end |-> end, text |-> text, reliable |-> reliable]

(* Nothing; two words that overlap, and one past the end of the stream. *)
MCOutputs == {<<>>, <<Raw(0, 2, TRUE, TRUE), Raw(1, 4, TRUE, TRUE), Raw(3, 4, TRUE, TRUE)>>}

(* Any answer of up to three words. *)
AnyRaw == {raw \in [start : 0 .. 4, end : 0 .. 4, text : {TRUE}, reliable : BOOLEAN] : raw.start # 2}
ASSUME AnswersInOrder == \A a, b, c \in AnyRaw : WordsInOrder(Normalised(<<a, b, c>>))

(* What a build leaves behind that was answered with some words. *)
Build(h) ==
  /\ source = h /\ media = [hash \in {h} |-> h] /\ proxies = <<>> /\ work = {}
  /\ project = [state |-> "project", rev |-> 2, trial |-> FALSE, asset |-> h, proxy |-> None,
                transcript |-> CHOOSE said \in Transcripts : said.audio = h /\ said.words # <<>>]
  /\ job = [status |-> "succeeded", attempt |-> 1]
  /\ run = [r \in Runs |-> Gone] /\ begun = 1 /\ edits = 0

Init ==
  /\ AccessInit /\ StudioInit
  /\ \/ phase = "build" /\ BuildInit
     \/ phase \in {"open", "work"} /\ \E h \in Playable : Build(h)

Next ==
  \/ phase = "build" /\ BuildNext /\ UNCHANGED <<phase, accessVars, pageVars>>
  \/ phase = "open" /\ AccessNext /\ UNCHANGED <<phase, buildVars, pageVars>>
  \/ phase = "work" /\ StudioNext /\ UNCHANGED <<phase, buildVars, accessVars>>

Spec == Init /\ [][Next]_<<phase, buildVars, accessVars, pageVars>>
=============================================================================
