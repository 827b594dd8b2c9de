----------------------------- MODULE MCAlphaGate -----------------------------
(***************************************************************************)
(* The way of a project into the Alpha gate, in two parts for TLC: the     *)
(* trial that leaves its evidence in the project, or the registration of   *)
(* projects whose evidence is complete, wrong or missing.  The second      *)
(* takes from the first what an audit says, here MCFigures.                *)
(***************************************************************************)
EXTENDS AlphaTrial, AlphaCollect, TLC

CONSTANTS c1, c2
MCCollectors == {c1, c2}
MCSymmetry == Permutations(MCCollectors)

VARIABLE part

(* Two projects, one of them much larger, and cohorts that are authorized   *)
(* for them; r is authorized for the first one's source.                    *)
Figure(completed, predicted, hits, usable, active, operator) ==
  [completed |-> completed, exported |-> TRUE, predicted |-> predicted, hits |-> hits,
   highRisk |-> 0, cuts |-> 20, usable |-> usable,
   timing |-> IF active = Absent THEN Absent ELSE [manual |-> 100, active |-> active, operator |-> operator]]

MCFigures ==
  [p |-> {Figure(TRUE, 100, 100, 20, 50, "o1")},                \* a large project, all right
   q |-> {Figure(TRUE, 1, 1, 20, 60, "o2"),                     \* a small one, all right,
          Figure(TRUE, 1, 0, 20, 60, "o2"),                     \* all wrong,
          Figure(FALSE, 1, Absent, Absent, Absent, Absent)}]    \* or not labelled yet

MCSources == [p \in Projects |-> p]
MCMarkers == {<<"a", "p">>, <<"b", "q">>, <<"r", "p">>}
MCClasses == [c \in Cohorts |-> IF c = "b" THEN {"vfr"} ELSE {"accent"}]

Init ==
  /\ TrialInit /\ CollectInit
  /\ part \in {"trial", "registration"}
  /\ part = "registration" => ~enrolled
  /\ part = "trial" => \A p \in Projects : project[p].figures.hits = project[p].figures.predicted

Next ==
  \/ part = "trial" /\ TrialNext /\ UNCHANGED <<part, collectVars>>
  \/ part = "registration" /\ CollectNext /\ UNCHANGED <<part, trialVars>>

Spec == Init /\ [][Next]_<<part, trialVars, collectVars>>
=============================================================================
