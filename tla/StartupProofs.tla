---------------------------- MODULE StartupProofs ----------------------------
(***************************************************************************)
(* The theorems about RoughCutProject, UiCredentials and Studio, which     *)
(* share nothing but the run that checks them: three parts, each with the  *)
(* inductive invariant of its module.                                      *)
(***************************************************************************)
EXTENDS RoughCutProject, UiCredentials, Studio, FiniteSetTheorems, TLAPS

-----------------------------------------------------------------------------
(***************************************************************************)
(* Building a project, for any number of runs of any recordings that are   *)
(* started again, killed or overtaken at any step.  The managed copies and  *)
(* the proxies only grow, and the recording and the transcript of the       *)
(* project are set once (Grows); so what a run has found stays as it found  *)
(* it (Others), and RunHolds says what that is at each step of a run.       *)
(***************************************************************************)

(* The bounds are numbers. *)
LEMMA ProjectNumbers == MaxStarts \in Nat /\ MaxEdits \in Nat /\ MaxAttempts = 2
  BY ProjectBounds DEF MaxAttempts

(* The updates of a run keep it a run. *)
LEMMA LiveUpdates ==
  ASSUME NEW live \in Live, NEW pc \in Pcs
  PROVE  /\ [live EXCEPT !.pc = pc] \in Live
         /\ [live EXCEPT !.pc = pc].pc = pc
         /\ [live EXCEPT !.pc = pc].asset = live.asset
         /\ [live EXCEPT !.pc = pc].proxy = live.proxy
         /\ [live EXCEPT !.pc = pc].resumed = live.resumed
         /\ [live EXCEPT !.pc = pc].hash = live.hash
  BY DEF Live

(* A run at one of the steps has what a run has. *)
LEMMA IsLive == ASSUME BuildTypeOK, NEW r \in Runs, run[r].pc \in Pcs PROVE run[r] \in Live
<1>1. Gone.pc = "gone" /\ "gone" \notin Pcs /\ "done" \notin Pcs
  BY DEF Gone, Pcs
<1>2. \A done \in Finished : done.pc = "done"
  BY DEF Finished
<1> QED
  BY <1>1, <1>2 DEF BuildTypeOK

(* Nothing that was there is taken away or replaced. *)
Grows ==
  /\ \A hash \in DOMAIN media : hash \in DOMAIN media' /\ media'[hash] = media[hash]
  /\ \A hash \in DOMAIN proxies : hash \in DOMAIN proxies' /\ proxies'[hash] = proxies[hash]
  /\ project.asset # None => project'.asset = project.asset
  /\ project.transcript # None => project'.transcript = project.transcript

Holding == {"transcribing", "committed"}

(* A run that does nothing keeps what it has. *)
LEMMA Others ==
  ASSUME BuildHolds, NEW r \in Runs, Grows, run'[r] = run[r],
         run[r].pc \in Holding => job'.status = "running"
  PROVE  RunHolds(r)'
<1>1. CASE run[r].pc \notin Pcs \ {"hashed"}
  BY <1>1 DEF BuildHolds, RunHolds
<1>2. CASE run[r].pc \in Pcs \ {"hashed"}
  <2>1. RunHolds(r) /\ None \notin Recordings
    BY NoneAssumption DEF BuildHolds
  <2> QED
    BY <1>2, <2>1 DEF RunHolds, Grows, Holding
<1> QED
  BY <1>1, <1>2

(* So does its result. *)
LEMMA ResultsStay ==
  ASSUME BuildHolds, Grows, \A r \in Runs : run'[r].pc = "done" => run'[r] = run[r]
  PROVE  ResultStands'
<1> SUFFICES ASSUME NEW r \in Runs, run'[r].pc = "done"
             PROVE  /\ project'.asset = run'[r].hash
                    /\ run'[r].answer # None /\ run'[r].answer = project'.transcript
  BY DEF ResultStands
<1>1. /\ run'[r] = run[r] /\ run[r].pc = "done"
      /\ project.asset = run[r].hash /\ run[r].answer # None /\ run[r].answer = project.transcript
  BY DEF BuildHolds, ResultStands
<1>2. project.asset # None
  BY <1>1 DEF BuildHolds, ProjectHolds
<1> QED
  BY <1>1, <1>2 DEF Grows

(* The project is right on files that have only grown. *)
LEMMA ProjectKept ==
  ASSUME BuildHolds, Grows, \A hash \in DOMAIN media' : hash \in DOMAIN media \/ media'[hash] = hash,
         UNCHANGED project, job'.status = "succeeded" => job.status = "succeeded"
  PROVE  ProjectHolds'
<1>1. ProjectHolds
  BY DEF BuildHolds
<1>2. \A hash \in DOMAIN media' : media'[hash] = hash
  BY <1>1 DEF ProjectHolds, Grows
<1> QED
  BY <1>1, <1>2 DEF ProjectHolds, Grows

(* One run moves on, and what it moves on with is right. *)
LEMMA OneMoves ==
  ASSUME BuildHolds, Grows, NEW r \in Runs, BuildTypeOK', ProjectHolds', RunHolds(r)',
         \A s \in Runs \ {r} : run'[s] = run[s] /\ (run[s].pc \in Holding => job'.status = "running"),
         run'[r].pc = "done" => /\ project'.asset = run'[r].hash
                                /\ run'[r].answer # None /\ run'[r].answer = project'.transcript,
         run'[r].pc \in Holding => \A s \in Runs \ {r} : run[s].pc \notin Holding
  PROVE  BuildHolds'
<1>1. \A s \in Runs : RunHolds(s)'
  BY Others
<1>2. OneTranscribes'
  BY DEF BuildHolds, OneTranscribes, Holding
<1>3. ResultStands'
  <2> SUFFICES ASSUME NEW s \in Runs \ {r}, run'[s].pc = "done"
               PROVE  /\ project'.asset = run'[s].hash
                      /\ run'[s].answer # None /\ run'[s].answer = project'.transcript
    BY DEF ResultStands
  <2>1. /\ run'[s] = run[s] /\ run[s].pc = "done"
        /\ project.asset = run[s].hash /\ run[s].answer # None /\ run[s].answer = project.transcript
    BY DEF BuildHolds, ResultStands
  <2>2. project.asset # None
    BY <2>1 DEF BuildHolds, ProjectHolds
  <2> QED
    BY <2>1, <2>2 DEF Grows
<1> QED
  BY <1>1, <1>2, <1>3 DEF BuildHolds

-----------------------------------------------------------------------------

(* The invariant holds at first, of a new directory and of an old one. *)
LEMMA BuildStart == ASSUME BuildInit PROVE BuildHolds
<1>1. \A r \in Runs : run[r] = Gone /\ run[r].pc = "gone"
  BY DEF BuildInit, Gone
<1>2. source \in Recordings /\ proxies = <<>> /\ DOMAIN proxies = {} /\ job = [status |-> "none", attempt |-> 0]
  BY DEF BuildInit, NoJob
<1>3. \/ media = <<>> /\ project = NoDatabase
      \/ media = [x \in {source} |-> source]
         /\ project = [NoDatabase EXCEPT !.state = "project", !.rev = 1, !.asset = source]
  BY DEF BuildInit
<1>4. /\ project \in Databases /\ project.proxy = None /\ project.transcript = None
      /\ \/ media = <<>> /\ project.asset = None
         \/ media = [x \in {source} |-> source] /\ project.asset = source /\ project.rev = 1
  <2>1. NoDatabase \in Databases /\ NoDatabase.asset = None /\ NoDatabase.proxy = None
        /\ NoDatabase.transcript = None
    BY DEF NoDatabase, Databases
  <2>2. CASE project = [NoDatabase EXCEPT !.state = "project", !.rev = 1, !.asset = source]
    <3> DEFINE d == NoDatabase
    <3>1. d \in Databases /\ d.proxy = None /\ d.transcript = None
      BY <2>1
    <3> HIDE DEF d
    <3>2. project = [d EXCEPT !.state = "project", !.rev = 1, !.asset = source]
      BY <2>2 DEF d
    <3>3. /\ project \in Databases /\ project.asset = source /\ project.rev = 1
          /\ project.proxy = None /\ project.transcript = None
      BY <1>2, <3>1, <3>2 DEF Databases
    <3> QED
      BY <1>3, <3>3, NoneAssumption, <2>1
  <2> QED
    BY <1>3, <2>1, <2>2
<1>5. BuildTypeOK
  <2>2. media \in [DOMAIN media -> Recordings]
    <3>1. CASE media = <<>>
      <4>1. DOMAIN media = {}
        BY <3>1
      <4> QED
        BY <3>1, <4>1
    <3>2. CASE media = [x \in {source} |-> source]
      BY <1>2, <3>2
    <3> QED
      BY <1>4, <3>1, <3>2
  <2>3. run \in [Runs -> {Gone} \cup Live \cup Finished]
    BY DEF BuildInit
  <2>4. begun \in Nat /\ edits \in Nat
    BY DEF BuildInit
  <2> QED
    BY <1>2, <1>4, <2>2, <2>3, <2>4, ProjectNumbers DEF BuildTypeOK
<1>6. ProjectHolds
  <2>1. CASE project.asset = None
    <3>1. media = <<>> /\ DOMAIN media = {} /\ project.proxy = None /\ project.transcript = None
      BY <1>2, <1>4, <2>1, NoneAssumption
    <3> QED
      BY <1>2, <2>1, <3>1 DEF ProjectHolds
  <2>2. CASE project.asset # None
    <3>1. /\ media = [x \in {source} |-> source] /\ project.asset = source
          /\ project.rev = 1 /\ project.proxy = None /\ project.transcript = None
      BY <1>4, <2>2
    <3> QED
      BY <1>2, <2>2, <3>1 DEF ProjectHolds
  <2> QED
    BY <2>1, <2>2
<1> QED
  BY <1>1, <1>5, <1>6 DEF BuildHolds, OneTranscribes, ResultStands, RunHolds, Pcs

-----------------------------------------------------------------------------
RunStates == {Gone} \cup Live \cup Finished

(* A run that is gone or done is at none of the steps. *)
LEMMA Pc == /\ Gone.pc = "gone" /\ "gone" \notin Pcs /\ "done" \notin Pcs
            /\ \A live \in Live : live.pc \in Pcs /\ live.pc # "done"
  BY DEF Gone, Pcs, Live

(* A run is put into a state, and the others are not. *)
LEMMA Set == ASSUME BuildTypeOK, NEW r \in Runs, NEW state \in RunStates, run' = [run EXCEPT ![r] = state]
             PROVE  /\ run' \in [Runs -> RunStates] /\ run'[r] = state
                    /\ \A s \in Runs \ {r} : run'[s] = run[s]
  BY DEF BuildTypeOK, RunStates

(* A run that goes on keeps what it has. *)
LEMMA Going == ASSUME BuildTypeOK, NEW r \in Runs, run[r].pc \in Pcs, NEW pc \in Pcs, Goto(r, pc)
               PROVE  /\ run' \in [Runs -> RunStates]
                      /\ run'[r].pc = pc /\ run'[r].asset = run[r].asset /\ run'[r].hash = run[r].hash
                      /\ run'[r].proxy = run[r].proxy /\ run'[r].resumed = run[r].resumed
                      /\ \A s \in Runs \ {r} : run'[s] = run[s]
<1> DEFINE state == [run[r] EXCEPT !.pc = pc]
<1>1. run[r] \in Live
  BY IsLive
<1>2. /\ state \in Live /\ state.pc = pc /\ state.asset = run[r].asset /\ state.hash = run[r].hash
      /\ state.proxy = run[r].proxy /\ state.resumed = run[r].resumed
  BY <1>1, LiveUpdates
<1>3. run' = [run EXCEPT ![r] = state]
  BY DEF Goto
<1> HIDE DEF state
<1> QED
  BY <1>2, <1>3, Set DEF RunStates

(* The project, its files and the job stay as they are while a run moves on. *)
LEMMA MovesAlone ==
  ASSUME BuildHolds, NEW r \in Runs, run' \in [Runs -> RunStates], \A s \in Runs \ {r} : run'[s] = run[s],
         UNCHANGED <<source, media, proxies, project, job, edits>>, begun' \in Nat,
         RunHolds(r)', run'[r].pc \notin Holding,
         run'[r].pc = "done" => /\ project.asset = run'[r].hash
                                /\ run'[r].answer # None /\ run'[r].answer = project.transcript
  PROVE  BuildHolds'
<1>1. Grows
  BY DEF Grows
<1>2. BuildTypeOK'
  BY DEF BuildHolds, BuildTypeOK, RunStates
<1>3. ProjectHolds'
  BY DEF BuildHolds, ProjectHolds
<1>4. \A s \in Runs \ {r} : run[s].pc \in Holding => job'.status = "running"
  BY DEF BuildHolds, RunHolds, Holding, Pcs
<1> QED
  BY <1>1, <1>2, <1>3, <1>4, OneMoves

(* A run is killed, fails or begins. *)
LEMMA Comes == ASSUME BuildHolds, NEW r \in Runs, NEW trial \in BOOLEAN, End(r) \/ Begin(r, trial)
               PROVE  BuildHolds'
<1>1. CASE End(r)
  <2>1. run' = [run EXCEPT ![r] = Gone] /\ Gone \in RunStates
    BY <1>1 DEF End, RunStates
  <2>2. run'[r].pc = "gone" /\ run' \in [Runs -> RunStates] /\ \A s \in Runs \ {r} : run'[s] = run[s]
    BY <2>1, Set, Pc DEF BuildHolds
  <2> QED
    BY <1>1, <2>2, MovesAlone, Pc DEF End, RunHolds, Holding, BuildHolds, BuildTypeOK
<1>2. CASE Begin(r, trial)
  <2> DEFINE state == [pc |-> "hashed", no |-> begun', hash |-> source, trial |-> trial,
                       asset |-> None, proxy |-> None, resumed |-> FALSE, base |-> 0]
  <2>1. begun' \in Nat
    BY <1>2 DEF Begin, BuildHolds, BuildTypeOK
  <2>2. state \in Live /\ state.pc = "hashed"
    BY <2>1 DEF Live, Pcs, BuildHolds, BuildTypeOK
  <2>3. run' = [run EXCEPT ![r] = state]
    BY <1>2 DEF Begin
  <2> HIDE DEF state
  <2>4. run'[r].pc = "hashed" /\ run' \in [Runs -> RunStates] /\ \A s \in Runs \ {r} : run'[s] = run[s]
    BY <2>2, <2>3, Set DEF BuildHolds, RunStates
  <2> QED
    BY <1>2, <2>1, <2>4, MovesAlone DEF Begin, RunHolds, Holding
<1> QED
  BY <1>1, <1>2

(* A run answers with what the project holds, *)
LEMMA Finishes == ASSUME BuildHolds, NEW r \in Runs, run[r].pc \in Pcs, Done(r),
                         UNCHANGED <<source, media, proxies, project, job, begun, edits>>,
                         project.asset = run[r].hash, project.transcript # None
                  PROVE  BuildHolds'
<1> DEFINE state == [pc |-> "done", hash |-> run[r].hash, answer |-> project.transcript]
<1>1. state \in RunStates
  BY IsLive DEF RunStates, Finished, Live, BuildHolds, BuildTypeOK, Databases
<1>2. state.pc = "done" /\ state.hash = project.asset /\ state.answer = project.transcript
  OBVIOUS
<1>3. run' = [run EXCEPT ![r] = state]
  BY DEF Done
<1> HIDE DEF state
<1>4. run'[r] = state /\ run' \in [Runs -> RunStates] /\ \A s \in Runs \ {r} : run'[s] = run[s]
  BY <1>1, <1>3, Set DEF BuildHolds
<1>5. RunHolds(r)'
  BY <1>2, <1>4, Pc DEF RunHolds
<1> QED
  BY <1>2, <1>4, <1>5, MovesAlone DEF Holding, BuildHolds, BuildTypeOK

(* at once if all is there; else it goes on with what is. *)
LEMMA Resumes == ASSUME BuildHolds, NEW r \in Runs, Resume(r) PROVE BuildHolds'
<1>1. run[r].pc = "hashed" /\ "hashed" \in Pcs /\ project.asset = run[r].hash
  BY DEF Resume, At, Belongs, Pcs
<1>2. CASE project.transcript # None
  BY <1>1, <1>2, Finishes DEF Resume
<1>3. CASE project.transcript = None
  <2> DEFINE pc == IF NeedsProxy(run[r].hash) /\ project.proxy = None THEN "proxy" ELSE "job"
             state == [run[r] EXCEPT !.pc = pc, !.asset = run[r].hash, !.proxy = project.proxy,
                                     !.resumed = TRUE]
  <2>1. run[r] \in Live /\ pc \in Pcs /\ pc \in {"proxy", "job"} /\ project.proxy \in Nat \cup {None}
        /\ run[r].hash \in Recordings
    BY <1>1, IsLive DEF Pcs, BuildHolds, BuildTypeOK, Databases, Live
  <2> HIDE DEF pc
  <2>2. /\ state \in Live /\ state.pc = pc /\ state.asset = run[r].hash /\ state.proxy = project.proxy
    BY <2>1 DEF Live
  <2>3. run' = [run EXCEPT ![r] = state]
    BY <1>3 DEF Resume, pc
  <2> HIDE DEF state
  <2>4. run'[r] = state /\ run' \in [Runs -> RunStates] /\ \A s \in Runs \ {r} : run'[s] = run[s]
    BY <2>2, <2>3, Set DEF BuildHolds, RunStates
  <2>5. project.asset # None
    BY <1>1, <2>1, NoneAssumption
  <2>6. UNCHANGED <<source, media, proxies, project, job, begun, edits>>
    BY DEF Resume
  <2>7. RunHolds(r)'
    BY <1>1, <2>1, <2>2, <2>4, <2>5, <2>6 DEF RunHolds, BuildHolds, ProjectHolds
  <2> QED
    BY <2>1, <2>2, <2>4, <2>6, <2>7, MovesAlone DEF Holding, BuildHolds, BuildTypeOK
<1> QED
  BY <1>2, <1>3

(* A run with no database to resume from hashes the recording again, *)
LEMMA Ingests == ASSUME BuildHolds, NEW r \in Runs, Ingest(r) PROVE BuildHolds'
<1> DEFINE state == [run[r] EXCEPT !.pc = "ingest", !.asset = source]
<1>1. run[r].pc = "hashed" /\ "hashed" \in Pcs /\ "ingest" \in Pcs /\ source \in Recordings
  BY DEF Ingest, At, Pcs, BuildHolds, BuildTypeOK
<1>2. run[r] \in Live /\ run[r].proxy = None /\ run[r].resumed = FALSE
  BY <1>1, IsLive DEF BuildHolds, RunHolds, Live
<1>3. state \in Live /\ state.pc = "ingest" /\ state.asset = source /\ state.proxy = None /\ ~state.resumed
  BY <1>1, <1>2 DEF Live
<1>4. run' = [run EXCEPT ![r] = state]
  BY DEF Ingest
<1> HIDE DEF state
<1>5. run'[r] = state /\ run' \in [Runs -> RunStates] /\ \A s \in Runs \ {r} : run'[s] = run[s]
  BY <1>3, <1>4, Set DEF BuildHolds, RunStates
<1>6. UNCHANGED <<source, media, proxies, project, job, begun, edits>>
  BY DEF Ingest
<1>7. RunHolds(r)'
  BY <1>1, <1>3, <1>5, <1>6 DEF RunHolds
<1> QED
  BY <1>3, <1>5, <1>6, <1>7, MovesAlone DEF Holding, BuildHolds, BuildTypeOK

(* and copies it under its hash. *)
LEMMA Copies == ASSUME BuildHolds, NEW r \in Runs, CopyMedia(r) PROVE BuildHolds'
<1> DEFINE hash == run[r].asset
           next == IF NeedsProxy(hash) THEN "proxy" ELSE "create"
<1>1. run[r].pc = "ingest" /\ "ingest" \in Pcs /\ next \in {"proxy", "create"} /\ next \in Pcs /\ Goto(r, next)
  BY DEF CopyMedia, At, Pcs
<1>2. BuildTypeOK /\ ProjectHolds /\ RunHolds(r)
  BY DEF BuildHolds
<1> HIDE DEF next
<1>3. /\ run' \in [Runs -> RunStates] /\ run'[r].pc = next
      /\ run'[r].asset = hash /\ run'[r].proxy = run[r].proxy /\ run'[r].resumed = run[r].resumed
      /\ \A s \in Runs \ {r} : run'[s] = run[s]
  BY <1>1, <1>2, Going
<1>4. UNCHANGED <<source, proxies, work, project, job, begun, edits>> /\ source \in Recordings
  BY <1>2 DEF CopyMedia, BuildTypeOK
<1>5. /\ media' \in [DOMAIN media' -> Recordings] /\ hash \in DOMAIN media'
      /\ \A h \in DOMAIN media : h \in DOMAIN media' /\ media'[h] = media[h]
      /\ \A h \in DOMAIN media' : h \in DOMAIN media \/ media'[h] = h
  <2>1. CASE hash \in DOMAIN media
    BY <1>2, <2>1 DEF CopyMedia, BuildTypeOK
  <2>2. CASE hash \notin DOMAIN media
    <3>1. source = hash /\ media' = Keeping(media, hash, source)
      BY <2>2 DEF CopyMedia
    <3>2. media \in [DOMAIN media -> Recordings]
      BY <1>2 DEF BuildTypeOK
    <3>3. /\ media' = [n \in DOMAIN media' |-> media'[n]] /\ DOMAIN media' = DOMAIN media \cup {hash}
          /\ media'[hash] = source /\ \A h \in DOMAIN media : media'[h] = media[h]
      <4>1. media' = [n \in DOMAIN media \cup {hash} |-> IF n \in DOMAIN media THEN media[n] ELSE source]
        BY <3>1 DEF Keeping
      <4> HIDE DEF hash
      <4>2. media' = [n \in DOMAIN media' |-> media'[n]]
        BY <4>1
      <4> QED
        BY <2>2, <4>1, <4>2
    <3>4. \A h \in DOMAIN media' : media'[h] \in Recordings
      BY <1>4, <3>2, <3>3
    <3>5. media' \in [DOMAIN media' -> Recordings]
      BY <3>3, <3>4
    <3> QED
      BY <3>1, <3>3, <3>5
  <2> QED
    BY <2>1, <2>2
<1>6. Grows
  BY <1>4, <1>5 DEF Grows
<1>7. BuildTypeOK'
  BY <1>2, <1>3, <1>4, <1>5 DEF BuildTypeOK, RunStates
<1>8. ProjectHolds'
  BY <1>4, <1>5, <1>6, ProjectKept
<1>9. RunHolds(r)'
  BY <1>1, <1>2, <1>3, <1>4, <1>5 DEF RunHolds
<1>10. \A s \in Runs \ {r} : run[s].pc \in Holding => job'.status = "running"
  BY <1>4 DEF BuildHolds, RunHolds, Holding, Pcs
<1> QED
  BY <1>1, <1>3, <1>6, <1>7, <1>8, <1>9, <1>10, OneMoves DEF Holding

-----------------------------------------------------------------------------
(* Steps that only move on. *)
LEMMA Walks == ASSUME BuildHolds, NEW r \in Runs, RenderProxy(r) \/ CreateDatabase(r)
               PROVE  BuildHolds'
<1>0. BuildTypeOK /\ ProjectHolds /\ RunHolds(r)
  BY DEF BuildHolds
<1>1. CASE RenderProxy(r)
  <2>1. run[r].pc = "render" /\ {"render", "rendering"} \subseteq Pcs /\ Goto(r, "rendering")
        /\ UNCHANGED <<source, media, proxies, project, job, begun, edits>>
    BY <1>1 DEF RenderProxy, At, Pcs
  <2>2. /\ run' \in [Runs -> RunStates] /\ run'[r].pc = "rendering"
        /\ run'[r].asset = run[r].asset /\ run'[r].proxy = run[r].proxy /\ run'[r].resumed = run[r].resumed
        /\ \A s \in Runs \ {r} : run'[s] = run[s]
    BY <1>0, <2>1, Going
  <2>3. RunHolds(r)'
    BY <1>0, <2>1, <2>2 DEF RunHolds
  <2> QED
    BY <1>0, <2>1, <2>2, <2>3, MovesAlone DEF Holding, BuildTypeOK
<1>2. CASE CreateDatabase(r)
  <2>1. run[r].pc = "create" /\ {"create", "initialize"} \subseteq Pcs /\ Goto(r, "initialize")
        /\ UNCHANGED <<source, media, proxies, job, begun, edits>>
        /\ project' \in {project, [project EXCEPT !.state = "empty"]}
    BY <1>2 DEF CreateDatabase, At, Pcs
  <2>2. /\ run' \in [Runs -> RunStates] /\ run'[r].pc = "initialize"
        /\ run'[r].asset = run[r].asset /\ run'[r].proxy = run[r].proxy /\ run'[r].resumed = run[r].resumed
        /\ \A s \in Runs \ {r} : run'[s] = run[s]
    BY <1>0, <2>1, Going
  <2>3. /\ project' \in Databases /\ project'.rev = project.rev /\ project'.asset = project.asset
        /\ project'.proxy = project.proxy /\ project'.transcript = project.transcript
    BY <1>0, <2>1 DEF BuildTypeOK, Databases
  <2>4. BuildTypeOK' /\ Grows
    BY <1>0, <2>1, <2>2, <2>3 DEF BuildTypeOK, RunStates, Grows
  <2>5. ProjectHolds'
    BY <1>0, <2>1, <2>3 DEF ProjectHolds
  <2>6. RunHolds(r)'
    BY <1>0, <2>1, <2>2, <2>3 DEF RunHolds
  <2>7. \A s \in Runs \ {r} : run[s].pc \in Holding => job'.status = "running"
    BY <2>1 DEF BuildHolds, RunHolds, Holding, Pcs
  <2> QED
    BY <2>2, <2>4, <2>5, <2>6, <2>7, OneMoves DEF Holding
<1> QED
  BY <1>1, <1>2

(* It takes the proxy if there is one, *)
LEMMA BeginsProxy == ASSUME BuildHolds, NEW r \in Runs, BeginProxy(r) PROVE BuildHolds'
<1> DEFINE pc == IF run[r].asset \in DOMAIN proxies THEN "take" ELSE "render"
           state == [run[r] EXCEPT !.pc = pc, !.base = project.rev]
<1>0. BuildTypeOK /\ RunHolds(r)
  BY DEF BuildHolds
<1>1. /\ run[r].pc = "proxy" /\ "proxy" \in Pcs /\ pc \in Pcs
      /\ (pc = "take" /\ run[r].asset \in DOMAIN proxies) \/ pc = "render"
      /\ UNCHANGED <<source, media, proxies, project, job, begun, edits>>
  BY DEF BeginProxy, At, Pcs
<1>2. run[r] \in Live /\ project.rev \in Nat
  BY <1>0, <1>1, IsLive DEF BuildTypeOK, Databases
<1> HIDE DEF pc
<1>3. /\ state \in Live /\ state.pc = pc /\ state.asset = run[r].asset /\ state.proxy = run[r].proxy
      /\ state.resumed = run[r].resumed
  BY <1>1, <1>2 DEF Live
<1>4. run' = [run EXCEPT ![r] = state]
  BY DEF BeginProxy, pc
<1> HIDE DEF state
<1>5. run'[r] = state /\ run' \in [Runs -> RunStates] /\ \A s \in Runs \ {r} : run'[s] = run[s]
  BY <1>0, <1>3, <1>4, Set DEF RunStates
<1>6. RunHolds(r)'
  BY <1>0, <1>1, <1>3, <1>5 DEF RunHolds
<1>7. run'[r].pc \notin Holding /\ run'[r].pc # "done" /\ begun' \in Nat
  BY <1>0, <1>1, <1>3, <1>5 DEF Holding, BuildTypeOK
<1> QED
  BY <1>1, <1>5, <1>6, <1>7, MovesAlone

(* Whoever published it, a proxy is taken as it is from then on. *)
LEMMA TakesProxy == ASSUME BuildHolds, NEW r \in Runs, TakeProxy(r) PROVE BuildHolds'
<1> DEFINE pc == IF run[r].resumed THEN "register" ELSE "create"
           proxy == proxies[run[r].asset]
           state == [run[r] EXCEPT !.proxy = proxy, !.pc = pc]
<1>0. BuildTypeOK /\ RunHolds(r)
  BY DEF BuildHolds
<1>1. /\ run[r].pc = "take" /\ "take" \in Pcs /\ pc \in Pcs
      /\ (pc = "register" /\ run[r].resumed) \/ pc = "create"
      /\ UNCHANGED <<source, media, proxies, project, job, begun, edits>>
  BY DEF TakeProxy, At, Pcs
<1>2. run[r] \in Live /\ run[r].asset \in DOMAIN proxies /\ proxy \in Nat
  BY <1>0, <1>1, IsLive DEF BuildTypeOK, RunHolds
<1> HIDE DEF pc, proxy
<1>3. /\ state \in Live /\ state.pc = pc /\ state.asset = run[r].asset /\ state.proxy = proxy
      /\ state.resumed = run[r].resumed
  BY <1>1, <1>2 DEF Live
<1>4. run' = [run EXCEPT ![r] = state]
  BY DEF TakeProxy, pc, proxy
<1> HIDE DEF state
<1>5. run'[r] = state /\ run' \in [Runs -> RunStates] /\ \A s \in Runs \ {r} : run'[s] = run[s]
  BY <1>0, <1>3, <1>4, Set DEF RunStates
<1>6. RunHolds(r)'
  BY <1>0, <1>1, <1>2, <1>3, <1>5 DEF RunHolds, proxy
<1>7. run'[r].pc \notin Holding /\ run'[r].pc # "done" /\ begun' \in Nat
  BY <1>0, <1>1, <1>3, <1>5 DEF Holding, BuildTypeOK
<1> QED
  BY <1>1, <1>5, <1>6, <1>7, MovesAlone

(* and publishes its own in the place of none. *)
LEMMA PublishesProxy == ASSUME BuildHolds, NEW r \in Runs, PublishProxy(r) PROVE BuildHolds'
<1> DEFINE hash == run[r].asset
<1>0. BuildTypeOK /\ ProjectHolds /\ RunHolds(r)
  BY DEF BuildHolds
<1>1. run[r].pc = "rendering" /\ {"rendering", "take"} \subseteq Pcs /\ Goto(r, "take")
      /\ UNCHANGED <<source, media, project, job, begun, edits>>
      /\ proxies' = Keeping(proxies, hash, run[r].no)
  BY DEF PublishProxy, At, Pcs
<1>2. run[r].no \in Nat
  BY <1>0, <1>1, IsLive DEF Live
<1>3. /\ run' \in [Runs -> RunStates] /\ run'[r].pc = "take"
      /\ run'[r].asset = hash /\ run'[r].proxy = run[r].proxy /\ run'[r].resumed = run[r].resumed
      /\ \A s \in Runs \ {r} : run'[s] = run[s]
  BY <1>0, <1>1, Going
<1>4. /\ proxies' \in [DOMAIN proxies' -> Nat] /\ hash \in DOMAIN proxies'
      /\ \A h \in DOMAIN proxies : h \in DOMAIN proxies' /\ proxies'[h] = proxies[h]
  <2>1. proxies \in [DOMAIN proxies -> Nat]
    BY <1>0 DEF BuildTypeOK
  <2>2. /\ proxies' \in [DOMAIN proxies' -> Nat] /\ DOMAIN proxies' = DOMAIN proxies \cup {hash}
        /\ \A h \in DOMAIN proxies : proxies'[h] = proxies[h]
    <3>1. /\ proxies' = [n \in DOMAIN proxies' |-> proxies'[n]] /\ DOMAIN proxies' = DOMAIN proxies \cup {hash}
          /\ hash \notin DOMAIN proxies => proxies'[hash] = run[r].no
          /\ \A h \in DOMAIN proxies : proxies'[h] = proxies[h]
      <4>1. proxies' = [n \in DOMAIN proxies \cup {hash} |-> IF n \in DOMAIN proxies THEN proxies[n] ELSE run[r].no]
        BY <1>1 DEF Keeping
      <4> HIDE DEF hash
      <4>2. proxies' = [n \in DOMAIN proxies' |-> proxies'[n]]
        BY <4>1
      <4> QED
        BY <4>1, <4>2
    <3>2. \A h \in DOMAIN proxies' : proxies'[h] \in Nat
      BY <1>2, <2>1, <3>1
    <3> QED
      BY <3>1, <3>2
  <2> QED
    BY <2>2
<1>5. BuildTypeOK' /\ Grows
  BY <1>0, <1>1, <1>3, <1>4 DEF BuildTypeOK, RunStates, Grows
<1>6. ProjectHolds'
  BY <1>0, <1>1, <1>4 DEF ProjectHolds
<1>7. RunHolds(r)'
  BY <1>0, <1>1, <1>3, <1>4 DEF RunHolds
<1>8. \A s \in Runs \ {r} : run[s].pc \in Holding => job'.status = "running"
  BY <1>1 DEF BuildHolds, RunHolds, Holding, Pcs
<1> QED
  BY <1>3, <1>5, <1>6, <1>7, <1>8, OneMoves DEF Holding

(* A step of a run that touches the job and nothing else. *)
LEMMA JobMoves ==
  ASSUME BuildHolds, NEW r \in Runs, run' \in [Runs -> RunStates], \A s \in Runs \ {r} : run'[s] = run[s],
         UNCHANGED <<source, media, proxies, project, begun, edits>>,
         job' \in [status : {"none", "pending", "running", "succeeded", "failed"}, attempt : 0 .. MaxAttempts],
         RunHolds(r)', run'[r].pc # "done", job'.status = "succeeded" => project.transcript # None,
         \A s \in Runs \ {r} : run[s].pc \in Holding => job'.status = "running",
         run'[r].pc \in Holding => \A s \in Runs \ {r} : run[s].pc \notin Holding
  PROVE  BuildHolds'
<1>1. BuildTypeOK'
  BY DEF BuildHolds, BuildTypeOK, RunStates
<1>2. ProjectHolds'
  BY DEF BuildHolds, ProjectHolds
<1>3. Grows
  BY DEF Grows
<1> QED
  BY <1>1, <1>2, <1>3, OneMoves

(* One that touches the project and nothing else. *)
LEMMA ProjectMoves ==
  ASSUME BuildHolds, NEW r \in Runs, run' \in [Runs -> RunStates], \A s \in Runs \ {r} : run'[s] = run[s],
         UNCHANGED <<source, media, proxies, job, begun, edits>>,
         project' \in Databases, Grows, ProjectHolds', RunHolds(r)', run'[r].pc # "done",
         run'[r].pc \in Holding => run[r].pc \in Holding
  PROVE  BuildHolds'
<1>1. BuildTypeOK'
  BY DEF BuildHolds, BuildTypeOK, RunStates
<1>2. \A s \in Runs \ {r} : run[s].pc \in Holding => job'.status = "running"
  BY DEF BuildHolds, RunHolds, Holding, Pcs
<1>3. run'[r].pc \in Holding => \A s \in Runs \ {r} : run[s].pc \notin Holding
  BY DEF BuildHolds, OneTranscribes, Holding
<1> QED
  BY <1>1, <1>2, <1>3, OneMoves

(* An empty database becomes a project without a recording. *)
LEMMA Initializes == ASSUME BuildHolds, NEW r \in Runs, InitializeProject(r) PROVE BuildHolds'
<1>0. BuildTypeOK /\ ProjectHolds /\ RunHolds(r)
  BY DEF BuildHolds
<1>1. run[r].pc = "initialize" /\ {"initialize", "import"} \subseteq Pcs /\ Goto(r, "import")
      /\ UNCHANGED <<source, media, proxies, job, begun, edits>>
      /\ project' = [project EXCEPT !.state = "project", !.trial = run[r].trial]
  BY DEF InitializeProject, At, Pcs
<1>2. /\ run' \in [Runs -> RunStates] /\ run'[r].pc = "import"
      /\ run'[r].asset = run[r].asset /\ run'[r].proxy = run[r].proxy /\ run'[r].resumed = run[r].resumed
      /\ \A s \in Runs \ {r} : run'[s] = run[s]
  BY <1>0, <1>1, Going
<1>3. run[r].trial \in BOOLEAN
  BY <1>0, <1>1, IsLive DEF Live
<1>4. /\ project' \in Databases /\ project'.rev = project.rev /\ project'.asset = project.asset
      /\ project'.proxy = project.proxy /\ project'.transcript = project.transcript
  BY <1>0, <1>1, <1>3 DEF BuildTypeOK, Databases
<1>5. Grows
  BY <1>1, <1>4 DEF Grows
<1>6. ProjectHolds'
  BY <1>0, <1>1, <1>4 DEF ProjectHolds
<1>7. RunHolds(r)'
  BY <1>0, <1>1, <1>2, <1>4 DEF RunHolds
<1> QED
  BY <1>1, <1>2, <1>4, <1>5, <1>6, <1>7, ProjectMoves DEF Holding

(* The updates of the project keep it a project. *)
LEMMA Revised ==
  ASSUME NEW database \in Databases, NEW rev \in Nat, NEW asset \in Recordings \cup {None},
         NEW proxy \in Nat \cup {None}, NEW transcript \in Transcripts \cup {None}
  PROVE  /\ [database EXCEPT !.rev = rev, !.proxy = proxy] \in Databases
         /\ [database EXCEPT !.rev = rev, !.asset = asset, !.proxy = proxy] \in Databases
         /\ [database EXCEPT !.rev = rev, !.transcript = transcript] \in Databases
  BY DEF Databases

(* What the updates leave as it is. *)
LEMMA Fields ==
  ASSUME NEW database \in Databases
  PROVE  \A rev, asset, proxy, transcript :
           /\ LET d == [database EXCEPT !.rev = rev, !.proxy = proxy]
              IN /\ d.rev = rev /\ d.asset = database.asset
                 /\ d.proxy = proxy /\ d.transcript = database.transcript
           /\ LET d == [database EXCEPT !.rev = rev, !.asset = asset, !.proxy = proxy]
              IN /\ d.rev = rev /\ d.asset = asset
                 /\ d.proxy = proxy /\ d.transcript = database.transcript
           /\ LET d == [database EXCEPT !.rev = rev, !.transcript = transcript]
              IN /\ d.rev = rev /\ d.asset = database.asset
                 /\ d.proxy = database.proxy /\ d.transcript = transcript
  BY DEF Databases

(* A project without a revision has no recording yet. *)
LEMMA Imports == ASSUME BuildHolds, NEW r \in Runs, ImportMedia(r) PROVE BuildHolds'
<1>0. BuildTypeOK /\ ProjectHolds /\ RunHolds(r)
  BY DEF BuildHolds
<1>1. run[r].pc = "import" /\ {"import", "job"} \subseteq Pcs /\ Goto(r, "job") /\ project.rev = 0
      /\ UNCHANGED <<source, media, proxies, job, begun, edits>>
      /\ project' = [project EXCEPT !.rev = 1, !.asset = run[r].asset, !.proxy = run[r].proxy]
  BY DEF ImportMedia, At, Pcs
<1>2. /\ run' \in [Runs -> RunStates] /\ run'[r].pc = "job"
      /\ run'[r].asset = run[r].asset /\ run'[r].proxy = run[r].proxy /\ run'[r].resumed = run[r].resumed
      /\ \A s \in Runs \ {r} : run'[s] = run[s]
  BY <1>0, <1>1, Going
<1>3. run[r].asset \in Recordings \cup {None} /\ run[r].proxy \in Nat \cup {None}
  BY <1>0, <1>1, IsLive DEF Live
<1>4. /\ run[r].asset \in Recordings /\ run[r].asset \in DOMAIN media
      /\ run[r].proxy # None => run[r].asset \in DOMAIN proxies /\ proxies[run[r].asset] = run[r].proxy
  BY <1>0, <1>1 DEF RunHolds
<1>5. project.asset = None /\ project.transcript = None /\ job.status # "succeeded"
  BY <1>0, <1>1 DEF ProjectHolds
<1>6. /\ project' \in Databases /\ project'.rev = 1 /\ project'.asset = run[r].asset
      /\ project'.proxy = run[r].proxy /\ project'.transcript = project.transcript
  <2>1. project \in Databases
    BY <1>0 DEF BuildTypeOK
  <2>2. project' \in Databases
    BY <1>1, <1>3, <2>1, Revised
  <2> QED
    BY <1>1, <2>1, <2>2, Fields
<1>7. Grows
  BY <1>1, <1>5 DEF Grows
<1>8. ProjectHolds'
  BY <1>0, <1>1, <1>4, <1>5, <1>6, NoneAssumption DEF ProjectHolds
<1>9. RunHolds(r)'
  BY <1>0, <1>1, <1>2, <1>4, <1>6 DEF RunHolds
<1> QED
  BY <1>1, <1>2, <1>6, <1>7, <1>8, <1>9, ProjectMoves DEF Holding

(* The project gets the proxy the run has taken. *)
LEMMA Registers == ASSUME BuildHolds, NEW r \in Runs, RegisterProxy(r) PROVE BuildHolds'
<1>0. BuildTypeOK /\ ProjectHolds /\ RunHolds(r)
  BY DEF BuildHolds
<1>1. run[r].pc = "register" /\ {"register", "job"} \subseteq Pcs /\ Goto(r, "job")
      /\ UNCHANGED <<source, media, proxies, job, begun, edits>>
      /\ project' = [project EXCEPT !.rev = @ + 1, !.proxy = run[r].proxy]
  BY DEF RegisterProxy, At, Pcs
<1>2. /\ run' \in [Runs -> RunStates] /\ run'[r].pc = "job"
      /\ run'[r].asset = run[r].asset /\ run'[r].proxy = run[r].proxy /\ run'[r].resumed = run[r].resumed
      /\ \A s \in Runs \ {r} : run'[s] = run[s]
  BY <1>0, <1>1, Going
<1>3. run[r].proxy \in Nat \cup {None}
  BY <1>0, <1>1, IsLive DEF Live
<1>4. /\ run[r].asset \in Recordings /\ run[r].asset \in DOMAIN media
      /\ run[r].proxy # None => run[r].asset \in DOMAIN proxies /\ proxies[run[r].asset] = run[r].proxy
      /\ project.asset = run[r].asset /\ project.asset # None
  BY <1>0, <1>1, NoneAssumption DEF RunHolds
<1>5. /\ project' \in Databases /\ project'.rev = project.rev + 1 /\ project'.asset = project.asset
      /\ project'.proxy = run[r].proxy /\ project'.transcript = project.transcript
  <2>1. project \in Databases /\ project.rev + 1 \in Nat
    BY <1>0 DEF BuildTypeOK, Databases
  <2>2. project' \in Databases
    BY <1>1, <1>3, <2>1, Revised
  <2> QED
    BY <1>1, <2>1, <2>2, Fields
<1>6. Grows
  BY <1>1, <1>5 DEF Grows
<1>7. project.rev \in Nat /\ project'.rev > 0
  BY <1>0, <1>5 DEF BuildTypeOK, Databases
<1>8. ProjectHolds'
  BY <1>0, <1>1, <1>4, <1>5, <1>7 DEF ProjectHolds
<1>9. RunHolds(r)'
  BY <1>0, <1>1, <1>2, <1>4, <1>5 DEF RunHolds
<1> QED
  BY <1>1, <1>2, <1>5, <1>6, <1>8, <1>9, ProjectMoves DEF Holding

-----------------------------------------------------------------------------
(* The job: whoever holds it keeps it running, so no other run ensures or   *)
(* starts it meanwhile.                                                     *)
LEMMA HeldRuns == ASSUME BuildHolds, NEW s \in Runs, run[s].pc \in Holding PROVE job.status = "running"
  BY DEF BuildHolds, RunHolds, Holding, Pcs

(* The job is made or made pending again, *)
LEMMA Ensures == ASSUME BuildHolds, NEW r \in Runs, EnsureJob(r) PROVE BuildHolds'
<1>0. BuildTypeOK /\ RunHolds(r)
  BY DEF BuildHolds
<1>1. run[r].pc = "job" /\ {"job", "start"} \subseteq Pcs /\ Goto(r, "start")
      /\ UNCHANGED <<source, media, proxies, project, begun, edits>>
      /\ job.status # "running"
  BY DEF EnsureJob, At, Pcs
<1>2. /\ run' \in [Runs -> RunStates] /\ run'[r].pc = "start"
      /\ run'[r].asset = run[r].asset /\ run'[r].proxy = run[r].proxy /\ run'[r].resumed = run[r].resumed
      /\ \A s \in Runs \ {r} : run'[s] = run[s]
  BY <1>0, <1>1, Going
<1>3. job' \in [status : {"none", "pending", "running", "succeeded", "failed"}, attempt : 0 .. MaxAttempts]
      /\ job'.status = "pending"
  BY <1>0, ProjectNumbers DEF EnsureJob, NoJob, BuildTypeOK
<1>4. RunHolds(r)'
  BY <1>0, <1>1, <1>2 DEF RunHolds
<1>5. \A s \in Runs : run[s].pc \notin Holding
  BY <1>1, HeldRuns
<1> QED
  BY <1>1, <1>2, <1>3, <1>4, <1>5, JobMoves

(* one run starts it, *)
LEMMA Starts == ASSUME BuildHolds, NEW r \in Runs, StartJob(r) PROVE BuildHolds'
<1>0. BuildTypeOK /\ RunHolds(r)
  BY DEF BuildHolds
<1>1. run[r].pc = "start" /\ {"start", "transcribing"} \subseteq Pcs /\ Goto(r, "transcribing")
      /\ UNCHANGED <<source, media, proxies, project, begun, edits>>
      /\ job.status = "pending" /\ job.attempt < MaxAttempts
      /\ job' = [status |-> "running", attempt |-> job.attempt + 1]
  BY DEF StartJob, At, Pcs
<1>2. /\ run' \in [Runs -> RunStates] /\ run'[r].pc = "transcribing"
      /\ run'[r].asset = run[r].asset /\ run'[r].proxy = run[r].proxy /\ run'[r].resumed = run[r].resumed
      /\ \A s \in Runs \ {r} : run'[s] = run[s]
  BY <1>0, <1>1, Going
<1>3. job' \in [status : {"none", "pending", "running", "succeeded", "failed"}, attempt : 0 .. MaxAttempts]
      /\ job'.status = "running"
  BY <1>0, <1>1, ProjectNumbers DEF BuildTypeOK
<1>4. RunHolds(r)'
  BY <1>0, <1>1, <1>2, <1>3 DEF RunHolds
<1>5. \A s \in Runs : run[s].pc \notin Holding
  BY <1>1, HeldRuns
<1> QED
  BY <1>1, <1>2, <1>3, <1>4, <1>5, JobMoves

(* and settles it, *)
LEMMA Succeeds == ASSUME BuildHolds, NEW r \in Runs, SucceedJob(r) PROVE BuildHolds'
<1>0. BuildTypeOK /\ RunHolds(r)
  BY DEF BuildHolds
<1>1. run[r].pc = "committed" /\ {"committed", "succeeded"} \subseteq Pcs /\ Goto(r, "succeeded")
      /\ UNCHANGED <<source, media, proxies, project, begun, edits>>
      /\ job' = [job EXCEPT !.status = "succeeded"]
  BY DEF SucceedJob, At, Pcs
<1>2. /\ run' \in [Runs -> RunStates] /\ run'[r].pc = "succeeded"
      /\ run'[r].asset = run[r].asset /\ run'[r].proxy = run[r].proxy /\ run'[r].resumed = run[r].resumed
      /\ \A s \in Runs \ {r} : run'[s] = run[s]
  BY <1>0, <1>1, Going
<1>3. job' \in [status : {"none", "pending", "running", "succeeded", "failed"}, attempt : 0 .. MaxAttempts]
  BY <1>0, <1>1 DEF BuildTypeOK
<1>4. project.transcript # None
  BY <1>0, <1>1 DEF RunHolds
<1>5. RunHolds(r)'
  BY <1>0, <1>1, <1>2, <1>4 DEF RunHolds
<1>6. \A s \in Runs \ {r} : run[s].pc \notin Holding
  BY <1>1 DEF BuildHolds, OneTranscribes, Holding
<1> QED
  BY <1>1, <1>2, <1>3, <1>4, <1>5, <1>6, JobMoves

(* either way. *)
LEMMA Fails == ASSUME BuildHolds, NEW r \in Runs, FailJob(r) PROVE BuildHolds'
<1>0. BuildTypeOK
  BY DEF BuildHolds
<1>1. run[r].pc \in Holding /\ run' = [run EXCEPT ![r] = Gone]
      /\ UNCHANGED <<source, media, proxies, project, begun, edits>>
      /\ job' = [job EXCEPT !.status = "failed"]
  BY DEF FailJob, Holding
<1>2. run'[r].pc = "gone" /\ run' \in [Runs -> RunStates] /\ \A s \in Runs \ {r} : run'[s] = run[s]
  BY <1>0, <1>1, Set, Pc DEF RunStates
<1>3. job' \in [status : {"none", "pending", "running", "succeeded", "failed"}, attempt : 0 .. MaxAttempts]
      /\ job'.status = "failed"
  BY <1>0, <1>1 DEF BuildTypeOK
<1>4. RunHolds(r)'
  BY <1>2, Pc DEF RunHolds
<1>5. \A s \in Runs \ {r} : run[s].pc \notin Holding
  BY <1>1 DEF BuildHolds, OneTranscribes, Holding
<1> QED
  BY <1>1, <1>2, <1>3, <1>4, <1>5, JobMoves DEF Holding

(* A transcript is not mistaken for none. *)
LEMMA Transcribed == ASSUME NEW hash \in Recordings, NEW output \in Outputs
                     PROVE  /\ [audio |-> hash, words |-> Normalised(output)] \in Transcripts
                            /\ [audio |-> hash, words |-> Normalised(output)] # None
  BY NoneAssumption DEF Transcripts

(* The holder commits the transcript of the recording it was started for. *)
LEMMA Commits == ASSUME BuildHolds, NEW r \in Runs, NEW output \in Outputs, CommitTranscript(r, output)
                 PROVE  BuildHolds'
<1> DEFINE transcript == [audio |-> run[r].asset, words |-> Normalised(output)]
<1>0. BuildTypeOK /\ ProjectHolds /\ RunHolds(r)
  BY DEF BuildHolds
<1>1. run[r].pc = "transcribing" /\ {"transcribing", "committed"} \subseteq Pcs /\ Goto(r, "committed")
      /\ UNCHANGED <<source, media, proxies, job, begun, edits>> /\ job.status = "running"
      /\ project.transcript = None
      /\ project' = [project EXCEPT !.rev = @ + 1, !.transcript = transcript]
  BY DEF CommitTranscript, At, Pcs
<1>2. /\ run' \in [Runs -> RunStates] /\ run'[r].pc = "committed"
      /\ run'[r].asset = run[r].asset /\ run'[r].proxy = run[r].proxy /\ run'[r].resumed = run[r].resumed
      /\ \A s \in Runs \ {r} : run'[s] = run[s]
  BY <1>0, <1>1, Going
<1>3. run[r].asset \in Recordings /\ project.asset = run[r].asset /\ project.asset # None
  BY <1>0, <1>1, NoneAssumption DEF RunHolds
<1>4. transcript \in Transcripts /\ transcript # None /\ transcript.audio = run[r].asset
  BY <1>3, Transcribed
<1> HIDE DEF transcript
<1>5. /\ project' \in Databases /\ project'.rev = project.rev + 1 /\ project'.asset = project.asset
      /\ project'.proxy = project.proxy /\ project'.transcript = transcript
  <2>1. project \in Databases /\ project.rev + 1 \in Nat
    BY <1>0 DEF BuildTypeOK, Databases
  <2>2. project' \in Databases
    BY <1>1, <1>4, <2>1, Revised
  <2> QED
    BY <1>1, <2>1, <2>2, Fields
<1>6. project.rev \in Nat /\ project'.rev > 0
  BY <1>0, <1>5 DEF BuildTypeOK, Databases
<1>7. Grows
  BY <1>1, <1>5 DEF Grows
<1>8. ProjectHolds'
  BY <1>0, <1>1, <1>3, <1>4, <1>5, <1>6 DEF ProjectHolds
<1>9. RunHolds(r)'
  BY <1>0, <1>1, <1>2, <1>3, <1>4, <1>5 DEF RunHolds
<1> QED
  BY <1>1, <1>2, <1>5, <1>7, <1>8, <1>9, ProjectMoves DEF Holding

(* The answer of a run that had it transcribed. *)
LEMMA AnswersGiven == ASSUME BuildHolds, NEW r \in Runs, Answer(r) PROVE BuildHolds'
<1>1. run[r].pc = "succeeded" /\ "succeeded" \in Pcs /\ project.asset = run[r].hash /\ Done(r)
      /\ UNCHANGED <<source, media, proxies, project, job, begun, edits>>
  BY DEF Answer, At, Pcs
<1>2. project.transcript # None
  BY <1>1 DEF BuildHolds, RunHolds
<1> QED
  BY <1>1, <1>2, Finishes

-----------------------------------------------------------------------------
(* What others do to the source and to the project is no step of a run. *)
LEMMA OthersMove ==
  ASSUME BuildHolds, UNCHANGED <<media, proxies, job, run, begun>>, source' \in Recordings, edits' \in Nat,
         project' \in Databases, project'.rev >= project.rev, project'.asset = project.asset,
         project'.proxy = project.proxy, project'.transcript = project.transcript
  PROVE  BuildHolds'
<1>0. BuildTypeOK /\ ProjectHolds /\ OneTranscribes
  BY DEF BuildHolds
<1>1. BuildTypeOK' /\ Grows
  BY <1>0 DEF BuildTypeOK, Grows
<1>2. project.rev \in Nat /\ project'.rev \in Nat
  BY <1>0 DEF BuildTypeOK, Databases
<1>3. ProjectHolds'
  BY <1>0, <1>2 DEF ProjectHolds
<1>4. OneTranscribes'
  BY <1>0 DEF OneTranscribes
<1>5. \A s \in Runs : RunHolds(s)'
  <2> SUFFICES ASSUME NEW s \in Runs PROVE RunHolds(s)'
    OBVIOUS
  <2>1. run[s].pc \in Holding => job'.status = "running"
    BY HeldRuns
  <2> QED
    BY <1>1, <2>1, Others
<1>6. ResultStands'
  BY <1>1, ResultsStay
<1> QED
  BY <1>1, <1>3, <1>4, <1>5, <1>6 DEF BuildHolds

(* The user replaces the recording; a Studio edits. *)
LEMMA OthersStep == ASSUME BuildHolds, ReplaceSource \/ EditProject PROVE BuildHolds'
<1>1. BuildTypeOK /\ project.rev \in Nat
  BY DEF BuildHolds, BuildTypeOK, Databases
<1>2. CASE ReplaceSource
  BY <1>1, <1>2, OthersMove DEF ReplaceSource, BuildTypeOK
<1>3. CASE EditProject
  <2>1. project' = [project EXCEPT !.rev = @ + 1] /\ edits' = edits + 1
        /\ UNCHANGED <<source, media, proxies, work, job, run, begun>>
    BY <1>3 DEF EditProject
  <2>2. /\ project' \in Databases /\ project'.rev = project.rev + 1 /\ project'.asset = project.asset
        /\ project'.proxy = project.proxy /\ project'.transcript = project.transcript
    BY <1>1, <2>1 DEF BuildTypeOK, Databases
  <2>3. source' \in Recordings /\ edits' \in Nat /\ project'.rev >= project.rev
    BY <1>1, <2>1, <2>2 DEF BuildTypeOK
  <2> QED
    BY <2>1, <2>2, <2>3, OthersMove
<1> QED
  BY <1>2, <1>3

(* The invariant is kept by every step. *)
LEMMA BuildStep == ASSUME BuildHolds, [BuildNext]_buildVars PROVE BuildHolds'
<1>1. CASE UNCHANGED buildVars
  BY <1>1, OthersMove DEF buildVars, BuildHolds, BuildTypeOK, Databases
<1>2. CASE \E r \in Runs, trial \in BOOLEAN : End(r) \/ Begin(r, trial)
  BY <1>2, Comes
<1>3. CASE \E r \in Runs : Resume(r) \/ Ingest(r) \/ CopyMedia(r)
  BY <1>3, Resumes, Ingests, Copies
<1>4. CASE \E r \in Runs : BeginProxy(r) \/ RenderProxy(r) \/ PublishProxy(r) \/ TakeProxy(r)
  BY <1>4, BeginsProxy, Walks, PublishesProxy, TakesProxy
<1>5. CASE \E r \in Runs : CreateDatabase(r) \/ InitializeProject(r) \/ ImportMedia(r) \/ RegisterProxy(r)
  BY <1>5, Walks, Initializes, Imports, Registers
<1>6. CASE \E r \in Runs : EnsureJob(r) \/ StartJob(r) \/ SucceedJob(r) \/ FailJob(r) \/ Answer(r)
  BY <1>6, Ensures, Starts, Succeeds, Fails, AnswersGiven
<1>7. CASE \E r \in Runs, output \in Outputs : CommitTranscript(r, output)
  BY <1>7, Commits
<1>8. CASE ReplaceSource \/ EditProject
  BY <1>8, OthersStep
<1>9. BuildNext => \/ \E r \in Runs, trial \in BOOLEAN : End(r) \/ Begin(r, trial)
                   \/ \E r \in Runs : Resume(r) \/ Ingest(r) \/ CopyMedia(r)
                   \/ \E r \in Runs : BeginProxy(r) \/ RenderProxy(r) \/ PublishProxy(r) \/ TakeProxy(r)
                   \/ \E r \in Runs : CreateDatabase(r) \/ InitializeProject(r) \/ ImportMedia(r) \/ RegisterProxy(r)
                   \/ \E r \in Runs : EnsureJob(r) \/ StartJob(r) \/ SucceedJob(r) \/ FailJob(r) \/ Answer(r)
                   \/ \E r \in Runs, output \in Outputs : CommitTranscript(r, output)
                   \/ ReplaceSource \/ EditProject
  BY Zenon DEF BuildNext
<1> QED
  BY <1>1, <1>2, <1>3, <1>4, <1>5, <1>6, <1>7, <1>8, <1>9

-----------------------------------------------------------------------------
(* What holds at every step of building a project: what it has registered,  *)
(* what each run has found so far, who transcribes, and what was answered.  *)
THEOREM BuildInvariant == BuildSpec => []BuildHolds
  BY BuildStart, BuildStep, PTL DEF BuildSpec

(* The variables have their types. *)
THEOREM BuildTyped == BuildSpec => []BuildTypeOK
<1>1. BuildHolds => BuildTypeOK
  BY DEF BuildHolds
<1> QED
  BY <1>1, BuildInvariant, PTL

(* The managed copy is the recording that is registered, and the proxy the  *)
(* one that was hashed when it was (ingestMedia, ensureBrowserPreviewProxy). *)
THEOREM RegisteredIsThere == BuildSpec => []FilesAsRegistered
<1>1. BuildHolds => FilesAsRegistered
  BY DEF BuildHolds, ProjectHolds, FilesAsRegistered
<1> QED
  BY <1>1, BuildInvariant, PTL

(* A finished run has answered with the transcript of its recording, which  *)
(* is the project's and stays (assessProjectResume, result).                *)
THEOREM AnswersStand == BuildSpec => []ResultStands
<1>1. BuildHolds => ResultStands
  BY DEF BuildHolds
<1> QED
  BY <1>1, BuildInvariant, PTL

(* One run at most has the recording transcribed at a time, and the         *)
(* transcript is of the project's recording (ensureAsrJob, startAsrJob).    *)
THEOREM OneTranscription == BuildSpec => []TranscribedOnce
<1>1. ASSUME BuildHolds PROVE TranscribedOnce
  <2> DEFINE holding == {r \in Runs : run[r].pc \in {"transcribing", "committed"}}
  <2>1. Cardinality(holding) <= 1
    <3>1. CASE holding = {}
      BY <3>1, FS_EmptySet
    <3>2. CASE holding # {}
      <4>1. PICK r \in Runs : r \in holding
        BY <3>2
      <4>2. holding = {r}
        BY <1>1, <4>1 DEF BuildHolds, OneTranscribes
      <4> HIDE DEF holding
      <4> QED
        BY <4>2, FS_Singleton
    <3> QED
      BY <3>1, <3>2
  <2>2. job.attempt <= MaxAttempts
    BY <1>1, ProjectNumbers DEF BuildHolds, BuildTypeOK
  <2> QED
    BY <1>1, <2>1, <2>2 DEF BuildHolds, ProjectHolds, TranscribedOnce
<1> QED
  BY <1>1, BuildInvariant, PTL

-----------------------------------------------------------------------------
(***************************************************************************)
(* The credential file and the table of rotations meet again after any      *)
(* crash, for any browsers, requests and bounds.  RotationsChained is made  *)
(* inductive by what the file says of its last rotation (FileHolds): the    *)
(* row that is missing from the table can be told from the file alone, and  *)
(* no request in the table has its id.  Everything the daemon does begins   *)
(* with adding that row, and what it does then it does to a table and a     *)
(* file that agree (Synchronizes); a rotation puts the file one ahead       *)
(* again (RotatesOnce).                                                     *)
(***************************************************************************)

Chained(rows) ==
  \A i \in 1 .. Len(rows) :
    /\ rows[i].generation = i
    /\ rows[i].previous = i - 1 /\ rows[i].by = i - 1
    /\ RotationOf(rows, rows[i].request) = {i}

(* File and table agree. *)
Agree(rows) ==
  /\ rows \in Seq(Rotation) /\ Chained(rows)
  /\ Len(rows) = credential.generation
  /\ rows # <<>> => rows[Len(rows)] = credential.last

(* A row stays as it was recorded. *)
Kept == \A i \in DOMAIN rotations : i \in DOMAIN rotations' /\ rotations'[i] = rotations[i]

(* One row more. *)
LEMMA Rows == ASSUME NEW rows \in Seq(Rotation), NEW q
              PROVE  /\ Len(rows) \in Nat /\ DOMAIN rows = 1 .. Len(rows)
                     /\ \A i \in 1 .. Len(rows) : rows[i] \in Rotation
                     /\ RotationOf(rows, q) = {i \in 1 .. Len(rows) : rows[i].request = q}
  BY DEF RotationOf

(* A row with a request of its own continues the chain. *)
LEMMA OneMore ==
  ASSUME NEW rows \in Seq(Rotation), Chained(rows), NEW row \in Rotation,
         row.generation = Len(rows) + 1, row.previous = Len(rows), row.by = Len(rows),
         RotationOf(rows, row.request) = {}
  PROVE  /\ Append(rows, row) \in Seq(Rotation) /\ Len(Append(rows, row)) = Len(rows) + 1
         /\ Append(rows, row)[Len(rows) + 1] = row
         /\ \A i \in 1 .. Len(rows) : Append(rows, row)[i] = rows[i]
         /\ Chained(Append(rows, row))
<1> DEFINE more == Append(rows, row)
           n == Len(rows) + 1
<1>1. /\ more \in Seq(Rotation) /\ Len(more) = n /\ n \in Nat /\ Len(rows) \in Nat
      /\ more[n] = row /\ \A i \in 1 .. Len(rows) : more[i] = rows[i]
  OBVIOUS
<1>2. \A i \in 1 .. Len(rows) : rows[i].request # row.request
  BY Rows
<1>3. ASSUME NEW i \in 1 .. n PROVE RotationOf(more, more[i].request) = {i}
  <2>1. RotationOf(more, more[i].request) = {k \in 1 .. n : more[k].request = more[i].request}
    BY <1>1, Rows
  <2>2. CASE i = n
    <3>1. \A k \in 1 .. n : k # n => more[k].request # more[n].request
      BY <1>1, <1>2
    <3> QED
      BY <1>1, <2>1, <2>2, <3>1
  <2>3. CASE i \in 1 .. Len(rows)
    <3>1. RotationOf(rows, rows[i].request) = {i}
      BY <2>3 DEF Chained
    <3>2. \A k \in 1 .. Len(rows) : rows[k].request = rows[i].request => k = i
      BY <2>3, <3>1, Rows
    <3>3. more[n].request # more[i].request
      BY <1>1, <1>2, <2>3
    <3>4. \A k \in 1 .. n : more[k].request = more[i].request => k = i
      BY <1>1, <2>3, <3>2, <3>3
    <3> QED
      BY <1>1, <2>1, <2>3, <3>4
  <2>4. i = n \/ i \in 1 .. Len(rows)
    BY <1>1, <1>3
  <2> QED
    BY <2>2, <2>3, <2>4
<1> HIDE DEF more
<1>4. Chained(more)
  <2>1. ASSUME NEW i \in 1 .. n PROVE more[i].generation = i /\ more[i].previous = i - 1 /\ more[i].by = i - 1
    <3>1. CASE i = n
      BY <1>1, <3>1
    <3>2. CASE i \in 1 .. Len(rows)
      BY <1>1, <3>2 DEF Chained
    <3> QED
      BY <1>1, <3>1, <3>2
  <2> QED
    BY <1>1, <1>3, <2>1 DEF Chained
<1> QED
  BY <1>1, <1>4 DEF more

(* The table is a chain, and any request in it is in one row. *)
LEMMA ChainedTable == ASSUME CredentialTypeOK, RotationsChained PROVE Chained(rotations)
  BY Rows DEF CredentialTypeOK, RotationsChained, Chained

(* synchronizeUiCredentialRotation: file and table agree after it, and no row *)
(* is changed.                                                               *)
LEMMA Synchronizes ==
  ASSUME AccessHolds, Readable
  PROVE  /\ Agree(Synchronized)
         /\ \A i \in DOMAIN rotations : i \in DOMAIN Synchronized /\ Synchronized[i] = rotations[i]
<1> DEFINE last == credential.last
           n == Len(rotations)
<1>0. n \in Nat
  BY DEF AccessHolds, CredentialTypeOK
<1>1. /\ rotations \in Seq(Rotation) /\ Chained(rotations) /\ n \in Nat /\ DOMAIN rotations = 1 .. n
      /\ credential.generation \in {n, n + 1}
      /\ credential.generation = n /\ rotations # <<>> => rotations[n] = last
  BY ChainedTable, Rows DEF AccessHolds, CredentialTypeOK, RotationsChained, Last
<1>2. CASE credential.generation = 0
  <2>1. last = Nothing /\ n = 0
    BY <1>1, <1>2 DEF AccessHolds, FileHolds
  <2>2. Synchronized = rotations
    BY <2>1 DEF Synchronized
  <2> QED
    BY <1>1, <1>2, <2>1, <2>2 DEF Agree
<1>3. CASE credential.generation > 0
  <2>1. /\ last \in Rotation /\ last.generation = credential.generation
        /\ last.previous = credential.generation - 1 /\ last.by = credential.generation - 1
    BY <1>3 DEF AccessHolds, FileHolds
  <2>2. Synchronized = Recorded(rotations, last)
    BY <2>1, NothingAssumption DEF Synchronized
  <2>3. CASE credential.generation = n
    <3>1. rotations[n] = last /\ n \in 1 .. n
      BY <1>1, <1>3, <2>3
    <3>2. n \in RotationOf(rotations, last.request)
      BY <1>1, <3>1, Rows
    <3>3. Synchronized = rotations
      BY <2>2, <3>2 DEF Recorded
    <3> QED
      BY <1>1, <2>3, <3>1, <3>3 DEF Agree
  <2>4. CASE credential.generation = n + 1
    <3>0. credential.generation > Len(rotations)
      <4>1. \A m \in Nat : \A g : g = m + 1 => g > m
        OBVIOUS
      <4> QED
        BY <1>0, <2>4, <4>1
    <3>1. RotationOf(rotations, last.request) = {}
      BY <3>0 DEF AccessHolds, FileHolds
    <3>2. Synchronized = Append(rotations, last)
      BY <2>2, <3>1 DEF Recorded
    <3>3. last.generation = n + 1 /\ last.previous = n /\ last.by = n
      BY <1>0, <2>1, <2>4
    <3> HIDE DEF last, n
    <3>4. /\ Synchronized \in Seq(Rotation) /\ Len(Synchronized) = n + 1
          /\ Synchronized[n + 1] = last
          /\ \A i \in 1 .. n : Synchronized[i] = rotations[i]
          /\ Chained(Synchronized)
      BY <1>1, <2>1, <3>1, <3>2, <3>3, OneMore DEF n
    <3> QED
      BY <1>1, <2>4, <3>4 DEF Agree, last
  <2> QED
    BY <1>1, <2>3, <2>4
<1> QED
  BY <1>1, <1>2, <1>3

(* Where they agree and the file is as it was, everything holds again. *)
LEMMA AgreedHolds ==
  ASSUME AccessHolds, Readable, Agree(rotations'), credential' = credential,
         studio' = "creating" => studio = "creating",
         asked' \in [Browsers -> Requests \cup {Nothing}]
  PROVE  AccessHolds'
<1>1. Len(rotations') = credential'.generation /\ Len(rotations') \in Nat
  BY DEF Agree
<1>2. CredentialTypeOK'
  BY DEF AccessHolds, CredentialTypeOK, Agree
<1>3. FileHolds'
  BY <1>1 DEF AccessHolds, FileHolds, Readable
<1>4. RotationsChained'
  BY <1>1, Rows DEF Agree, Chained, RotationsChained, RotationOf, Last, Readable
<1> QED
  BY <1>2, <1>3, <1>4 DEF AccessHolds
(* rotateUiCredentialFile is only reached with a request that is not on      *)
(* record, of a session of the token that is replaced.                       *)
Row(b) == [request |-> asked[b], generation |-> credential.generation + 1,
           previous |-> credential.generation, by |-> credential.generation]

(* A rotation puts the file one ahead of the table, and says which row is missing. *)
LEMMA RotatesOnce ==
  ASSUME AccessHolds, NEW b \in Browsers, MayRotate(b)
  PROVE  /\ Rotated(b) = Written(credential.generation + 1, Row(b)) /\ Row(b) \in Rotation
         /\ credential.generation \in Nat
         /\ RotationOf(Synchronized, asked[b]) = {}
<1>1. credential.generation \in Nat /\ asked[b] \in Requests /\ Readable
      /\ cookie[b].token = credential.generation
  BY DEF MayRotate, Authenticated, RequiredUiCredential, MaySynchronize, AccessHolds, CredentialTypeOK
<1>2. Agree(Synchronized) /\ RotationOf(Synchronized, asked[b]) = {}
  BY <1>1, Synchronizes DEF MayRotate
<1>3. ~(credential.last # Nothing /\ credential.last.request = asked[b])
  <2>1. CASE credential.generation = 0
    BY <1>1, <2>1 DEF AccessHolds, FileHolds
  <2>2. CASE credential.generation > 0
    <3> DEFINE rows == Synchronized
               n == credential.generation
    <3>1. rows \in Seq(Rotation) /\ Len(rows) = n /\ rows[n] = credential.last /\ n \in 1 .. Len(rows)
      BY <1>1, <1>2, <2>2 DEF Agree
    <3>2. rows[n].request # asked[b]
      BY <1>2, <3>1, Rows
    <3> QED
      BY <3>1, <3>2
  <2> QED
    BY <1>1, <2>1, <2>2
<1>4. Rotated(b) = Written(credential.generation + 1, Row(b))
  BY <1>1, <1>3 DEF Rotated, Row
<1>5. Row(b) \in Rotation
  BY <1>1 DEF Row, Rotation
<1> QED
  BY <1>1, <1>2, <1>4, <1>5

(* The invariant after it. *)
LEMMA RotatedHolds ==
  ASSUME AccessHolds, NEW b \in Browsers, MayRotate(b), credential' = Rotated(b),
         rotations' \in {Synchronized, Recorded(Synchronized, Rotated(b).last)},
         studio' = "creating" => studio = "creating",
         asked' \in [Browsers -> Requests \cup {Nothing}]
  PROVE  AccessHolds' /\ Kept
<1> DEFINE n == credential.generation
           rows == Synchronized
<1>1. /\ Readable /\ studio # "creating" /\ n \in Nat /\ Row(b) \in Rotation
      /\ credential' = Written(n + 1, Row(b)) /\ Rotated(b).last = Row(b)
      /\ RotationOf(rows, asked[b]) = {}
  BY RotatesOnce DEF MayRotate, RequiredUiCredential, MaySynchronize, Written
<1>2. /\ rows \in Seq(Rotation) /\ Chained(rows) /\ Len(rows) = n
      /\ \A i \in DOMAIN rotations : i \in DOMAIN rows /\ rows[i] = rotations[i]
  BY <1>1, Synchronizes DEF Agree
<1>3. /\ Row(b).generation = n + 1 /\ Row(b).previous = n /\ Row(b).by = n /\ Row(b).request = asked[b]
  BY DEF Row
<1>4. /\ credential'.state = "written" /\ credential'.generation = n + 1 /\ credential'.last = Row(b)
      /\ Readable'
  BY <1>1 DEF Written, Readable
<1> DEFINE more == Append(rows, Row(b))
<1>5. /\ more \in Seq(Rotation) /\ Len(more) = n + 1 /\ more[n + 1] = Row(b)
      /\ \A i \in 1 .. n : more[i] = rows[i]
      /\ Chained(more)
  BY <1>1, <1>2, <1>3, OneMore
<1>6. rotations' = rows \/ rotations' = more
  BY <1>1, <1>3 DEF Recorded
<1> HIDE DEF rows, more
<1>7. credential' \in [state : {"missing", "opened", "written"}, generation : Nat, last : Rotation \cup {Nothing}]
  BY <1>1 DEF Written
<1>8. CredentialTypeOK'
  BY <1>2, <1>5, <1>6, <1>7 DEF CredentialTypeOK
<1>9. CASE rotations' = rows
  <2>1. FileHolds'
    BY <1>1, <1>2, <1>3, <1>4, <1>9 DEF FileHolds, Readable, RotationOf
  <2>2. RotationsChained'
    BY <1>1, <1>2, <1>3, <1>4, <1>9, Rows DEF RotationsChained, Chained, RotationOf, Readable, Last
  <2> QED
    BY <1>2, <1>8, <1>9, <2>1, <2>2 DEF AccessHolds, Kept
<1>10. CASE rotations' = more
  <2>1. FileHolds'
    BY <1>1, <1>3, <1>4, <1>5, <1>10 DEF FileHolds, Readable, RotationOf
  <2>2. RotationsChained'
    BY <1>1, <1>3, <1>4, <1>5, <1>10, Rows DEF RotationsChained, Chained, RotationOf, Readable, Last
  <2>3. DOMAIN rows = 1 .. n /\ DOMAIN more = 1 .. n + 1 /\ \A i \in 1 .. n : i \in 1 .. n + 1
    BY <1>1, <1>2, <1>5, Rows
  <2>4. \A i \in DOMAIN rotations : i \in DOMAIN more /\ more[i] = rotations[i]
    BY <1>2, <1>5, <2>3
  <2> QED
    BY <1>8, <1>10, <2>1, <2>2, <2>4 DEF AccessHolds, Kept
<1> QED
  BY <1>6, <1>9, <1>10

-----------------------------------------------------------------------------

(* The invariant holds at first, *)
LEMMA AccessStart == ASSUME AccessInit PROVE AccessHolds
<1>1. credential = [state |-> "missing", generation |-> 0, last |-> Nothing]
      /\ rotations = <<>> /\ studio = "down" /\ asked = [b \in Browsers |-> Nothing]
  BY DEF AccessInit, Unwritten
<1>2. ~Readable
  BY <1>1 DEF Readable
<1> QED
  BY <1>1, <1>2 DEF AccessHolds, CredentialTypeOK, FileHolds, RotationsChained, RotationOf

(* and is kept by every step, which only adds to the table. *)
LEMMA AccessStep == ASSUME AccessHolds, [AccessNext]_accessVars PROVE AccessHolds' /\ Kept
<1> DEFINE Waiting == [Browsers -> Requests \cup {Nothing}]
<1>0. asked \in Waiting /\ [b \in Browsers |-> Nothing] \in Waiting
  BY DEF AccessHolds, CredentialTypeOK
<1>1. CASE UNCHANGED <<credential, rotations>> /\ studio' # "creating" /\ asked' \in Waiting
  BY <1>1 DEF AccessHolds, CredentialTypeOK, FileHolds, RotationsChained, RotationOf, Readable, Last, Kept
<1>2. CASE UNCHANGED accessVars
  BY <1>2 DEF accessVars, AccessHolds, CredentialTypeOK, FileHolds, RotationsChained, RotationOf,
     Readable, Last, Kept
<1>3. CASE CreateCredential
  <2>1. credential' = [state |-> "opened", generation |-> 0, last |-> Nothing] /\ rotations = <<>>
        /\ UNCHANGED <<rotations, asked>>
    BY <1>3 DEF CreateCredential, Unwritten, AccessHolds, FileHolds, Readable
  <2>2. ~Readable'
    BY <2>1 DEF Readable
  <2> QED
    BY <1>0, <2>1, <2>2 DEF AccessHolds, CredentialTypeOK, FileHolds, RotationsChained, RotationOf, Kept
<1>4. CASE WriteCredential
  <2>1. credential' = [state |-> "written", generation |-> 0, last |-> Nothing] /\ rotations = <<>>
        /\ UNCHANGED <<rotations, asked>> /\ studio' = "starting"
    BY <1>4 DEF WriteCredential, Written, AccessHolds, FileHolds, Readable
  <2> QED
    BY <1>0, <2>1 DEF AccessHolds, CredentialTypeOK, FileHolds, RotationsChained, RotationOf, Readable, Kept
<1>5. CASE PrintPairing \/ Stop
  BY <1>0, <1>1, <1>5 DEF PrintPairing, Stop
<1>6. ASSUME NEW b \in Browsers, Expire(b) PROVE AccessHolds' /\ Kept
  BY <1>6, <1>2 DEF Expire, AccessHolds, CredentialTypeOK, FileHolds, RotationsChained, RotationOf,
     Readable, Last, Kept
<1>7. CASE /\ Readable /\ studio' # "creating" /\ credential' = credential
           /\ rotations' = Synchronized /\ asked' \in Waiting
  <2>1. Agree(rotations') /\ Kept
    BY <1>7, Synchronizes DEF Agree, Chained, RotationOf, Kept
  <2> QED
    BY <1>7, <2>1, AgreedHolds
<1>8. RequiredUiCredential => Readable /\ studio # "creating"
  BY DEF RequiredUiCredential, MaySynchronize
<1>9. CASE Serve \/ Inspect
  BY <1>0, <1>7, <1>8, <1>9 DEF Serve, Inspect, MaySynchronize
<1>10. ASSUME NEW b \in Browsers, Pair(b) \/ RefuseRotation(b) \/ ReplayRotation(b) PROVE AccessHolds' /\ Kept
  BY <1>0, <1>7, <1>8, <1>10 DEF Pair, RefuseRotation, ReplayRotation, Answered
<1>11. ASSUME NEW b \in Browsers, NEW q \in Requests, AskRotation(b, q) PROVE AccessHolds' /\ Kept
  BY <1>0, <1>7, <1>8, <1>11 DEF AskRotation
<1>12. ASSUME NEW b \in Browsers, Rotate(b) PROVE AccessHolds' /\ Kept
  <2>1. MayRotate(b) /\ credential' = Rotated(b) /\ rotations' = Recorded(Synchronized, Rotated(b).last)
        /\ studio' = studio /\ asked' \in Waiting
    BY <1>0, <1>12 DEF Rotate, Answered
  <2> QED
    BY <2>1, RotatedHolds
<1>13. ASSUME NEW b \in Browsers, RotateUnrecorded(b) PROVE AccessHolds' /\ Kept
  <2>1. MayRotate(b) /\ credential' = Rotated(b) /\ rotations' = Synchronized
        /\ studio' \in {studio, "down"} /\ asked' \in Waiting
    BY <1>0, <1>13 DEF RotateUnrecorded, Answered
  <2> QED
    BY <2>1, RotatedHolds
<1> QED
  BY <1>2, <1>3, <1>4, <1>5, <1>6, <1>9, <1>10, <1>11, <1>12, <1>13 DEF AccessNext

-----------------------------------------------------------------------------
(* The file and the table are what they should be at every moment, crashes   *)
(* and failed writes between the two included.                               *)
THEOREM AccessInvariant == AccessSpec => []AccessHolds
<1>1. AccessInit => AccessHolds
  BY AccessStart
<1>2. AccessHolds /\ [AccessNext]_accessVars => AccessHolds'
  BY AccessStep
<1> QED
  BY <1>1, <1>2, PTL DEF AccessSpec

(* The state of the credential and its table is what it is declared to be.   *)
THEOREM AccessTyped == AccessSpec => []CredentialTypeOK
<1>1. AccessHolds => CredentialTypeOK
  BY DEF AccessHolds
<1> QED
  BY AccessInvariant, <1>1, PTL

(* The table tells without a gap which request replaced which token, once    *)
(* and under a session of that token; the file is at its last row or one     *)
(* ahead: for any number of browsers, requests and rotations.                *)
THEOREM RotationsAreChained == AccessSpec => []RotationsChained
<1>1. AccessHolds => RotationsChained
  BY DEF AccessHolds
<1> QED
  BY AccessInvariant, <1>1, PTL

(* recordUiCredentialRotation only adds: no row is changed or taken back.    *)
THEOREM RotationsAreKept == AccessSpec => [][Kept]_accessVars
<1>1. AccessHolds /\ [AccessNext]_accessVars => [Kept]_accessVars
  BY AccessStep
<1> QED
  BY AccessInvariant, <1>1, PTL DEF AccessSpec

-----------------------------------------------------------------------------
(***************************************************************************)
(* What the page of the Studio keeps true, for any candidates, presets and  *)
(* bounds.  AsShown is not inductive: a request is right when it takes      *)
(* effect because it was when it was sent, and it was because the tick goes *)
(* when the revision on the page does; what is played is the answer to the  *)
(* last request because no number is under way twice.  NoBlindRepeat needs  *)
(* to know that the buttons for an export are only there when nothing is    *)
(* unheard of.                                                              *)
(***************************************************************************)

(* The scopes, the idle call and the updates of a call have their types. *)
LEMMA Scoped == Scopes = {"project-write", "export-create"}
  BY DEF Scopes

(* Each conjunct of PageHolds is shown to survive a step by itself.         *)
LEMMA StudioNumbers == MaxRevision \in Nat /\ MaxSent \in Nat /\ MaxPreviews \in Nat
  BY StudioBounds

LEMMA IdleIsCall == Idle \in Calls /\ Idle.at = "idle"
  BY StudioNumbers, 0 \in 0 .. MaxSent DEF Idle, Calls

LEMMA OtherCalls == ASSUME NEW c \in Calls, NEW at \in {"idle", "sent", "answered", "unknown"}
                    PROVE  [c EXCEPT !.at = at] \in Calls /\ [c EXCEPT !.at = at].at = at
  BY DEF Calls

LEMMA SentCall == ASSUME NEW c \in Calls, NEW id \in 0 .. MaxSent
                  PROVE  /\ [c EXCEPT !.at = "sent", !.id = id] \in Calls
                         /\ [c EXCEPT !.at = "sent", !.id = id].at = "sent"
                         /\ [c EXCEPT !.at = "sent", !.id = id].id = id
  BY DEF Calls

LEMMA AnsweredCall == ASSUME NEW c \in Calls, NEW result \in {"ok", "refused", "conflict"}, NEW view \in Nat
                      PROVE  [c EXCEPT !.at = "answered", !.result = result, !.view = view] \in Calls
  BY DEF Calls

(* What is asked for, and the registry after an answer, have their types. *)
LEMMA AskedWrite == ASSUME PageTypeOK, NEW scope \in Scopes, NEW what \in Asks(scope),
                           NEW ticket \in Tickets(scope, what), sent' <= MaxSent,
                           sent' = IF ticket.id > sent THEN ticket.id ELSE sent
                    PROVE  /\ ticket \in Writes /\ sent' \in 0 .. MaxSent
                           /\ ticket.base = shown /\ ticket.what = what
<1>1. CASE tickets[scope] = Unset
  <2>1. ticket = [what |-> what, base |-> shown, id |-> sent + 1]
    BY <1>1 DEF Tickets
  <2>2. ticket.id = sent + 1 /\ sent + 1 <= MaxSent /\ sent' = sent + 1
    BY <2>1, StudioNumbers DEF PageTypeOK
  <2> QED
    BY <2>1, <2>2, StudioNumbers DEF PageTypeOK, Writes
<1>2. CASE tickets[scope] # Unset
  <2>1. ticket = tickets[scope] /\ tickets[scope].what = what /\ tickets[scope].base = shown
    BY <1>2 DEF Tickets
  <2>2. ticket \in Writes
    BY <1>2, <2>1 DEF PageTypeOK
  <2> QED
    BY <2>1, <2>2, StudioNumbers DEF PageTypeOK, Writes
<1> QED
  BY <1>1, <1>2

LEMMA ConfirmedWrites == ASSUME PageTypeOK, NEW scope \in Scopes
                         PROVE  Confirmed(scope) \in [Scopes -> {Unset} \cup Writes]
  BY DEF Confirmed, PageTypeOK

LEMMA NoWrites == [s \in Scopes |-> Unset] \in [Scopes -> {Unset} \cup Writes]
                  /\ [s \in Scopes |-> {}] \in [Scopes -> SUBSET (0 .. MaxSent)]
  OBVIOUS

(* A review that is shown or read, and one that cannot be, keep the types. *)
LEMMA ShowTypes == ASSUME PageTypeOK, NEW rev \in Nat, NEW open \in [Scopes -> {Unset} \cup Writes], Show(rev, open)
                   PROVE  /\ shown' \in Nat /\ screen' \in {"review", "error"}
                          /\ tickets' \in [Scopes -> {Unset} \cup Writes]
                          /\ ticked' \in {Unset} \cup [candidate : HighRisk, on : Nat]
  BY NoWrites DEF Show, PageTypeOK

LEMMA ReadTypes == ASSUME PageTypeOK, NEW open \in [Scopes -> {Unset} \cup Writes],
                          Read(open) \/ (Unreadable /\ tickets' = open)
                   PROVE  /\ shown' \in Nat /\ screen' \in {"review", "error"} /\ revived' \in BOOLEAN
                          /\ tickets' \in [Scopes -> {Unset} \cup Writes]
                          /\ unheard' \in [Scopes -> SUBSET (0 .. MaxSent)]
                          /\ ticked' \in {Unset} \cup [candidate : HighRisk, on : Nat]
  BY NoWrites, ShowTypes DEF Read, Told, Unreadable, PageTypeOK

(* Each conjunct of PageHolds is shown to survive a step by itself.         *)
LEMMA PageInit == ASSUME StudioInit PROVE PageHolds
<1>1. PageTypeOK
  BY StudioNumbers, 0 \in 0 .. MaxSent, NoWrites, IdleIsCall DEF StudioInit, PageTypeOK
<1> QED
  BY <1>1, IdleIsCall, StudioNumbers DEF StudioInit, PageHolds, TickIsCurrent, RiskySeen,
     PlayedIsAwaited, NothingUnheard, NoBlindRepeat, Scopes

(* Every step keeps the types. *)
LEMMA TypeStep == ASSUME PageTypeOK, [StudioNext]_pageVars PROVE PageTypeOK'
<1>1. CASE Reread
  BY <1>1, ReadTypes DEF Reread, project_, PageTypeOK
<1>2. CASE Reload
  BY <1>2, NoWrites, IdleIsCall, StudioNumbers DEF Reload, Told, project_, PageTypeOK
<1>3. CASE Select
  BY <1>3 DEF Select, project_, writing, PageTypeOK
<1>4. CASE Elsewhere
  BY <1>4 DEF Elsewhere, writing, viewing, PageTypeOK
<1>5. ASSUME NEW c \in HighRisk, Tick(c) PROVE PageTypeOK'
  BY <1>5 DEF Tick, project_, writing, PageTypeOK
<1>6. ASSUME NEW scope \in Scopes, NEW what \in Asks(scope), Ask(scope, what) PROVE PageTypeOK'
  <2>1. ASSUME NEW ticket \in Tickets(scope, what), Send(scope, ticket)
        PROVE  /\ sent' \in 0 .. MaxSent /\ tickets' \in [Scopes -> {Unset} \cup Writes]
               /\ calls' \in [Scopes -> Calls]
    <3>1. ticket \in Writes /\ sent' \in 0 .. MaxSent
      BY <2>1, AskedWrite DEF Send
    <3>2. ticket.id \in 0 .. MaxSent
      BY <3>1, StudioNumbers DEF Writes
    <3>3. [Idle EXCEPT !.at = "sent", !.id = ticket.id] \in Calls
      BY <3>2, IdleIsCall, SentCall
    <3> QED
      BY <2>1, <3>1, <3>3 DEF Send, PageTypeOK
  <2>2. ASSUME Withheld(scope)
        PROVE  /\ sent' \in 0 .. MaxSent /\ tickets' \in [Scopes -> {Unset} \cup Writes]
               /\ calls' \in [Scopes -> Calls]
    BY <2>2, IdleIsCall, OtherCalls DEF Withheld, PageTypeOK
  <2>3. /\ sent' \in 0 .. MaxSent /\ tickets' \in [Scopes -> {Unset} \cup Writes]
        /\ calls' \in [Scopes -> Calls]
    BY <1>6, <2>1, <2>2 DEF Ask
  <2> QED
    BY <1>6, <2>3 DEF Ask, PageTypeOK
<1>7. ASSUME NEW scope \in Scopes, Hear(scope) PROVE PageTypeOK'
  <2>1. calls' \in [Scopes -> Calls]
    BY <1>7, IdleIsCall, StudioNumbers DEF Hear, Settled, PageTypeOK
  <2>2. calls[scope].view \in Nat
    BY DEF PageTypeOK, Calls
  <2>3. CASE scope = "project-write" /\ calls[scope].result = "ok"
    BY <1>7, <2>1, <2>2, <2>3, ShowTypes, ConfirmedWrites DEF Hear, project_, PageTypeOK
  <2>4. CASE scope = "project-write" /\ calls[scope].result = "conflict"
    BY <1>7, <2>1, <2>4, ReadTypes, ConfirmedWrites DEF Hear, project_, PageTypeOK
  <2>5. CASE ~(scope = "project-write" /\ calls[scope].result \in {"ok", "conflict"})
    BY <1>7, <2>1, <2>5, ConfirmedWrites DEF Hear, project_, PageTypeOK
  <2> QED
    BY <2>3, <2>4, <2>5
<1>8. ASSUME NEW scope \in Scopes, Lose(scope) PROVE PageTypeOK'
  <2>1. calls' \in [Scopes -> Calls]
    BY <1>8, IdleIsCall, OtherCalls DEF Lose, PageTypeOK
  <2>2. unheard' \in [Scopes -> SUBSET (0 .. MaxSent)]
    BY <1>8 DEF Lose, Missed, PageTypeOK, Calls
  <2> QED
    BY <1>8, <2>1, <2>2 DEF Lose, viewing, PageTypeOK
<1>9. ASSUME NEW scope \in Scopes, Recover(scope) PROVE PageTypeOK'
  <2>1. calls' \in [Scopes -> Calls]
    BY <1>9, IdleIsCall, StudioNumbers DEF Recover, Settled, PageTypeOK
  <2>2. [tickets EXCEPT ![scope] = Unset] \in [Scopes -> {Unset} \cup Writes]
    BY DEF PageTypeOK
  <2>3. PICK open \in [Scopes -> {Unset} \cup Writes] : Read(open) \/ (Unreadable /\ tickets' = open)
    BY <1>9, <2>2 DEF Recover, PageTypeOK
  <2> QED
    BY <1>9, <2>1, <2>3, ReadTypes DEF Recover, project_, PageTypeOK
<1>10. ASSUME NEW m \in mail, Receive(m) PROVE PageTypeOK'
  <2>1. revision' \in Nat
    BY <1>10 DEF Receive, PageTypeOK
  <2>2. ASSUME NEW result \in {"ok", "refused", "conflict"}, Reply(m, result)
        PROVE  calls' \in [Scopes -> Calls]
    <3>1. CASE calls' = calls
      BY <3>1 DEF PageTypeOK
    <3>2. CASE calls' = [calls EXCEPT ![m.scope] =
                 [calls[m.scope] EXCEPT !.at = "answered", !.result = result, !.view = revision']]
      <4>1. ASSUME m.scope \in Scopes
            PROVE  [calls[m.scope] EXCEPT !.at = "answered", !.result = result, !.view = revision'] \in Calls
        BY <2>1, <4>1, AnsweredCall DEF PageTypeOK
      <4> QED
        BY <3>2, <4>1 DEF PageTypeOK
    <3> QED
      BY <2>2, <3>1, <3>2 DEF Reply
  <2>3. calls' \in [Scopes -> Calls]
    BY <1>10, <2>2 DEF Receive
  <2> QED
    BY <1>10, <2>1, <2>3 DEF Receive, viewing, PageTypeOK
<1>11. ASSUME NEW n \in 1 .. MaxPreviews, AskPreview(n) PROVE PageTypeOK'
  BY <1>11 DEF AskPreview, project_, writing, PageTypeOK
<1>12. ASSUME NEW p \in previews, HearPreview(p) PROVE PageTypeOK'
  BY <1>12, ReadTypes DEF HearPreview, project_, writing, PageTypeOK
<1>13. CASE UNCHANGED pageVars
  BY <1>13 DEF pageVars, project_, writing, viewing, PageTypeOK
<1> QED
  BY <1>1, <1>2, <1>3, <1>4, <1>5, <1>6, <1>7, <1>8, <1>9, <1>10, <1>11, <1>12, <1>13 DEF StudioNext

(* The tick goes when another revision is shown. *)
LEMMA ShowTicks == ASSUME TickIsCurrent, NEW rev, NEW open, Show(rev, open) PROVE TickIsCurrent'
  BY DEF TickIsCurrent, Show

LEMMA ReadTicks == ASSUME TickIsCurrent, NEW open, Read(open) \/ Unreadable PROVE TickIsCurrent'
  BY ShowTicks DEF TickIsCurrent, Read, Unreadable

(* And nothing else puts it on another revision. *)
LEMMA TickStep == ASSUME PageTypeOK, TickIsCurrent, [StudioNext]_pageVars PROVE TickIsCurrent'
<1>1. CASE Reread
  BY <1>1, ReadTicks DEF Reread
<1>2. CASE Reload \/ Select \/ Elsewhere \/ UNCHANGED pageVars
  BY <1>2 DEF Reload, Select, Elsewhere, viewing, pageVars, TickIsCurrent
<1>3. ASSUME NEW c \in HighRisk, Tick(c) PROVE TickIsCurrent'
  BY <1>3 DEF Tick, TickIsCurrent
<1>4. ASSUME NEW scope \in Scopes, NEW what \in Asks(scope), Ask(scope, what) PROVE TickIsCurrent'
  BY <1>4 DEF Ask, TickIsCurrent
<1>5. ASSUME NEW scope \in Scopes, Hear(scope) PROVE TickIsCurrent'
  BY <1>5, ShowTicks, ReadTicks DEF Hear, TickIsCurrent
<1>6. ASSUME NEW scope \in Scopes, Lose(scope) \/ Recover(scope) PROVE TickIsCurrent'
  BY <1>6, ReadTicks DEF Lose, Recover, viewing, TickIsCurrent
<1>7. ASSUME NEW m \in mail, Receive(m) PROVE TickIsCurrent'
  BY <1>7 DEF Receive, viewing, TickIsCurrent
<1>8. ASSUME NEW n \in 1 .. MaxPreviews, AskPreview(n) PROVE TickIsCurrent'
  BY <1>8 DEF AskPreview, TickIsCurrent
<1>9. ASSUME NEW p \in previews, HearPreview(p) PROVE TickIsCurrent'
  BY <1>9, ReadTicks DEF HearPreview, TickIsCurrent
<1> QED
  BY <1>1, <1>2, <1>3, <1>4, <1>5, <1>6, <1>7, <1>8, <1>9 DEF StudioNext

(* A request is written when its tick is of the review shown, whose revision *)
(* it names; it takes effect where it names the project's.                   *)
LEMMA RiskyStep == ASSUME PageTypeOK, TickIsCurrent, RiskySeen, [StudioNext]_pageVars PROVE RiskySeen'
<1>1. CASE UNCHANGED <<mail, taken>>
  BY <1>1 DEF RiskySeen, Risky
<1>2. ASSUME NEW scope \in Scopes, NEW what \in Asks(scope), Ask(scope, what) PROVE RiskySeen'
  <2>1. CASE Withheld(scope)
    BY <1>2, <2>1, <1>1 DEF Ask, Withheld
  <2>2. ASSUME NEW ticket \in Tickets(scope, what), Send(scope, ticket) PROVE RiskySeen'
    <3>1. ticket.base = shown /\ ticket.what = what
      BY <2>2, AskedWrite DEF Send
    <3> DEFINE seen == IF Risky(scope, ticket.what) THEN ticked.on ELSE Unset
    <3>2. Risky(scope, ticket.what) => seen = ticket.base
      BY <1>2, <3>1 DEF Ask, MayAsk, TickIsCurrent
    <3> DEFINE new == [scope |-> scope, what |-> ticket.what, base |-> ticket.base, id |-> ticket.id,
                       seen |-> seen, blind |-> unheard[scope] \ {ticket.id}]
    <3>3. mail' = mail \cup {new} /\ taken' = taken
      BY <1>2, <2>2 DEF Ask, Send
    <3>4. new.scope = scope /\ new.what = ticket.what /\ new.base = ticket.base /\ new.seen = seen
      OBVIOUS
    <3>5. Risky(new.scope, new.what) => new.seen = new.base
      BY <3>2, <3>4
    <3> HIDE DEF new
    <3> QED
      BY <3>3, <3>5 DEF RiskySeen, Risky
  <2> QED
    BY <1>2, <2>1, <2>2 DEF Ask
<1>3. ASSUME NEW scope \in Scopes, Lose(scope) PROVE RiskySeen'
  BY <1>3 DEF Lose, RiskySeen, Risky
<1>4. ASSUME NEW m \in mail, Receive(m) PROVE RiskySeen'
  <2>1. mail' \subseteq mail
    BY <1>4 DEF Receive
  <2>2. CASE taken' = taken
    BY <2>1, <2>2 DEF RiskySeen, Risky
  <2>3. CASE taken' # taken
    <3> DEFINE new == [id |-> m.id, scope |-> m.scope, what |-> m.what,
                       seen |-> m.seen, blind |-> m.blind, at |-> revision]
    <3>1. taken' = taken \cup {new} /\ m.base = revision
      BY <1>4, <2>3 DEF Receive
    <3>2. new.scope = m.scope /\ new.what = m.what /\ new.seen = m.seen /\ new.at = m.base
      BY <3>1
    <3>3. Risky(new.scope, new.what) => new.seen = new.at
      BY <1>4, <3>2 DEF RiskySeen
    <3> HIDE DEF new
    <3> QED
      BY <2>1, <3>1, <3>3 DEF RiskySeen, Risky
  <2> QED
    BY <2>2, <2>3
<1>5. StudioNext => \/ UNCHANGED <<mail, taken>>
                    \/ \E scope \in Scopes : Lose(scope) \/ \E what \in Asks(scope) : Ask(scope, what)
                    \/ \E m \in mail : Receive(m)
  BY DEF StudioNext, Reread, Reload, Select, Elsewhere, Tick, Hear, Recover, AskPreview, HearPreview, project_
<1> QED
  BY <1>1, <1>2, <1>3, <1>4, <1>5 DEF pageVars, project_

(* What is played stays the answer to the last request. *)
LEMMA PlayedStep == ASSUME PlayedIsAwaited, [StudioNext]_pageVars PROVE PlayedIsAwaited'
<1>1. CASE UNCHANGED <<previews, awaited>> /\ (played' = played \/ played' = Unset)
  BY <1>1 DEF PlayedIsAwaited
<1>2. CASE Reload \/ Select
  BY <1>2 DEF Reload, Select, PlayedIsAwaited
<1>3. ASSUME NEW scope \in Scopes, NEW what \in Asks(scope), Ask(scope, what) PROVE PlayedIsAwaited'
  BY <1>3 DEF Ask, PlayedIsAwaited
<1>4. ASSUME NEW n \in 1 .. MaxPreviews, AskPreview(n) PROVE PlayedIsAwaited'
  <2> DEFINE new == [n |-> n, base |-> shown, current |-> shown = revision]
  <2>1. previews' = previews \cup {new} /\ played' = Unset /\ \A p \in previews : p.n # n
    BY <1>4 DEF AskPreview
  <2>2. new.n = n
    OBVIOUS
  <2> HIDE DEF new
  <2> QED
    BY <2>1, <2>2 DEF PlayedIsAwaited
<1>5. ASSUME NEW p \in previews, HearPreview(p) PROVE PlayedIsAwaited'
  <2>1. previews' = previews \ {p}
    BY <1>5 DEF HearPreview
  <2>2. CASE p.n # awaited /\ UNCHANGED <<awaited, played>>
    BY <2>1, <2>2 DEF PlayedIsAwaited
  <2>3. CASE p.n = awaited /\ played' = p.n /\ UNCHANGED awaited
    BY <2>1, <2>3 DEF PlayedIsAwaited
  <2>4. CASE p.n = awaited /\ (played' = played \/ played' = Unset)
    BY <2>1, <2>4 DEF PlayedIsAwaited
  <2> QED
    BY <1>5, <2>2, <2>3, <2>4 DEF HearPreview, Read, Show, Unreadable
<1>6. StudioNext => \/ UNCHANGED <<previews, awaited>> /\ (played' = played \/ played' = Unset)
                    \/ Reload \/ Select
                    \/ \E scope \in Scopes : \E what \in Asks(scope) : Ask(scope, what)
                    \/ \E n \in 1 .. MaxPreviews : AskPreview(n)
                    \/ \E p \in previews : HearPreview(p)
  BY DEF StudioNext, Reread, Elsewhere, Tick, Hear, Lose, Recover, Receive, Read, Show, Unreadable, viewing
<1> QED
  BY <1>1, <1>2, <1>3, <1>4, <1>5, <1>6 DEF pageVars, viewing

(* Reading the review, or failing to, leaves nobody ignorant at the buttons, *)
(* whatever becomes of the call.                                             *)
LEMMA ReadUnheard == ASSUME NEW open, Read(open) \/ (Unreadable /\ NoBlindRepeat
                              /\ (calls'["export-create"].at \in {"sent", "answered"}
                                    => calls'["export-create"] = calls["export-create"]))
                     PROVE  NothingUnheard' /\ NoBlindRepeat'
<1>1. CASE Read(open)
  <2>1. unheard'["export-create"] = {}
    BY <1>1 DEF Read, Told, Scopes
  <2> QED
    BY <2>1 DEF NothingUnheard, NoBlindRepeat
<1>2. CASE ~Read(open)
  BY <1>2 DEF Unreadable, NothingUnheard, NoBlindRepeat
<1> QED
  BY <1>1, <1>2

(* Nobody who may ask for an export becomes ignorant of an earlier one. *)
LEMMA UnheardStep == ASSUME PageTypeOK, NothingUnheard, NoBlindRepeat, [StudioNext]_pageVars
                     PROVE  NothingUnheard' /\ NoBlindRepeat'
<1> DEFINE call == calls["export-create"]
           lost == unheard["export-create"]
<1>0. /\ "export-create" \in Scopes /\ "project-write" \in Scopes
      /\ \A scope \in Scopes : scope # "export-create" => scope = "project-write"
  BY DEF Scopes
<1>1. CASE UNCHANGED <<call, lost, revived, screen>>
  BY <1>1 DEF NothingUnheard, NoBlindRepeat
<1>2. CASE Reread
  BY <1>2, ReadUnheard DEF Reread
<1>3. CASE Reload
  BY <1>0, <1>3 DEF Reload, Told, NothingUnheard, NoBlindRepeat
<1>4. ASSUME NEW what \in Asks("export-create"), Ask("export-create", what) PROVE NothingUnheard' /\ NoBlindRepeat'
  <2>1. ~revived => lost = {}
    BY <1>4, IdleIsCall DEF Ask, NothingUnheard
  <2>2. UNCHANGED <<unheard, revived>>
    BY <1>4 DEF Ask
  <2>3. CASE Withheld("export-create")
    <3>1. call' = [Idle EXCEPT !.at = "unknown"]
      BY <1>0, <2>3 DEF Withheld, PageTypeOK
    <3>2. call'.at = "unknown"
      BY <3>1, IdleIsCall, OtherCalls
    <3> QED
      BY <3>2 DEF NothingUnheard, NoBlindRepeat
  <2>4. ASSUME NEW ticket \in Tickets("export-create", what), Send("export-create", ticket)
        PROVE  NothingUnheard' /\ NoBlindRepeat'
    <3>1. ticket.id \in 0 .. MaxSent
      BY <1>0, <2>4, AskedWrite, StudioNumbers DEF Send, Writes
    <3> DEFINE made == [Idle EXCEPT !.at = "sent", !.id = ticket.id]
    <3>2. call' = made
      BY <1>0, <2>4 DEF Send, PageTypeOK
    <3>3. made.at = "sent"
      BY ONLY <3>1, IdleIsCall, SentCall
    <3> HIDE DEF made
    <3>4. call'.at = "sent"
      BY <3>2, <3>3
    <3> QED
      BY <2>1, <2>2, <3>4 DEF NothingUnheard, NoBlindRepeat
  <2> QED
    BY <1>4, <2>3, <2>4 DEF Ask
<1>5. CASE Hear("export-create")
  <2>1. call.at = "answered" /\ call'.at = "idle"
    BY <1>0, <1>5, IdleIsCall DEF Hear, Settled, PageTypeOK
  <2>2. lost' = lost \ {call.id} /\ revived' = revived
    BY <1>0, <1>5 DEF Hear, PageTypeOK
  <2> QED
    BY <2>1, <2>2 DEF NothingUnheard, NoBlindRepeat
<1>6. CASE Hear("project-write")
  <2>1. call' = call
    BY <1>0, <1>6 DEF Hear, Settled, PageTypeOK
  <2>2. CASE calls["project-write"].result = "ok"
    <3>1. lost' = lost /\ revived' = (revived \/ screen = "error")
      BY <1>0, <1>6, <2>2 DEF Hear, PageTypeOK
    <3>2. ~revived' => ~revived /\ screen = "review"
      BY <3>1 DEF PageTypeOK
    <3> QED
      BY <2>1, <3>1, <3>2 DEF NothingUnheard, NoBlindRepeat
  <2>3. CASE calls["project-write"].result = "conflict"
    BY <1>6, <2>1, <2>3, ReadUnheard DEF Hear
  <2>4. CASE calls["project-write"].result \notin {"ok", "conflict"}
    <3>1. lost' = lost /\ revived' = revived /\ screen' = screen
      BY <1>0, <1>6, <2>4 DEF Hear, PageTypeOK
    <3> QED
      BY <2>1, <3>1, <1>1
  <2> QED
    BY <2>2, <2>3, <2>4
<1>7. CASE Lose("export-create")
  <2>1. call'.at = "unknown"
    BY <1>0, <1>7, IdleIsCall, OtherCalls DEF Lose, PageTypeOK
  <2> QED
    BY <2>1 DEF NothingUnheard, NoBlindRepeat
<1>8. ASSUME NEW scope \in Scopes, Recover(scope) PROVE NothingUnheard' /\ NoBlindRepeat'
  <2>1. call' = call \/ call'.at = "idle"
    BY <1>0, <1>8, IdleIsCall DEF Recover, Settled, PageTypeOK
  <2> QED
    BY <1>8, <2>1, ReadUnheard DEF Recover
<1>9. ASSUME NEW m \in mail, Receive(m) PROVE NothingUnheard' /\ NoBlindRepeat'
  <2>1. call' = call \/ (call.at = "sent" /\ call'.at = "answered" /\ call'.id = call.id)
    <3>1. PICK result \in {"ok", "refused", "conflict"} : Reply(m, result)
      BY <1>9 DEF Receive
    <3>2. CASE calls' = calls
      BY <3>2
    <3>3. CASE calls' # calls /\ m.scope \in Scopes
      <4> DEFINE answered == [calls[m.scope] EXCEPT !.at = "answered", !.result = result, !.view = revision']
      <4>1. calls[m.scope].at = "sent" /\ calls' = [calls EXCEPT ![m.scope] = answered]
        BY <3>1, <3>3 DEF Reply
      <4>2. answered.at = "answered" /\ answered.id = calls[m.scope].id
        BY <3>3 DEF PageTypeOK, Calls
      <4> HIDE DEF answered
      <4> QED
        BY <1>0, <4>1, <4>2 DEF PageTypeOK
    <3>4. m.scope \notin Scopes => call' = call
      BY <1>0, <3>1 DEF Reply, PageTypeOK
    <3> QED
      BY <3>2, <3>3, <3>4
  <2>2. UNCHANGED <<unheard, revived, screen>>
    BY <1>9 DEF Receive, viewing
  <2> QED
    BY <2>1, <2>2 DEF NothingUnheard, NoBlindRepeat
<1>10. ASSUME NEW p \in previews, HearPreview(p) PROVE NothingUnheard' /\ NoBlindRepeat'
  <2>1. calls' = calls
    BY <1>10 DEF HearPreview, writing
  <2>2. UNCHANGED <<unheard, revived, screen>> \/ Read(tickets) \/ Unreadable
    BY <1>10 DEF HearPreview, writing
  <2> QED
    BY <1>1, <2>1, <2>2, ReadUnheard
<1>11. ASSUME NEW what, Ask("project-write", what) PROVE UNCHANGED <<call, lost, revived, screen>>
  BY <1>0, <1>11 DEF Ask, Withheld, Send, PageTypeOK
<1>12. CASE Lose("project-write")
  BY <1>0, <1>1, <1>12 DEF Lose, Missed, viewing, PageTypeOK
<1>13. CASE Select \/ Elsewhere \/ UNCHANGED pageVars \/ (\E c \in HighRisk : Tick(c))
            \/ \E n \in 1 .. MaxPreviews : AskPreview(n)
  BY <1>1, <1>13 DEF Select, Elsewhere, Tick, AskPreview, pageVars, writing, viewing
<1> QED
  BY <1>0, <1>1, <1>2, <1>3, <1>4, <1>5, <1>6, <1>7, <1>8, <1>9, <1>10, <1>11, <1>12, <1>13 DEF StudioNext

(* The invariant is kept by every step. *)
LEMMA PageStep == ASSUME PageHolds, [StudioNext]_pageVars PROVE PageHolds'
  BY TypeStep, TickStep, RiskyStep, PlayedStep, UnheardStep DEF PageHolds

-----------------------------------------------------------------------------
(* All of it holds in every state of a page.                                *)
THEOREM PageInvariant == StudioSpec => []PageHolds
  BY PageInit, PageStep, PTL DEF StudioSpec

(* The page's state is what its fields are declared to be.                  *)
THEOREM PageTyped == StudioSpec => []PageTypeOK
<1>1. PageHolds => PageTypeOK
  BY DEF PageHolds
<1> QED
  BY PageInvariant, <1>1, PTL

(* A high risk takes effect on the revision it was confirmed on, and what is *)
(* played is what was asked for last, for any candidates and bounds: the     *)
(* effect on the revision and the numbers of the requests do what they are   *)
(* for.                                                                      *)
THEOREM WhatIsDoneWasShown == StudioSpec => []AsShown
<1>1. PageHolds => AsShown
  BY DEF PageHolds, RiskySeen, PlayedIsAwaited, AsShown, Risky
<1> QED
  BY PageInvariant, <1>1, PTL

(* However many exports are asked for and answers lost, none is asked for    *)
(* under a second id by a page that has not read a review since, unless an   *)
(* answer to a decision ended the error screen.                              *)
THEOREM NoExportTwiceUnseen == StudioSpec => []NoBlindRepeat
<1>1. PageHolds => NoBlindRepeat
  BY DEF PageHolds
<1> QED
  BY PageInvariant, <1>1, PTL
=============================================================================
