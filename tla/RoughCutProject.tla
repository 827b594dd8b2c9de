---------------------------- MODULE RoughCutProject ----------------------------
(***************************************************************************)
(* How a project comes to be: scripts/roughcut.mjs takes a recording in,   *)
(* renders a preview proxy a browser can play, creates the project, imports *)
(* both and has the recording transcribed.  Every invocation works on the  *)
(* same directory: the managed media, the proxies and the database.  It     *)
(* may be run again, or twice at once, and be killed between any two steps; *)
(* it then takes up what is there, or refuses.                              *)
(*                                                                         *)
(* A recording is its content; a hash is the content it was computed of.    *)
(***************************************************************************)
EXTENDS Integers, FiniteSets, SequencesExt

CONSTANTS Recordings,
          Playable,     \* those a browser can play as they are
          Runs,         \* invocations that may run at a time
          Outputs,      \* what the recogniser may answer
          StreamLength, \* of the audio
          MaxStarts,    \* bound: invocations
          MaxEdits,     \* bound: edits of the project by others
          None

ASSUME PlayableAreRecordings == Playable \subseteq Recordings
ASSUME ProjectBounds == {StreamLength, MaxStarts, MaxEdits} \subseteq Nat

VARIABLES source,  \* what the file of the user holds
          media,   \* the managed copies, each under a hash
          proxies, \* the published proxies: of which hash, by which invocation
          work,    \* unpublished proxies: by which run, of which hash
          project, \* the database
          job,     \* the row of the transcription job
          run,     \* where each invocation is
          begun, edits

buildVars == <<source, media, proxies, work, project, job, run, begun, edits>>

(* A directory with one more file, unless it has one of that name. *)
Keeping(files, name, content) ==
  [n \in DOMAIN files \cup {name} |-> IF n \in DOMAIN files THEN files[n] ELSE content]

MaxAttempts == 2
NeedsProxy(hash) == hash \notin Playable

NoDatabase == [state |-> "none", rev |-> 0, trial |-> FALSE,
               asset |-> None, proxy |-> None, transcript |-> None]
NoJob == [status |-> "none", attempt |-> 0]
Gone == [pc |-> "gone"]

(* An older version imported recordings without a proxy. *)
BuildInit ==
  /\ source \in Recordings
  /\ proxies = <<>> /\ work = {} /\ job = NoJob
  /\ \/ project = NoDatabase /\ media = <<>>
     \/ project = [NoDatabase EXCEPT !.state = "project", !.rev = 1, !.asset = source]
        /\ media = [hash \in {source} |-> source]
  /\ run = [r \in Runs |-> Gone] /\ begun = 0 /\ edits = 0

-----------------------------------------------------------------------------
(* What is made of the recogniser's answer: words [start, end, text,        *)
(* reliable], where the last two say whether it has any text and whether    *)
(* its segment is to be trusted.                                            *)

SaidUntil(words) == IF words = <<>> THEN 0 ELSE Last(words).start + Last(words).dur

(* A word that begins before the last one ends is cut, one that ends after  *)
(* the stream too; one of which nothing is left is dropped.                 *)
TakeWord(words, raw) ==
  LET start == Max({raw.start, SaidUntil(words)})
      end == Min({raw.end, StreamLength})
  IN IF raw.reliable /\ raw.text /\ raw.start < StreamLength /\ start < end
     THEN Append(words, [start |-> start, dur |-> end - start])
     ELSE words

Normalised(answer) == FoldLeft(TakeWord, <<>>, answer)

Transcripts == {[audio |-> hash, words |-> Normalised(answer)] : hash \in Recordings, answer \in Outputs}

ASSUME NoneAssumption == None \notin Recordings /\ None \notin Transcripts

-----------------------------------------------------------------------------
(* An invocation ends by being killed, or by an error, which may come at    *)
(* any step: a step below whose condition does not hold throws one.  What   *)
(* it was rendering is then removed, if there was time.                     *)
End(r) ==
  /\ run[r].pc \notin {"gone", "done"}
  /\ run' = [run EXCEPT ![r] = Gone]
  /\ work' \in {work, {w \in work : w[1] # r}}
  /\ UNCHANGED <<source, media, proxies, project, job, begun, edits>>

Begin(r, trial) ==
  /\ run[r].pc \in {"gone", "done"} /\ begun < MaxStarts
  /\ begun' = begun + 1
  /\ run' = [run EXCEPT ![r] = [pc |-> "hashed", no |-> begun', hash |-> source, trial |-> trial,
                                asset |-> None, proxy |-> None, resumed |-> FALSE, base |-> 0]]
  /\ UNCHANGED <<source, media, proxies, work, project, job, edits>>

At(r, pc) == run[r].pc = pc
Goto(r, pc) == run' = [run EXCEPT ![r].pc = pc]
Done(r) == run' = [run EXCEPT ![r] = [pc |-> "done", hash |-> run[r].hash, answer |-> project.transcript]]

(* Mutant of Belongs: any project with a recording is taken for this one. *)
BelongsToAny(r) == project.asset # None

(* assertAlphaTrialResumeMode, assessProjectResume *)
Belongs(r) == project.trial = run[r].trial /\ project.asset = run[r].hash

(* There is a database: it has to be of the same recording, and of the same *)
(* kind.  If the transcript is there too, nothing is left to be done.       *)
Resume(r) ==
  /\ At(r, "hashed") /\ project.state = "project" /\ Belongs(r)
  /\ IF project.transcript # None THEN Done(r)
     ELSE run' = [run EXCEPT ![r].pc = IF NeedsProxy(run[r].hash) /\ project.proxy = None
                                       THEN "proxy" ELSE "job",
                             ![r].asset = run[r].hash, ![r].proxy = project.proxy, ![r].resumed = TRUE]
  /\ UNCHANGED <<source, media, proxies, work, project, job, begun, edits>>

(* There is none: the recording is hashed a second time. *)
Ingest(r) ==
  /\ At(r, "hashed") /\ project.state = "none"
  /\ run' = [run EXCEPT ![r].pc = "ingest", ![r].asset = source]
  /\ UNCHANGED <<source, media, proxies, work, project, job, begun, edits>>

(* And copied, unless the copy is there; either has to be what was hashed.  *)
CopyMedia(r) ==
  LET hash == run[r].asset
  IN /\ At(r, "ingest")
     /\ IF hash \in DOMAIN media THEN media[hash] = hash /\ UNCHANGED media
        ELSE source = hash /\ media' = Keeping(media, hash, source)
     /\ Goto(r, IF NeedsProxy(hash) THEN "proxy" ELSE "create")
     /\ UNCHANGED <<source, proxies, work, project, job, begun, edits>>

-----------------------------------------------------------------------------
(* The preview proxy (ensureBrowserPreviewProxy). *)

(* What was left unpublished is removed, whoever is at it; a proxy that is   *)
(* there is taken.                                                          *)
BeginProxy(r) ==
  LET hash == run[r].asset
  IN /\ At(r, "proxy")
     /\ work' = {w \in work : w[2] # hash}
     /\ run' = [run EXCEPT ![r].pc = IF hash \in DOMAIN proxies THEN "take" ELSE "render",
                           ![r].base = project.rev]
     /\ UNCHANGED <<source, media, proxies, project, job, begun, edits>>

RenderProxy(r) ==
  /\ At(r, "render")
  /\ work' = work \cup {<<r, run[r].asset>>}
  /\ Goto(r, "rendering")
  /\ UNCHANGED <<source, media, proxies, project, job, begun, edits>>

(* Mutant of PublishProxy: the file is renamed into its place. *)
PublishByRename(r) ==
  /\ At(r, "rendering") /\ <<r, run[r].asset>> \in work
  /\ proxies' = [hash \in DOMAIN proxies \cup {run[r].asset} |->
                  IF hash = run[r].asset THEN run[r].no ELSE proxies[hash]]
  /\ work' = work \ {<<r, run[r].asset>>}
  /\ Goto(r, "take")
  /\ UNCHANGED <<source, media, project, job, begun, edits>>

(* A hard link never replaces a proxy that is there; if another run removed *)
(* the file, there has to be one.                                           *)
PublishProxy(r) ==
  LET hash == run[r].asset
  IN /\ At(r, "rendering")
     /\ <<r, hash>> \in work \/ hash \in DOMAIN proxies
     /\ proxies' = Keeping(proxies, hash, run[r].no)
     /\ work' = work \ {<<r, hash>>}
     /\ Goto(r, "take")
     /\ UNCHANGED <<source, media, project, job, begun, edits>>

(* readVerifiedProxy *)
TakeProxy(r) ==
  /\ At(r, "take")
  /\ run' = [run EXCEPT ![r].proxy = proxies[run[r].asset],
                        ![r].pc = IF run[r].resumed THEN "register" ELSE "create"]
  /\ UNCHANGED <<source, media, proxies, work, project, job, begun, edits>>

-----------------------------------------------------------------------------
(* The database. *)

(* ProjectStore.create makes the file and its tables, *)
CreateDatabase(r) ==
  /\ At(r, "create")
  /\ project' = IF project.state = "none" THEN [project EXCEPT !.state = "empty"] ELSE project
  /\ Goto(r, "initialize")
  /\ UNCHANGED <<source, media, proxies, work, job, begun, edits>>

(* and puts a project without media in it, if it is empty; until then it    *)
(* cannot be opened.                                                        *)
InitializeProject(r) ==
  /\ At(r, "initialize") /\ project.state = "empty"
  /\ project' = [project EXCEPT !.state = "project", !.trial = run[r].trial]
  /\ Goto(r, "import")
  /\ UNCHANGED <<source, media, proxies, work, job, begun, edits>>

ImportMedia(r) ==
  /\ At(r, "import") /\ project.rev = 0
  /\ project' = [project EXCEPT !.rev = 1, !.asset = run[r].asset, !.proxy = run[r].proxy]
  /\ Goto(r, "job")
  /\ UNCHANGED <<source, media, proxies, work, job, begun, edits>>

(* On the revision that was read before the proxy was rendered. *)
RegisterProxy(r) ==
  /\ At(r, "register") /\ project.rev = run[r].base
  /\ project' = [project EXCEPT !.rev = @ + 1, !.proxy = run[r].proxy]
  /\ Goto(r, "job")
  /\ UNCHANGED <<source, media, proxies, work, job, begun, edits>>

-----------------------------------------------------------------------------
(* The transcription (ensureAsrJob, runPersistedAsrJob). *)

EnsureJob(r) ==
  /\ At(r, "job")
  /\ \/ job.status = "none" /\ job' = [NoJob EXCEPT !.status = "pending"]
     \/ job.status = "failed" /\ job.attempt < MaxAttempts /\ job' = [job EXCEPT !.status = "pending"]
     \/ job.status = "pending" /\ UNCHANGED job
  /\ Goto(r, "start")
  /\ UNCHANGED <<source, media, proxies, work, project, begun, edits>>

StartJob(r) ==
  /\ At(r, "start") /\ job.status = "pending" /\ job.attempt < MaxAttempts
  /\ job' = [status |-> "running", attempt |-> job.attempt + 1]
  /\ Goto(r, "transcribing")
  /\ UNCHANGED <<source, media, proxies, work, project, begun, edits>>

(* The recogniser has answered with at least a word: the transcript is      *)
(* committed under the one transaction id there is for it.                  *)
CommitTranscript(r, output) ==
  /\ At(r, "transcribing") /\ job.status = "running"
  /\ project.transcript = None /\ Normalised(output) # <<>>
  /\ project' = [project EXCEPT !.rev = @ + 1,
                                !.transcript = [audio |-> run[r].asset, words |-> Normalised(output)]]
  /\ Goto(r, "committed")
  /\ UNCHANGED <<source, media, proxies, work, job, begun, edits>>

SucceedJob(r) ==
  /\ At(r, "committed") /\ job.status = "running"
  /\ job' = [job EXCEPT !.status = "succeeded"]
  /\ Goto(r, "succeeded")
  /\ UNCHANGED <<source, media, proxies, work, project, begun, edits>>

(* Mutant of FailJob: starting the job is inside the try as well. *)
FailJobFromStart(r) ==
  /\ run[r].pc \in {"start", "transcribing", "committed"} /\ job.status = "running"
  /\ job' = [job EXCEPT !.status = "failed"]
  /\ run' = [run EXCEPT ![r] = Gone]
  /\ UNCHANGED <<source, media, proxies, work, project, begun, edits>>

(* The recogniser, its answer, the commit or succeedJob failed. *)
FailJob(r) ==
  /\ run[r].pc \in {"transcribing", "committed"} /\ job.status = "running"
  /\ job' = [job EXCEPT !.status = "failed"]
  /\ run' = [run EXCEPT ![r] = Gone]
  /\ UNCHANGED <<source, media, proxies, work, project, begun, edits>>

(* result: the recording has to be in the project. *)
Answer(r) ==
  /\ At(r, "succeeded") /\ project.asset = run[r].hash
  /\ Done(r)
  /\ UNCHANGED <<source, media, proxies, work, project, job, begun, edits>>

-----------------------------------------------------------------------------
(* Others: the user puts another recording in the place of the first, or a  *)
(* Studio that is already open on the project edits its timeline.           *)
ReplaceSource ==
  /\ source' \in Recordings \ {source}
  /\ UNCHANGED <<media, proxies, work, project, job, run, begun, edits>>

EditProject ==
  /\ project.state = "project" /\ edits < MaxEdits
  /\ project' = [project EXCEPT !.rev = @ + 1] /\ edits' = edits + 1
  /\ UNCHANGED <<source, media, proxies, work, job, run, begun>>

BuildNext ==
  \/ \E r \in Runs :
       \/ \E trial \in BOOLEAN : Begin(r, trial)
       \/ End(r)
       \/ Resume(r) \/ Ingest(r) \/ CopyMedia(r)
       \/ BeginProxy(r) \/ RenderProxy(r) \/ PublishProxy(r) \/ TakeProxy(r)
       \/ CreateDatabase(r) \/ InitializeProject(r) \/ ImportMedia(r) \/ RegisterProxy(r)
       \/ EnsureJob(r) \/ StartJob(r) \/ SucceedJob(r) \/ FailJob(r) \/ Answer(r)
       \/ \E output \in Outputs : CommitTranscript(r, output)
  \/ ReplaceSource
  \/ EditProject

BuildSpec == BuildInit /\ [][BuildNext]_buildVars

-----------------------------------------------------------------------------
(* Properties. *)

(* What the project has registered is what the files hold: the managed copy *)
(* is the recording, and the proxy is the very one that was hashed, however  *)
(* many runs rendered it (ingestMedia, ensureBrowserPreviewProxy).           *)
FilesAsRegistered ==
  project.asset # None =>
    /\ media[project.asset] = project.asset
    /\ project.proxy # None => proxies[project.asset] = project.proxy

(* No two runs have the recording transcribed at once, nor is it more often *)
(* than the job allows; the transcript is of the project's recording, and   *)
(* there when the job has succeeded (ensureAsrJob, runPersistedAsrJob).      *)
TranscribedOnce ==
  /\ Cardinality({r \in Runs : run[r].pc \in {"transcribing", "committed"}}) <= 1
  /\ job.attempt <= MaxAttempts
  /\ job.status = "succeeded" => project.transcript # None
  /\ project.transcript # None => project.transcript.audio = project.asset

(* docs/11-development-log.md:2328: a complete project of the same recording *)
(* is answered with as it is, one of another recording is never taken for   *)
(* it.  Whatever a run reports is in the project, and stays there.           *)
ResultStands ==
  \A r \in Runs : run[r].pc = "done" =>
    /\ project.asset = run[r].hash
    /\ run[r].answer # None /\ run[r].answer = project.transcript

Pcs == {"hashed", "ingest", "proxy", "render", "rendering", "take", "create", "initialize", "import",
        "register", "job", "start", "transcribing", "committed", "succeeded"}
Live == [pc : Pcs, no : Nat, hash : Recordings, trial : BOOLEAN, asset : Recordings \cup {None},
         proxy : Nat \cup {None}, resumed : BOOLEAN, base : Nat]

Finished == [pc : {"done"}, hash : Recordings, answer : Transcripts \cup {None}]
Databases == [state : {"none", "empty", "project"}, rev : Nat, trial : BOOLEAN,
              asset : Recordings \cup {None}, proxy : Nat \cup {None},
              transcript : Transcripts \cup {None}]

BuildTypeOK ==
  /\ source \in Recordings
  /\ media \in [DOMAIN media -> Recordings] /\ proxies \in [DOMAIN proxies -> Nat]
  /\ project \in Databases
  /\ job \in [status : {"none", "pending", "running", "succeeded", "failed"}, attempt : 0 .. MaxAttempts]
  /\ run \in [Runs -> {Gone} \cup Live \cup Finished]
  /\ begun \in Nat /\ edits \in Nat

(* What is registered is there; a transcript is of what is registered.      *)
ProjectHolds ==
  /\ \A hash \in DOMAIN media : media[hash] = hash
  /\ project.asset # None =>
       /\ project.rev > 0 /\ project.asset \in DOMAIN media
       /\ project.proxy # None => /\ project.asset \in DOMAIN proxies
                                 /\ proxies[project.asset] = project.proxy
  /\ project.asset = None => project.proxy = None /\ project.transcript = None
  /\ project.transcript # None => project.transcript.audio = project.asset
  /\ job.status = "succeeded" => project.transcript # None

(* A run that has got so far has what it found there, and it is still the   *)
(* same; only one of them holds the running job.                            *)
RunHolds(r) ==
  LET pc == run[r].pc
      asset == run[r].asset
      proxy == run[r].proxy
  IN /\ pc = "hashed" => proxy = None /\ ~run[r].resumed
     /\ pc \in Pcs \ {"hashed"} =>
          /\ asset \in Recordings
          /\ pc # "ingest" => asset \in DOMAIN media
          /\ proxy # None => asset \in DOMAIN proxies /\ proxies[asset] = proxy
          /\ pc = "take" => asset \in DOMAIN proxies
          /\ pc = "register" => run[r].resumed
          /\ run[r].resumed \/ pc \in {"job", "start", "transcribing", "committed", "succeeded"} =>
               project.asset = asset
          /\ pc \in {"transcribing", "committed"} => job.status = "running"
          /\ pc \in {"committed", "succeeded"} => project.transcript # None

OneTranscribes ==
  \A r, s \in Runs : {run[r].pc, run[s].pc} \subseteq {"transcribing", "committed"} => r = s

BuildHolds ==
  /\ BuildTypeOK /\ ProjectHolds /\ OneTranscribes /\ ResultStands
  /\ \A r \in Runs : RunHolds(r)

(* The words of any answer come one after the other, inside the stream, and *)
(* each lasts (normalizeAsrResult).                                         *)
WordsInOrder(words) ==
  /\ \A i \in DOMAIN words : words[i].dur > 0
  /\ \A i, j \in DOMAIN words : i < j => words[i].start + words[i].dur <= words[j].start
  /\ SaidUntil(words) <= StreamLength
=============================================================================
