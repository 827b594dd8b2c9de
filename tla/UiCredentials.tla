----------------------------- MODULE UiCredentials -----------------------------
(***************************************************************************)
(* Who may use the Studio.  A file next to the project holds a token; the  *)
(* person who sees it printed pairs a browser, which is given a cookie      *)
(* signed with it; a paired browser may rotate it.  The new token is        *)
(* published by a rename (scripts/agentcut-credentials.mjs), then recorded  *)
(* in the project store, then answered with; whoever reads the file later   *)
(* records what is missing, so the file and the store meet again after a   *)
(* crash or a failed write (apps/local-daemon/src/server.ts).               *)
(*                                                                         *)
(* A token is named after the generation it is published as.  One daemon    *)
(* is taken to serve the project at a time.                                 *)
(***************************************************************************)
EXTENDS Naturals, SequencesExt

CONSTANTS Browsers,
          Requests,      \* ids of rotation requests
          MaxGeneration, \* bound: rotations
          MaxPairings,   \* bound: pairings
          Nothing

(* What is written of a rotation, in the file and in the table. *)
Rotation == [request : Requests, generation : Nat, previous : Nat, by : Nat]

ASSUME CredentialBounds == {MaxGeneration, MaxPairings} \subseteq Nat
ASSUME NothingAssumption == Nothing \notin Rotation

VARIABLES credential, \* the file: not there, opened but not written, or a token
          rotations,  \* the table of rotations
          studio,     \* where the daemon is
          printed,    \* the token of the pairing URL it printed
          cookie,     \* of each browser: the token that signed it, if it has not expired
          asked,      \* of each browser: its rotation, whose body is awaited
          pairings

accessVars == <<credential, rotations, studio, printed, cookie, asked, pairings>>

Unwritten(state) == [state |-> state, generation |-> 0, last |-> Nothing]
Written(generation, last) == [state |-> "written", generation |-> generation, last |-> last]
Readable == credential.state = "written"

NoCookie == [token |-> Nothing, live |-> FALSE]
AccessInit ==
  /\ credential = Unwritten("missing") /\ rotations = <<>>
  /\ studio = "down" /\ printed = Nothing /\ pairings = 0
  /\ cookie = [b \in Browsers |-> NoCookie]
  /\ asked = [b \in Browsers |-> Nothing]

-----------------------------------------------------------------------------
(* The store. *)

RotationOf(rows, q) == {i \in DOMAIN rows : rows[i].request = q}

(* recordUiCredentialRotation: once; the same id for another is refused.    *)
MayRecord(rows, rotation) == \A i \in RotationOf(rows, rotation.request) : rows[i] = rotation
Recorded(rows, rotation) ==
  IF RotationOf(rows, rotation.request) # {} THEN rows ELSE Append(rows, rotation)

(* Mutant of Synchronized: what the file says last is not looked at. *)
NotSynchronized == rotations

(* synchronizeUiCredentialRotation, at the start and with every request. *)
Synchronized ==
  IF credential.last = Nothing THEN rotations ELSE Recorded(rotations, credential.last)
MaySynchronize ==
  Readable /\ (credential.last # Nothing => MayRecord(rotations, credential.last))

-----------------------------------------------------------------------------
(* scripts/start-studio.mjs *)

CreateCredential ==
  /\ studio = "down" /\ credential.state = "missing"
  /\ studio' = "creating" /\ credential' = Unwritten("opened")
  /\ UNCHANGED <<rotations, printed, cookie, asked, pairings>>

WriteCredential ==
  /\ studio = "creating"
  /\ studio' = "starting" /\ credential' = Written(0, Nothing)
  /\ UNCHANGED <<rotations, printed, cookie, asked, pairings>>

(* The credential is read and printed; a file that was never written cannot *)
(* be, now or later.                                                        *)
PrintPairing ==
  /\ studio \in {"down", "starting"} /\ Readable
  /\ studio' = "printed" /\ printed' = credential.generation
  /\ UNCHANGED <<credential, rotations, cookie, asked, pairings>>

(* createAgentCutServer *)
Serve ==
  /\ studio = "printed" /\ MaySynchronize
  /\ studio' = "up" /\ rotations' = Synchronized
  /\ UNCHANGED <<credential, printed, cookie, asked, pairings>>

Stop ==
  /\ studio # "down"
  /\ studio' = "down" /\ asked' = [b \in Browsers |-> Nothing]
  /\ UNCHANGED <<credential, rotations, printed, cookie, pairings>>

-----------------------------------------------------------------------------
(* The routes. *)

(* requiredUiCredential: every request begins with it. *)
RequiredUiCredential == studio = "up" /\ MaySynchronize

(* inspectUiSession *)
Authenticated(b) == cookie[b].live /\ cookie[b].token = credential.generation

Issued(b) == cookie' = [cookie EXCEPT ![b] = [token |-> credential'.generation, live |-> TRUE]]

(* POST /api/ui/session, with the token that was printed. *)
Pair(b) ==
  /\ pairings < MaxPairings /\ RequiredUiCredential
  /\ printed = credential.generation
  /\ rotations' = Synchronized /\ pairings' = pairings + 1
  /\ UNCHANGED <<credential, studio, printed, asked>>
  /\ Issued(b)

(* Any request of a browser, refused or not. *)
Inspect ==
  /\ RequiredUiCredential
  /\ rotations' = Synchronized
  /\ UNCHANGED <<credential, studio, printed, cookie, asked, pairings>>

(* POST /api/ui/bootstrap/rotate, up to the awaited body. *)
AskRotation(b, q) ==
  /\ RequiredUiCredential /\ Authenticated(b) /\ asked[b] = Nothing
  /\ rotations' = Synchronized
  /\ asked' = [asked EXCEPT ![b] = q]
  /\ UNCHANGED <<credential, studio, printed, cookie, pairings>>

Answered(b) == asked' = [asked EXCEPT ![b] = Nothing]

(* The session is stale by now. *)
RefuseRotation(b) ==
  /\ RequiredUiCredential /\ asked[b] # Nothing /\ ~Authenticated(b)
  /\ rotations' = Synchronized /\ Answered(b)
  /\ UNCHANGED <<credential, studio, printed, cookie, pairings>>

(* The request is on record: answered again while its token is the one.     *)
ReplayRotation(b) ==
  /\ RequiredUiCredential /\ asked[b] # Nothing /\ Authenticated(b)
  /\ RotationOf(Synchronized, asked[b]) # {}
  /\ rotations' = Synchronized /\ Answered(b)
  /\ UNCHANGED <<credential, studio, printed, pairings>>
  /\ IF \E i \in RotationOf(Synchronized, asked[b]) : Synchronized[i].generation = credential.generation
     THEN Issued(b) ELSE UNCHANGED cookie

(* rotateUiCredentialFile: a new token, unless this request made the last.   *)
Rotated(b) ==
  LET next == credential.generation + 1
  IN IF credential.last # Nothing /\ credential.last.request = asked[b] THEN credential
     ELSE Written(next, [request |-> asked[b], generation |-> next, previous |-> credential.generation,
                         by |-> cookie[b].token])

MayRotate(b) ==
  /\ RequiredUiCredential /\ asked[b] # Nothing /\ Authenticated(b)
  /\ RotationOf(Synchronized, asked[b]) = {}
  /\ credential.generation < MaxGeneration

(* Published, recorded and answered; the answer may be lost. *)
Rotate(b) ==
  /\ MayRotate(b)
  /\ credential' = Rotated(b)
  /\ rotations' = Recorded(Synchronized, credential'.last)
  /\ Answered(b)
  /\ Issued(b) \/ UNCHANGED cookie
  /\ UNCHANGED <<studio, printed, pairings>>

(* Published only: the store refuses the write, or the daemon is killed.    *)
RotateUnrecorded(b) ==
  /\ MayRotate(b)
  /\ credential' = Rotated(b)
  /\ rotations' = Synchronized
  /\ \/ Answered(b) /\ UNCHANGED studio
     \/ asked' = [x \in Browsers |-> Nothing] /\ studio' = "down"
  /\ UNCHANGED <<printed, cookie, pairings>>

Expire(b) ==
  /\ cookie[b].live
  /\ cookie' = [cookie EXCEPT ![b].live = FALSE]
  /\ UNCHANGED <<credential, rotations, studio, printed, asked, pairings>>

AccessNext ==
  \/ CreateCredential \/ WriteCredential \/ PrintPairing \/ Serve \/ Stop \/ Inspect
  \/ \E b \in Browsers :
       \/ Pair(b) \/ RefuseRotation(b) \/ ReplayRotation(b)
       \/ Rotate(b) \/ RotateUnrecorded(b) \/ Expire(b)
       \/ \E q \in Requests : AskRotation(b, q)

AccessSpec == AccessInit /\ [][AccessNext]_accessVars

-----------------------------------------------------------------------------
(* Properties. *)

(* The table tells, without a gap, which request replaced which token, once *)
(* each and under a session of the very token it replaced, though the body  *)
(* of the request is awaited after the session was looked at; the file is   *)
(* at its last row, or one ahead of it with the row to come.                *)
RotationsChained ==
  /\ \A i \in DOMAIN rotations :
       /\ rotations[i].generation = i
       /\ rotations[i].previous = i - 1 /\ rotations[i].by = i - 1
       /\ RotationOf(rotations, rotations[i].request) = {i}
  /\ Readable =>
       /\ credential.generation \in {Len(rotations), Len(rotations) + 1}
       /\ credential.generation = Len(rotations) /\ rotations # <<>> => Last(rotations) = credential.last
       /\ credential.generation > Len(rotations) => credential.last.by = Len(rotations)

(* Only a file that was written has rotations; it names the last one, which *)
(* was asked for under the token before it, and is not in the table by      *)
(* another name while it is still to be recorded.                           *)
CredentialTypeOK ==
  /\ credential \in [state : {"missing", "opened", "written"}, generation : Nat,
                     last : Rotation \cup {Nothing}]
  /\ rotations \in Seq(Rotation)
  /\ asked \in [Browsers -> Requests \cup {Nothing}]

FileHolds ==
  /\ studio = "creating" => credential.state = "opened"
  /\ ~Readable => rotations = <<>>
  /\ Readable /\ credential.generation = 0 => credential.last = Nothing
  /\ Readable /\ credential.generation > 0 =>
       /\ credential.last \in Rotation
       /\ credential.last.generation = credential.generation
       /\ credential.last.previous = credential.generation - 1
       /\ credential.last.by = credential.generation - 1
  /\ Readable /\ credential.generation > Len(rotations) =>
       RotationOf(rotations, credential.last.request) = {}

AccessHolds == CredentialTypeOK /\ FileHolds /\ RotationsChained
=============================================================================
