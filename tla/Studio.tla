------------------------------- MODULE Studio -------------------------------
(***************************************************************************)
(* A page of the Studio at work (apps/studio/src): the review it shows, the *)
(* writes it sends and the registry of their request ids                    *)
(* (mutation-requests.ts), the box that confirms a high risk, and the cut   *)
(* it plays before it is made.  Answers get lost, requests arrive after the *)
(* page has given them up, and others edit the project meanwhile.           *)
(*                                                                         *)
(* Two scopes of writes are there: decisions on candidates, which move the  *)
(* revision they name, and export jobs, which do not and of which the       *)
(* daemon makes one for each request id.                                    *)
(***************************************************************************)
EXTENDS Naturals

CONSTANTS Candidates,
          HighRisk,    \* those that are not deleted without a tick
          Presets,     \* of exports
          MaxRevision, \* bound: edits of the project
          MaxSent,     \* bound: request ids
          MaxPreviews, \* bound: cuts asked for to be played
          Unset

ASSUME StudioBounds ==
  HighRisk \subseteq Candidates /\ {MaxRevision, MaxSent, MaxPreviews} \subseteq Nat

VARIABLES revision,   \* of the project
          taken,      \* requests that took effect, and at which revision
          mail,       \* requests under way to the daemon
          shown,      \* the revision of the review on the page
          screen,     \* the review, or that it cannot be read
          tickets,    \* the registry: the unresolved write of each scope
          calls,      \* the write of each scope that keeps its buttons disabled
          ticked,     \* the high risk confirmed, and on which review
          previews,   \* requests for a cut to be played, and their answers
          awaited,    \* the one of them that may still be shown
          played,     \* the one that is
          sent,       \* request ids made so far
          unheard,    \* history: ids whose answer was lost, and no review read since
          revived     \* history: an answer, and no reading, ended the error screen

project_ == <<revision, taken, mail>>
writing == <<tickets, calls, sent, unheard, revived>>
viewing == <<shown, screen, ticked, previews, awaited, played>>
pageVars == <<project_, writing, viewing>>

Scopes == {"project-write", "export-create"}

(* What a person asks for in a scope. *)
Asks(scope) == IF scope = "export-create" THEN Presets ELSE {"accept", "keep"} \X Candidates

Idle == [at |-> "idle", id |-> 0, result |-> Unset, view |-> 0]

StudioInit ==
  /\ revision = 0 /\ taken = {} /\ mail = {}
  /\ shown = 0 /\ screen = "review" /\ ticked = Unset
  /\ previews = {} /\ awaited = Unset /\ played = Unset
  /\ tickets = [s \in Scopes |-> Unset] /\ calls = [s \in Scopes |-> Idle]
  /\ sent = 0 /\ unheard = [s \in Scopes |-> {}] /\ revived = FALSE

-----------------------------------------------------------------------------
(* The review on the page. *)

(* Mutant of Show: the box stays ticked. *)
ShowTicked(rev, open) ==
  /\ shown' = rev /\ screen' = "review" /\ UNCHANGED ticked
  /\ IF rev = shown THEN tickets' = open /\ UNCHANGED played
     ELSE tickets' = [s \in Scopes |-> Unset] /\ played' = Unset

(* Another revision is rendered and the effect that depends on it has run:  *)
(* what was confirmed, played or left unresolved on the last one is gone.   *)
(* The preview asked for last is not called off.                            *)
Show(rev, open) ==
  /\ shown' = rev /\ screen' = "review"
  /\ IF rev = shown THEN tickets' = open /\ UNCHANGED <<ticked, played>>
     ELSE tickets' = [s \in Scopes |-> Unset] /\ ticked' = Unset /\ played' = Unset

(* A review that is read tells what has become of the writes before it.     *)
Told == unheard' = [s \in Scopes |-> {}] /\ revived' = FALSE
Read(open) == Show(revision, open) /\ Told

Unreadable == screen' = "error" /\ UNCHANGED <<shown, ticked, played, unheard, revived>>

(* mutate() without data, when an export has succeeded, when the connection *)
(* comes back, or by the button of the error screen.                        *)
Reread ==
  /\ Read(tickets) \/ (Unreadable /\ UNCHANGED tickets)
  /\ UNCHANGED <<project_, calls, sent, previews, awaited>>

Reload ==
  /\ shown' = revision /\ screen' = "review" /\ ticked' = Unset
  /\ previews' = {} /\ awaited' = Unset /\ played' = Unset
  /\ tickets' = [s \in Scopes |-> Unset] /\ calls' = [s \in Scopes |-> Idle]
  /\ Told
  /\ UNCHANGED <<project_, sent>>

(* onHighRiskConfirmedChange; and the selection of a candidate, by a click or *)
(* by a key, which is listened to on the error screen too.                    *)
Tick(c) ==
  /\ screen = "review" /\ calls["project-write"] = Idle
  /\ ticked' = [candidate |-> c, on |-> shown]
  /\ UNCHANGED <<project_, writing, shown, screen, previews, awaited, played>>

Select ==
  /\ ticked' = Unset /\ awaited' = Unset /\ played' = Unset
  /\ UNCHANGED <<project_, writing, shown, screen, previews>>

-----------------------------------------------------------------------------
(* Writes. *)

(* Without its tick a high risk is not sent: accept only says so. *)
Risky(scope, what) == scope = "project-write" /\ what[1] = "accept" /\ what[2] \in HighRisk
MayAsk(scope, what) == Risky(scope, what) => ticked # Unset /\ ticked.candidate = what[2]

(* acquire: the id of the unresolved write of the same content, or a new    *)
(* one; with another content unresolved there is none.                      *)
Tickets(scope, what) ==
  LET open == tickets[scope] IN
  IF open = Unset THEN {[what |-> what, base |-> shown, id |-> sent + 1]}
  ELSE IF open.what = what /\ open.base = shown THEN {open} ELSE {}

Send(scope, ticket) ==
  /\ sent' = IF ticket.id > sent THEN ticket.id ELSE sent
  /\ sent' <= MaxSent
  /\ tickets' = [tickets EXCEPT ![scope] = ticket]
  /\ calls' = [calls EXCEPT ![scope] = [Idle EXCEPT !.at = "sent", !.id = ticket.id]]
  /\ mail' = mail \cup {[scope |-> scope, what |-> ticket.what, base |-> ticket.base, id |-> ticket.id,
                         seen |-> IF Risky(scope, ticket.what) THEN ticked.on ELSE Unset,
                         blind |-> unheard[scope] \ {ticket.id}]}

Withheld(scope) ==
  /\ calls' = [calls EXCEPT ![scope] = [Idle EXCEPT !.at = "unknown"]]
  /\ UNCHANGED <<tickets, sent, mail>>

(* A button, or a key; the error screen has no button for an export.        *)
(* performMutation takes the tick away and stops what is played.            *)
Ask(scope, what) ==
  /\ calls[scope] = Idle /\ (scope = "export-create" => screen = "review")
  /\ MayAsk(scope, what)
  /\ IF Tickets(scope, what) = {} THEN Withheld(scope)
     ELSE \E ticket \in Tickets(scope, what) : Send(scope, ticket)
  /\ IF scope = "project-write" THEN ticked' = Unset /\ awaited' = Unset /\ played' = Unset
     ELSE UNCHANGED <<ticked, awaited, played>>
  /\ UNCHANGED <<revision, taken, shown, screen, previews, unheard, revived>>

(* The daemon's routes: what has taken effect is answered with the review   *)
(* now, what names another revision is refused, and so is what the review   *)
(* does not allow.                                                          *)
Reply(m, result) ==
  calls' = IF calls[m.scope].at = "sent" /\ calls[m.scope].id = m.id
           THEN [calls EXCEPT ![m.scope].at = "answered", ![m.scope].result = result,
                              ![m.scope].view = revision']
           ELSE calls

Receive(m) ==
  /\ mail' = mail \ {m}
  /\ \/ /\ \E t \in taken : t.id = m.id
        /\ UNCHANGED <<revision, taken>> /\ Reply(m, "ok")
     \/ /\ \A t \in taken : t.id # m.id
        /\ UNCHANGED <<revision, taken>>
        /\ Reply(m, IF m.base = revision THEN "refused" ELSE "conflict")
     \/ /\ \A t \in taken : t.id # m.id
        /\ m.base = revision
        /\ taken' = taken \cup {[id |-> m.id, scope |-> m.scope, what |-> m.what,
                                 seen |-> m.seen, blind |-> m.blind, at |-> revision]}
        /\ revision' = IF m.scope = "project-write" THEN revision + 1 ELSE revision
        /\ revision' <= MaxRevision
        /\ Reply(m, "ok")
  /\ UNCHANGED <<tickets, sent, unheard, revived, viewing>>

(* An agent edits, or an export is registered. *)
Elsewhere ==
  /\ revision < MaxRevision /\ revision' = revision + 1
  /\ UNCHANGED <<taken, mail, writing, viewing>>

(* confirm: only the ticket the answer is for. *)
Confirmed(scope) ==
  IF tickets[scope] # Unset /\ tickets[scope].id = calls[scope].id
  THEN [tickets EXCEPT ![scope] = Unset] ELSE tickets

Settled(scope) == calls' = [calls EXCEPT ![scope] = Idle]

(* An answer: a decision's brings its review along, and a refusal for the   *)
(* revision has the review read; an export's brings neither.                *)
Hear(scope) ==
  /\ calls[scope].at = "answered" /\ Settled(scope)
  /\ IF scope = "project-write" /\ calls[scope].result = "ok"
     THEN /\ Show(calls[scope].view, Confirmed(scope))
          /\ unheard' = [unheard EXCEPT ![scope] = {}] /\ revived' = (revived \/ screen = "error")
     ELSE IF scope = "project-write" /\ calls[scope].result = "conflict"
     THEN Read(Confirmed(scope)) \/ (Unreadable /\ tickets' = Confirmed(scope))
     ELSE /\ tickets' = Confirmed(scope)
          /\ unheard' = [unheard EXCEPT ![scope] = @ \ {calls[scope].id}]
          /\ UNCHANGED <<shown, screen, ticked, played, revived>>
  /\ UNCHANGED <<project_, sent, previews, awaited>>

Missed(scope) == unheard' = [unheard EXCEPT ![scope] = @ \cup {calls[scope].id}]

(* Mutant of Lose: whatever is answered settles the write. *)
LoseAsRefused(scope) ==
  /\ calls[scope].at \in {"sent", "answered"}
  /\ Settled(scope) /\ Missed(scope) /\ tickets' = Confirmed(scope)
  /\ UNCHANGED <<project_, sent, revived, viewing>>

(* The connection breaks, or the answer is a 5xx: the request may have taken *)
(* effect, may still do so, or never arrive.                                 *)
Lose(scope) ==
  /\ calls[scope].at \in {"sent", "answered"}
  /\ calls' = [calls EXCEPT ![scope] = [Idle EXCEPT !.at = "unknown"]] /\ Missed(scope)
  /\ mail' \in {mail, {m \in mail : m.id # calls[scope].id}}
  /\ UNCHANGED <<revision, taken, tickets, sent, revived, viewing>>

(* recoverUnknownReviewMutation: the review read anew resolves the write.    *)
(* A reading that fails keeps the ticket if mutate() says so, and drops it   *)
(* if mutate() comes back with the review it had.                            *)
Recover(scope) ==
  /\ calls[scope].at = "unknown" /\ Settled(scope)
  /\ \/ Read([tickets EXCEPT ![scope] = Unset])
     \/ Unreadable /\ tickets' \in {tickets, [tickets EXCEPT ![scope] = Unset]}
  /\ UNCHANGED <<project_, sent, previews, awaited>>

-----------------------------------------------------------------------------
(* The cut before it is made. *)

(* A number is of one request until its answer is there. *)
AskPreview(n) ==
  /\ calls["project-write"] = Idle /\ \A p \in previews : p.n # n
  /\ previews' = previews \cup {[n |-> n, base |-> shown, current |-> shown = revision]}
  /\ awaited' = n /\ played' = Unset
  /\ UNCHANGED <<project_, writing, shown, screen, ticked>>

(* The daemon only reads, at any time between the request and its answer: if *)
(* the revision was the project's it may be cut, or its candidate decided    *)
(* already; if it no longer is, it may be refused for that.                  *)
Answers(p) == (IF p.current THEN {"cut", "refused"} ELSE {})
              \cup (IF p.base # revision THEN {"conflict"} ELSE {})

(* Mutant of HearPreview: whatever comes is played. *)
HearAnyPreview(p) ==
  /\ "cut" \in Answers(p) /\ previews' = previews \ {p} /\ played' = p.n
  /\ UNCHANGED <<project_, writing, shown, screen, ticked, awaited>>

(* What the page has given up is dropped; another answer is played, or ends *)
(* the request.                                                             *)
HearPreview(p) ==
  /\ previews' = previews \ {p}
  /\ \/ p.n # awaited /\ UNCHANGED <<writing, shown, screen, ticked, awaited, played>>
     \/ /\ p.n = awaited /\ "cut" \in Answers(p)
        /\ played' = p.n /\ UNCHANGED <<writing, shown, screen, ticked, awaited>>
     \/ /\ p.n = awaited /\ "refused" \in Answers(p)
        /\ awaited' = Unset /\ UNCHANGED <<writing, shown, screen, ticked, played>>
     \/ /\ p.n = awaited /\ "conflict" \in Answers(p)
        /\ Read(tickets) \/ (Unreadable /\ UNCHANGED tickets)
        /\ awaited' = Unset /\ UNCHANGED <<calls, sent>>
  /\ UNCHANGED project_

StudioNext ==
  \/ Reread \/ Reload \/ Select \/ Elsewhere
  \/ \E c \in HighRisk : Tick(c)
  \/ \E scope \in Scopes :
       \/ \E what \in Asks(scope) : Ask(scope, what)
       \/ Hear(scope) \/ Lose(scope) \/ Recover(scope)
  \/ \E m \in mail : Receive(m)
  \/ \E n \in 1 .. MaxPreviews : AskPreview(n)
  \/ \E p \in previews : HearPreview(p)

StudioSpec == StudioInit /\ [][StudioNext]_pageVars

-----------------------------------------------------------------------------
Writes == [what : UNION {Asks(s) : s \in Scopes}, base : Nat, id : 1 .. MaxSent]
Calls == [at : {"idle", "sent", "answered", "unknown"}, id : 0 .. MaxSent,
          result : {Unset, "ok", "refused", "conflict"}, view : Nat]

PageTypeOK ==
  /\ revision \in Nat /\ shown \in Nat /\ sent \in 0 .. MaxSent
  /\ screen \in {"review", "error"} /\ revived \in BOOLEAN
  /\ tickets \in [Scopes -> {Unset} \cup Writes]
  /\ calls \in [Scopes -> Calls]
  /\ unheard \in [Scopes -> SUBSET (0 .. MaxSent)]
  /\ ticked \in {Unset} \cup [candidate : HighRisk, on : Nat]

(* A tick is of the review on the page; a request that needed one was seen  *)
(* on the revision it names; and one that took effect, where it did.         *)
TickIsCurrent == ticked # Unset => ticked.on = shown
RiskySeen ==
  /\ \A m \in mail : Risky(m.scope, m.what) => m.seen = m.base
  /\ \A t \in taken : Risky(t.scope, t.what) => t.seen = t.at

(* What is played was the last to be asked for, and has been answered.       *)
PlayedIsAwaited ==
  /\ \A p, q \in previews : p.n = q.n => p = q
  /\ played # Unset => played = awaited /\ \A p \in previews : p.n # played

(* Nobody who may ask for an export is ignorant of an earlier one.           *)
NothingUnheard ==
  LET call == calls["export-create"] IN
  call.at = "idle" /\ screen = "review" /\ ~revived => unheard["export-create"] = {}

(* An export is not asked for a second time while nobody knows what became   *)
(* of the first: a second request has the first one's id, or a review was    *)
(* read in between (docs/03-architecture.md:192).  Not so, and OneJobEach    *)
(* says why, if the answer to a decision, which may be older than the first  *)
(* request, has brought the page back from the error screen.                 *)
NoBlindRepeat ==
  LET call == calls["export-create"] IN
  call.at \in {"sent", "answered"} /\ ~revived => unheard["export-create"] \subseteq {call.id}

PageHolds ==
  /\ PageTypeOK
  /\ TickIsCurrent /\ RiskySeen /\ PlayedIsAwaited
  /\ NothingUnheard /\ NoBlindRepeat

(* What docs/03-architecture.md:192 promises without that exception: an id   *)
(* is kept until the state was queried, so that no revision is exported a    *)
(* second time by somebody who could not know of the first.  mutate() comes  *)
(* back from a reading that failed without throwing (swr 2.4.2), and the id  *)
(* is dropped; an answer to a decision that is still out brings the buttons  *)
(* back.                                                                     *)
OneJobEach ==
  \A t, u \in taken : t.scope = "export-create" /\ u.id \in t.blind => u.at # t.at

(* A high risk is deleted from the very revision it was confirmed on,        *)
(* however late its request arrives (docs/11-development-log.md:1068 asks it *)
(* of the other confirmation, which the same effect takes away); and what is *)
(* played before it is cut is what was asked for last, and nothing was       *)
(* selected or written since (docs/11-development-log.md:1013).              *)
AsShown ==
  /\ \A t \in taken :
       t.scope = "project-write" /\ t.what[1] = "accept" /\ t.what[2] \in HighRisk => t.seen = t.at
  /\ played # Unset => played = awaited
=============================================================================
