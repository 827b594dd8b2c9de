--------------------------- MODULE AgentApprovals ---------------------------
(***************************************************************************)
(* Agent sessions and approvals: the agent_sessions and approvals tables   *)
(* of project-store.ts and the routes of apps/local-daemon/src/server.ts   *)
(* over which an agent asks to delete a high-risk candidate, the user      *)
(* resolves the request and an agent applies it.                           *)
(*                                                                         *)
(* A route authorizes its session, waits for the body, and then runs to    *)
(* its end without another await: one handler at a time.  Committing the   *)
(* deletion and consuming the approval are two transactions of the store;  *)
(* time, a commit of another process or a crash may come between them.     *)
(* Rows of agent_access_events, which no handler reads back, are left out. *)
(***************************************************************************)
EXTENDS Integers, Sequences

CONSTANTS
  Requests,     \* requestIds of approval requests, one approval each
  Candidates,   \* high-risk deletion candidates
  Sessions,     \* agent sessions
  Capabilities, \* what each session was granted
  Callers,      \* HTTP calls an agent has in flight
  Clicks,       \* requestIds of the user's resolutions
  Nobody,
  Ttl,          \* lifetime of an approval, in ticks (3600 s in the code)
  MaxTime,      \* bound: the clock stops here
  MaxRevision,  \* bound: other commits stop at this revision
  MaxFaults     \* bound: crashes and store errors

ASSUME ParametersAssumption ==
  /\ Nobody \notin Requests \cup Candidates \cup Sessions \cup Clicks
  /\ Capabilities \in [Sessions -> SUBSET {"approval:request", "project:read", "timeline:write:approved"}]
  /\ Ttl \in Nat \ {0}
  /\ {MaxTime, MaxRevision, MaxFaults} \subseteq Nat

VARIABLES
  log,       \* committed transactions: the approval applied by each, or Nobody
  status,    \* what the document says of each candidate
  sessions,
  approvals,
  tokens,    \* approvals whose token some agent has been given
  editing,   \* no alpha trial is enrolled, or its timing is running
  calls,     \* the calls in flight
  now,
  faults

vars == <<log, status, sessions, approvals, tokens, editing, calls, now, faults>>

-----------------------------------------------------------------------------
Revision == Len(log)

Entry(r, candidate) == [approval |-> r, candidate |-> candidate]

\* store.getRecord(`tx_review_accept_approval_${id}`)
Applied(r) == \E i \in 1..Len(log) : log[i].approval = r

Unexpired(r) == now < approvals[r].expires

\* The payload hash covers the revision and the candidate: assertCurrentRevision
\* and the APPROVAL_STALE comparison together.
Current(r) == approvals[r].base = Revision

ApprovalRows ==
  [state: {"absent", "pending", "approved", "denied", "consumed"},
   candidate: Candidates \cup {Nobody}, base: Nat, expires: Nat,
   requester: Sessions \cup {Nobody}, click: Clicks \cup {Nobody}, consumer: Sessions \cup {Nobody}]

NoApproval == [state |-> "absent", candidate |-> Nobody, base |-> 0, expires |-> 0,
               requester |-> Nobody, click |-> Nobody, consumer |-> Nobody]

CallRows ==
  [phase: {"idle", "requesting", "applying", "checked", "committed", "retrying", "refused"},
   session: Sessions \cup {Nobody}, approval: Requests \cup {Nobody},
   candidate: Candidates \cup {Nobody}, base: Nat]

NoCall == [phase |-> "idle", session |-> Nobody, approval |-> Nobody,
           candidate |-> Nobody, base |-> 0]

\* No handler is between its body and its answer.
Idle == \A c \in Callers : calls[c].phase \notin {"checked", "committed", "retrying"}

\* The caller has its answer, if it ever asked.
Free(c) == calls[c].phase \in {"idle", "refused"}

Moved(c, phase) == calls' = [calls EXCEPT ![c].phase = phase]
Ended(c) == calls' = [calls EXCEPT ![c] = NoCall]

\* authorizeAgentSession: neither revoked nor expired, and granted the capability.
Authorized(s, capability) == sessions[s] = "open" /\ capability \in Capabilities[s]

Init ==
  /\ log = <<>>
  /\ status = [k \in Candidates |-> "open"]
  /\ sessions = [s \in Sessions |-> "absent"]
  /\ approvals = [r \in Requests |-> NoApproval]
  /\ tokens = {}
  /\ editing = TRUE
  /\ calls = [c \in Callers |-> NoCall]
  /\ now = 0
  /\ faults = 0

-----------------------------------------------------------------------------
(***************************************************************************)
(* Sessions.                                                               *)
(***************************************************************************)
OpenSession(s) ==
  /\ Idle
  /\ sessions[s] = "absent"
  /\ sessions' = [sessions EXCEPT ![s] = "open"]
  /\ UNCHANGED <<log, status, approvals, tokens, editing, calls, now, faults>>

\* The user revokes a session, or its time runs out.
CloseSession(s) ==
  /\ sessions[s] = "open"
  /\ sessions' = [sessions EXCEPT ![s] = "closed"]
  /\ UNCHANGED <<log, status, approvals, tokens, editing, calls, now, faults>>

-----------------------------------------------------------------------------
(***************************************************************************)
(* Requesting and resolving.                                               *)
(***************************************************************************)

\* POST /api/agent/approvals has authorized its session and waits for the body.
SendRequest(c, s, r, candidate) ==
  /\ Idle
  /\ Free(c)
  /\ Authorized(s, "approval:request")
  /\ calls' = [calls EXCEPT ![c] = [phase |-> "requesting", session |-> s, approval |-> r,
                                    candidate |-> candidate, base |-> Revision]]
  /\ UNCHANGED <<log, status, sessions, approvals, tokens, editing, now, faults>>

\* The rest of the route.  A requestId seen before is answered or refused
\* without a change; so is a stale revision or a candidate already decided.
HandleRequest(c) ==
  LET call == calls[c]
      r == call.approval
  IN
  /\ Idle
  /\ call.phase = "requesting"
  /\ approvals' =
       IF /\ call.base = Revision
          /\ status[call.candidate] = "open"
          /\ approvals[r].state = "absent"
       THEN [approvals EXCEPT ![r] = [NoApproval EXCEPT
               !.state = "pending", !.candidate = call.candidate, !.base = call.base,
               !.expires = now + Ttl, !.requester = call.session]]
       ELSE approvals
  /\ Ended(c)
  /\ UNCHANGED <<log, status, sessions, tokens, editing, now, faults>>

\* POST /api/approvals/:id/resolve by the user: once per approval, and once per
\* requestId; a repeated requestId changes nothing.
Resolve(r, click, decision) ==
  /\ Idle
  /\ editing
  /\ Current(r)
  /\ approvals[r].state = "pending"
  /\ \A q \in Requests : approvals[q].click # click
  /\ Unexpired(r)
  /\ approvals' = [approvals EXCEPT ![r].state = decision, ![r].click = click]
  /\ UNCHANGED <<log, status, sessions, tokens, editing, calls, now, faults>>

\* GET /api/agent/approvals/:id: an approved, unexpired and current approval is
\* answered with the token.
GetToken(s, r) ==
  /\ Idle
  /\ Authorized(s, "project:read")
  /\ approvals[r].state = "approved"
  /\ Unexpired(r)
  /\ Current(r)
  /\ tokens' = tokens \cup {r}
  /\ UNCHANGED <<log, status, sessions, approvals, editing, calls, now, faults>>

-----------------------------------------------------------------------------
(***************************************************************************)
(* Applying.                                                               *)
(***************************************************************************)

\* POST /api/agent/approvals/:id/apply has authorized its session and waits for
\* the body, which carries the token (any other token is refused unread).
SendApply(c, s, r) ==
  /\ Idle
  /\ Free(c)
  /\ Authorized(s, "timeline:write:approved")
  /\ r \in tokens
  /\ calls' = [calls EXCEPT ![c] = [phase |-> "applying", session |-> s, approval |-> r,
                                    candidate |-> approvals[r].candidate, base |-> Revision]]
  /\ UNCHANGED <<log, status, sessions, approvals, tokens, editing, now, faults>>

\* Mutant of Appliable: the caller's revision is checked, the approval's is not.
AppliableAnyRevision(c) ==
  LET call == calls[c]
  IN
  /\ editing
  /\ approvals[call.approval].state = "approved"
  /\ call.base = Revision
  /\ status[call.candidate] = "open"

\* What an approval that has not been applied must satisfy.
Appliable(c) ==
  LET call == calls[c]
  IN
  /\ editing
  /\ approvals[call.approval].state = "approved"
  /\ call.base = Revision
  /\ Current(call.approval)
  /\ status[call.candidate] = "open"

\* Mutant of CheckApply: the alpha timing gate also stands before a retry.
CheckApplyGated(c) ==
  LET r == calls[c].approval
  IN
  /\ Idle
  /\ calls[c].phase = "applying"
  /\ \/ Applied(r) /\ editing /\ Moved(c, "retrying")
     \/ ~Applied(r) /\ Appliable(c) /\ Moved(c, "checked")
     \/ (Applied(r) => ~editing) /\ ~Appliable(c) /\ Ended(c)
  /\ UNCHANGED <<log, status, sessions, approvals, tokens, editing, now, faults>>

CheckApply(c) ==
  LET r == calls[c].approval
  IN
  /\ Idle
  /\ calls[c].phase = "applying"
  /\ \/ Applied(r) /\ Moved(c, "retrying")
     \/ ~Applied(r) /\ Appliable(c) /\ Moved(c, "checked")
     \/ ~Applied(r) /\ ~Appliable(c) /\ Ended(c)
  /\ UNCHANGED <<log, status, sessions, approvals, tokens, editing, now, faults>>

\* store.commit of the compiled transaction; a revision that has moved on since
\* the check is refused.
Commit(c) ==
  LET call == calls[c]
  IN
  /\ call.phase = "checked"
  /\ \/ /\ call.base = Revision
        /\ log' = Append(log, Entry(call.approval, call.candidate))
        /\ status' = [status EXCEPT ![call.candidate] = "removed"]
        /\ Moved(c, "committed")
     \/ /\ call.base # Revision
        /\ Ended(c)
        /\ UNCHANGED <<log, status>>
  /\ UNCHANGED <<sessions, approvals, tokens, editing, now, faults>>

\* Mutant of Consumable: an approval already consumed is refused.
ConsumableOnce(r) == approvals[r].state = "approved" /\ Unexpired(r)

\* consumeApproval accepts an approved row that has not expired, and answers
\* again for one this transaction has consumed.
Consumable(r) ==
  \/ approvals[r].state = "consumed"
  \/ approvals[r].state = "approved" /\ Unexpired(r)

\* consumeApproval, after the commit or on its own when the record was there.
Consume(c) ==
  LET r == calls[c].approval
  IN
  /\ calls[c].phase \in {"committed", "retrying"}
  /\ approvals' = IF Consumable(r) /\ approvals[r].state = "approved"
                  THEN [approvals EXCEPT ![r].state = "consumed", ![r].consumer = calls[c].session]
                  ELSE approvals
  /\ calls' = [calls EXCEPT ![c] = IF Consumable(r) THEN NoCall ELSE [@ EXCEPT !.phase = "refused"]]
  /\ UNCHANGED <<log, status, sessions, tokens, editing, now, faults>>

-----------------------------------------------------------------------------
(***************************************************************************)
(* What else happens.                                                      *)
(***************************************************************************)

\* Any other commit: the user's own accept, keep and restore routes, or another
\* process.  Some decide a candidate, or open it again.
OtherCommit(candidate, decision) ==
  /\ Revision < MaxRevision
  /\ log' = Append(log, Entry(Nobody, candidate))
  /\ status' = [status EXCEPT ![candidate] = decision]
  /\ UNCHANGED <<sessions, approvals, tokens, editing, calls, now, faults>>

\* The alpha trial's timing is paused or resumed.
ToggleTiming ==
  /\ Idle
  /\ editing' = ~editing
  /\ UNCHANGED <<log, status, sessions, approvals, tokens, calls, now, faults>>

Tick ==
  /\ now < MaxTime
  /\ now' = now + 1
  /\ UNCHANGED <<log, status, sessions, approvals, tokens, editing, calls, faults>>

\* A store error ends one handler where it stands.
Break(c) ==
  /\ faults < MaxFaults
  /\ ~Free(c)
  /\ Ended(c)
  /\ faults' = faults + 1
  /\ UNCHANGED <<log, status, sessions, approvals, tokens, editing, now>>

\* The daemon dies and is started again: every call in flight is gone.
Crash ==
  /\ faults < MaxFaults
  /\ calls' = [c \in Callers |-> NoCall]
  /\ faults' = faults + 1
  /\ UNCHANGED <<log, status, sessions, approvals, tokens, editing, now>>

Ask ==
  \/ \E s \in Sessions : OpenSession(s) \/ CloseSession(s)
  \/ \E c \in Callers, s \in Sessions, r \in Requests, k \in Candidates : SendRequest(c, s, r, k)
  \/ \E c \in Callers, s \in Sessions, r \in Requests : SendApply(c, s, r)
  \/ \E s \in Sessions, r \in Requests : GetToken(s, r)
  \/ \E r \in Requests, click \in Clicks, d \in {"approved", "denied"} : Resolve(r, click, d)

Handle(c) == HandleRequest(c) \/ CheckApply(c) \/ Commit(c) \/ Consume(c)

World ==
  \/ \E k \in Candidates, d \in {"open", "kept", "removed"} : OtherCommit(k, d)
  \/ ToggleTiming
  \/ Tick
  \/ \E c \in Callers : Break(c)
  \/ Crash

Next == Ask \/ (\E c \in Callers : Handle(c)) \/ World

Spec == Init /\ [][Next]_vars

\* The event loop serves every call in flight, and an agent that holds the
\* token of an applied but unconsumed approval keeps retrying while a session
\* lets it.
Resend(r) ==
  /\ Applied(r)
  /\ approvals[r].state = "approved"
  /\ \E c \in Callers, s \in Sessions : SendApply(c, s, r)

FairSpec ==
  /\ Spec
  /\ \A c \in Callers : SF_vars(Handle(c))
  /\ \A r \in Requests : SF_vars(Resend(r))

-----------------------------------------------------------------------------
(***************************************************************************)
(* Properties.                                                             *)
(***************************************************************************)

\* Rows, calls and the log have their types.
TypeOK ==
  /\ log \in Seq([approval: Requests \cup {Nobody}, candidate: Candidates])
  /\ status \in [Candidates -> {"open", "kept", "removed"}]
  /\ sessions \in [Sessions -> {"absent", "open", "closed"}]
  /\ approvals \in [Requests -> ApprovalRows]
  /\ tokens \subseteq Requests
  /\ editing \in BOOLEAN
  /\ calls \in [Callers -> CallRows]
  /\ now \in Nat
  /\ faults \in Nat

\* What is applied under an approval is what the user approved: the candidate
\* the approval names, on the very revision it was shown at (so at most once,
\* however often it is repeated or interrupted), after an approval and never
\* after a denial; and an approval counts as consumed only once it was applied.
AppliedAsShown ==
  /\ \A i \in 1..Len(log) : log[i].approval # Nobody =>
       LET row == approvals[log[i].approval]
       IN  /\ row.state \in {"approved", "consumed"}
           /\ row.candidate = log[i].candidate
           /\ row.base = i - 1
  /\ \A r \in Requests : approvals[r].state = "consumed" => Applied(r)

\* What holds behind AppliedAsShown, and is inductive with it.

\* One handler at a time.
Serial ==
  \A c, d \in Callers :
    {calls[c].phase, calls[d].phase} \subseteq {"checked", "committed", "retrying"} => c = d

\* A row names its candidate, was asked for at a revision of the log, and bears
\* the user's click only once it is resolved.
RowsHold ==
  \A r \in Requests :
    LET row == approvals[r]
    IN  row.state # "absent" =>
          /\ row.candidate \in Candidates
          /\ row.base <= Revision
          /\ row.state = "pending" => row.click = Nobody

\* Only what was approved has a token.
TokensHold == \A r \in tokens : approvals[r].state \in {"approved", "consumed"}

\* A call carries a revision of the log and what its approval names.  A checked
\* call still has the user's approval of its own revision, a later one has its
\* transaction in the log.
CallHolds(c) ==
  LET call == calls[c]
      row == approvals[call.approval]
  IN  /\ ~Free(c) => /\ call.session \in Sessions
                     /\ call.approval \in Requests
                     /\ call.candidate \in Candidates
                     /\ call.base <= Revision
      /\ call.phase \in {"applying", "checked", "committed", "retrying"} =>
           call.approval \in tokens /\ call.candidate = row.candidate
      /\ call.phase = "checked" => row.state = "approved" /\ row.base = call.base
      /\ call.phase \in {"committed", "retrying"} => Applied(call.approval)

CallsHold == \A c \in Callers : CallHolds(c)

Inductive ==
  TypeOK /\ Serial /\ RowsHold /\ TokensHold /\ CallsHold /\ AppliedAsShown

\* The user's verdict stands: an approval keeps its content and its expiry, and
\* its state only goes from pending to approved or denied and from approved to
\* consumed.
VerdictStands ==
  [][\A r \in Requests :
       LET before == approvals[r]
           after == approvals'[r]
       IN  before.state # "absent" /\ after # before =>
             /\ <<before.state, after.state>> \in
                  {<<"pending", "approved">>, <<"pending", "denied">>, <<"approved", "consumed">>}
             /\ \A f \in {"candidate", "base", "expires", "requester"} : after[f] = before[f]
             /\ before.click # Nobody => after.click = before.click]_vars

\* Applying again what is already in the log is never answered with an error:
\* a caller that lost its answer, or whose daemon died between commit and
\* consume, converges by repeating itself (docs/05-agent-protocol.md:197).
RetryConverges ==
  [][\A c \in Callers : calls[c].phase = "retrying" => calls'[c].phase # "refused"]_vars

\* Nothing is applied under an approval whose time has run out: an apply route
\* that starts its work after the expiry does not reach the commit
\* (docs/05-agent-protocol.md:169).
ExpiredNeverApplied ==
  [][\A c \in Callers :
       calls[c].phase = "applying" /\ ~Unexpired(calls[c].approval) => calls'[c].phase # "checked"]_vars

\* An applied approval is consumed in the end, unless no session is left that
\* may apply it.
AppliedIsConsumed ==
  \A r \in Requests :
    Applied(r) ~> \/ approvals[r].state = "consumed"
                  \/ \A s \in Sessions : ~Authorized(s, "timeline:write:approved")

=============================================================================
