------------------------ MODULE AgentApprovalsProofs ------------------------
(***************************************************************************)
(* Theorems about AgentApprovals, for any number of requests, candidates,  *)
(* sessions and calls, any grants, any clock and any failures.             *)
(*                                                                         *)
(* Inductive is the invariant behind them.  What a step may do to the log, *)
(* to a row and to a call is stated once each (LogStep, RowMoves,          *)
(* CallMoves); the conjuncts of Inductive follow from those.               *)
(***************************************************************************)
EXTENDS AgentApprovals, TLAPS

Entries == [approval: Requests \cup {Nobody}, candidate: Candidates]

Held == {"applying", "checked", "committed", "retrying"}

-----------------------------------------------------------------------------
\* Appending keeps every earlier entry in its place and adds one at the end.
LEMMA AppendFacts ==
  ASSUME NEW S, NEW s \in Seq(S), NEW e \in S
  PROVE  /\ Append(s, e) \in Seq(S)
         /\ Len(s) \in Nat
         /\ Len(Append(s, e)) = Len(s) + 1
         /\ \A i \in 1..Len(s) : Append(s, e)[i] = s[i] /\ s[i] \in S
         /\ Append(s, e)[Len(s) + 1] = e
  OBVIOUS

\* Applied(r) in the state a step leads to.
AppliedNext(r) == \E i \in 1..Len(log') : log'[i].approval = r

\* A new entry applies its own approval and takes no other one back.
LEMMA AppendApplies ==
  ASSUME log \in Seq(Entries), NEW e \in Entries, log' = Append(log, e)
  PROVE  /\ Revision \in Nat
         /\ Revision' = Revision + 1
         /\ \A r : AppliedNext(r) <=> Applied(r) \/ r = e.approval
  <1>1. /\ Len(log) \in Nat
        /\ Len(log') = Len(log) + 1
        /\ \A i \in 1..Len(log) : log'[i] = log[i]
        /\ log'[Len(log) + 1] = e
    BY AppendFacts
  <1>2. \A i \in 1..Len(log') : i \in 1..Len(log) \/ i = Len(log) + 1
    BY <1>1
  <1>3. ASSUME NEW r PROVE AppliedNext(r) <=> Applied(r) \/ r = e.approval
    BY <1>1, <1>2 DEF Applied, AppliedNext
  <1>4. QED
    BY <1>1, <1>3 DEF Revision

\* The entry of a call that is past its check, and that of any other commit.
LEMMA EntryTypes ==
  /\ \A r \in Requests, k \in Candidates : Entry(r, k) \in Entries
  /\ \A k \in Candidates : Entry(Nobody, k) \in Entries
  BY DEF Entry, Entries

-----------------------------------------------------------------------------
\* The invariant holds of an empty log without requests.
LEMMA InitInductive == Init => Inductive
  <1> SUFFICES ASSUME Init PROVE Inductive
    OBVIOUS
  <1> USE DEF Init
  <1>1. TypeOK
    BY DEF TypeOK, ApprovalRows, NoApproval, CallRows, NoCall
  <1>2. Serial /\ RowsHold /\ TokensHold /\ CallsHold
    BY DEF Serial, RowsHold, TokensHold, CallsHold, CallHolds, NoCall, NoApproval, Free
  <1>3. AppliedAsShown
    BY DEF AppliedAsShown, NoApproval
  <1>4. QED
    BY <1>1, <1>2, <1>3 DEF Inductive

-----------------------------------------------------------------------------
(***************************************************************************)
(* Type correctness, one step per action.                                  *)
(***************************************************************************)
Phases == {"idle", "requesting", "applying", "checked", "committed", "retrying", "refused"}

\* A row or a call with some fields replaced by values of their types.
LEMMA RowTypes ==
  /\ NoCall \in CallRows
  /\ \A call \in CallRows, phase \in Phases : [call EXCEPT !.phase = phase] \in CallRows
  /\ \A row \in ApprovalRows, state \in {"approved", "denied"}, click \in Clicks :
       [row EXCEPT !.state = state, !.click = click] \in ApprovalRows
  /\ \A row \in ApprovalRows, s \in Sessions :
       [row EXCEPT !.state = "consumed", !.consumer = s] \in ApprovalRows
  <1>1. NoCall \in CallRows
    BY DEF NoCall, CallRows
  <1>2. ASSUME NEW call \in CallRows, NEW phase \in Phases
        PROVE  [call EXCEPT !.phase = phase] \in CallRows
    BY DEF CallRows, Phases
  <1>3. ASSUME NEW row \in ApprovalRows, NEW state \in {"approved", "denied"}, NEW click \in Clicks
        PROVE  [row EXCEPT !.state = state, !.click = click] \in ApprovalRows
    BY DEF ApprovalRows
  <1>4. ASSUME NEW row \in ApprovalRows, NEW s \in Sessions
        PROVE  [row EXCEPT !.state = "consumed", !.consumer = s] \in ApprovalRows
    BY DEF ApprovalRows
  <1>5. QED
    BY <1>1, <1>2, <1>3, <1>4

\* A call that moves on or ends remains a call.
LEMMA CallUpdateTypes ==
  ASSUME TypeOK, NEW c \in Callers
  PROVE  /\ Ended(c) => calls' \in [Callers -> CallRows]
         /\ \A phase \in Phases : Moved(c, phase) => calls' \in [Callers -> CallRows]
  <1>1. calls \in [Callers -> CallRows]
    BY DEF TypeOK
  <1>2. Ended(c) => calls' \in [Callers -> CallRows]
    BY <1>1, RowTypes DEF Ended
  <1>3. ASSUME NEW phase \in Phases, Moved(c, phase) PROVE calls' \in [Callers -> CallRows]
    <2>1. [calls[c] EXCEPT !.phase = phase] \in CallRows
      BY <1>1, RowTypes
    <2>2. QED
      BY <1>1, <1>3, <2>1 DEF Moved
  <1>4. QED
    BY <1>2, <1>3

\* Every action keeps the types.
LEMMA TypeStep ==
  ASSUME TypeOK, CallsHold, [Next]_vars
  PROVE  TypeOK'
  <1>1. CASE UNCHANGED vars
    BY <1>1 DEF TypeOK, vars
  <1>2. Revision \in Nat /\ log \in Seq(Entries)
    BY DEF Revision, TypeOK, Entries
  <1>3. CASE Ask
    <2>1. ASSUME NEW s \in Sessions, OpenSession(s) PROVE TypeOK'
      BY <2>1 DEF OpenSession, TypeOK
    <2>2. ASSUME NEW s \in Sessions, CloseSession(s) PROVE TypeOK'
      BY <2>2 DEF CloseSession, TypeOK
    <2>3. ASSUME NEW c \in Callers, NEW s \in Sessions, NEW r \in Requests, NEW k \in Candidates,
                 SendRequest(c, s, r, k)
          PROVE  TypeOK'
      BY <1>2, <2>3 DEF SendRequest, CallRows, TypeOK
    <2>4. ASSUME NEW c \in Callers, NEW s \in Sessions, NEW r \in Requests, SendApply(c, s, r)
          PROVE  TypeOK'
      BY <1>2, <2>4 DEF SendApply, CallRows, ApprovalRows, TypeOK
    <2>5. ASSUME NEW s \in Sessions, NEW r \in Requests, GetToken(s, r) PROVE TypeOK'
      BY <2>5 DEF GetToken, TypeOK
    <2>6. ASSUME NEW r \in Requests, NEW click \in Clicks, NEW d \in {"approved", "denied"},
                 Resolve(r, click, d)
          PROVE  TypeOK'
      BY <2>6, RowTypes DEF Resolve, TypeOK
    <2>7. QED
      BY <1>3, <2>1, <2>2, <2>3, <2>4, <2>5, <2>6 DEF Ask
  <1>4. ASSUME NEW c \in Callers, Handle(c) PROVE TypeOK'
    <2>1. calls[c] \in CallRows
      BY DEF TypeOK
    <2>2. ~Free(c) => /\ calls[c].session \in Sessions
                      /\ calls[c].approval \in Requests
                      /\ calls[c].candidate \in Candidates
      BY DEF CallsHold, CallHolds
    <2>3. CASE HandleRequest(c)
      <3>1. /\ calls[c].session \in Sessions
            /\ calls[c].approval \in Requests
            /\ calls[c].candidate \in Candidates
            /\ calls[c].base \in Nat
        BY <2>1, <2>2, <2>3 DEF HandleRequest, Free, CallRows
      <3>2. [NoApproval EXCEPT !.state = "pending", !.candidate = calls[c].candidate,
                               !.base = calls[c].base, !.expires = now + Ttl,
                               !.requester = calls[c].session] \in ApprovalRows
        <4>1. now + Ttl \in Nat
          BY ParametersAssumption DEF TypeOK
        <4>2. QED
          BY <3>1, <4>1 DEF ApprovalRows, NoApproval
      <3>3. approvals' \in [Requests -> ApprovalRows]
        BY <2>3, <3>1, <3>2 DEF HandleRequest, TypeOK
      <3>4. QED
        BY <2>3, <3>3, CallUpdateTypes DEF HandleRequest, TypeOK
    <2>4. CASE CheckApply(c)
      BY <2>4, CallUpdateTypes DEF CheckApply, Phases, TypeOK
    <2>5. CASE Commit(c)
      <3>1. CASE calls[c].base = Revision
        <4>1. calls[c].approval \in Requests /\ calls[c].candidate \in Candidates
          BY <2>2, <2>5 DEF Commit, Free
        <4>2. log' \in Seq(Entries)
          BY <1>2, <2>5, <3>1, <4>1, AppendFacts, EntryTypes DEF Commit
        <4>3. status' \in [Candidates -> {"open", "kept", "removed"}]
          BY <2>5, <3>1, <4>1 DEF Commit, TypeOK
        <4>4. QED
          BY <2>5, <3>1, <4>2, <4>3, CallUpdateTypes DEF Commit, Entries, Phases, TypeOK
      <3>2. CASE calls[c].base # Revision
        BY <2>5, <3>2, CallUpdateTypes DEF Commit, TypeOK
      <3>3. QED
        BY <3>1, <3>2
    <2>6. CASE Consume(c)
      <3>1. calls[c].session \in Sessions /\ calls[c].approval \in Requests
        BY <2>2, <2>6 DEF Consume, Free
      <3>2. approvals' \in [Requests -> ApprovalRows]
        BY <2>6, <3>1, RowTypes DEF Consume, TypeOK
      <3>3. calls' \in [Callers -> CallRows]
        BY <2>1, <2>6, RowTypes DEF Consume, Phases, TypeOK
      <3>4. QED
        BY <2>6, <3>2, <3>3 DEF Consume, TypeOK
    <2>7. QED
      BY <1>4, <2>3, <2>4, <2>5, <2>6 DEF Handle
  <1>5. CASE World
    <2>1. ASSUME NEW k \in Candidates, NEW d \in {"open", "kept", "removed"}, OtherCommit(k, d)
          PROVE  TypeOK'
      <3>1. log' \in Seq(Entries)
        BY <1>2, <2>1, AppendFacts, EntryTypes DEF OtherCommit
      <3>2. QED
        BY <2>1, <3>1 DEF OtherCommit, Entries, TypeOK
    <2>2. CASE ToggleTiming
      BY <2>2 DEF ToggleTiming, TypeOK
    <2>3. CASE Tick
      BY <2>3 DEF Tick, TypeOK
    <2>4. ASSUME NEW c \in Callers, Break(c) PROVE TypeOK'
      BY <2>4, CallUpdateTypes DEF Break, TypeOK
    <2>5. CASE Crash
      <3>1. calls' \in [Callers -> CallRows]
        BY <2>5, RowTypes DEF Crash
      <3>2. QED
        BY <2>5, <3>1 DEF Crash, TypeOK
    <2>6. QED
      BY <1>5, <2>1, <2>2, <2>3, <2>4, <2>5 DEF World
  <1>6. QED
    BY <1>1, <1>3, <1>4, <1>5 DEF Next

-----------------------------------------------------------------------------
(***************************************************************************)
(* What a step does to the log, to a row and to a call.                    *)
(***************************************************************************)

\* A step leaves the log alone, or commits something else, or commits what a
\* checked call carries.
LEMMA LogStep ==
  ASSUME TypeOK, CallsHold, [Next]_vars
  PROVE  \/ log' = log
         \/ \E k \in Candidates : log' = Append(log, Entry(Nobody, k)) /\ UNCHANGED <<approvals, calls>>
         \/ \E c \in Callers :
              /\ calls[c].phase = "checked"
              /\ calls[c].base = Revision
              /\ <<calls[c].approval, calls[c].candidate>> \in Requests \X Candidates
              /\ log' = Append(log, Entry(calls[c].approval, calls[c].candidate))
              /\ Moved(c, "committed")
              /\ UNCHANGED approvals
  <1>1. CASE UNCHANGED vars
    BY <1>1 DEF vars
  <1>2. CASE Ask
    BY <1>2 DEF Ask, OpenSession, CloseSession, SendRequest, SendApply, GetToken, Resolve
  <1>3. ASSUME NEW c \in Callers, HandleRequest(c) \/ CheckApply(c) \/ Consume(c) PROVE log' = log
    BY <1>3 DEF HandleRequest, CheckApply, Consume
  <1>4. ASSUME NEW c \in Callers, Commit(c), log' # log
        PROVE  /\ calls[c].phase = "checked"
               /\ calls[c].base = Revision
               /\ <<calls[c].approval, calls[c].candidate>> \in Requests \X Candidates
               /\ log' = Append(log, Entry(calls[c].approval, calls[c].candidate))
               /\ Moved(c, "committed")
               /\ UNCHANGED approvals
    BY <1>4 DEF Commit, CallsHold, CallHolds, Free
  <1>5. ASSUME NEW k \in Candidates, NEW d \in {"open", "kept", "removed"}, OtherCommit(k, d)
        PROVE  log' = Append(log, Entry(Nobody, k)) /\ UNCHANGED <<approvals, calls>>
    BY <1>5 DEF OtherCommit
  <1>6. CASE ToggleTiming \/ Tick \/ (\E c \in Callers : Break(c)) \/ Crash
    BY <1>6 DEF ToggleTiming, Tick, Break, Crash
  <1>7. QED
    BY <1>1, <1>2, <1>3, <1>4, <1>5, <1>6 DEF Next, Handle, World

\* The log only grows, and what was applied stays applied.
LEMMA LogGrows ==
  ASSUME TypeOK, CallsHold, [Next]_vars
  PROVE  /\ Revision \in Nat /\ Revision' \in Nat /\ Revision <= Revision'
         /\ \A r : Applied(r) => AppliedNext(r)
  <1>1. log \in Seq(Entries)
    BY DEF TypeOK, Entries
  <1>2. CASE log' = log
    BY <1>1, <1>2 DEF Revision, Applied, AppliedNext
  <1>3. ASSUME NEW e \in Entries, log' = Append(log, e)
        PROVE  /\ Revision \in Nat /\ Revision' \in Nat /\ Revision <= Revision'
               /\ \A r : Applied(r) => AppliedNext(r)
    BY <1>1, <1>3, AppendApplies
  <1>4. QED
    BY <1>2, <1>3, LogStep, EntryTypes

\* What an approval says besides its state, its click and its consumer.
SameRequest(before, after) ==
  /\ after.candidate = before.candidate
  /\ after.base = before.base
  /\ after.expires = before.expires
  /\ after.requester = before.requester

\* A row stays as it is or goes one step along its life.
RowMoves(r) ==
  LET before == approvals[r]
      after == approvals'[r]
  IN
  \/ after = before
  \/ /\ before.state = "absent"
     /\ after.state = "pending"
     /\ after.candidate \in Candidates /\ after.base <= Revision /\ after.click = Nobody
  \/ /\ before.state = "pending"
     /\ after.state \in {"approved", "denied"}
     /\ SameRequest(before, after)
  \/ /\ before.state = "approved"
     /\ after.state = "consumed"
     /\ Applied(r)
     /\ SameRequest(before, after) /\ after.click = before.click

\* No action does anything else to a row.
LEMMA RowStep ==
  ASSUME TypeOK, CallsHold, [Next]_vars, NEW r \in Requests
  PROVE  RowMoves(r)
  <1>1. approvals[r] \in ApprovalRows
    BY DEF TypeOK
  <1>2. CASE UNCHANGED approvals
    BY <1>2 DEF RowMoves
  <1>3. ASSUME NEW c \in Callers, HandleRequest(c) PROVE RowMoves(r)
    <2>1. calls[c].approval \in Requests /\ calls[c].candidate \in Candidates
          /\ calls[c].base <= Revision
      BY <1>3 DEF HandleRequest, CallsHold, CallHolds, Free
    <2>2. CASE approvals' = approvals \/ calls[c].approval # r
      BY <1>3, <2>2 DEF HandleRequest, RowMoves, TypeOK
    <2>3. CASE approvals' # approvals /\ calls[c].approval = r
      <3>1. approvals[r].state = "absent"
        BY <1>3, <2>3 DEF HandleRequest
      <3>2. approvals'[r] = [NoApproval EXCEPT
               !.state = "pending", !.candidate = calls[c].candidate, !.base = calls[c].base,
               !.expires = now + Ttl, !.requester = calls[c].session]
        BY <1>3, <2>3 DEF HandleRequest, TypeOK
      <3>3. QED
        BY <2>1, <3>1, <3>2 DEF RowMoves, NoApproval
    <2>4. QED
      BY <2>2, <2>3
  <1>4. ASSUME NEW q \in Requests, NEW click \in Clicks, NEW d \in {"approved", "denied"},
               Resolve(q, click, d)
        PROVE  RowMoves(r)
    <2>1. CASE q # r
      BY <1>4, <2>1 DEF Resolve, RowMoves, TypeOK
    <2>2. CASE q = r
      <3>1. approvals[r].state = "pending"
            /\ approvals'[r] = [approvals[r] EXCEPT !.state = d, !.click = click]
        BY <1>4, <2>2 DEF Resolve, TypeOK
      <3>2. QED
        BY <1>1, <3>1 DEF RowMoves, SameRequest, ApprovalRows
    <2>3. QED
      BY <2>1, <2>2
  <1>5. ASSUME NEW c \in Callers, Consume(c) PROVE RowMoves(r)
    <2>1. calls[c].approval \in Requests /\ Applied(calls[c].approval)
      BY <1>5 DEF Consume, CallsHold, CallHolds, Free
    <2>2. CASE approvals' = approvals \/ calls[c].approval # r
      BY <1>5, <2>2 DEF Consume, RowMoves, TypeOK
    <2>3. CASE approvals' # approvals /\ calls[c].approval = r
      <3>1. approvals[r].state = "approved"
            /\ approvals'[r] = [approvals[r] EXCEPT !.state = "consumed", !.consumer = calls[c].session]
        BY <1>5, <2>1, <2>3 DEF Consume, TypeOK
      <3>2. QED
        BY <1>1, <2>1, <2>3, <3>1 DEF RowMoves, SameRequest, ApprovalRows
    <2>4. QED
      BY <2>2, <2>3
  <1>6. CASE Ask
    BY <1>2, <1>4, <1>6 DEF Ask, OpenSession, CloseSession, SendRequest, SendApply, GetToken
  <1>7. ASSUME NEW c \in Callers, Handle(c) PROVE RowMoves(r)
    BY <1>2, <1>3, <1>5, <1>7 DEF Handle, CheckApply, Commit
  <1>8. CASE World \/ UNCHANGED vars
    BY <1>2, <1>8 DEF World, OtherCommit, ToggleTiming, Tick, Break, Crash, vars
  <1>9. QED
    BY <1>6, <1>7, <1>8 DEF Next

\* A call stays as it is, ends, is sent, or goes one step along its route.
CallMoves(c) ==
  LET before == calls[c]
      after == calls'[c]
  IN
  \/ after = before \/ Free(c)'
  \/ /\ after.phase = "requesting"
     /\ <<after.session, after.approval>> \in Sessions \X Requests
     /\ after.candidate \in Candidates
     /\ after.base = Revision
  \/ /\ after.phase = "applying"
     /\ after.session \in Sessions
     /\ after.approval \in tokens
     /\ after.candidate = approvals[after.approval].candidate
     /\ after.base = Revision
  \/ /\ before.phase = "applying"
     /\ after = [before EXCEPT !.phase = "retrying"]
     /\ Applied(before.approval)
  \/ /\ before.phase = "applying"
     /\ after = [before EXCEPT !.phase = "checked"]
     /\ Appliable(c)
     /\ UNCHANGED approvals
  \/ /\ before.phase = "checked"
     /\ after = [before EXCEPT !.phase = "committed"]
     /\ AppliedNext(before.approval)

\* No action does anything else to a call.
LEMMA CallStep ==
  ASSUME TypeOK, CallsHold, [Next]_vars, NEW c \in Callers
  PROVE  CallMoves(c)
  <1>1. calls \in [Callers -> CallRows] /\ calls[c] \in CallRows
    BY DEF TypeOK
  <1>2. CASE calls'[c] = calls[c]
    BY <1>2 DEF CallMoves
  <1>3. CASE calls'[c] = NoCall
    BY <1>3 DEF CallMoves, NoCall, Free
  <1>4. CASE Ask
    <2>1. ASSUME NEW s \in Sessions, NEW r \in Requests, NEW k \in Candidates,
                 SendRequest(c, s, r, k)
          PROVE  CallMoves(c)
      <3>1. calls'[c] = [phase |-> "requesting", session |-> s, approval |-> r,
                         candidate |-> k, base |-> Revision]
        BY <1>1, <2>1 DEF SendRequest
      <3>2. QED
        BY <3>1 DEF CallMoves
    <2>2. ASSUME NEW s \in Sessions, NEW r \in Requests, SendApply(c, s, r)
          PROVE  CallMoves(c)
      <3>1. calls'[c] = [phase |-> "applying", session |-> s, approval |-> r,
                         candidate |-> approvals[r].candidate, base |-> Revision]
        BY <1>1, <2>2 DEF SendApply
      <3>2. QED
        BY <2>2, <3>1 DEF CallMoves, SendApply
    <2>3. ASSUME NEW d \in Callers, d # c, NEW s \in Sessions, NEW r \in Requests,
                 SendApply(d, s, r) \/ \E k \in Candidates : SendRequest(d, s, r, k)
          PROVE  calls'[c] = calls[c]
      BY <1>1, <2>3 DEF SendApply, SendRequest
    <2>4. QED
      BY <1>2, <1>4, <2>1, <2>2, <2>3
      DEF Ask, OpenSession, CloseSession, GetToken, Resolve
  <1>5. CASE Handle(c)
    <2>1. CASE HandleRequest(c)
      BY <1>1, <1>3, <2>1 DEF HandleRequest, Ended
    <2>2. CASE CheckApply(c)
      <3>1. \A phase : Moved(c, phase) => calls'[c] = [calls[c] EXCEPT !.phase = phase]
        BY <1>1 DEF Moved
      <3>2. Ended(c) => calls'[c] = NoCall
        BY <1>1 DEF Ended
      <3>3. QED
        BY <1>3, <2>2, <3>1, <3>2 DEF CheckApply, CallMoves
    <2>3. CASE Commit(c)
      <3>1. CASE calls[c].base # Revision
        BY <1>1, <1>3, <2>3, <3>1 DEF Commit, Ended
      <3>2. CASE calls[c].base = Revision
        <4>1. calls[c].approval \in Requests /\ calls[c].candidate \in Candidates
          BY <2>3 DEF Commit, CallsHold, CallHolds, Free
        <4>2. log \in Seq(Entries) /\ Entry(calls[c].approval, calls[c].candidate) \in Entries
          BY <4>1, EntryTypes DEF TypeOK, Entries
        <4>3. calls'[c] = [calls[c] EXCEPT !.phase = "committed"]
          BY <1>1, <2>3, <3>2 DEF Commit, Moved
        <4>4. AppliedNext(calls[c].approval)
          BY <2>3, <3>2, <4>2, AppendApplies DEF Commit, Entry
        <4>5. QED
          BY <2>3, <4>3, <4>4 DEF Commit, CallMoves
      <3>3. QED
        BY <3>1, <3>2
    <2>4. CASE Consume(c)
      <3>1. calls'[c] = NoCall \/ calls'[c] = [calls[c] EXCEPT !.phase = "refused"]
        BY <1>1, <2>4 DEF Consume
      <3>2. calls'[c] = NoCall \/ calls'[c].phase = "refused"
        BY <1>1, <3>1 DEF CallRows
      <3>3. QED
        BY <1>3, <3>2 DEF CallMoves, Free
    <2>5. QED
      BY <1>5, <2>1, <2>2, <2>3, <2>4 DEF Handle
  <1>6. ASSUME NEW d \in Callers, d # c, Handle(d) PROVE calls'[c] = calls[c]
    BY <1>1, <1>6 DEF Handle, HandleRequest, CheckApply, Commit, Consume, Moved, Ended
  <1>7. ASSUME NEW d \in Callers, Break(d) PROVE calls'[c] \in {calls[c], NoCall}
    BY <1>1, <1>7 DEF Break, Ended
  <1>8. CASE Crash
    BY <1>3, <1>8 DEF Crash
  <1>9. CASE World
    BY <1>2, <1>3, <1>7, <1>8, <1>9 DEF World, OtherCommit, ToggleTiming, Tick
  <1>10. CASE UNCHANGED vars
    BY <1>2, <1>10 DEF vars
  <1>11. QED
    BY <1>2, <1>4, <1>5, <1>6, <1>9, <1>10 DEF Next

\* While a call is checked nothing else resolves or consumes.
LEMMA CheckedStands ==
  ASSUME Serial, [Next]_vars, NEW c \in Callers, calls[c].phase = "checked"
  PROVE  UNCHANGED approvals
  <1>1. ~Idle
    BY DEF Idle
  <1>2. CASE Ask
    BY <1>1, <1>2 DEF Ask, OpenSession, CloseSession, SendRequest, SendApply, GetToken, Resolve
  <1>3. ASSUME NEW d \in Callers, Handle(d) PROVE UNCHANGED approvals
    <2>1. ~Consume(d)
      BY DEF Consume, Serial
    <2>2. QED
      BY <1>1, <1>3, <2>1 DEF Handle, HandleRequest, CheckApply, Commit
  <1>4. CASE World \/ UNCHANGED vars
    BY <1>4 DEF World, OtherCommit, ToggleTiming, Tick, Break, Crash, vars
  <1>5. QED
    BY <1>2, <1>3, <1>4 DEF Next

-----------------------------------------------------------------------------
(***************************************************************************)
(* The conjuncts of Inductive, one by one.                                 *)
(***************************************************************************)
\* Only CheckApply takes a call into the part of its route that is not
\* interrupted, and only when no call is there.
LEMMA SerialStep ==
  ASSUME TypeOK, Serial, [Next]_vars
  PROVE  Serial'
  <1> DEFINE Busy(c) == calls[c].phase \in {"checked", "committed", "retrying"}
  <1>1. calls \in [Callers -> CallRows]
    BY DEF TypeOK
  <1>2. SUFFICES \/ \A c \in Callers : Busy(c)' => Busy(c)
                 \/ \E c \in Callers : \A d \in Callers : Busy(d)' => d = c
    BY DEF Serial
  <1>3. CASE UNCHANGED calls
    BY <1>3
  <1>4. CASE Ask
    <2>1. ASSUME NEW c \in Callers, NEW s \in Sessions, NEW r \in Requests,
                 SendApply(c, s, r) \/ \E k \in Candidates : SendRequest(c, s, r, k)
          PROVE  \A d \in Callers : Busy(d)' => Busy(d)
      BY <1>1, <2>1 DEF SendApply, SendRequest
    <2>2. QED
      BY <1>3, <1>4, <2>1 DEF Ask, OpenSession, CloseSession, GetToken, Resolve
  <1>5. ASSUME NEW c \in Callers, HandleRequest(c) \/ Commit(c) \/ Consume(c)
        PROVE  \A d \in Callers : Busy(d)' => Busy(d)
    BY <1>1, <1>5 DEF HandleRequest, Commit, Consume, Moved, Ended, NoCall, CallRows
  <1>6. ASSUME NEW c \in Callers, CheckApply(c)
        PROVE  \A d \in Callers : Busy(d)' => d = c
    BY <1>1, <1>6 DEF CheckApply, Idle, Moved, Ended
  <1>7. ASSUME NEW c \in Callers, Break(c) PROVE \A d \in Callers : Busy(d)' => Busy(d)
    BY <1>1, <1>7 DEF Break, Ended, NoCall
  <1>8. CASE Crash
    BY <1>8 DEF Crash, NoCall
  <1>9. CASE World
    BY <1>3, <1>7, <1>8, <1>9 DEF World, OtherCommit, ToggleTiming, Tick
  <1>10. CASE UNCHANGED vars
    BY <1>3, <1>10 DEF vars
  <1>11. QED
    BY <1>4, <1>5, <1>6, <1>9, <1>10 DEF Next, Handle

\* Rows keep their candidate and their base, and the log only grows.
LEMMA RowsStep ==
  ASSUME TypeOK, RowsHold, CallsHold, [Next]_vars
  PROVE  RowsHold'
  <1> SUFFICES ASSUME NEW r \in Requests, approvals'[r].state # "absent"
               PROVE  /\ approvals'[r].candidate \in Candidates
                      /\ approvals'[r].base <= Revision'
                      /\ approvals'[r].state = "pending" => approvals'[r].click = Nobody
    BY DEF RowsHold
  <1>1. Revision \in Nat /\ Revision' \in Nat /\ Revision <= Revision'
    BY LogGrows
  <1>2. approvals[r] \in ApprovalRows /\ approvals'[r] \in ApprovalRows
    BY TypeStep DEF TypeOK
  <1>3. RowMoves(r)
    BY RowStep
  <1>4. approvals'[r].base \in Nat
    BY <1>2 DEF ApprovalRows
  <1>5. QED
    BY <1>1, <1>2, <1>3, <1>4 DEF RowMoves, RowsHold, SameRequest

\* An approved row is never denied afterwards.
LEMMA TokensStep ==
  ASSUME TypeOK, TokensHold, CallsHold, [Next]_vars
  PROVE  TokensHold' /\ tokens \subseteq tokens'
  <1>1. \/ tokens' = tokens
        \/ \E s \in Sessions, r \in Requests : GetToken(s, r)
    <2>1. CASE Ask
      BY <2>1 DEF Ask, OpenSession, CloseSession, SendRequest, SendApply, Resolve
    <2>2. ASSUME NEW c \in Callers, Handle(c) PROVE tokens' = tokens
      BY <2>2 DEF Handle, HandleRequest, CheckApply, Commit, Consume
    <2>3. CASE World \/ UNCHANGED vars
      BY <2>3 DEF World, OtherCommit, ToggleTiming, Tick, Break, Crash, vars
    <2>4. QED
      BY <2>1, <2>2, <2>3 DEF Next
  <1>2. \A r \in tokens : approvals'[r].state \in {"approved", "consumed"}
    BY RowStep DEF RowMoves, TokensHold, TypeOK
  <1>3. QED
    BY <1>1, <1>2 DEF GetToken, TokensHold

\* What a call relies on is not taken away while it is under way.
LEMMA CallsStep ==
  ASSUME TypeOK, Serial, RowsHold, TokensHold, CallsHold, [Next]_vars
  PROVE  CallsHold'
  <1> SUFFICES ASSUME NEW c \in Callers
               PROVE  CallHolds(c)'
    BY DEF CallsHold
  <1> DEFINE call == calls[c]
             after == calls'[c]
  <1>1. call \in CallRows /\ after \in CallRows /\ tokens \subseteq Requests /\ CallHolds(c)
    BY TypeStep DEF TypeOK, CallsHold
  <1>2. Revision \in Nat /\ Revision' \in Nat /\ Revision <= Revision'
        /\ \A r : Applied(r) => AppliedNext(r)
    BY LogGrows
  <1>3. tokens \subseteq tokens'
    BY TokensStep
  <1>4. \A r \in tokens : approvals'[r].candidate = approvals[r].candidate
    BY <1>1, RowStep DEF RowMoves, SameRequest, TokensHold
  <1>5. CallMoves(c)
    BY CallStep
  <1>6. CASE Free(c)'
    BY <1>6 DEF Free, CallHolds
  <1>7. CASE after = call
    <2>1. after.phase = "checked" => UNCHANGED approvals
      BY <1>7, CheckedStands
    <2>2. call.base <= Revision => call.base <= Revision'
      BY <1>1, <1>2 DEF CallRows
    <2>3. Applied(call.approval) => AppliedNext(after.approval)
      BY <1>2, <1>7 DEF Applied, AppliedNext
    <2>4. QED
      BY <1>1, <1>3, <1>4, <1>7, <2>1, <2>2, <2>3 DEF CallHolds, Free, Applied, AppliedNext
  <1>8. CASE after.phase = "requesting" /\ after # call
    <2>1. /\ after.session \in Sessions
          /\ after.approval \in Requests
          /\ after.candidate \in Candidates
          /\ after.base = Revision
      BY <1>1, <1>5, <1>8 DEF CallMoves, Free, CallRows
    <2>2. QED
      BY <1>2, <1>8, <2>1 DEF CallHolds
  <1>9. CASE after.phase = "applying" /\ after # call
    <2>1. /\ after.session \in Sessions
          /\ after.approval \in tokens
          /\ after.candidate = approvals[after.approval].candidate
          /\ after.base = Revision
      BY <1>1, <1>5, <1>9 DEF CallMoves, Free, CallRows
    <2>2. after.candidate \in Candidates
      BY <1>1, <2>1 DEF TokensHold, RowsHold
    <2>3. QED
      BY <1>1, <1>2, <1>3, <1>4, <1>9, <2>1, <2>2 DEF CallHolds
  <1>10. CASE after.phase \in {"checked", "committed", "retrying"} /\ after # call
    <2>1. /\ after.session = call.session
          /\ after.approval = call.approval
          /\ after.candidate = call.candidate
          /\ after.base = call.base
      BY <1>1, <1>5, <1>10 DEF CallMoves, Free, CallRows
    <2>2. call.phase \in {"applying", "checked"}
      BY <1>1, <1>5, <1>10 DEF CallMoves, Free, CallRows
    <2>3. /\ call.session \in Sessions
          /\ call.approval \in Requests
          /\ call.candidate \in Candidates
          /\ call.base <= Revision
          /\ call.approval \in tokens
          /\ call.candidate = approvals[call.approval].candidate
      BY <1>1, <2>2 DEF CallHolds, Free
    <2>4. call.base <= Revision'
      BY <1>1, <1>2, <2>3 DEF CallRows
    <2>5. after.phase = "checked" => Appliable(c) /\ UNCHANGED approvals
      BY <1>1, <1>5, <1>10 DEF CallMoves, Free, CallRows
    <2>6. after.phase \in {"committed", "retrying"} => AppliedNext(after.approval)
      <3>1. CASE after.phase = "committed"
        BY <1>1, <1>5, <1>10, <2>1, <3>1 DEF CallMoves, Free, CallRows
      <3>2. CASE after.phase = "retrying"
        <4>1. Applied(call.approval)
          BY <1>1, <1>5, <1>10, <3>2 DEF CallMoves, Free, CallRows
        <4>2. QED
          BY <1>2, <2>1, <4>1 DEF Applied, AppliedNext
      <3>3. QED
        BY <3>1, <3>2
    <2>7. QED
      BY <1>3, <1>4, <1>10, <2>1, <2>3, <2>4, <2>5, <2>6
      DEF Appliable, Current, CallHolds, Applied, AppliedNext
  <1>11. QED
    BY <1>1, <1>6, <1>7, <1>8, <1>9, <1>10 DEF CallRows, Free

\* The entry a checked call adds is what its approval says, at the revision it
\* was shown at; other entries and rows keep what they say.
LEMMA AppliedStep ==
  ASSUME Inductive, [Next]_vars
  PROVE  AppliedAsShown'
  <1> USE DEF Inductive
  <1>1. log \in Seq(Entries) /\ Revision \in Nat /\ Revision = Len(log)
    BY LogGrows DEF TypeOK, Entries, Revision
  <1>2. \A r \in Requests : RowMoves(r)
    BY RowStep
  <1>3. \A r : Applied(r) => AppliedNext(r)
    BY LogGrows
  <1>4. ASSUME NEW r \in Requests, approvals'[r].state = "consumed" PROVE AppliedNext(r)
    <2>1. Applied(r)
      BY <1>2, <1>4 DEF RowMoves, AppliedAsShown
    <2>2. QED
      BY <1>3, <2>1
  <1>5. ASSUME NEW i \in 1..Len(log), log[i].approval # Nobody
        PROVE  LET row == approvals'[log[i].approval]
               IN  /\ row.state \in {"approved", "consumed"}
                   /\ row.candidate = log[i].candidate
                   /\ row.base = i - 1
    <2>1. log[i].approval \in Requests
      <3>1. log[i] \in Entries
        BY <1>1
      <3>2. QED
        BY <1>5, <3>1 DEF Entries
    <2>2. LET row == approvals[log[i].approval]
          IN  /\ row.state \in {"approved", "consumed"}
              /\ row.candidate = log[i].candidate
              /\ row.base = i - 1
      BY <1>5 DEF AppliedAsShown
    <2>3. QED
      BY <1>2, <2>1, <2>2 DEF RowMoves, SameRequest
  <1>6. CASE log' = log
    BY <1>4, <1>5, <1>6 DEF AppliedAsShown, Applied, AppliedNext
  <1>7. ASSUME NEW e \in Entries, log' = Append(log, e),
               e.approval # Nobody =>
                 LET row == approvals'[e.approval]
                 IN  /\ row.state \in {"approved", "consumed"}
                     /\ row.candidate = e.candidate
                     /\ row.base = Revision
        PROVE  AppliedAsShown'
    <2>1. /\ Len(log') = Len(log) + 1
          /\ \A i \in 1..Len(log) : log'[i] = log[i]
          /\ log'[Len(log) + 1] = e
      BY <1>1, <1>7, AppendFacts
    <2>2. \A i \in 1..Len(log') : i \in 1..Len(log) \/ i = Len(log) + 1
      BY <1>1, <2>1
    <2>3. ASSUME NEW i \in 1..Len(log'), log'[i].approval # Nobody
          PROVE  LET row == approvals'[log'[i].approval]
                 IN  /\ row.state \in {"approved", "consumed"}
                     /\ row.candidate = log'[i].candidate
                     /\ row.base = i - 1
      <3>1. CASE i \in 1..Len(log)
        BY <1>5, <2>1, <2>3, <3>1
      <3>2. CASE i = Len(log) + 1
        <4>1. log'[i] = e /\ i - 1 = Revision
          BY <1>1, <2>1, <3>2
        <4>2. QED
          BY <1>7, <2>3, <4>1
      <3>3. QED
        BY <2>2, <3>1, <3>2
    <2>4. QED
      BY <1>4, <2>3 DEF AppliedAsShown, Applied, AppliedNext
  <1>8. ASSUME NEW k \in Candidates, log' = Append(log, Entry(Nobody, k))
        PROVE  AppliedAsShown'
    BY <1>7, <1>8, EntryTypes DEF Entry
  <1>9. ASSUME NEW c \in Callers,
               calls[c].phase = "checked",
               calls[c].base = Revision,
               <<calls[c].approval, calls[c].candidate>> \in Requests \X Candidates,
               log' = Append(log, Entry(calls[c].approval, calls[c].candidate)),
               UNCHANGED approvals
        PROVE  AppliedAsShown'
    <2> DEFINE e == Entry(calls[c].approval, calls[c].candidate)
    <2>1. e \in Entries /\ e.approval = calls[c].approval /\ e.candidate = calls[c].candidate
      BY <1>9, EntryTypes DEF Entry
    <2>2. LET row == approvals'[e.approval]
          IN  row.state = "approved" /\ row.candidate = e.candidate /\ row.base = Revision
      BY <1>9, <2>1 DEF CallsHold, CallHolds
    <2> HIDE DEF e
    <2>3. QED
      BY <1>7, <1>9, <2>1, <2>2 DEF e
  <1>10. QED
    BY <1>6, <1>8, <1>9, LogStep

\* The invariant is inductive.
LEMMA InductiveStep ==
  ASSUME Inductive, [Next]_vars
  PROVE  Inductive'
  <1>1. TypeOK' /\ Serial' /\ RowsHold' /\ TokensHold' /\ CallsHold'
    BY TypeStep, SerialStep, RowsStep, TokensStep, CallsStep DEF Inductive
  <1>2. AppliedAsShown'
    BY AppliedStep
  <1>3. QED
    BY <1>1, <1>2 DEF Inductive

-----------------------------------------------------------------------------
(***************************************************************************)
(* The theorems.                                                           *)
(***************************************************************************)

\* Every reachable state satisfies the inductive invariant.
THEOREM InductiveHolds == Spec => []Inductive
  <1>1. Inductive /\ [Next]_vars => Inductive'
    BY InductiveStep
  <1>2. QED
    BY <1>1, InitInductive, PTL DEF Spec

\* Rows, calls and the log keep their types.
THEOREM TypeCorrect == Spec => []TypeOK
  BY InductiveHolds, PTL DEF Inductive

\* Whatever handlers, commits of others, expiry, lost answers and crashes come
\* in between, what is applied under an approval is what the user approved, on
\* the revision it was shown at.
THEOREM OnlyShownIsApplied == Spec => []AppliedAsShown
  BY InductiveHolds, PTL DEF Inductive

\* However often an approval is applied, repeated after a lost answer or a
\* crash, or sent by two callers at once, the log has one transaction of it.
AppliedAtMostOnce ==
  \A i, j \in 1..Len(log) :
    log[i].approval = log[j].approval /\ log[i].approval # Nobody => i = j

\* No approval is applied a second time.
THEOREM EachAppliedOnce == Spec => []AppliedAtMostOnce
  <1>1. Inductive => AppliedAtMostOnce
    BY DEF Inductive, AppliedAsShown, AppliedAtMostOnce
  <1>2. QED
    BY <1>1, InductiveHolds, PTL

\* The user's verdict on an approval stands, and what it was given on.
THEOREM VerdictsStand == Spec => VerdictStands
  <1> DEFINE Stands(r) ==
        LET before == approvals[r]
            after == approvals'[r]
        IN  before.state # "absent" /\ after # before =>
              /\ <<before.state, after.state>> \in
                   {<<"pending", "approved">>, <<"pending", "denied">>, <<"approved", "consumed">>}
              /\ \A f \in {"candidate", "base", "expires", "requester"} : after[f] = before[f]
              /\ before.click # Nobody => after.click = before.click
  <1>1. ASSUME Inductive, [Next]_vars, NEW r \in Requests PROVE Stands(r)
    <2>1. RowMoves(r)
      BY <1>1, RowStep DEF Inductive
    <2>2. approvals[r].state = "pending" => approvals[r].click = Nobody
      BY <1>1 DEF Inductive, RowsHold
    <2>3. QED
      BY <2>1, <2>2 DEF RowMoves, SameRequest
  <1>2. Inductive /\ [Next]_vars => \A r \in Requests : Stands(r)
    BY <1>1
  <1>3. QED
    BY <1>2, InductiveHolds, PTL DEF Spec, VerdictStands
=============================================================================
