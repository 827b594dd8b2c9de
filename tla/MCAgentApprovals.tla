-------------------------- MODULE MCAgentApprovals --------------------------
(***************************************************************************)
(* Small instances of AgentApprovals for TLC.  One session may ask, look   *)
(* and apply; the other one may only look and apply, as when a task hands  *)
(* its work over to the next one.                                          *)
(***************************************************************************)
EXTENDS AgentApprovals, TLC

CONSTANTS r1, r2, k1, first, second, c1, c2, u1, u2

MCRequests == {r1, r2}
MCOneRequest == {r1}
MCCandidates == {k1}
MCSessions == {first, second}
MCOneSession == {first}
MCCallers == {c1, c2}
MCClicks == {u1, u2}
MCOneCapabilities == first :> {"approval:request", "project:read", "timeline:write:approved"}
MCCapabilities ==
  (first :> {"approval:request", "project:read", "timeline:write:approved"})
    @@ (second :> {"project:read", "timeline:write:approved"})
MCSymmetry == Permutations(MCRequests) \cup Permutations(MCCallers) \cup Permutations(MCClicks)
=============================================================================
