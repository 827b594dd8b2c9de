---------------------------- MODULE MCEditEngine ----------------------------
(* Instances of EditEngine for TLC: two actors, one document of two clips    *)
(* opened with each kind of lock in turn.                                    *)
EXTENDS EditEngine

Human == [id |-> "user", kind |-> "human"]
Agent == [id |-> "agent", kind |-> "agent"]
MCActors == {Human, Agent}

Span(start, dur) == [start |-> start, dur |-> dur]
Take(id, start, dur, from) ==
  [id |-> id, asset |-> "a1", range |-> Span(start, dur), src |-> Span(from, dur), look |-> 0,
   enabled |-> TRUE]
Strip(id, clips) == [id |-> id, locked |-> FALSE, clips |-> clips]
Guard(mode, scope) == [id |-> "l1", owner |-> "user", mode |-> mode, scope |-> scope]

Scopes == {[kind |-> "track", trackId |-> "t1"], [kind |-> "clip", clipId |-> "c1"],
           [kind |-> "property", objectId |-> "c1", path |-> <<"range", "start">>],
           [kind |-> "property", objectId |-> "c2", path |-> <<"look">>],
           [kind |-> "range", range |-> Span(2, 1), trackIds |-> {}],
           [kind |-> "source_range", assetId |-> "a1", range |-> Span(1, 1)]}

(* c1 plays [0, 2) of the asset at 0; c2 plays [2, 4) of it after a gap. *)
Document(locks) ==
  [tracks |-> <<Strip("t1", <<Take("c1", 0, 2, 0), Take("c2", 3, 2, 2)>>)>>,
   locks |-> locks, assets |-> <<"a1">>, artifacts |-> <<>>]
MCDocuments == {Document(<<>>)} \cup {Document(<<Guard("deny_agent", scope)>>) : scope \in Scopes}

MCSpareClips == {Take("c3", 1, 1, 1)}
MCSpareTracks == {Strip("t2", <<>>), [Strip("t3", <<Take("c4", 2, 2, 0)>>) EXCEPT !.locked = TRUE]}

(* A track that brings a clip of the name of one that is there. *)
MCPlainDocument == {Document(<<>>)}
MCCopyingTracks == {Strip("t2", <<Take("c1", 0, 1, 0)>>)}

MCSpareLocks == {[Guard("owner_only", [kind |-> "clip", clipId |-> "c2"]) EXCEPT !.id = "l2", !.owner = o] :
                   o \in {"user", "agent"}}
\* Switched off with other material at another place; another name.
MCPatches == {[enabled |-> FALSE, src |-> Span(2, 2), range |-> Span(4, 2)], [id |-> "r1"]}
MCSpareObjects == [assets |-> "a2", artifacts |-> "x1"]
MCOffered == OnClip \cup OnLibrary \cup
  {"track.add", "track.remove", "clip.insert", "range.deleteRipple", "lock.add", "lock.remove"}

-----------------------------------------------------------------------------
(* Rational time, on every time of a few ticks at rates that divide one     *)
(* another and at rates that do not (2, 1, 3 and 3/2 ticks a second).      *)

MaxSafe == 9
T == INSTANCE RationalTime

Rates == {[numerator |-> n, denominator |-> d] : n \in {2, 3}, d \in {1, 2}}
Times == [value : 0 .. 4, rate : Rates]
Timed(r, rate) == [start |-> [value |-> r.start, rate |-> rate],
                   duration |-> [value |-> r.dur, rate |-> rate]]
Spans == {Span(start, dur) : start \in 0 .. 3, dur \in 1 .. 2}

(* A time in a common unit, twelfths of a second: the reference for all of it. *)
Twelfths(time) == (12 * time.value * time.rate.denominator) \div time.rate.numerator
Tick(rate) == Twelfths([value |-> 1, rate |-> rate])
Near(x, y, d) == x - y <= d /\ y - x <= d

(* Times are ordered as the instants they stand for, whatever their rates. *)
ASSUME ComparesInstants ==
  \A a, b \in Times :
    T!CompareTime(a, b) = CASE Twelfths(a) < Twelfths(b) -> -1
                            [] Twelfths(a) > Twelfths(b) -> 1
                            [] OTHER -> 0

(* A conversion is exact or refused; floor, ceil and nearest stay on their   *)
(* side and within one tick, half a tick for nearest.                        *)
ASSUME RoundsWithinATick ==
  \A a \in Times, rate \in Rates, mode \in T!Rounding :
    \E to \in {T!ConvertTime(a, rate, mode)} :
      IF to = T!Refused
      THEN \/ mode = "exact" /\ Twelfths(a) % Tick(rate) # 0
           \/ Twelfths(a) > (MaxSafe - 1) * Tick(rate)
      ELSE CASE mode = "exact" -> Twelfths(to) = Twelfths(a)
             [] mode = "floor" -> Twelfths(a) - Twelfths(to) \in 0 .. Tick(rate) - 1
             [] mode = "ceil" -> Twelfths(to) - Twelfths(a) \in 0 .. Tick(rate) - 1
             [] mode = "nearest" -> Near(2 * Twelfths(a), 2 * Twelfths(to), Tick(rate))

(* Adding is exact or refused, and subtracting takes it back.                *)
ASSUME AddsExactly ==
  \A a, b \in Times, rate \in Rates :
    \E sum \in {T!AddTime(a, b, rate, "exact")} :
      IF sum = T!Refused
      THEN \/ (Twelfths(a) + Twelfths(b)) % Tick(rate) # 0
           \/ Twelfths(a) + Twelfths(b) > MaxSafe * Tick(rate)
      ELSE /\ Twelfths(sum) = Twelfths(a) + Twelfths(b)
           /\ T!SubtractTime(sum, b, a.rate, "exact") = a

(* At one rate, times are integers: what EditOperations takes them for.      *)
ASSUME IntegersStandForTimes ==
  \A rate \in Rates, a, b \in Spans :
    /\ T!RangesOverlap(Timed(a, rate), Timed(b, rate)) <=> RangesOverlap(a, b)
    /\ T!RangeEnd(Timed(a, rate)).value = RangeEnd(a)
    /\ \A i \in 0 .. 5 :
         T!RangeContainsTime(Timed(a, rate), [value |-> i, rate |-> rate]) <=> i \in Instants(a)
=============================================================================
