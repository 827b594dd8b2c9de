----------------------------- MODULE RationalTime -----------------------------
(***************************************************************************)
(* Exact media time: packages/timeline-engine/src/time.ts.                 *)
(*                                                                         *)
(* A time is [value, rate], `value` ticks at `rate` ticks per second, and  *)
(* a rate is [numerator, denominator]: 24000/1001, 25/1, 1000000/1.  Every *)
(* comparison goes through reduced fractions of a second, so no frame is   *)
(* lost between two rates; a result is refused (the code throws) when the  *)
(* target rate cannot hold it exactly, unless the caller names a rounding, *)
(* and when it leaves the integers a document may hold, 0 .. MaxSafe       *)
(* (Number.MAX_SAFE_INTEGER).                                              *)
(***************************************************************************)
EXTENDS Integers

CONSTANT MaxSafe

Rounding == {"exact", "floor", "ceil", "nearest"}
Refused == [value |-> -1]

-----------------------------------------------------------------------------
(* Reduced fractions. *)

Gcd[a \in Nat, b \in Nat] == IF b = 0 THEN a ELSE Gcd[b, a % b]

Magnitude(n) == IF n < 0 THEN -n ELSE n

Rational(numerator, denominator) ==      \* denominator > 0 in every use
  LET divisor == Gcd[Magnitude(numerator), denominator]
  IN [numerator |-> numerator \div divisor, denominator |-> denominator \div divisor]

AddRational(a, b) ==
  Rational(a.numerator * b.denominator + b.numerator * a.denominator,
           a.denominator * b.denominator)
SubtractRational(a, b) ==
  Rational(a.numerator * b.denominator - b.numerator * a.denominator,
           a.denominator * b.denominator)
Before(a, b) == a.numerator * b.denominator < b.numerator * a.denominator

-----------------------------------------------------------------------------
(* Times a document may hold, and the seconds they stand for. *)

SafeRate(rate) ==
  rate.numerator \in 1 .. MaxSafe /\ rate.denominator \in 1 .. MaxSafe
SafeTime(time) == time.value \in 0 .. MaxSafe /\ SafeRate(time.rate)
SafeRange(range) == SafeTime(range.start) /\ SafeTime(range.duration)

Seconds(time) == Rational(time.value * time.rate.denominator, time.rate.numerator)

CompareTime(left, right) ==
  CASE Before(Seconds(left), Seconds(right)) -> -1
    [] Before(Seconds(right), Seconds(left)) -> 1
    [] OTHER -> 0

-----------------------------------------------------------------------------
(* Seconds back to ticks of a rate. *)

(* The quotient of two naturals; a remainder of half a tick is rounded up. *)
Divide(numerator, denominator, rounding) ==
  LET quotient == numerator \div denominator
      remainder == numerator % denominator
      up == \/ rounding = "ceil"
            \/ rounding = "nearest" /\ remainder * 2 >= denominator
  IN IF remainder # 0 /\ up THEN quotient + 1 ELSE quotient

Divides(numerator, denominator) == numerator % denominator = 0

SecondsToTime(seconds, rate, rounding) ==
  LET numerator == seconds.numerator * rate.numerator
      denominator == seconds.denominator * rate.denominator
      value == Divide(numerator, denominator, rounding)
  IN IF /\ SafeRate(rate)
        /\ rounding = "exact" => Divides(numerator, denominator)
        /\ value <= MaxSafe
     THEN [value |-> value, rate |-> rate]
     ELSE Refused

ConvertTime(time, rate, rounding) ==
  IF SafeTime(time) THEN SecondsToTime(Seconds(time), rate, rounding) ELSE Refused

AddTime(left, right, rate, rounding) ==
  IF SafeTime(left) /\ SafeTime(right)
  THEN SecondsToTime(AddRational(Seconds(left), Seconds(right)), rate, rounding)
  ELSE Refused

SubtractTime(left, right, rate, rounding) ==
  IF SafeTime(left) /\ SafeTime(right) /\ CompareTime(left, right) >= 0
  THEN SecondsToTime(SubtractRational(Seconds(left), Seconds(right)), rate, rounding)
  ELSE Refused

-----------------------------------------------------------------------------
(* Half-open ranges [start, duration], whose ends may have different rates. *)

RangeEnd(range) == AddTime(range.start, range.duration, range.start.rate, "exact")

EndSeconds(range) == AddRational(Seconds(range.start), Seconds(range.duration))

RangesOverlap(left, right) ==
  /\ Before(Seconds(left.start), EndSeconds(right))
  /\ Before(Seconds(right.start), EndSeconds(left))

RangeContainsTime(range, time) ==
  /\ ~Before(Seconds(time), Seconds(range.start))
  /\ Before(Seconds(time), EndSeconds(range))
=============================================================================
