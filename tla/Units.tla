-------------------------------- MODULE Units --------------------------------
(***************************************************************************)
(* ByteSize and HumanDuration (confinery-core/src/units.rs): the sizes and *)
(* durations of a profile, read from text and written back.  An optional   *)
(* value is a set of at most one.                                          *)
(*                                                                         *)
(* A size in a text is a record [form, halves, unit]: a bare integer of    *)
(* the file format, or a number of halves (so 1.5GiB has three) with a     *)
(* unit.  A duration is a bare number, or a count of each unit: a unit     *)
(* written twice and a fraction of one are left out.                       *)
(***************************************************************************)
EXTENDS Integers

CONSTANTS
  MaxU64,       \* the largest u64
  Exact,        \* 2^53: every integer up to it is an f64
  Spacings,     \* the powers of two, from 2 on, by which f64s above it can be apart
  UnitSize,     \* the bytes of each unit a size can have
  Minute, Hour, Day   \* the seconds of each unit of a duration

Binary == {"KiB", "MiB", "GiB"}

ASSUME SizeAssumption ==
  /\ MaxU64 \in Nat /\ Exact \in 1..MaxU64 /\ Spacings \subseteq Nat \ {0}
  /\ Binary \cup {"B"} \subseteq DOMAIN UnitSize
  /\ \A u \in DOMAIN UnitSize : UnitSize[u] \in Nat \ {0}
  /\ UnitSize["B"] = 1

\* An integer not too great for an f64.
Reached(n) == \E u \in Spacings : n < Exact * u

\* What the proofs need to know of powers of two: each divides those after it, and
\* products and quotients are powers again, up to the greatest spacing there is.
ASSUME SpacingAssumption ==
  /\ Exact % 2 = 0 /\ Reached(4 * MaxU64)
  /\ 2 \in Spacings /\ 1 \notin Spacings
  /\ \A u \in Binary : UnitSize[u] \in Spacings
  /\ \A u, v \in Spacings :
       /\ u <= v => v % u = 0 /\ (u = v \/ v \div u \in Spacings)
       /\ u * v \in Spacings \/ \A w \in Spacings : w < u * v

ASSUME DurationAssumption == {Minute, Hour, Day} \subseteq Nat \ {0}

-----------------------------------------------------------------------------
(* Sizes. *)

\* The f64 nearest to an integer, ties to the even one; above Exact the f64s
\* are the multiples of a power of two, their spacing.
Spacing(n) ==
  CHOOSE u \in Spacings :
    n < Exact * u /\ \A v \in Spacings : n < Exact * v => u <= v

F64(n) ==
  IF n <= Exact THEN n
  ELSE LET u == Spacing(n)
           below == n - (n % u)
       IN  IF 2 * (n % u) < u \/ (2 * (n % u) = u /\ (below \div u) % 2 = 0)
           THEN below ELSE below + u

Saturated(n) == IF n <= MaxU64 THEN n ELSE MaxU64

\* A negative number, a malformed one or an unknown unit is an error; the
\* product is made in f64, truncated and saturated.
ParseSize(t) ==
  IF t.halves < 0 \/ t.unit \notin DOMAIN UnitSize THEN {}
  ELSE {Saturated(F64(F64(t.halves) * UnitSize[t.unit]) \div 2)}

\* A bare integer is taken as it is.
ReadSize(t) ==
  IF t.form = "text" THEN ParseSize(t)
  ELSE IF t.halves < 0 THEN {} ELSE {t.halves \div 2}

\* What a size can be: neither the number of a text nor its product with the unit is
\* too great for an f64, and a bare integer is no greater than a u64.
Measured(t) ==
  /\ t.halves \in Int
  /\ IF t.form = "text"
     THEN t.halves >= 0 /\ t.unit \in DOMAIN UnitSize =>
            Reached(t.halves) /\ Reached(F64(t.halves) * UnitSize[t.unit])
     ELSE t.halves \div 2 <= MaxU64

\* The largest binary unit that divides the size; bytes if none does.
Divides(u, b) == b >= UnitSize[u] /\ b % UnitSize[u] = 0

HumanUnit(b) ==
  IF \E u \in Binary : Divides(u, b)
  THEN CHOOSE u \in Binary :
         Divides(u, b) /\ \A v \in Binary : Divides(v, b) => UnitSize[v] <= UnitSize[u]
  ELSE "B"

HumanSize(b) ==
  [form |-> "text", halves |-> 2 * (b \div UnitSize[HumanUnit(b)]), unit |-> HumanUnit(b)]

-----------------------------------------------------------------------------
(* Durations, in milliseconds. *)

\* The milliseconds are few enough for an f64 to tell each from the next.
DurationTexts ==
  [form : {"bare", "segments", "malformed"}, d : Nat, h : Nat, m : Nat, s : Nat,
   ms : {n \in Nat : n < 1000000}]

\* The longest Duration, but for what is below a millisecond.
MaxDuration == 1000 * MaxU64 + 999

\* The count is read as an f64 and so is its product with the unit.
Seconds(n, unit) == F64(F64(n) * unit)

Total(t) ==
  IF t.form = "bare" THEN 1000 * t.s
  ELSE t.ms + 1000 * (F64(t.s) + Seconds(t.m, Minute) + Seconds(t.h, Hour) + Seconds(t.d, Day))

\* An empty text, a number without its unit or an unknown unit is malformed; a
\* bare number is whole seconds.  Neither a segment nor the sum may be longer than
\* a Duration.
ParseDuration(t) ==
  IF t.form = "malformed" \/ Total(t) > MaxDuration THEN {} ELSE {Total(t)}

\* None of the numbers of a text is too great for an f64.
Countable(n, unit) == Reached(n) /\ Reached(F64(n) * unit)

Timed(t) ==
  /\ t \in DurationTexts /\ Reached(t.s)
  /\ Countable(t.m, Minute) /\ Countable(t.h, Hour) /\ Countable(t.d, Day)

\* Mutant: the minutes are not taken from what the hours leave.
HumanDurationTwice(ms) ==
  LET s == ms \div 1000 IN
  [form |-> "segments", d |-> 0, h |-> s \div Hour, m |-> s \div Minute,
   s |-> (s % Hour) % Minute, ms |-> 0]

\* Hours, minutes and seconds; what is below a second is not written.
HumanDuration(ms) ==
  LET s == ms \div 1000 IN
  [form |-> "segments", d |-> 0, h |-> s \div Hour, m |-> (s % Hour) \div Minute,
   s |-> (s % Hour) % Minute, ms |-> 0]
=============================================================================
