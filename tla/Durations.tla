----------------------------- MODULE Durations -----------------------------
(***************************************************************************)
(* parse_duration of src/duration.rs, and the two callers that read        *)
(* intervals with it: parse_sync_interval for a resource, env_duration for *)
(* the environment of the process.                                         *)
(*                                                                         *)
(* A duration string, trimmed, is the sequence of its amounts and units;   *)
(* what ends the parsing is the last of them.                              *)
(***************************************************************************)
EXTENDS Naturals, Sequences

CONSTANTS
  Unset,      \* the empty string, or no such variable
  Invalid,    \* Err
  Panics,     \* the thread panics
  Words       \* the values of a u64

ASSUME DurationAssumption ==
  Words \in Nat /\ Words > 3600 /\ Invalid \notin Nat /\ Panics \notin Nat

\* Units below a second count as nothing.  Besides there are "missing", "other", which
\* is no unit, and "wide", which is none and begins with a character of several bytes.
Seconds == [ns |-> 0, us |-> 0, ms |-> 0, s |-> 1, m |-> 60, h |-> 3600]

Units == DOMAIN Seconds \cup {"missing", "other", "wide"}
IsDuration(s) ==
  Len(s) \in Nat /\ DOMAIN s = 1..Len(s) /\ \A i \in DOMAIN s : s[i].unit \in Units

saturating_add(x, y) == IF x + y < Words THEN x + y ELSE Words - 1

\* A product that does not fit wraps in a release build.
Multiplied(amount, unit) == (amount * Seconds[unit]) % Words

\* Faulty variant of Added: the last amount replaces the ones before it.
AddedLastOnly(total, t) == Multiplied(t.amount, t.unit)
Added(total, t) == saturating_add(total, Multiplied(t.amount, t.unit))

\* One round of the loop.  An amount that is no u64, or has no digit, is an
\* error.  The message about an unknown unit slices its first byte.
Round(total, t) ==
  IF total \in {Invalid, Panics} THEN total
  ELSE IF t.amount \notin 0..(Words - 1) \/ t.unit \in {"missing", "other"} THEN Invalid
  ELSE IF t.unit = "wide" THEN Panics
  ELSE Added(total, t)

\* What the rounds come to, after any number of them.
Totals(s) ==
  LET total[n \in 0..Len(s)] == IF n = 0 THEN 0 ELSE Round(total[n - 1], s[n])
  IN  total
parse_duration(s) == IF s = <<>> THEN Invalid ELSE Totals(s)[Len(s)]

\* Faulty variant of Positive: zero is an interval.
ZeroAllowed(d, fallback) == d
\* is_zero
Positive(d, fallback) == IF d = 0 THEN fallback ELSE d

parse_sync_interval(s, default) ==
  IF s = Unset THEN default ELSE Positive(parse_duration(s), Invalid)

\* The default stands in for what is unset, invalid or zero.
env_duration(value, default) ==
  IF value = Unset THEN default
  ELSE LET d == parse_duration(value) IN IF d = Invalid THEN default ELSE Positive(d, default)
=============================================================================
