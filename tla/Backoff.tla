------------------------------ MODULE Backoff -------------------------------
(***************************************************************************)
(* backoff.go: the waits between the restarts of a worker.  Time is a      *)
(* number of units, Factor an integer and Jitter a percentage; the random  *)
(* offset is any that the truncation to a Duration can leave.  The loop of *)
(* Duration is taken round by round.                                       *)
(***************************************************************************)
EXTENDS Integers

CONSTANTS
  DefaultMin, DefaultMax,   \* 100ms and 10s
  Longest,                  \* the largest Duration
  Mins, Maxs,               \* bounds: the values of Min and Max, 0 and less too
  Factors, Jitters,         \* bounds: the values of Factor and Jitter
  MaxAttempt                \* bound

Durations == (-Longest - 1)..Longest

ASSUME BackoffAssumption ==
  /\ DefaultMin \in Nat \ {0} /\ DefaultMax \in Nat /\ DefaultMin <= DefaultMax
  /\ Longest \in Nat /\ DefaultMax <= Longest
  /\ Mins \subseteq Durations /\ Maxs \subseteq Durations
  /\ Factors \subseteq Int
  /\ Jitters \subseteq Nat
  /\ MaxAttempt \in Nat

(* What ^ is, as far as the waits reach: the provers do not know it.       *)
ASSUME PowerAssumption ==
  \A f \in Factors \cup {2} :
    f > 1 => f^0 = 1 /\ \A n \in 0..MaxAttempt : f^(n + 1) = f * f^n

VARIABLES
  b,               \* the Backoff of the worker
  attempt,         \* the local attempt of worker.run
  place,           \* where Duration(attempt) is
  i, dur,          \* its loop variable and its dur
  wait             \* what it has returned

vars == <<b, attempt, place, i, dur, wait>>

min(c)    == IF c.Min <= 0 THEN DefaultMin ELSE c.Min
max(c)    == IF c.Max <= 0 THEN DefaultMax ELSE c.Max
factor(c) == IF c.Factor <= 1 THEN 2 ELSE c.Factor

Init ==
  /\ b \in [Min : Mins, Max : Maxs, Factor : Factors, Jitter : Jitters]
  /\ attempt = 1
  /\ place = "called" /\ i = 1 /\ dur = 0 /\ wait = 0

-----------------------------------------------------------------------------
FirstAttempt ==
  /\ place = "called" /\ attempt <= 1
  /\ wait' = b.Min
  /\ place' = "returned"
  /\ UNCHANGED <<b, attempt, i, dur>>

GrowthBegins ==
  /\ place = "called" /\ attempt > 1
  /\ dur' = min(b) /\ i' = 1
  /\ place' = "growing"
  /\ UNCHANGED <<b, attempt, wait>>

(* Mutant of Grow: one round too many.                                     *)
GrowTooOften ==
  /\ place = "growing" /\ i <= attempt
  /\ i' = i + 1
  /\ IF dur * factor(b) >= max(b) THEN dur' = max(b) /\ place' = "grown"
                                  ELSE dur' = dur * factor(b) /\ place' = place
  /\ UNCHANGED <<b, attempt, wait>>

(* A round of the loop, and its break.                                     *)
Grow ==
  /\ place = "growing" /\ i < attempt
  /\ i' = i + 1
  /\ IF dur * factor(b) >= max(b) THEN dur' = max(b) /\ place' = "grown"
                                  ELSE dur' = dur * factor(b) /\ place' = place
  /\ UNCHANGED <<b, attempt, wait>>

GrowthEnds ==
  /\ place = "growing" /\ i >= attempt
  /\ place' = "grown"
  /\ UNCHANGED <<b, attempt, i, dur, wait>>

(* dur + (rand.Float64()*2 - 1) * dur * Jitter, truncated: the offset is   *)
(* at least -dur * Jitter and less than dur * Jitter.                      *)
jittered(c, d) ==
  LET range == (d * c.Jitter + 99) \div 100
  IN IF c.Jitter = 0 THEN {d} ELSE {d + offset : offset \in -range..range - 1}

(* The conversion of a float to a Duration.  What it makes of a value      *)
(* outside the range depends on the processor.                             *)
converted(x) == IF x \in Durations THEN {x} ELSE {-Longest - 1, Longest}

(* Mutant of clamped: the jitter is added after the bounds.                *)
unclamped(c, result) == result

clamped(c, result) ==
  IF result < min(c) THEN min(c) ELSE IF result > max(c) THEN max(c) ELSE result

DurationReturns ==
  /\ place = "grown"
  /\ \E x \in jittered(b, dur) : \E result \in converted(x) : wait' = clamped(b, result)
  /\ place' = "returned"
  /\ UNCHANGED <<b, attempt, i, dur>>

(* The worker has waited and its command has failed again.                 *)
NextAttempt ==
  /\ place = "returned" /\ attempt < MaxAttempt
  /\ attempt' = attempt + 1
  /\ place' = "called"
  /\ UNCHANGED <<b, i, dur, wait>>

Next == \/ FirstAttempt \/ GrowthBegins \/ Grow \/ GrowthEnds
        \/ DurationReturns \/ NextAttempt

Spec == Init /\ [][Next]_vars

-----------------------------------------------------------------------------
Returned == place = "returned" /\ attempt > 1

(* The bounds hold from the second attempt on, whatever the jitter, even   *)
(* when the jittered value is no Duration any more; with a Min above Max   *)
(* the wait is one of the two (backoff.go:49-57, 82-89).                   *)
WithinBounds ==
  Returned => IF min(b) <= max(b) THEN min(b) <= wait /\ wait <= max(b)
                                  ELSE wait \in {min(b), max(b)}

cap     == IF max(b) < min(b) THEN min(b) ELSE max(b)
formula == min(b) * factor(b)^(attempt - 1)
exact   == IF formula < cap THEN formula ELSE cap

(* The definition in the comment of Duration, min * factor^(attempt - 1),  *)
(* capped, is what the loop computes, and the jitter moves it by at most   *)
(* its share and the truncation, as long as the cap with the jitter on top *)
(* is a Duration (backoff.go:64-82).                                       *)
Exponential ==
  Returned /\ cap * (100 + b.Jitter) <= 100 * Longest =>
    /\ b.Jitter = 0 => wait = exact
    /\ 100 * (wait - exact) <= b.Jitter * exact
    /\ 100 * (exact - wait) < b.Jitter * exact + 100
=============================================================================
