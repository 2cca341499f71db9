--------------------------- MODULE BackoffProofs ----------------------------
(***************************************************************************)
(* Proofs about the waits of a worker, for any parameters and any number   *)
(* of attempts: they keep their bounds, and they are the capped powers of  *)
(* the comment of Duration, moved by the jitter.                           *)
(***************************************************************************)
EXTENDS Backoff, TLAPS

Places == {"called", "growing", "grown", "returned"}

TypeOK ==
  /\ b \in [Min : Mins, Max : Maxs, Factor : Factors, Jitter : Jitters]
  /\ attempt \in Nat \ {0} /\ (attempt = 1 \/ attempt <= MaxAttempt)
  /\ place \in Places
  /\ i \in Nat \ {0} /\ dur \in Int /\ wait \in Int

(* The powers reached so far ascend.  The attempts go through them one by  *)
(* one, so this is carried from attempt to attempt.                        *)
PowersInv ==
  /\ factor(b)^(attempt - 1) >= 1
  /\ \A k \in 0..attempt - 1 : factor(b)^k <= factor(b)^(attempt - 1)

(* The loop: dur is the power of the round, below max after the first one, *)
(* or max once a power has reached it.                                     *)
LoopInv ==
  /\ place = "growing" => /\ 1 < attempt /\ i <= attempt
                          /\ dur = min(b) * factor(b)^(i - 1)
                          /\ i = 1 \/ dur < max(b)
  /\ place = "grown" => /\ 1 < attempt
                        /\ \/ dur = max(b) /\ formula >= max(b)
                           \/ dur = formula /\ formula < max(b)

IInv == TypeOK /\ PowersInv /\ LoopInv /\ WithinBounds /\ Exponential

-----------------------------------------------------------------------------
(* The parameters in use.                                                  *)
LEMMA Parameters ==
  ASSUME TypeOK
  PROVE  /\ min(b) \in Nat \ {0} /\ max(b) \in Nat \ {0}
         /\ min(b) <= Longest /\ max(b) <= Longest
         /\ factor(b) \in Nat /\ factor(b) > 1 /\ factor(b) \in Factors \cup {2}
         /\ b.Jitter \in Nat
<1>1. /\ b.Min \in Durations /\ b.Max \in Durations
      /\ b.Factor \in Factors /\ b.Factor \in Int /\ b.Jitter \in Nat
  BY BackoffAssumption DEF TypeOK
<1>2. /\ min(b) \in Nat \ {0} /\ max(b) \in Nat \ {0}
      /\ min(b) <= Longest /\ max(b) <= Longest
  BY <1>1, BackoffAssumption DEF min, max, Durations
<1>3. factor(b) \in Nat /\ factor(b) > 1 /\ factor(b) \in Factors \cup {2}
  BY <1>1 DEF factor
<1> QED
  BY <1>1, <1>2, <1>3

LEMMA PowerStep ==
  ASSUME TypeOK, NEW n \in 0..MaxAttempt
  PROVE  factor(b)^0 = 1 /\ factor(b)^(n + 1) = factor(b) * factor(b)^n
  BY Parameters, PowerAssumption

LEMMA PowerIsInteger == ASSUME NEW f \in Nat \ {0}, NEW n \in Nat PROVE f^n \in Int
  OBVIOUS

LEMMA TimesAscends ==
  ASSUME NEW x \in Nat, NEW y \in Nat, NEW z \in Nat, x <= y
  PROVE  x * z <= y * z
  OBVIOUS

LEMMA FormulaAscends ==
  ASSUME TypeOK, PowersInv
  PROVE  formula \in Nat /\ formula >= min(b)
<1> DEFINE p == factor(b)^(attempt - 1)
<1>1. min(b) \in Nat /\ factor(b) \in Nat \ {0} /\ attempt - 1 \in Nat
  BY Parameters DEF TypeOK
<1>2. p \in Int
  BY <1>1, PowerIsInteger
<1>3. p >= 1
  BY DEF PowersInv
<1> HIDE DEF p
<1>4. min(b) * p \in Nat /\ min(b) * p >= min(b)
  BY <1>1, <1>2, <1>3
<1> QED
  BY <1>4 DEF p, formula

(* Offsets: a jitter moves d by its share of d at most, up by less.        *)
LEMMA JitterShare ==
  ASSUME TypeOK, NEW d \in Nat, NEW x \in jittered(b, d)
  PROVE  /\ x \in Int
         /\ b.Jitter = 0 => x = d
         /\ 100 * (x - d) <= d * b.Jitter
         /\ 100 * (d - x) <= d * b.Jitter + 99
<1>1. b.Jitter \in Nat
  BY Parameters
<1>2. CASE b.Jitter = 0
  BY <1>2 DEF jittered
<1>3. CASE b.Jitter # 0
  <2> DEFINE share == d * b.Jitter
             range == (share + 99) \div 100
  <2>1. share \in Nat
    BY <1>1
  <2>2. PICK offset \in -range..range - 1 : x = d + offset
    BY <1>3 DEF jittered
  <2> HIDE DEF share
  <2>3. range \in Nat /\ 100 * range <= share + 99
    BY <2>1
  <2>4. 100 * offset <= share - 1 /\ 100 * offset >= -share - 99
    BY <2>1, <2>2, <2>3
  <2> QED
    BY <1>3, <2>1, <2>2, <2>3, <2>4 DEF share
<1> QED
  BY <1>2, <1>3

-----------------------------------------------------------------------------
LEMMA ReturnBounds ==
  ASSUME TypeOK, PowersInv, LoopInv, DurationReturns
  PROVE  WithinBounds' /\ wait' \in Int
<1>p. PICK x \in jittered(b, dur) : \E result \in converted(x) : wait' = clamped(b, result)
  BY DEF DurationReturns
<1>1. PICK result \in converted(x) : wait' = clamped(b, result)
  BY <1>p
<1>2. dur \in Nat
  BY Parameters, FormulaAscends DEF DurationReturns, LoopInv
<1>3. result \in Int
  BY <1>1, <1>2, JitterShare, BackoffAssumption DEF converted, Durations
<1> QED
  BY <1>1, <1>3, Parameters DEF DurationReturns, WithinBounds, clamped, min, max

LEMMA ReturnFormula ==
  ASSUME TypeOK, PowersInv, LoopInv, DurationReturns
  PROVE  Exponential'
<1>0. /\ min(b) \in Nat \ {0} /\ max(b) \in Nat \ {0} /\ b.Jitter \in Nat /\ Longest \in Nat
      /\ factor(b) \in Nat
  BY Parameters, BackoffAssumption
<1>p. PICK x \in jittered(b, dur) : \E result \in converted(x) : wait' = clamped(b, result)
  BY DEF DurationReturns
<1>1. PICK result \in converted(x) : wait' = clamped(b, result)
  BY <1>p
<1>2. formula \in Nat /\ formula >= min(b)
  BY FormulaAscends
<1>3. dur \in Nat /\ dur <= cap /\ cap \in Nat /\ exact \in Nat
  BY <1>0, <1>2 DEF DurationReturns, LoopInv, cap, exact
<1>4. /\ x \in Int
      /\ b.Jitter = 0 => x = dur
      /\ 100 * (x - dur) <= dur * b.Jitter
      /\ 100 * (dur - x) <= dur * b.Jitter + 99
  BY <1>3, JitterShare
<1>5. dur * b.Jitter \in Nat /\ cap * b.Jitter \in Nat /\ dur * b.Jitter <= cap * b.Jitter
  BY <1>0, <1>3, TimesAscends
<1> SUFFICES ASSUME cap * (100 + b.Jitter) <= 100 * Longest
             PROVE  /\ b.Jitter = 0 => wait' = exact
                    /\ 100 * (wait' - exact) <= b.Jitter * exact
                    /\ 100 * (exact - wait') < b.Jitter * exact + 100
  BY DEF DurationReturns, Exponential, Returned, exact, cap, formula, min, max, factor
<1>6. result = x
  <2>1. 100 * cap + cap * b.Jitter <= 100 * Longest
    BY <1>0, <1>3
  <2>2. x \in Durations
    BY <1>0, <1>3, <1>4, <1>5, <2>1 DEF Durations
  <2> QED
    BY <2>2 DEF converted
(* With Min at most Max, dur is the capped power.                          *)
<1>7. CASE min(b) <= max(b)
  <2>1. dur = exact /\ min(b) <= dur /\ dur <= max(b)
    BY <1>0, <1>2, <1>7 DEF DurationReturns, LoopInv, cap, exact
  <2>2. 100 * (x - exact) <= b.Jitter * exact /\ 100 * (exact - x) <= b.Jitter * exact + 99
        /\ b.Jitter * exact \in Nat
    BY <1>0, <1>3, <1>4, <1>5, <2>1
  <2>3. wait' = IF x < min(b) THEN min(b) ELSE IF x > max(b) THEN max(b) ELSE x
    BY <1>1, <1>6 DEF clamped
  <2> HIDE DEF exact
  <2> QED
    BY <1>0, <1>3, <1>4, <2>1, <2>2, <2>3
(* With a Min above Max the loop leaves Max, the power is at least Min.    *)
<1>8. CASE max(b) < min(b)
  <2>1. dur = max(b) /\ exact = min(b)
    BY <1>0, <1>2, <1>8 DEF DurationReturns, LoopInv, cap, exact
  <2>2. dur * b.Jitter <= b.Jitter * exact /\ b.Jitter * exact \in Nat
    BY <1>0, <1>3, <1>8, <2>1, TimesAscends
  <2>3. wait' = IF x < min(b) THEN min(b) ELSE IF x > max(b) THEN max(b) ELSE x
    BY <1>1, <1>6 DEF clamped
  <2> QED
    BY <1>0, <1>3, <1>4, <1>8, <2>1, <2>2, <2>3
<1> QED
  BY <1>0, <1>7, <1>8

-----------------------------------------------------------------------------
LEMMA InitInv == Init => IInv
<1> SUFFICES ASSUME Init PROVE IInv
  OBVIOUS
<1>1. TypeOK
  BY BackoffAssumption DEF Init, TypeOK, Places
<1>2. PowersInv
  <2>1. factor(b)^0 = 1
    BY <1>1, PowerStep, BackoffAssumption
  <2> QED
    BY <2>1 DEF Init, PowersInv
<1> QED
  BY <1>1, <1>2 DEF Init, IInv, LoopInv, WithinBounds, Exponential, Returned

LEMMA GrowInv == IInv /\ Grow => IInv'
<1> SUFFICES ASSUME IInv, Grow PROVE IInv'
  OBVIOUS
<1> USE DEF IInv
<1>0. /\ min(b) \in Nat \ {0} /\ max(b) \in Nat \ {0} /\ factor(b) \in Nat /\ factor(b) > 1
  BY Parameters
<1>1. /\ attempt > 1 /\ i \in Nat /\ 1 <= i /\ i < attempt /\ i <= MaxAttempt
      /\ attempt \in Nat /\ MaxAttempt \in Nat
      /\ dur = min(b) * factor(b)^(i - 1)
  BY BackoffAssumption DEF Grow, LoopInv, TypeOK
<1> DEFINE p == factor(b)^(i - 1)
           q == factor(b)^i
           r == factor(b)^(attempt - 1)
<1>2. p \in Int /\ q \in Int /\ r \in Int /\ q = factor(b) * p
  <2>1. i - 1 \in 0..MaxAttempt /\ (i - 1) + 1 = i
    BY <1>1
  <2> QED
    BY <1>0, <1>1, <2>1, PowerStep
<1>3. q <= r /\ r >= 1
  BY <1>1 DEF PowersInv
<1> HIDE DEF p, q, r
<1>4. dur * factor(b) = min(b) * q
  BY <1>0, <1>1, <1>2 DEF p
<1>5. min(b) * q <= min(b) * r /\ min(b) * q \in Int
  BY <1>0, <1>2, <1>3
<1>6. UNCHANGED <<b, attempt, wait, min(b), max(b), factor(b), formula>> /\ i' = i + 1
  BY DEF Grow, min, max, factor, formula
<1>7. TypeOK'
  BY <1>0, <1>4, <1>5, <1>6 DEF Grow, TypeOK, Places
<1>8. PowersInv'
  BY <1>6 DEF PowersInv
<1>9. LoopInv'
  <2>1. CASE dur * factor(b) >= max(b)
    <3>1. dur' = max(b) /\ place' = "grown"
      BY <2>1 DEF Grow
    <3>2. formula >= max(b)
      BY <1>0, <1>1, <1>2, <1>4, <1>5, <2>1 DEF formula, r
    <3> QED
      BY <1>1, <1>6, <3>1, <3>2 DEF LoopInv
  <2>2. CASE dur * factor(b) < max(b)
    <3>1. dur' = min(b) * q /\ dur' < max(b) /\ place' = "growing"
      BY <1>0, <1>2, <1>4, <1>5, <2>2 DEF Grow
    <3>2. i' - 1 = i /\ i' <= attempt
      BY <1>1, <1>6
    <3> QED
      BY <1>1, <1>6, <3>1, <3>2 DEF LoopInv, q
  <2> QED
    BY <1>0, <1>2, <1>4, <1>5, <2>1, <2>2
<1> QED
  BY <1>7, <1>8, <1>9 DEF Grow, WithinBounds, Exponential, Returned

LEMMA NextAttemptInv == IInv /\ NextAttempt => IInv'
<1> SUFFICES ASSUME IInv, NextAttempt PROVE IInv'
  OBVIOUS
<1> USE DEF IInv
<1>1. /\ attempt \in Nat /\ attempt >= 1 /\ attempt' = attempt + 1 /\ attempt < MaxAttempt
      /\ MaxAttempt \in Nat /\ UNCHANGED <<b, factor(b)>> /\ place' = "called"
      /\ factor(b) \in Nat /\ factor(b) > 1
  BY Parameters, BackoffAssumption DEF NextAttempt, TypeOK, factor
<1> DEFINE p == factor(b)^(attempt - 1)
           q == factor(b)^attempt
<1>2. p \in Int /\ p >= 1 /\ q \in Int /\ q = factor(b) * p
  <2>1. attempt - 1 \in 0..MaxAttempt /\ (attempt - 1) + 1 = attempt
    BY <1>1
  <2> QED
    BY <1>1, <2>1, PowerStep DEF PowersInv
<1>3. q >= p
  <2> HIDE DEF p, q
  <2> QED
    BY <1>1, <1>2
<1>4. ASSUME NEW k \in 0..attempt PROVE factor(b)^k <= q
  <2>1. CASE k = attempt
    BY <1>2, <2>1
  <2>2. CASE k # attempt
    <3>1. k \in 0..attempt - 1
      BY <1>1, <2>2
    <3>2. factor(b)^k <= p /\ factor(b)^k \in Int
      BY <1>1, <3>1 DEF PowersInv
    <3> HIDE DEF p, q
    <3> QED
      BY <1>2, <1>3, <3>2
  <2> QED
    BY <2>1, <2>2
<1>5. PowersInv'
  <2>1. attempt' - 1 = attempt
    BY <1>1
  <2>2. q >= 1
    BY <1>2, <1>3
  <2> QED
    BY <1>1, <1>4, <2>1, <2>2 DEF PowersInv
<1>6. TypeOK'
  BY <1>1 DEF NextAttempt, TypeOK, Places
<1> QED
  BY <1>1, <1>5, <1>6 DEF LoopInv, WithinBounds, Exponential, Returned

LEMMA CallInv == IInv /\ (FirstAttempt \/ GrowthBegins \/ GrowthEnds) => IInv'
<1> SUFFICES ASSUME IInv, FirstAttempt \/ GrowthBegins \/ GrowthEnds PROVE IInv'
  OBVIOUS
<1> USE DEF IInv
<1>0. /\ min(b) \in Nat \ {0} /\ max(b) \in Nat \ {0} /\ attempt \in Nat \ {0} /\ i \in Nat \ {0}
  BY Parameters DEF TypeOK
<1>1. CASE FirstAttempt
  BY <1>1, BackoffAssumption
  DEF FirstAttempt, TypeOK, Places, PowersInv, LoopInv, WithinBounds, Exponential, Returned,
      Durations, factor
<1>2. CASE GrowthBegins
  <2>1. min(b) * factor(b)^0 = min(b)
    BY <1>0, PowerStep, BackoffAssumption
  <2>2. UNCHANGED <<b, attempt, min(b), max(b), factor(b)>>
        /\ i' = 1 /\ dur' = min(b) /\ place' = "growing" /\ attempt > 1
    BY <1>2 DEF GrowthBegins, min, max, factor
  <2>3. LoopInv'
    BY <1>0, <2>1, <2>2 DEF LoopInv
  <2> QED
    BY <1>0, <1>2, <2>2, <2>3
    DEF GrowthBegins, TypeOK, Places, PowersInv, WithinBounds, Exponential, Returned
<1>3. CASE GrowthEnds
  <2>1. i = attempt /\ dur = formula /\ dur < max(b) /\ attempt > 1
    BY <1>0, <1>3 DEF GrowthEnds, LoopInv, formula
  <2>2. UNCHANGED <<b, attempt, dur, max(b), factor(b), formula>> /\ place' = "grown"
    BY <1>3 DEF GrowthEnds, max, factor, formula, min
  <2> QED
    BY <1>3, <2>1, <2>2
    DEF GrowthEnds, TypeOK, Places, PowersInv, LoopInv, WithinBounds, Exponential, Returned
<1> QED
  BY <1>1, <1>2, <1>3

LEMMA ReturnInv == IInv /\ DurationReturns => IInv'
<1> SUFFICES ASSUME IInv, DurationReturns PROVE IInv'
  OBVIOUS
<1>1. WithinBounds' /\ wait' \in Int /\ Exponential'
  BY ReturnBounds, ReturnFormula DEF IInv
<1> QED
  BY <1>1 DEF DurationReturns, IInv, TypeOK, Places, PowersInv, LoopInv, factor

LEMMA StutterInv == IInv /\ UNCHANGED vars => IInv'
  BY DEF vars, IInv, TypeOK, PowersInv, LoopInv, WithinBounds, Exponential, Returned, formula,
         exact, cap, min, max, factor

(* The inductive invariant: the powers ascend and the loop computes them.  *)
THEOREM BackoffInvariant == Spec => []IInv
<1>1. IInv /\ [Next]_vars => IInv'
  BY GrowInv, NextAttemptInv, CallInv, ReturnInv, StutterInv DEF Next
<1> QED
  BY InitInv, <1>1, PTL DEF Spec

(* Every wait from the second on lies between Min and Max, for any         *)
(* parameters, attempts and jitter, also when the conversion overflows.    *)
THEOREM WaitsAreBounded == Spec => []WithinBounds
  BY BackoffInvariant, PTL DEF IInv

(* Every wait from the second on is the capped power, moved by the jitter. *)
THEOREM WaitsAreExponential == Spec => []Exponential
  BY BackoffInvariant, PTL DEF IInv
=============================================================================
