--------------------------- MODULE RatelimitProofs ---------------------------
(***************************************************************************)
(* Theorems of RatelimitWindow, for every limit, every burst and every     *)
(* width of the counters.                                                  *)
(***************************************************************************)
EXTENDS RatelimitWindow, TLAPS

LEMMA SmallMod == \A a \in Nat : a < CounterValues => a % CounterValues = a
  BY CounterValuesAssumption

LEMMA CounterMod == \A a \in Nat : a % CounterValues \in Counter
  BY CounterValuesAssumption DEF Counter

\* A remainder is determined by the equation it solves.
LEMMA ModUnique ==
    ASSUME NEW a \in Nat, NEW q \in Int, NEW r \in Counter, a = CounterValues * q + r
    PROVE  a % CounterValues = r
<1> DEFINE C  == CounterValues
           q2 == a \div C
           r2 == a % C
           d  == q2 - q
<1>1. C \in Nat /\ C > 0 /\ r \in Int /\ 0 <= r /\ r < C
  BY CounterValuesAssumption DEF Counter
<1>2. q2 \in Int /\ r2 \in Int /\ 0 <= r2 /\ r2 < C /\ a = C * q2 + r2
  BY <1>1
<1>3. d \in Int /\ q2 = q + d
  BY <1>2
<1> HIDE DEF C, q2, r2, d
<1>4. C * d = r - r2
  <2>1. C * (q + d) = C * q + C * d
    BY <1>1, <1>3
  <2> QED
    BY <1>1, <1>2, <1>3, <2>1 DEF C
<1>5. ASSUME d >= 1 PROVE C * d >= C
  BY <1>1, <1>3, <1>5
<1>6. ASSUME d <= -1 PROVE C * d <= -C
  BY <1>1, <1>3, <1>6
<1>7. d = 0
  BY <1>1, <1>2, <1>3, <1>4, <1>5, <1>6
<1> QED
  BY <1>1, <1>2, <1>4, <1>7 DEF r2, C

\* Counting an event before or after the counter has wrapped is the same.
LEMMA SuccMod ==
    ASSUME NEW a \in Nat
    PROVE  ((a % CounterValues) + 1) % CounterValues = (a + 1) % CounterValues
<1> DEFINE C == CounterValues
           b == a % C
           q == a \div C
<1>1. C \in Nat /\ C > 0 /\ b \in Nat /\ b < C /\ q \in Int /\ a = C * q + b
  BY CounterValuesAssumption
<1> HIDE DEF C, b, q
<1>2. CASE b + 1 < C
  <2>1. (a + 1) % C = b + 1
    BY <1>1, <1>2, ModUnique DEF C, Counter
  <2>2. (b + 1) % C = b + 1
    BY <1>1, <1>2, SmallMod DEF C
  <2> QED
    BY <2>1, <2>2 DEF b, C
<1>3. CASE b + 1 = C
  <2>1. a + 1 = C * (q + 1) + 0
    BY <1>1, <1>3
  <2>2. (a + 1) % C = 0
    BY <1>1, <2>1, ModUnique DEF C, Counter
  <2>3. b + 1 = C * 1 + 0
    BY <1>1, <1>3
  <2>4. (b + 1) % C = 0
    BY <1>1, <2>3, ModUnique DEF C, Counter
  <2> QED
    BY <2>2, <2>4 DEF b, C
<1> QED
  BY <1>1, <1>2, <1>3

\* The window, the index and the counts stay within their types.
THEOREM TypeCorrect == Spec => []TypeOK
<1>1. Init => TypeOK
  BY CounterValuesAssumption
     DEF Init, TypeOK, Window, NoEvents, Seconds, Counter, RATELIMIT_WINDOW
<1>2. TypeOK /\ [Next]_vars => TypeOK'
  <2> SUFFICES ASSUME TypeOK, [Next]_vars PROVE TypeOK'
    OBVIOUS
  <2> USE DEF TypeOK, Window, Seconds, RATELIMIT_WINDOW
  <2>1. CASE CheckAdd
    <3>1. window[ratelimit_idx] + 1 \in Nat
      BY CounterValuesAssumption DEF Counter
    <3>2. (window[ratelimit_idx] + 1) % CounterValues \in Counter
      BY <3>1, CounterMod
    <3> QED
      BY <2>1, <3>2 DEF CheckAdd, Add
  <2>2. CASE EverySecond
    <3>1. ratelimit_idx' \in Seconds
      BY <2>2 DEF EverySecond, NextIdx
    <3>2. 0 \in Counter
      BY CounterValuesAssumption DEF Counter
    <3> QED
      BY <2>2, <3>1, <3>2 DEF EverySecond, ResetIdx
  <2>3. CASE UNCHANGED vars
    BY <2>3 DEF vars
  <2> QED
    BY <2>1, <2>2, <2>3 DEF Next
<1> QED
  BY <1>1, <1>2, PTL DEF Spec

\* The circular array of counters always is the window of the last seconds.
THEOREM WindowIsRecent == Spec => []CountersAreRecent
<1>1. Init => CountersAreRecent
  BY SmallMod, CounterValuesAssumption
     DEF Init, CountersAreRecent, NoEvents, Seconds, RATELIMIT_WINDOW
<1>2. TypeOK /\ CountersAreRecent /\ [Next]_vars => CountersAreRecent'
  <2> SUFFICES ASSUME TypeOK, CountersAreRecent, [Next]_vars PROVE CountersAreRecent'
    OBVIOUS
  <2> USE DEF TypeOK, Window, Seconds, RATELIMIT_WINDOW
  <2>1. CASE CheckAdd
    <3>1. window[ratelimit_idx] = recent[1] % CounterValues
      BY DEF CountersAreRecent
    <3>2. window'[ratelimit_idx] = recent'[1] % CounterValues
      BY <2>1, <3>1, SuccMod DEF CheckAdd, Add
    <3>3. ASSUME NEW k \in Seconds, k # 0
          PROVE  LET i == (ratelimit_idx + RATELIMIT_WINDOW - k) % RATELIMIT_WINDOW
                 IN  /\ window'[i] = window[i] /\ recent'[k + 1] = recent[k + 1]
                     /\ ratelimit_idx' = ratelimit_idx
      BY <2>1, <3>3 DEF CheckAdd, Add
    <3> QED
      BY <2>1, <3>2, <3>3 DEF CountersAreRecent, CheckAdd
  <2>2. CASE EverySecond
    <3>1. /\ ratelimit_idx' = (ratelimit_idx + 1) % RATELIMIT_WINDOW
          /\ window' = [window EXCEPT ![ratelimit_idx'] = 0]
          /\ recent'[1] = 0
          /\ \A k \in 2 .. 5 : recent'[k] = recent[k - 1]
      BY <2>2 DEF EverySecond, NextIdx, ResetIdx
    <3>2. window'[ratelimit_idx'] = recent'[1] % CounterValues
      BY <3>1, SmallMod, CounterValuesAssumption
    <3>3. ASSUME NEW k \in Seconds, k # 0
          PROVE  window'[(ratelimit_idx' + RATELIMIT_WINDOW - k) % RATELIMIT_WINDOW]
                     = recent'[k + 1] % CounterValues
      <4>1. (ratelimit_idx' + RATELIMIT_WINDOW - k) % RATELIMIT_WINDOW
                = (ratelimit_idx + RATELIMIT_WINDOW - (k - 1)) % RATELIMIT_WINDOW
        BY <3>1, <3>3
      <4>2. (ratelimit_idx' + RATELIMIT_WINDOW - k) % RATELIMIT_WINDOW # ratelimit_idx'
        BY <3>1, <3>3
      <4>3. recent'[k + 1] = recent[(k - 1) + 1] /\ k - 1 \in Seconds
        BY <3>1, <3>3
      <4>4. (ratelimit_idx + RATELIMIT_WINDOW - (k - 1)) % RATELIMIT_WINDOW \in Seconds
        BY <4>3
      <4> HIDE DEF Seconds, RATELIMIT_WINDOW
      <4> QED
        BY <3>1, <4>1, <4>2, <4>3, <4>4 DEF CountersAreRecent
    <3>4. (ratelimit_idx' + RATELIMIT_WINDOW - 0) % RATELIMIT_WINDOW = ratelimit_idx'
      BY <3>1
    <3>5. ASSUME NEW k \in Seconds
          PROVE  window'[(ratelimit_idx' + RATELIMIT_WINDOW - k) % RATELIMIT_WINDOW]
                     = recent'[k + 1] % CounterValues
      BY <3>2, <3>3, <3>4
    <3> QED
      BY <3>5 DEF CountersAreRecent
  <2>3. CASE UNCHANGED vars
    BY <2>3 DEF vars, CountersAreRecent
  <2> QED
    BY <2>1, <2>2, <2>3 DEF Next
<1> QED
  BY <1>1, <1>2, TypeCorrect, PTL DEF Spec

\* While no sum reaches the width of a counter, the sum of the counters is the
\* number of accepted events, wherever the index is.
LEMMA SumIsAccepted ==
    ASSUME TypeOK, CountersAreRecent, Accepted < CounterValues
    PROVE  Sum(window) = Accepted
<1>1. \A k \in 1 .. 5 : recent[k] \in Nat
  BY DEF TypeOK, RATELIMIT_WINDOW
<1>2. \A k \in 1 .. 5 : recent[k] < CounterValues
  BY <1>1, CounterValuesAssumption DEF Accepted
<1>3. \A k \in 0 .. 4 : window[(ratelimit_idx + 5 - k) % 5] = recent[k + 1]
  <2> SUFFICES ASSUME NEW k \in 0 .. 4
               PROVE  window[(ratelimit_idx + 5 - k) % 5] = recent[k + 1]
    OBVIOUS
  <2>1. recent[k + 1] % CounterValues = recent[k + 1]
    BY <1>1, <1>2, SmallMod
  <2> QED
    BY <2>1 DEF CountersAreRecent, Seconds, RATELIMIT_WINDOW
<1>4. window[0] + window[1] + window[2] + window[3] + window[4] = Accepted
  <2>1. ratelimit_idx \in {0, 1, 2, 3, 4}
    BY DEF TypeOK, Seconds, RATELIMIT_WINDOW
  <2>2. /\ window[(ratelimit_idx + 5) % 5] = recent[1]
        /\ window[(ratelimit_idx + 4) % 5] = recent[2]
        /\ window[(ratelimit_idx + 3) % 5] = recent[3]
        /\ window[(ratelimit_idx + 2) % 5] = recent[4]
        /\ window[(ratelimit_idx + 1) % 5] = recent[5]
    <3>1. ratelimit_idx \in Int
      BY <2>1
    <3> QED
      BY <1>3, <3>1
  <2>3. CASE ratelimit_idx = 0  BY <1>1, <2>2, <2>3 DEF Accepted
  <2>4. CASE ratelimit_idx = 1  BY <1>1, <2>2, <2>4 DEF Accepted
  <2>5. CASE ratelimit_idx = 2  BY <1>1, <2>2, <2>5 DEF Accepted
  <2>6. CASE ratelimit_idx = 3  BY <1>1, <2>2, <2>6 DEF Accepted
  <2>7. CASE ratelimit_idx = 4  BY <1>1, <2>2, <2>7 DEF Accepted
  <2> QED
    BY <2>1, <2>3, <2>4, <2>5, <2>6, <2>7
<1>5. Accepted \in Nat
  BY <1>1 DEF Accepted
<1> QED
  BY <1>4, <1>5, SmallMod DEF Sum

\* The largest value of the counter is no limit: a sum of the counter's own width
\* never exceeds it, and every event is accepted.
LEMMA LargestLimitsNothing ==
    ASSUME Limit + 1 = CounterValues PROVE Spec => []MayAdd(window, Limit)
<1>1. TypeOK => MayAdd(window, Limit)
  <2> SUFFICES ASSUME TypeOK PROVE MayAdd(window, Limit)
    OBVIOUS
  <2>1. \A i \in 0 .. 4 : window[i] \in Nat
    BY DEF TypeOK, Window, Seconds, RATELIMIT_WINDOW, Counter
  <2>2. Sum(window) \in Counter
    BY <2>1, CounterMod DEF Sum
  <2> QED
    BY <2>2, LimitAssumption, CounterValuesAssumption DEF MayAdd, Counter
<1> QED
  BY <1>1, TypeCorrect, PTL

\* A limit below the largest value of the counter lets a client have at most
\* one event more than it says in any RATELIMIT_WINDOW consecutive intervals of
\* the timer.
\* (For the largest value itself see LargestLimitsNothing.)
THEOREM LimitHolds == ASSUME Limit + 1 < CounterValues PROVE Spec => []AtMostOneOver
<1> USE LimitAssumption, CounterValuesAssumption
<1>1. Init => AtMostOneOver
  BY DEF Init, AtMostOneOver, Accepted, RATELIMIT_WINDOW, Counter
<1>2. TypeOK /\ CountersAreRecent /\ AtMostOneOver /\ [Next]_vars => AtMostOneOver'
  <2> SUFFICES ASSUME TypeOK, CountersAreRecent, AtMostOneOver, [Next]_vars
               PROVE  AtMostOneOver'
    OBVIOUS
  <2>1. \A k \in 1 .. 5 : recent[k] \in Nat
    BY DEF TypeOK, RATELIMIT_WINDOW
  <2>2. Limit \in Nat
    BY DEF Counter
  <2>3. CASE CheckAdd
    <3>1. Sum(window) = Accepted
      BY <2>1, <2>2, SumIsAccepted DEF AtMostOneOver, Accepted
    <3>2. ~ (Accepted > Limit)
      BY <2>3, <3>1 DEF CheckAdd, MayAdd
    <3>3. Accepted' = Accepted + 1
      BY <2>1, <2>3 DEF CheckAdd, Accepted, TypeOK, RATELIMIT_WINDOW
    <3> QED
      BY <2>1, <2>2, <3>2, <3>3 DEF AtMostOneOver, Accepted
  <2>4. CASE EverySecond
    <3>1. Accepted' = 0 + recent[1] + recent[2] + recent[3] + recent[4]
      BY <2>1, <2>4 DEF EverySecond, Accepted, RATELIMIT_WINDOW
    <3> QED
      BY <2>1, <2>2, <3>1 DEF AtMostOneOver, Accepted
  <2>5. CASE UNCHANGED vars
    BY <2>5 DEF vars, AtMostOneOver, Accepted
  <2> QED
    BY <2>3, <2>4, <2>5 DEF Next
<1> QED
  BY <1>1, <1>2, TypeCorrect, WindowIsRecent, PTL DEF Spec
=============================================================================
