----------------------------- MODULE Ratelimits -----------------------------
(***************************************************************************)
(* The rate limiter of src/types.rs: every limit of a user or of a room    *)
(* member is an array of RATELIMIT_WINDOW one-second counters.  The talker *)
(* advances one index for all of them every second and clears the counter  *)
(* the index arrives at; an event is accepted when the counters' sum does  *)
(* not exceed the configured limit.  This module holds the operations on   *)
(* one such array; RatelimitWindow runs one of them, Talker all of them.   *)
(***************************************************************************)
EXTENDS Integers

CONSTANT CounterValues  \* number of values of the counter's type: 2^8 for u8

ASSUME CounterValuesAssumption == CounterValues \in Nat \ {0}

RATELIMIT_WINDOW == 5

Seconds == 0 .. RATELIMIT_WINDOW - 1
Counter == 0 .. CounterValues - 1
Window  == [Seconds -> Counter]

NoEvents == [i \in Seconds |-> 0]

\* iter().sum::<u8>(): computed in the counter's own type, which wraps around
\* in a release build (a debug build panics where this wraps).
Sum(w) == (w[0] + w[1] + w[2] + w[3] + w[4]) % CounterValues

\* The test and the effect of check_add_*; a refused event counts nothing.

\* Mutant: one counter is looked at instead of all.
MayAdd_one(w, limit) == ~ (w[0] > limit)

MayAdd(w, limit) == ~ (Sum(w) > limit)

\* Mutant: the index is ignored.
Add_first(w, idx) == [w EXCEPT ![0] = (@ + 1) % CounterValues]

Add(w, idx)      == [w EXCEPT ![idx] = (@ + 1) % CounterValues]

\* Mutant: nothing is reset.
ResetIdx_never(w, idx) == w

ResetIdx(w, idx) == [w EXCEPT ![idx] = 0]

\* Mutant: the index does not go round.
NextIdx_on(idx) == idx + 1

NextIdx(idx) == (idx + 1) % RATELIMIT_WINDOW
=============================================================================
