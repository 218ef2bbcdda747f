--------------------------- MODULE RatelimitWindow ---------------------------
(***************************************************************************)
(* One rate limit over time: a client that sends events whenever it likes  *)
(* and the talker's every_second.  The history variable recent is what the *)
(* configuration speaks of, the number of events that were accepted in     *)
(* each of the last RATELIMIT_WINDOW seconds, the current second first.    *)
(* A second is here the interval between two ticks of the talker's timer;  *)
(* one that follows a late tick is shorter by the clock                    *)
(* (MissedTickBehavior::Skip), and so is the window then.                  *)
(***************************************************************************)
EXTENDS Ratelimits, Sequences

CONSTANTS Limit,   \* the configured limit
          Burst    \* bound: events a client gets accepted within one second

ASSUME LimitAssumption == Limit \in Counter
ASSUME BurstAssumption == Burst \in Nat

VARIABLES window, ratelimit_idx, recent

vars == <<window, ratelimit_idx, recent>>

TypeOK == /\ window \in Window
          /\ ratelimit_idx \in Seconds
          /\ recent \in [1 .. RATELIMIT_WINDOW -> Nat]

Init == /\ window = NoEvents
        /\ ratelimit_idx = 0
        /\ recent = [k \in 1 .. RATELIMIT_WINDOW |-> 0]

\* A refused event leaves every variable as it is, so only the accepted ones
\* are steps.
CheckAdd == /\ recent[1] < Burst
            /\ MayAdd(window, Limit)
            /\ window' = Add(window, ratelimit_idx)
            /\ recent' = [recent EXCEPT ![1] = @ + 1]
            /\ UNCHANGED ratelimit_idx

EverySecond == /\ ratelimit_idx' = NextIdx(ratelimit_idx)
               /\ window' = ResetIdx(window, ratelimit_idx')
               /\ recent' = [k \in 1 .. RATELIMIT_WINDOW |->
                                 IF k = 1 THEN 0 ELSE recent[k - 1]]

Next == CheckAdd \/ EverySecond

\* The talker's interval timer fires every second, whatever clients do.
Spec == Init /\ [][Next]_vars /\ WF_vars(EverySecond)
------------------------------------------------------------------------------
Accepted == recent[1] + recent[2] + recent[3] + recent[4] + recent[5]

\* The counter k seconds behind the shared index (all of them, the index
\* having gone round) holds exactly what was accepted k seconds ago: the
\* circular array is the sliding window the configuration describes.
CountersAreRecent ==
    \A k \in Seconds :
        window[(ratelimit_idx + RATELIMIT_WINDOW - k) % RATELIMIT_WINDOW]
            = recent[k + 1] % CounterValues

\* check_add_* lets a client have at most one event more than its limit in
\* any RATELIMIT_WINDOW consecutive intervals of the timer (for a limit below
\* u8::MAX).
AtMostOneOver == Accepted <= Limit + 1

\* What config.toml says of the limits: "number of allowed events per 5
\* seconds".
DocumentedLimit == Accepted <= Limit

\* A client that was refused is not locked out: again and again there comes a
\* moment at which its next event would be accepted.
NeverLockedOut == []<>MayAdd(window, Limit)
==============================================================================
