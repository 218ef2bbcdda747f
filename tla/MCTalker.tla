------------------------------- MODULE MCTalker -------------------------------
(* Constants for model-checking the talker. *)
EXTENDS TalkerRefinement, TLC

CONSTANTS RoomLimit, OtherLimit     \* TalkerConfig.ratelimits.room, and the others

MCRateLimit == [k \in UserKinds \cup RoomKinds |-> IF k = "room" THEN RoomLimit ELSE OtherLimit]

Alike == Permutations(UserID) \cup Permutations(RoomID)
===============================================================================
