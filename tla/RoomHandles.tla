----------------------------- MODULE RoomHandles -----------------------------
(***************************************************************************)
(* The vector in_rooms of a user: which room each of its handles means.    *)
(* A vector is a sequence of rooms and None, the handle h of the program   *)
(* being the index h + 1.  Free handles are used again, and those at the   *)
(* end are cut off.                                                        *)
(***************************************************************************)
EXTENDS Integers, Sequences, FiniteSets

CONSTANTS RoomID,      \* room names
          None,        \* Option::None
          MaxRooms     \* u8::MAX, the largest number of room handles

ASSUME RoomHandlesAssumption == None \notin RoomID /\ MaxRooms \in Nat \ {0}

Vector == Seq(RoomID \cup {None})

\* The rooms a vector names.
RoomsIn(array) == {array[i] : i \in DOMAIN array} \ {None}

\* Iterating over such a vector: its first room, and the vector without it.
HasNext(array)  == \E i \in DOMAIN array : array[i] # None
FirstIdx(array) == CHOOSE i \in DOMAIN array :
                      array[i] # None /\ \A j \in 1 .. i - 1 : array[j] = None
First(array)    == array[FirstIdx(array)]
Rest(array)     == [array EXCEPT ![FirstIdx(array)] = None]

AsU8(i) == i % (MaxRooms + 1)

\* Mutant: free handles are not counted.
room_get_rh_by_id_used(array, rid) ==
    AsU8(Cardinality({i \in DOMAIN array : array[i] # None /\ \A j \in 1 .. i : array[j] # rid}))

room_get_rh_by_id(array, rid) ==
    AsU8(Cardinality({i \in DOMAIN array : \A j \in 1 .. i : array[j] # rid}))

FreeSlots(array) == {i \in DOMAIN array : array[i] = None}
room_get_free_rh(array) ==
    CHOOSE i \in FreeSlots(array) : \A j \in FreeSlots(array) : i <= j

\* Mutant: the room is always put last, over what is there.
AddRoom_over(array, rid) == IF array = <<>> THEN <<rid>> ELSE [array EXCEPT ![Len(array)] = rid]

AddRoom(array, rid) == IF FreeSlots(array) # {}
                       THEN [array EXCEPT ![room_get_free_rh(array)] = rid]
                       ELSE Append(array, rid)

Vacate(array, rid) == [i \in DOMAIN array |-> IF array[i] = rid THEN None ELSE array[i]]

\* Mutant: truncate(pos) for truncate(pos + 1).
Trim_short(array) ==
    LET used == {i \in DOMAIN array : array[i] # None}
    IN  SubSeq(array, 1, Cardinality({i \in DOMAIN array : \E j \in used : i < j}))

Trim(array) ==
    LET used == {i \in DOMAIN array : array[i] # None}
    IN  IF used = {} THEN <<>>
        ELSE SubSeq(array, 1, CHOOSE i \in used : \A j \in used : j <= i)

\* Only repetitions that follow each other are removed.
Dedup(list) == [i \in DOMAIN list |-> IF i > 1 /\ list[i] = list[i - 1] THEN None ELSE list[i]]

NoDuplicates(array) ==
    \A i, j \in DOMAIN array : array[i] = array[j] /\ array[i] # None => i = j

Trimmed(array) == array # <<>> => array[Len(array)] # None
==============================================================================
