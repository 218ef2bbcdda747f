---------------------------- MODULE HandleProofs ----------------------------
(***************************************************************************)
(* Lemmas about the operations on a vector of room handles.                *)
(***************************************************************************)
EXTENDS RoomHandles, SequenceTheorems, FiniteSetTheorems, WellFoundedInduction, TLAPS

LEMMA Least == ASSUME NEW T, T \subseteq Nat, T # {}
               PROVE  \E x \in T : \A y \in T : x <= y
<1> DEFINE R == OpToRel(<, Nat)
<1>1. IsWellFoundedOn(R, Nat)
  BY NatLessThanWellFounded, Zenon
<1>2. ASSUME NEW x \in Nat, NEW y \in Nat, x < y PROVE <<x, y>> \in R
  BY <1>2, Zenon DEF OpToRel
<1> HIDE DEF R
<1>3. PICK x \in T : \A y \in T : ~ (<<y, x>> \in R)
  BY <1>1, WFMin, Zenon
<1>4. ASSUME NEW y \in T PROVE x <= y
  <2>1. ~ (y < x)
    BY <1>2, <1>3
  <2> QED
    BY <2>1
<1> QED
  BY <1>4

LEMMA Greatest == ASSUME NEW n \in Nat, NEW T, T \subseteq 1 .. n, T # {}
                  PROVE  \E x \in T : \A y \in T : y <= x
<1> DEFINE D == {n - x : x \in T}
<1>1. D \subseteq Nat /\ D # {}
  <2>1. \A x \in T : x \in 1 .. n
    OBVIOUS
  <2>2. \A x \in 1 .. n : n - x \in Nat
    OBVIOUS
  <2> QED
    BY <2>1, <2>2
<1>2. PICK d \in D : \A e \in D : d <= e
  BY <1>1, Least
<1>3. PICK x \in T : d = n - x
  BY <1>2
<1>4. ASSUME NEW y \in T PROVE y <= x
  <2>1. n - y \in D
    OBVIOUS
  <2>2. n - x <= n - y
    BY <1>2, <1>3, <2>1
  <2>3. x \in Int /\ y \in Int
    OBVIOUS
  <2> QED
    BY <2>2, <2>3
<1> QED
  BY <1>4

\* A vector as a function, and a function that is one.
LEMMA VectorAsFunction ==
    ASSUME NEW array \in Vector
    PROVE  /\ Len(array) \in Nat /\ DOMAIN array = 1 .. Len(array)
           /\ array \in [1 .. Len(array) -> RoomID \cup {None}]
           /\ \A i \in 1 .. Len(array) : array[i] \in RoomID \cup {None}
  BY LenProperties DEF Vector

LEMMA FunctionAsVector ==
    ASSUME NEW n \in Nat, NEW f \in [1 .. n -> RoomID \cup {None}]
    PROVE  f \in Vector /\ Len(f) = n
<1>1. f \in Vector
  BY SeqDef DEF Vector
<1> QED
  BY <1>1, VectorAsFunction

LEMMA NextRoom ==
    ASSUME NEW array \in Vector, HasNext(array)
    PROVE  /\ FirstIdx(array) \in DOMAIN array /\ First(array) = array[FirstIdx(array)]
           /\ First(array) # None /\ First(array) \in RoomID /\ First(array) \in RoomsIn(array)
<1> DEFINE T == {i \in DOMAIN array : array[i] # None}
<1>1. T \subseteq Nat /\ T # {}
  BY VectorAsFunction DEF HasNext
<1>2. PICK i \in T : \A k \in T : i <= k
  BY <1>1, Least
<1>3. ASSUME NEW j \in 1 .. i - 1 PROVE array[j] = None
  BY <1>2, VectorAsFunction
<1>4. FirstIdx(array) \in T
  BY <1>2, <1>3 DEF FirstIdx
<1> QED
  BY <1>4, VectorAsFunction DEF First, RoomsIn

LEMMA NoNext == ASSUME NEW array \in Vector, ~ HasNext(array) PROVE RoomsIn(array) = {}
  BY DEF HasNext, RoomsIn

\* One step of a loop over a vector.
LEMMA RestOf ==
    ASSUME NEW array \in Vector, HasNext(array)
    PROVE  /\ Rest(array) \in Vector
           /\ RoomsIn(Rest(array)) \subseteq RoomsIn(array)
           /\ NoDuplicates(array) => /\ NoDuplicates(Rest(array))
                                     /\ RoomsIn(Rest(array)) = RoomsIn(array) \ {First(array)}
<1> DEFINE f == FirstIdx(array)
           n == Len(array)
<1>1. f \in 1 .. n /\ n \in Nat /\ DOMAIN array = 1 .. n /\ First(array) = array[f]
  BY NextRoom, VectorAsFunction
<1>2. Rest(array) \in [1 .. n -> RoomID \cup {None}]
  BY <1>1, VectorAsFunction DEF Rest
<1>3. \A i \in 1 .. n : Rest(array)[i] = IF i = f THEN None ELSE array[i]
  BY <1>1, VectorAsFunction DEF Rest
<1>4. Rest(array) \in Vector
  BY <1>1, <1>2, FunctionAsVector
<1>5. DOMAIN Rest(array) = 1 .. n
  BY <1>2
<1> HIDE DEF f, n
<1>6. RoomsIn(Rest(array)) \subseteq RoomsIn(array)
  BY <1>1, <1>3, <1>5 DEF RoomsIn
<1>7. ASSUME NoDuplicates(array) PROVE NoDuplicates(Rest(array))
  BY <1>1, <1>3, <1>5, <1>7 DEF NoDuplicates
<1>8. ASSUME NoDuplicates(array)
      PROVE  RoomsIn(Rest(array)) = RoomsIn(array) \ {First(array)}
  <2>1. ASSUME NEW i \in 1 .. n, array[i] # None, i # f PROVE array[i] # First(array)
    BY <1>1, <1>8, <2>1 DEF NoDuplicates
  <2> QED
    BY <1>1, <1>3, <1>5, <2>1 DEF RoomsIn
<1> QED
  BY <1>4, <1>6, <1>7, <1>8

\* Leaving a room frees its handle and no other one.
LEMMA VacateOf ==
    ASSUME NEW array \in Vector, NEW rid \in RoomID
    PROVE  /\ Vacate(array, rid) \in Vector
           /\ Len(Vacate(array, rid)) = Len(array)
           /\ RoomsIn(Vacate(array, rid)) = RoomsIn(array) \ {rid}
           /\ NoDuplicates(array) => NoDuplicates(Vacate(array, rid))
<1> DEFINE n == Len(array)
           v == Vacate(array, rid)
<1>1. n \in Nat /\ DOMAIN array = 1 .. n /\ rid # None
  BY VectorAsFunction, RoomHandlesAssumption
<1>2. v \in [1 .. n -> RoomID \cup {None}]
      /\ \A i \in 1 .. n : v[i] = IF array[i] = rid THEN None ELSE array[i]
  BY <1>1, VectorAsFunction DEF Vacate
<1>3. v \in Vector /\ Len(v) = n /\ DOMAIN v = 1 .. n
  BY <1>1, <1>2, FunctionAsVector
<1> HIDE DEF n, v
<1>4. RoomsIn(v) = RoomsIn(array) \ {rid}
  BY <1>1, <1>2, <1>3 DEF RoomsIn
<1>5. NoDuplicates(array) => NoDuplicates(v)
  BY <1>1, <1>2, <1>3 DEF NoDuplicates
<1> QED
  BY <1>3, <1>4, <1>5 DEF n, v

\* Cutting the free handles off at the end loses no room and moves none.
LEMMA TrimOf ==
    ASSUME NEW array \in Vector
    PROVE  /\ Trim(array) \in Vector /\ Trimmed(Trim(array))
           /\ Len(Trim(array)) <= Len(array)
           /\ RoomsIn(Trim(array)) = RoomsIn(array)
           /\ NoDuplicates(array) => NoDuplicates(Trim(array))
           /\ \A i \in DOMAIN Trim(array) : i \in DOMAIN array /\ Trim(array)[i] = array[i]
<1> DEFINE n    == Len(array)
           used == {i \in DOMAIN array : array[i] # None}
<1>1. n \in Nat /\ DOMAIN array = 1 .. n /\ \A i \in 1 .. n : array[i] \in RoomID \cup {None}
  BY VectorAsFunction
<1>2. CASE used = {}
  <2>1. Trim(array) = <<>>
    BY <1>2 DEF Trim
  <2>2. <<>> \in Vector /\ Len(<<>>) = 0 /\ DOMAIN <<>> = {}
    BY DEF Vector
  <2>3. RoomsIn(array) = {} /\ RoomsIn(<<>>) = {}
    BY <1>2, <2>2 DEF RoomsIn
  <2> QED
    BY <1>1, <2>1, <2>2, <2>3 DEF NoDuplicates, Trimmed
<1>3. CASE used # {}
  <2> DEFINE last == CHOOSE i \in used : \A j \in used : j <= i
  <2>1. last \in used /\ \A j \in used : j <= last
    <3>1. used \subseteq 1 .. n
      BY <1>1
    <3> QED
      BY <1>1, <1>3, <3>1, Greatest
  <2>2. Trim(array) = SubSeq(array, 1, last)
    BY <1>3 DEF Trim
  <2>3. last \in 1 .. n /\ array[last] # None /\ \A j \in 1 .. n : array[j] # None => j <= last
    BY <1>1, <2>1
  <2> HIDE DEF last, used, n
  <2>4. /\ Trim(array) \in Vector /\ Len(Trim(array)) = last
        /\ \A i \in 1 .. last : Trim(array)[i] = array[i]
    <3>1. \A i \in 1 .. last : array[i] \in RoomID \cup {None}
      BY <1>1, <2>3
    <3> QED
      BY <1>1, <2>2, <2>3, <3>1, SubSeqProperties DEF Vector
  <2>5. DOMAIN Trim(array) = 1 .. last
    BY <2>4, VectorAsFunction
  <2>6. RoomsIn(Trim(array)) = RoomsIn(array)
    BY <1>1, <2>3, <2>4, <2>5 DEF RoomsIn
  <2>7. NoDuplicates(array) => NoDuplicates(Trim(array))
    BY <1>1, <2>3, <2>4, <2>5 DEF NoDuplicates
  <2>8. Trimmed(Trim(array)) /\ Len(Trim(array)) <= Len(array)
    BY <1>1, <2>3, <2>4 DEF Trimmed, n
  <2>9. \A i \in DOMAIN Trim(array) : i \in DOMAIN array /\ Trim(array)[i] = array[i]
    BY <1>1, <2>3, <2>4, <2>5
  <2> QED
    BY <2>4, <2>6, <2>7, <2>8, <2>9
<1> QED
  BY <1>2, <1>3

\* The handles that are left mean what they meant.
LEMMA LeftHandles ==
    ASSUME NEW array \in Vector, NEW rid \in RoomID
    PROVE  LET left == Trim(Vacate(array, rid))
           IN  \A i \in DOMAIN left : left[i] # None => i \in DOMAIN array /\ left[i] = array[i]
<1> DEFINE v == Vacate(array, rid)
<1>1. v \in Vector
  BY VacateOf
<1>2. \A i \in DOMAIN v : i \in DOMAIN array /\ (v[i] # None => v[i] = array[i])
  BY DEF Vacate
<1> HIDE DEF v
<1>3. \A i \in DOMAIN Trim(v) : i \in DOMAIN v /\ Trim(v)[i] = v[i]
  BY <1>1, TrimOf
<1>4. \A i \in DOMAIN Trim(v) : Trim(v)[i] # None => i \in DOMAIN array /\ Trim(v)[i] = array[i]
  BY <1>2, <1>3
<1> QED
  BY <1>4 DEF v

\* Joining a room takes a free handle or a new one and disturbs no other.
LEMMA AddRoomOf ==
    ASSUME NEW array \in Vector, NEW rid \in RoomID,
           FreeSlots(array) = {} => Len(array) < MaxRooms,
           Len(array) <= MaxRooms, rid \notin RoomsIn(array)
    PROVE  /\ AddRoom(array, rid) \in Vector
           /\ Len(AddRoom(array, rid)) <= MaxRooms
           /\ RoomsIn(AddRoom(array, rid)) = RoomsIn(array) \cup {rid}
           /\ NoDuplicates(array) => NoDuplicates(AddRoom(array, rid))
           /\ Trimmed(array) => Trimmed(AddRoom(array, rid))
<1> DEFINE n == Len(array)
           a == AddRoom(array, rid)
<1>1. /\ n \in Nat /\ DOMAIN array = 1 .. n /\ rid # None
      /\ \A i \in 1 .. n : array[i] \in RoomID \cup {None}
  BY VectorAsFunction, RoomHandlesAssumption
<1>2. \A i \in 1 .. n : array[i] # rid
  BY <1>1 DEF RoomsIn
<1>3. CASE FreeSlots(array) # {}
  <2> DEFINE f == room_get_free_rh(array)
  <2>1. f \in FreeSlots(array)
    <3>1. FreeSlots(array) \subseteq Nat
      BY <1>1 DEF FreeSlots
    <3> QED
      BY <1>3, <3>1, Least DEF room_get_free_rh
  <2>2. f \in 1 .. n /\ array[f] = None
    BY <1>1, <2>1 DEF FreeSlots
  <2>3. a = [array EXCEPT ![f] = rid]
    BY <1>3 DEF AddRoom
  <2> HIDE DEF f, a, n
  <2>4. a \in [1 .. n -> RoomID \cup {None}]
        /\ \A i \in 1 .. n : a[i] = IF i = f THEN rid ELSE array[i]
    BY <1>1, <2>2, <2>3, VectorAsFunction DEF n
  <2>5. a \in Vector /\ Len(a) = n /\ DOMAIN a = 1 .. n
    BY <1>1, <2>4, FunctionAsVector
  <2>6. RoomsIn(a) = RoomsIn(array) \cup {rid}
    BY <1>1, <1>2, <2>2, <2>4, <2>5 DEF RoomsIn
  <2>7. NoDuplicates(array) => NoDuplicates(a)
    BY <1>1, <1>2, <2>2, <2>4, <2>5 DEF NoDuplicates
  <2>8. Trimmed(array) => Trimmed(a)
    BY <1>1, <2>2, <2>4, <2>5 DEF Trimmed, n
  <2> QED
    BY <2>5, <2>6, <2>7, <2>8 DEF a, n
<1>4. CASE FreeSlots(array) = {}
  <2>1. a = Append(array, rid)
    BY <1>4 DEF AddRoom
  <2> HIDE DEF a
  <2>2. /\ a \in Vector /\ Len(a) = n + 1 /\ a[n + 1] = rid
        /\ \A i \in 1 .. n : a[i] = array[i]
    BY <2>1, AppendProperties DEF Vector
  <2>3. DOMAIN a = 1 .. n + 1
    BY <2>2, VectorAsFunction
  <2> HIDE DEF n
  <2>4. RoomsIn(a) = RoomsIn(array) \cup {rid}
    BY <1>1, <2>2, <2>3 DEF RoomsIn
  <2>5. NoDuplicates(array) => NoDuplicates(a)
    BY <1>1, <1>2, <2>2, <2>3 DEF NoDuplicates
  <2>6. Trimmed(a) /\ Len(a) <= MaxRooms
    BY <1>1, <1>4, <2>2, RoomHandlesAssumption DEF Trimmed, n
  <2> QED
    BY <2>2, <2>4, <2>5, <2>6 DEF a
<1> QED
  BY <1>3, <1>4

\* Handles given before keep their meaning.
LEMMA KeptHandles ==
    ASSUME NEW array \in Vector, NEW rid \in RoomID, NEW i \in DOMAIN array, array[i] # None
    PROVE  i \in DOMAIN AddRoom(array, rid) /\ AddRoom(array, rid)[i] = array[i]
<1> DEFINE n == Len(array)
<1>1. n \in Nat /\ DOMAIN array = 1 .. n /\ array \in [1 .. n -> RoomID \cup {None}]
  BY VectorAsFunction
<1>2. CASE FreeSlots(array) # {}
  <2> DEFINE f == room_get_free_rh(array)
  <2>1. f \in FreeSlots(array)
    <3>1. FreeSlots(array) \subseteq Nat
      BY <1>1 DEF FreeSlots
    <3> QED
      BY <1>2, <3>1, Least DEF room_get_free_rh
  <2>2. f # i
    BY <2>1 DEF FreeSlots
  <2>3. AddRoom(array, rid) = [array EXCEPT ![f] = rid]
    BY <1>2 DEF AddRoom
  <2> HIDE DEF f
  <2> QED
    BY <1>1, <2>2, <2>3
<1>3. CASE FreeSlots(array) = {}
  <2>1. AddRoom(array, rid) = Append(array, rid)
    BY <1>3 DEF AddRoom
  <2>2. array \in Seq(RoomID \cup {None})
    BY DEF Vector
  <2>3. /\ Append(array, rid) \in Seq(RoomID \cup {None}) /\ Len(Append(array, rid)) = n + 1
        /\ \A k \in 1 .. n : Append(array, rid)[k] = array[k]
    BY <2>2, AppendProperties
  <2>4. DOMAIN Append(array, rid) = 1 .. n + 1
    BY <2>3, LenProperties
  <2>5. i \in 1 .. n + 1 /\ i \in 1 .. n
    BY <1>1
  <2> QED
    BY <2>1, <2>3, <2>4, <2>5
<1> QED
  BY <1>2, <1>3

\* The handle that the talker computes means the room.
LEMMA HandleOf ==
    ASSUME NEW array \in Vector, Len(array) <= MaxRooms, NEW rid \in RoomsIn(array)
    PROVE  LET h == room_get_rh_by_id(array, rid)
           IN  h \in Nat /\ h + 1 \in DOMAIN array /\ array[h + 1] = rid
<1> DEFINE h == room_get_rh_by_id(array, rid)
           T == {i \in DOMAIN array : array[i] = rid}
           before == {i \in DOMAIN array : \A j \in 1 .. i : array[j] # rid}
<1>1. Len(array) \in Nat /\ DOMAIN array = 1 .. Len(array)
  BY VectorAsFunction
<1>2. T \subseteq Nat /\ T # {}
  BY <1>1 DEF RoomsIn
<1>3. PICK k \in T : \A i \in T : k <= i
  BY <1>2, Least
<1>4. k \in 1 .. Len(array) /\ array[k] = rid /\ \A i \in 1 .. k - 1 : array[i] # rid
  BY <1>1, <1>3
<1>5. before = 1 .. k - 1
  <2>1. ASSUME NEW i \in before PROVE i \in 1 .. k - 1
    <3>1. i \in 1 .. Len(array) /\ ~ (k \in 1 .. i)
      BY <1>1, <1>4
    <3> QED
      BY <1>4, <3>1
  <2>2. ASSUME NEW i \in 1 .. k - 1 PROVE i \in before
    <3>1. i \in DOMAIN array /\ \A j \in 1 .. i : j \in 1 .. k - 1
      BY <1>1, <1>4
    <3> QED
      BY <1>4, <3>1
  <2> QED
    BY <2>1, <2>2
<1>6. Cardinality(before) = k - 1
  <2>1. 1 \in Int /\ k - 1 \in Int
    BY <1>4
  <2>2. Cardinality(1 .. k - 1) = IF 1 > k - 1 THEN 0 ELSE k - 1 - 1 + 1
    BY <2>1, FS_Interval
  <2>3. (IF 1 > k - 1 THEN 0 ELSE k - 1 - 1 + 1) = k - 1
    BY <1>4
  <2> HIDE DEF before
  <2> QED
    BY <1>5, <2>2, <2>3
<1>7. h = AsU8(k - 1)
  BY <1>6 DEF room_get_rh_by_id
<1> HIDE DEF h
<1>8. h = k - 1
  BY <1>1, <1>4, <1>7, RoomHandlesAssumption DEF AsU8
<1> QED
  BY <1>1, <1>4, <1>8 DEF h

\* The elements of a finite set, one after another.
LEMMA Enumerated ==
    ASSUME NEW S, IsFiniteSet(S)
    PROVE  /\ Cardinality(S) \in Nat
           /\ \E f \in [1 .. Cardinality(S) -> S] :
                  \A x \in S : \E i \in 1 .. Cardinality(S) : f[i] = x
<1> DEFINE n == Cardinality(S)
<1>1. n \in Nat /\ ExistsBijection(1 .. n, S)
  BY FS_CardinalityType
<1> HIDE DEF n
<1>2. PICK f : f \in Bijection(1 .. n, S)
  BY <1>1 DEF ExistsBijection
<1>3. f \in [1 .. n -> S] /\ \A x \in S : \E i \in 1 .. n : f[i] = x
  BY <1>2 DEF Bijection, Surjection, Injection
<1> QED
  BY <1>1, <1>3 DEF n

\* Whatever the room, the result is a vector.
LEMMA AddRoomType ==
    ASSUME NEW array \in Vector, NEW rid \in RoomID PROVE AddRoom(array, rid) \in Vector
<1>1. Append(array, rid) \in Vector
  BY AppendProperties DEF Vector
<1>2. [array EXCEPT ![room_get_free_rh(array)] = rid] \in Vector
  <2>1. [array EXCEPT ![room_get_free_rh(array)] = rid] \in [1 .. Len(array) -> RoomID \cup {None}]
    BY VectorAsFunction
  <2> QED
    BY <2>1, VectorAsFunction, FunctionAsVector
<1> QED
  BY <1>1, <1>2 DEF AddRoom

LEMMA DedupOf == ASSUME NEW list \in Seq(RoomID) PROVE Dedup(list) \in Vector
<1>1. Len(list) \in Nat /\ DOMAIN list = 1 .. Len(list)
      /\ \A i \in 1 .. Len(list) : list[i] \in RoomID
  BY LenProperties
<1>2. Dedup(list) \in [1 .. Len(list) -> RoomID \cup {None}]
  BY <1>1 DEF Dedup
<1> QED
  BY <1>1, <1>2, FunctionAsVector

\* A vector names no more rooms than it has handles.
LEMMA RoomsFit ==
    ASSUME NEW array \in Vector
    PROVE  IsFiniteSet(RoomsIn(array)) /\ Cardinality(RoomsIn(array)) <= Len(array)
<1> DEFINE T == {array[i] : i \in 1 .. Len(array)}
<1>1. Len(array) \in Nat /\ DOMAIN array = 1 .. Len(array)
      /\ array \in [1 .. Len(array) -> RoomID \cup {None}]
  BY VectorAsFunction
<1>2. array \in Surjection(1 .. Len(array), T)
  BY <1>1 DEF Surjection
<1>3. IsFiniteSet(1 .. Len(array)) /\ Cardinality(1 .. Len(array)) = Len(array)
  BY <1>1, FS_Interval
<1> HIDE DEF T
<1>4. IsFiniteSet(T) /\ Cardinality(T) <= Len(array)
  <2>1. IsFiniteSet(T) /\ Cardinality(T) <= Cardinality(1 .. Len(array))
    BY <1>2, <1>3, FS_Surjection
  <2> QED
    BY <1>3, <2>1
<1>5. RoomsIn(array) \in SUBSET T
  BY <1>1 DEF RoomsIn, T
<1>6. /\ IsFiniteSet(RoomsIn(array)) /\ Cardinality(RoomsIn(array)) <= Cardinality(T)
  BY <1>4, <1>5, FS_Subset
<1>7. Cardinality(T) \in Nat /\ Cardinality(RoomsIn(array)) \in Nat
  BY <1>4, <1>6, FS_CardinalityType
<1> QED
  BY <1>1, <1>4, <1>6, <1>7

\* As many pairs as first components, if these tell the pairs apart.
LEMMA OneForEach ==
    ASSUME NEW pairs, NEW S, IsFiniteSet(S), {e[1] : e \in pairs} = S,
           \A e, f \in pairs : e[1] = f[1] => e = f
    PROVE  Cardinality(pairs) = Cardinality(S)
<1> DEFINE f == [x \in S |-> CHOOSE e \in pairs : e[1] = x]
<1>1. ASSUME NEW x \in S PROVE f[x] \in pairs /\ f[x][1] = x
  <2>1. \E e \in pairs : e[1] = x
    OBVIOUS
  <2> QED
    BY <2>1
<1>2. f \in [S -> pairs]
  BY <1>1
<1> HIDE DEF f
<1>3. \A e \in pairs : e[1] \in S /\ f[e[1]] = e
  BY <1>1
<1>4. f \in Bijection(S, pairs)
  <2>1. \A x, y \in S : f[x] = f[y] => x = y
    BY <1>1
  <2>2. \A e \in pairs : \E x \in S : f[x] = e
    BY <1>3
  <2>3. f \in Injection(S, pairs)
    BY <1>2, <2>1 DEF Injection, IsInjective
  <2>4. f \in Surjection(S, pairs)
    BY <1>2, <2>2 DEF Surjection
  <2> QED
    BY <2>3, <2>4 DEF Bijection
<1>5. ExistsBijection(S, pairs)
  BY <1>4 DEF ExistsBijection
<1> QED
  BY <1>5, FS_Bijection
==============================================================================
