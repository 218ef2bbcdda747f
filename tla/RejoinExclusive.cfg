SPECIFICATION Spec
CONSTANTS
    UserID = {u1, u2}
    RoomID = {r1, r2, r3}
    Profile = {p1}
    DefaultProfile = p1
    None = None
    SYSTEM = SYSTEM
    HistoryMax = 1
    RoomEmptyTimer = 1
    RoomTypingTimer = 1
    RateLimit <- MCRateLimit
    RoomLimit = 1
    OtherLimit = 1
    CounterValues = 8
    MaxRooms = 2
    MessageIDs = 1000
    MaxMessages = 6
    MaxInitRooms = 3
    LogMax = 1
    Stimuli = {"CONNECT", "DISCONNECT", "USER_JOINED", "ROOM_JOIN", "ROOM_LEAVE"}
SYMMETRY Alike
INVARIANTS RoomsArrayInStep
CHECK_DEADLOCK FALSE
