SPECIFICATION Spec
CONSTANTS
    UserID = {u1, u2}
    RoomID = {r1, r2}
    Profile = {p1}
    DefaultProfile = p1
    None = None
    SYSTEM = SYSTEM
    HistoryMax = 1
    RoomEmptyTimer = 2
    RoomTypingTimer = 2
    RateLimit <- MCRateLimit
    RoomLimit = 0
    OtherLimit = 0
    CounterValues = 1
    MaxRooms = 1
    MessageIDs = 1000
    MaxMessages = 4
    MaxInitRooms = 0
    LogMax = 1
    Stimuli = {"EARLY", "CONNECT", "DISCONNECT", "ROOM_JOIN", "ROOM_LEAVE", "TYPING", "TICK"}
INVARIANTS TypeOK FullCountdown NoGhostTyping
PROPERTIES ImplementsChatRooms DroppedOnlyEmpty EmptyRoomReclaimed TypingEnds
