SPECIFICATION Spec
CONSTANTS
    UserID = {u1, u2}
    RoomID = {r1, r2}
    Profile = {p1, p2}
    DefaultProfile = p1
    None = None
    SYSTEM = SYSTEM
    HistoryMax = 2
    RoomEmptyTimer = 1
    RoomTypingTimer = 1
    RateLimit <- MCRateLimit
    RoomLimit = 0
    OtherLimit = 0
    CounterValues = 8
    MaxRooms = 2
    MessageIDs = 1000
    MaxMessages = 4
    MaxInitRooms = 2
    LogMax = 3
    Stimuli = {"EARLY", "CONNECT", "USER_JOINED", "ROOM_JOIN", "USER_CHANGE_NICK", "MESSAGE", "MESSAGE_DM", "CUSTOM_R", "CUSTOM_U"}
SYMMETRY Alike
INVARIANTS HistoryInStep LogsPublicAndOrdered HistoryBounded NeverMisrouted RosterInStep OnlyInitRoomsPanics
PROPERTIES ImplementsChatRooms
CHECK_DEADLOCK FALSE
