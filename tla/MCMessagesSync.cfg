SPECIFICATION FairSpec
CONSTANTS
    a = a
    b = b
    c = c
    Messages <- MCMessages
    Backlog <- MCBacklog
    ChatOf <- MCChatOf
    Date <- MCDate
    MonthLength = 4
    Threads = {1, 2}
    ChatsOf <- MCChatsOf
    PageSize = 1
    Budget = 1
    IndexPath = IndexPath
    Hand = Hand
    Editable <- MCEditable
    None = None
    Nothing = Nothing
    Absent = Absent
    MaxEvents = 2
INVARIANTS
    Safe
PROPERTIES
    NeverForgets
    KeepsPromise
    Converges
