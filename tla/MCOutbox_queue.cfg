CONSTANTS
    p1 = p1
    p2 = p2
    chat1 = chat1
    chat2 = chat2
    Producers = {p1, p2}
    Chats <- TwoChats
    Size = 2
    MaxBroadcasts = 2
    MaxLate = 1
SPECIFICATION FairSpec
PROPERTIES InOrder LostOnlyWhenOvertaken QueueMoves
\* After stop() and the last broadcast nothing is left to do.
CHECK_DEADLOCK FALSE
