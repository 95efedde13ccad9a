SPECIFICATION FairSpec
CONSTANTS
    Senders = {s1}
    Base = 4
    MESSAGE_MAGIC <- MCMagic
    MAX_MESSAGE_SIZE = 2
    Messages <- MCMessages
    MaxMessages = 2
    MaxLosses = 1
CHECK_DEADLOCK FALSE
INVARIANTS TypeOK StreamInFrame BufferBounded
PROPERTIES Delivery ParseEnds
