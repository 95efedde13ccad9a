SPECIFICATION FairSpec
CONSTANTS
    Senders = {s1, s2}
    Base = 4
    MESSAGE_MAGIC <- MCMagic
    MAX_MESSAGE_SIZE = 2
    Messages <- MCTwoMessages
    MaxMessages = 2
    MaxLosses = 0
CHECK_DEADLOCK FALSE
PROPERTY Delivery
