SPECIFICATION Spec
CONSTANTS
    Urbs <- MCUrbs
    DeviceLists <- MCDeviceLists
    MaxMessages = 4
CHECK_DEADLOCK FALSE
INVARIANTS TypeOK OutUrbsArrive ListsArrive ConfigurationInStep AnswersInOrder
