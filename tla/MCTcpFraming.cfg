SPECIFICATION FairSpec
CONSTANTS
    Bytes = {0, 1}
    Zero = 0
    Msgs <- MCMsgs
    LenBytes = 2
    ToBytes <- MCToBytes
    FromBytes <- MCFromBytes
    Room = 3
    MaxSends = 2
PROPERTIES
    ImplementsChannel
    MessagesArrive
CHECK_DEADLOCK FALSE
