SPECIFICATION Spec
CONSTANTS
    NProc = 3
    QueueSlots = 2
    Bits = {b1}
VIEW WithoutMsgBuf
CONSTRAINT ThirdOrMore
INVARIANTS TypeOK SenderHasMessage ReceiverOwedNothing
PROPERTIES WokenByPartner
