SPECIFICATION MailboxSpec
CONSTANTS
    BoxCount = 2
    Bytes <- MCBytes
    MaxInits = 2
INVARIANTS
    MailboxTypeOK
    OnlyThreadsSignalled
PROPERTIES
    PostDelivered
    InitReturns
    ImplementsDoorbell
CHECK_DEADLOCK FALSE
