SPECIFICATION AssistSpec
CONSTANTS
    Bytes <- MCBytes
    Addresses <- MCAddresses
    Buffers <- MCBuffers
    Units <- MCUnits
    Image <- MCImage
    Request <- MCRequest
    Calls <- MCCalls
    HostResults <- MCHostResults
    Errnos <- MCErrnos
    FileByte <- MCFileByte
    Selectable <- MCSelectable
INVARIANTS
    AssistTypeOK
    RequestServed
    ReplyReadable
PROPERTIES
    BufferDelivered
    ImplementsBankedStore
CHECK_DEADLOCK FALSE
