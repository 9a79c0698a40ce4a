SPECIFICATION BootSpec
CONSTANTS
    Bytes <- MCBytes
    Addresses <- MCAddresses
    Buffers <- MCBuffers
    Units <- MCUnits
    File <- MCFile
    ArgLists <- MCArgLists
    Counts <- MCCounts
    StackPtrs <- MCStackPtrs
    MaxIdle <- MCMaxIdle
INVARIANTS
    BootTypeOK
    ArgumentsReadable
    ProgramIntact
PROPERTIES
    ProgramStarts
CHECK_DEADLOCK FALSE
