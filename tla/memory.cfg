SPECIFICATION Spec
CONSTANTS
    Bytes <- MCBytes
    Addresses <- MCAddresses
    Buffers <- MCBuffers
    Units <- MCUnits
INVARIANTS
    TypeOK
    RegisterInvariant
    PageRegistersCoherent
PROPERTIES
    ImplementsBankedStore
    WritesReadBack
