SPECIFICATION FbSpec
CONSTANTS
    XRes = 2
    YRes = 3
    Stride = 2
    VRows = 3
    ByteSize = 2
    Colours = {0, 2}
    PaletteSize = 2
    Lines <- MCLines
    Blocks <- MCBlocks
    Circles <- MCCircles
INVARIANTS
    FbTypeOK
PROPERTIES
    FaultsExplained
    ImplementsCanvas
CHECK_DEADLOCK FALSE
