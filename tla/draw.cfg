SPECIFICATION DrawSpec
CONSTANTS
    Points <- MCPoints
    Radii <- MCRadii
INVARIANTS
    LinesAreStrokes
    CirclesAreRings
