SPECIFICATION MarshalSpec
CONSTANTS
    WordArgs <- MCWords
    ByteArgs <- MCBytes
INVARIANTS
    ArgumentsArrive
