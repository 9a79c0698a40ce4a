SPECIFICATION TextSpec
CONSTANTS
    Strings <- MCStrings
    Abbreviations <- MCAbbreviations
    BufferSizes <- MCBufferSizes
    Lines <- MCLines
    ParseSizes <- MCParseSizes
    Separators <- MCSeparators
    Dictionary <- MCDictionary
    Significant <- MCSignificant
    Room <- MCRoom
INVARIANTS
    TextDecoded
    TokensAreWords
    WordsRecognised
