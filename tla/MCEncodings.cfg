CONSTANTS
    Symbols <- MCSymbols
    MaxBuf = 3
    NameMaxBytes = 4
    Runes <- MCRunes
    Numerals <- MCNumerals
    Bytes <- MCBytes
    Works <- MCWorks
SPECIFICATION EncSpec
INVARIANTS
    
    NamesAreSafe
    
CHECK_DEADLOCK FALSE
