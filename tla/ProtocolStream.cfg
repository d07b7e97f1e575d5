SPECIFICATION Spec
CONSTANTS
    Radix = 4
    MaxHead = 2
    Modulus = 8
    IntSize = 2
    ShortSize = 1
    BINARY_PACKLEN_LEN_2 = 2
    CHECKSUM_LEN = 1
    MAX_COMPRESS_BUF_SIZE = 14
    Int64Buf = 4
    Limits = {0, 2}
    NullInt = 11
    Ints = {3, 62}
    Longs <- MCLongs
    Shorts = {6}
    Chars = {5}
    Texts <- MCTexts
    MaxFields = 3
INVARIANTS
    
    RoundTrip
    Readable
CHECK_DEADLOCK FALSE
