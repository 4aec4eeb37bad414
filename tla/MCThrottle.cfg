\* Two goroutines, two keys over a statement map of one; the interval off, or
\* of two ticks, and time for two windows.
\* Keys of four bytes, from statements of up to six runes.
CONSTANTS
    Caller = {g1, g2}
    Key = {k1, k2}
    Intervals = {0, 2}
    Implementations <- OneExtension
    MaxUnboundedKeys = 1
    MaxTime = 4
    MaxReports = 4
    Byte <- Bytes
    Blank = " "
    Rune <- Runes
    SpaceRune <- SpaceRunes
    KeyLen = 4
    MaxRunes = 6
SPECIFICATION MCSpec
SYMMETRY Symmetry
INVARIANTS
    TypeOK
    Conservation
    OncePerInterval
    MemoryBounded
    KeyIsNormalizedPrefix
PROPERTIES
    SuppressedBehindForward
CHECK_DEADLOCK FALSE
