CONSTANTS
    tab = tab
    window = window
    first = first
    again = again
    other = other
    lone = lone
    one = one
    two = two
    plain = plain
    NoItem = none
    Pages = {tab, window}
    Boots = {first, again, other, lone}
    PageOf <- MCPageOf
    NarConcurrency = 2
    Crews <- MCCrews
    Items = {one, two, plain}
    Archives <- MCArchives
    Compression <- MCCompression
    NarAttempts = 2
    Earlier <- MCEarlier
    MaxReloads = 1
    CacheFails = TRUE
SPECIFICATION FairSpec
INVARIANTS ResolvedIsComplete RefusalIsEarned BadHasAnOwner
PROPERTY WorkersStop
CHECK_DEADLOCK FALSE
