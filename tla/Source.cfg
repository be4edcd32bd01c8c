CONSTANTS
    PAD = 2
    Digests = {"jq", "jqbin", "sh"}
    Selections <- MCSelections
    Bin <- MCBin
    ShardOf <- MCShardOf
    Default <- MCDefault
    Lists <- MCLists
    Text <- MCText
    Served <- MCServed
    Tree <- MCTree
    Arrivals <- MCArrivals
    MaxEdits = 1
    ByteBits = 4
    DigitBits = 3
    Size = 2
    Fields <- MCFields
    KeptBefore <- MCKept
SPECIFICATION Spec
INVARIANTS TypeOK RootsAreWhole VerdictRight VouchedIsGenuine CutIsRefused LinksKeepMeaning HashesRight
CHECK_DEADLOCK FALSE
