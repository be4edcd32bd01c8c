CONSTANTS
    Calls = {c1, c2}
    FetchConcurrency = 2
    Digests <- MCDigests
    Refs <- MCRefs
    Selections <- MCSelections
SPECIFICATION FairSpec
INVARIANT FreshCompletes
PROPERTIES Implements WalkEnds
