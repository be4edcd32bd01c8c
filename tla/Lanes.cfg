CONSTANTS
    Attrs = {"jq", "py", "pyx"}
    Releases <- MCReleases
    ShardOf <- MCShardOf
    Fragments <- MCFragments
    Short <- MCShort
    Offers <- MCOffers
    Completions = 2
    Lines <- MCLines
    Queries = {"p", "j"}
    Found <- MCFound
    Age <- MCAge
    MaxTasks = 2
    MaxSwitches = 1
SPECIFICATION FairSpec
INVARIANTS TypeOK ShownIsFresh LineIsWhole PicksAreNewest
PROPERTY LoadingEnds
CHECK_DEADLOCK FALSE
