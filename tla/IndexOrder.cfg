CONSTANTS
    Attrs = {"jq", "py", "pyx"}
    Releases <- RcReleases
    ShardOf <- MCShardOf
    Fragments <- MCFragments
    Short <- MCShort
    Offers <- MCOffers
    Completions = 2
    Lines <- MCLines
    Queries = {"p", "j"}
    Found <- MCFound
    Age <- MCAge
    MaxTasks = 1
    MaxSwitches = 1
SPECIFICATION Spec
INVARIANT ReleaseOverPrerelease
CHECK_DEADLOCK FALSE
