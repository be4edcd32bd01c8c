CONSTANTS
    Fetchers = {page, checked}
    Attempts = 3
    Size = 2
    Verifiers = {checked}
    MaxRestarts = 2
SPECIFICATION FetchFairSpec
INVARIANT RowExact
PROPERTIES ActsAsOne Settles
CHECK_DEADLOCK FALSE
