CONSTANTS
    Names = {"json"}
    NoPath = none
    Adds = {k1, k2}
    MaxSelected = 2
    Paths <- MCPaths
    Programs <- MCPrograms
    Runtime <- MCRuntime
    Sibling <- MCSibling
    Selectable <- MCSelectable
SPECIFICATION NamesSpec
INVARIANTS SelectionWins FarmIsWhole CachedStillRuns
