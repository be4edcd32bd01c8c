CONSTANTS
    Names = {"json"}
    NoPath = none
    Adds = {k1}
    MaxSelected = 2
    Paths <- MCPaths
    Programs <- MCPrograms
    Runtime <- MCRuntime
    Sibling <- MCSibling
    Selectable <- MCSelectable
SPECIFICATION NamesSpec
PROPERTY MostRecentRuns
