CONSTANTS
    Areas = {"tall", "short"}
    FontSizes = {13, 14}
    FontSize = 14
    Grid <- MCGrid
    Typed <- MCTyped
    Units <- MCUnits
    Limit = 4
    Marker <- MCMarker
    Chunks <- MCChunks
    MaxSizes = 2
SPECIFICATION FairSpec
INVARIANTS TypeOK OneKeyPerTap MarkerIsHeard
PROPERTY SizeArrives
CHECK_DEADLOCK FALSE
