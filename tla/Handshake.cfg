CONSTANTS
    Modes = {"snapshot", "cold"}
    Traces = {TRUE, FALSE}
    Paces = {TRUE, FALSE}
    MaxLines = 4
SPECIFICATION FairSpec
INVARIANTS InOrder OneLineFinishes
PROPERTIES PageEnds GuestComesUp PollStops
CHECK_DEADLOCK FALSE
