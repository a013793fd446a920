\* Three invocations, two of which run at once, that all may summarise, with an
\* overlap of one event.
CONSTANTS
    Invocation = {i1, i2, i3}
    Interval = 1
    OverlapSize = 1
    MaxMade = 3
    MaxInHand = 2
    MaxRunning = 2
SPECIFICATION CompactionSpec
SYMMETRY Symmetry
INVARIANTS
    Remembered
    AnswersKeepTheirCalls
CHECK_DEADLOCK FALSE
