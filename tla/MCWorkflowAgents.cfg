\* All kinds of agents, one resume, channels of one item.
CONSTANTS
    Kind <- MixedTree
    MaxIterations = 2
    ChannelCapacity = 1
    MaxEvents <- OneOfEachBranch
    MaxResumes = 1
SPECIFICATION Spec
INVARIANTS
    CheckpointMeansFinished
PROPERTIES
    NothingAfterStop
    FinishedNotRerun
    AllTasksEnd
CHECK_DEADLOCK FALSE
