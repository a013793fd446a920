\* One message/* request, a cancel and a resubscribe of its task; a queue that
\* one run's updates overflow.
CONSTANTS
    Task = {t1}
    Canceller = {c1}
    Watcher = {w1}
    Receiver <- MCReceiver
    Nobody = Nobody
    Capacity = 2
    MaxEvents = 3
    Turns <- MCTurns
SPECIFICATION ClientSpec
INVARIANTS
    SettledHasAllOutput
    StreamTellsTheEnd
PROPERTIES
    RunSettlesTask
    WatcherFinishes
    CallEnds
CHECK_DEADLOCK FALSE
