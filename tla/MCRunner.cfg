\* Two calls on one session, which may have to be created, be deleted and be resumed.
CONSTANTS
    h1 = h1
    h2 = h2
    s1 = s1
    Handle = {h1, h2}
    Sid = {s1}
    Event <- MCEvent
    NoEvent = NoEvent
    None = None
    Emits <- MCEmits
    AutoCreate = TRUE
SPECIFICATION Spec
INVARIANTS
    NoDuplicateEvents
    PersistedInYieldOrder
    StateIsReplay
    RegisteredWhileInFlight
PROPERTIES
    ImplementsSessionLog
CHECK_DEADLOCK FALSE
