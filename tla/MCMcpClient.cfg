\* The handshake, a tool call and two lists at the same time, over either
\* transport.
CONSTANTS
    Call = {c0, c1, c2, c3}
    Handshake = c0
    Lists = {c2, c3}
    Nobody = Nobody
    MaxAsked = 1
SPECIFICATION Spec
INVARIANTS
    AnswersAreOwn
    OnlyDroppedSpoil
PROPERTIES
    CallEnds
CHECK_DEADLOCK FALSE
