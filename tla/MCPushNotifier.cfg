\* Two registrations, a deletion, and a run that may be canceled at any time and
\* whose updates overflow the queue of a subscriber that repeats its POSTs.
CONSTANTS
    s1 = s1
    s2 = s2
    c1 = c1
    c2 = c2
    Asks <- MCAsks
    Task = {t1}
    Setter = {s1, s2}
    Receiver = {s1, s2}
    Nobody = Nobody
    Capacity = 1
    Config = {c1, c2}
    Deleter = {d1}
    Every = Every
    None = None
    Attempts = 2
    MaxUpdates = 1
SPECIFICATION NotifierSpec
INVARIANTS
    OneSubscriberPerConfig
    StoppedOnlyIfReplaced
PROPERTIES
    FinalIsPosted
CHECK_DEADLOCK FALSE
