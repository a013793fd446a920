SPECIFICATION Spec
CONSTANTS
    s1 = s1  k1 = k1  k2 = k2  a1 = a1  u1 = u1
    e1 = e1  e2 = e2  e3 = e3  c1 = c1  d1 = d1  r1 = r1
    None = None
    Database = Database
    Backends = {"sqlite", "postgres"}
    Sid = {s1}
    Key = {k1, k2}
    AppKey = {a1}
    UserKey = {u1}
    Appender = {e1, e2, e3}
    Creator = {c1}
    Deleter = {d1}
    Reader = {r1}
    SessionOf <- MCSessionOf
    Writes <- MCWrites
    Shares <- MCShares
    Faults = {"fail", "lost"}
INVARIANTS
    AckedIsDurable
    ReadIsBacked
PROPERTIES
    ImplementsSessionTable
CHECK_DEADLOCK FALSE
