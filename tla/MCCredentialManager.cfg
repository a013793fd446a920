CONSTANTS
    Resolver = {r1, r2}
    Callback = {k1, k2}
    Flow = {f1}
    Kinds = {"static", "client", "code", "token", "service", "custom"}
    Provided = {"custom"}
    Interactive = {"client", "token"}
    MaxTokens = 3
    Faults = {"cut", "delete"}
SPECIFICATION CredentialSpec
SYMMETRY MCSymmetry
INVARIANTS
    RetryPossible
    StoredRefreshTokenLives
CHECK_DEADLOCK FALSE
