CONSTANTS
    Requests = {r1, r2, r3}
    Keys = {k1, k2}
    Hashes = {d1, d2}
    NoReq = NoReq
    NoRow = NoRow
    Tokens = {1, 2, 3}
    Lapsing = {1}
    Tabs = {b1, b2}
    Handlers = {h1, h2}
    NoToken = NoToken
    NoHandler = NoHandler
    Policies <- Routes
    Source <- LimitedBy
    Callers <- Visitors
    Canonical <- Spelling
    Limit = 1
    Window = 2
    Events = {e1, e2}
    MaxSubscriptions = 2
    MaxAsks = 1
    MaxWire = 2
    Loops = {l1, l2}
    Interval = 3
    Timeout = 4
    MaxSockets = 1
SPECIFICATION PartsSpec
SYMMETRY RequestsSymmetry
INVARIANT OncePerKey
INVARIANT AnswersAgree
INVARIANT RotationSound
INVARIANT LimitsKept
INVARIANT RegistrySound
 
PROPERTY RefusedOnlyForReuse
PROPERTY PresentedOnce
CHECK_DEADLOCK FALSE
