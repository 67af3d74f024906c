CONSTANTS
    Seats = {1, 2}
    ForeignSeats = {}
    Callers = {TRUE}
    Holds = {1, 2}
    Clients = {c1, c2}
    Workers = {w1}
    NoTx = NoTx
    NoHold = NoHold
    TTL = 1
    MaxClock = 1
    SweepBatch = 1
SPECIFICATION Spec
SYMMETRY ClientSymmetry
INVARIANT ExclusiveClaims
INVARIANT SeatAgreement
INVARIANT GuardsNeverFail
INVARIANT NoRefundAfterEntry
INVARIANT NoDeadlock
PROPERTY ExpiryNeverEarly
PROPERTY ImplementsLedger
