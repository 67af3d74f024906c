CONSTANTS
    Seats = {1, 2}
    ForeignSeats = {}
    Callers = {TRUE}
    Holds = {1, 2}
    Clients = {c1}
    Workers = {w1}
    NoTx = NoTx
    NoHold = NoHold
    TTL = 1
    MaxClock = 1
    SweepBatch = 1
SPECIFICATION FairSpec
PROPERTY NoSeatStuck
