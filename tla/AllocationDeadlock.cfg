CONSTANTS
    Parts = {"batches"}
    Workers = {w1}
    BatchSize = 2
    Holds = {c1}
    Reconcilers = {r1}
    HoldTtl = 2
    Window = 1
    RetryBase = 1
    RetryMax = 2
    MaxTime = 2
    MaxAttempts = 1
    MaxLosses = 0
    Bookings = {b1}
    Legacy = {b1}
    TicketSeats = {s1}
    Doors = {d1}
    NoRequest = NoRequest
    MaxScans = 2
    MaxTries = 1
    FeedSeats = {s1}
    MaxVersion = 1
    MaxBuffered = 1
    MaxLoads = 1
    Seats = {1, 2}
    Category <- Alternating
    Demand <- OneEach
    Clients = {k1, k2}
    MaxPairings = 2
    Baskets <- Neighbours
    NoSeat = NoSeat
    NoOne = NoOne
SPECIFICATION PartsSpec
INVARIANT NoDeadlock
CHECK_DEADLOCK FALSE
