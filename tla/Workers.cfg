CONSTANTS
    Parts = {"signals", "tickets", "feed", "batches"}
    Workers = {w1, w2}
    BatchSize = 2
    Holds = {c1, c2}
    Reconcilers = {r1}
    HoldTtl = 2
    Window = 1
    RetryBase = 1
    RetryMax = 2
    MaxTime = 2
    MaxAttempts = 1
    MaxLosses = 0
    Bookings = {b1, b2}
    Legacy = {b1}
    TicketSeats = {s1, s2}
    Doors = {d1, d2}
    NoRequest = NoRequest
    MaxScans = 2
    MaxTries = 1
    FeedSeats = {s1}
    MaxVersion = 2
    MaxBuffered = 2
    MaxLoads = 1
    Seats = {1, 2, 3, 4}
    Category <- Alternating
    Demand <- OneEach
    Clients = {k1, k2}
    MaxPairings = 2
    Baskets <- Neighbours
    NoSeat = NoSeat
    NoOne = NoOne
SPECIFICATION PartsSpec
SYMMETRY WorkersSymmetry
INVARIANT SignalSound
INVARIANT TicketSound
INVARIANT FeedSound
INVARIANT BatchSound
 
PROPERTY ForwardSinceLoad
CHECK_DEADLOCK FALSE
