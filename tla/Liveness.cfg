CONSTANTS
    Parts = {"signals", "tickets", "feed", "batches", "keys", "auth", "sockets", "process"}
    Workers = {w1}
    BatchSize = 2
    Holds = {c1}
    Reconcilers = {r1}
    HoldTtl = 2
    Window = 1
    RetryBase = 1
    RetryMax = 1
    MaxTime = 3
    MaxAttempts = 1
    MaxLosses = 1
    Bookings = {b1, b2}
    Legacy = {}
    TicketSeats = {s1}
    Doors = {}
    NoRequest = NoRequest
    MaxScans = 1
    MaxTries = 2
    FeedSeats = {s1}
    MaxVersion = 2
    MaxBuffered = 1
    MaxLoads = 1
    Seats = {1, 2}
    Category <- Alternating
    Demand <- OneEach
    Clients = {k1}
    MaxPairings = 2
    Baskets <- Neighbours
    NoSeat = NoSeat
    NoOne = NoOne
    Requests = {q1, q2, q3}
    Keys = {i1}
    Hashes = {d1, d2}
    NoReq = NoReq
    NoRow = NoRow
    Tokens = {1, 2, 3}
    Lapsing = {1}
    Tabs = {t1}
    Handlers = {h1, h2}
    NoToken = NoToken
    NoHandler = NoHandler
    Events = {e1}
    MaxSubscriptions = 1
    MaxAsks = 2
    MaxWire = 3
    Loops = {l1, l2}
    Interval = 2
    Timeout = 2
    MaxSockets = 1
SPECIFICATION LiveSpec
PROPERTY RequestsEnd
PROPERTY RefreshSettles
PROPERTY KeysRestored
PROPERTY OutboxesDrain
PROPERTY BatchesEnd
PROPERTY NothingHangs
CHECK_DEADLOCK FALSE
