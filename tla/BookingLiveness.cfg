CONSTANTS
    Seats = {1, 2}
    ForeignSeats = {9}
    Callers = {TRUE, FALSE}
    Holds = {1, 2}
    Clients = {c1}
    Workers = {w1}
    NoTx = NoTx
    NoHold = NoHold
    TTL = 1
    MaxClock = 1
    SweepBatch = 1
    QueueSeats = {1}
    QueueHolds = {h1, h2, h3}
    Entries = {1, 2}
    Users = {u1, u2}
    NoEntry = NoEntry
    NoSeat = NoSeat
    NoUser = NoUser
    MaxPairings = 2
SPECIFICATION BookingSpec
PROPERTY LapsedHoldsEnd
PROPERTY TransactionsEnd
PROPERTY FreeSeatIsOffered
CHECK_DEADLOCK FALSE
