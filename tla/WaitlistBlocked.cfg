CONSTANTS
    Seats = {1}
    Holds = {h1, h2, h3, h4}
    Entries = {1, 2}
    Users = {u1, u2}
    Workers = {w1}
    NoEntry = NoEntry
    NoSeat = NoSeat
    NoUser = NoUser
    MaxPairings = 2
SPECIFICATION FairSpec
PROPERTY SeatReachesQueue
CHECK_DEADLOCK FALSE
