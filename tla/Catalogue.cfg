CONSTANTS
    Users = {a1, u1}
    Seeded = {a1}
    NoUser = NoUser
    Events = {e1}
    VenueSeats = {v1, v2}
    Schedules = {monday, tuesday}
    Requests = {r1, r2}
    NoEventRequest = NoEventRequest
    NoEvent = NoEvent
    NoSeat = NoSeat
    Keep = Keep
    Ids = {1, 2}
    Keys = {1, 2}
    Filters <- FormStates
    Matching <- ByTextAndKey
    Limit = 1
    NoCursor = NoCursor
    MaxSearches = 2
    MaxWrites = 1
    MaxItems = 3
    Holds = {h1}
    Seats = {s1}
    MaxCalls = 2
    MaxKeys = 3
    NoHold = NoHold
SPECIFICATION PartsSpec
SYMMETRY CatalogueSymmetry
INVARIANT OnlyByCrossing
INVARIANT ReservationsKept
INVARIANT ListingSound
INVARIANT RetryReplays
PROPERTY NoLateChange
CHECK_DEADLOCK FALSE
