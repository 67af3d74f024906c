CONSTANTS
    Seats = {1, 2}
    Holds = {h1, h2, h3}
    Entries = {1, 2}
    Users = {u1, u2}
    Workers = {w1, w2}
    NoEntry = NoEntry
    NoSeat = NoSeat
    NoUser = NoUser
    MaxPairings = 2
SPECIFICATION Spec
SYMMETRY WaitlistSymmetry
INVARIANT OfferFollowsHold
INVARIANT ActiveOfferIsLive
INVARIANT OfferedOnce
INVARIANT StagedIsSound
PROPERTY NobodySkipped
CHECK_DEADLOCK FALSE
