\* One game server that stops, crashes and starts again, and a bad network.
SPECIFICATION FairSpec
CONSTANTS
    Servers = {"s1"}
    Shakes = {1, 2}
    SessionExpiry = 3
    HandshakeExpiry = 0
    NoEntry = NoEntry
    NoExpiry = NoExpiry
    MaxFaults = 2
INVARIANT
    StaysListed
PROPERTIES
    ImplementsServerRegister
    RunningIsListed
    GoneIsUnlisted
