\* Streams and a packet on a limiter whose burst is the floor at one rate and above it at the other.
CONSTANTS
    Waiters = {w1, w2}
    Requests = {2, 5}
    PacketSizes = {2}
    Rates = {1, 2}
    Floor = 3
    Window = 2
    MaxAhead = 12
    MaxUncharged = 2
SPECIFICATION FairSpec
INVARIANTS TypeOK NeverRefused 
PROPERTY WaitReturns
