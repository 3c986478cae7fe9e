SPECIFICATION FairSpec
CONSTANTS
    Base = 8
    V4Len = 1
    V6Len = 2
    RsvLen = 1
    RandomLen = 1
    MappedPrefix <- Prefix
    XorByte <- XorOf
    Err = Err
    ClientHellos <- MCClientHellos
    ServerHellos <- MCServerHellos
    Packets <- MCPackets
    Junk <- MCJunk
    Chains <- MCChains
    ReadLen = 9
    MaxSent = 3
CHECK_DEADLOCK FALSE
INVARIANTS TypeOK RoundTrip HelloUnderstood FramesInOrder
PROPERTIES AllDelivered 
