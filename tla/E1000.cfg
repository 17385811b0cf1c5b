SPECIFICATION SpecCard
CONSTANTS
    E1000_QUEUE_LENGTH = 4
    MaxPackets = 7
    MaxSends = 4
CHECK_DEADLOCK FALSE
INVARIANTS EachPacketOnceInOrder NothingLeftBehind
