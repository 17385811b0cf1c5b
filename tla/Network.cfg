SPECIFICATION Spec
CONSTANTS
    Servers = {s1, s2}
    NoAddress = none
    Neighbour = other
    SeqModulus = 8
    FirstSeq = 3
    PeerFirstSeq = 7
    MaxRepeats = 1
CHECK_DEADLOCK FALSE
INVARIANTS RequestNamesOneOffer AddressWasRequested 
  
