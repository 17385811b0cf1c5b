SPECIFICATION Spec
CONSTANTS
    l_pageSize = 36
    MAJOR = 5
    MINOR = 5
    ALIGNMENT = 2
    Request = {1, 14, 30}
    MaxPages = 3
INVARIANTS HeapInOrder CountersAgree NoDanglingBet
PROPERTIES ImplementsAllocator
