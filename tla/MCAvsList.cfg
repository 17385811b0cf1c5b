SPECIFICATION Spec
CONSTANTS
    Node = {n1, n2, n3, n4}
    Data = {a, b}
    NULL = NULL
INVARIANTS ChainsAgree
PROPERTIES ImplementsSequence
SYMMETRY Symmetry
