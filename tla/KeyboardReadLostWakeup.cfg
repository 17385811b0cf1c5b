SPECIFICATION Spec
CONSTANTS
    Reader = {1}
    MaxPress = 4
    Release = {3}
INVARIANT WaiterIsQueued
