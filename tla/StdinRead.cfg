SPECIFICATION SpecStdin
CONSTANTS
    Reader = {1}
    MaxPress = 7
    Release = {2, 5}
    RING = 3
  
PROPERTIES NoStrayWrite
