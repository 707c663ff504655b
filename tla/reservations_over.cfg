SPECIFICATION Spec
CONSTANTS
    c1 = c1  c2 = c2  c3 = c3  c4 = c4  c5 = c5  c6 = c6  c7 = c7  c8 = c8
    Calls <- Three
    Kind <- ThreeReserve
    Qty <- Ones
    InitStock = 2
    MaxAttempts = 2
INVARIANT
    NeverOverReserved
