SPECIFICATION Spec
CONSTANTS
    g = g  k = k  s = s  x = x  z = z  b = b  n = n  w = w  p = p  a = a  d = d  y = y  i = i  o = o
    Tasks <- AllTasks
    Kind <- Endpoints
    Queue <- Routes
    Slots <- Pools
    MaxRetries = 1
    Cancels <- Victims
    Past = 3
    Total <- Prices
    Batches = {b, n}
    Chunk <- Sizes
    Accesses <- AllAccesses
    Work <- Works
    Cost <- Costs
    InitBalance = 2
    Together <- Scenarios
INVARIANTS
    
    CountsEachSaleOnce
PROPERTIES
    PaymentsStay
    
