SPECIFICATION Spec
CONSTANTS
    u1 = u1  u2 = u2
    r1 = r1  r2 = r2  r3 = r3
    Users <- TwoUsers
    Products <- TwoProducts
    Requests <- Three
    Price <- Prices
    Owner <- Owners
    InitStock <- ScarceStock
    InitWallet <- SomeMoney
    Kind <- MixedKinds
    InitCarts <- VariedCarts
    MaxQty = 2
    MaxTotal = 3
    MaxStock = 2
    MaxEdits = 1
    MaxRetries = 1
INVARIANTS
    CopiesAreCurrent
    
    LogExplainsStock
    LogMatchesOrders
PROPERTIES
    Atomic
    AllFinish
