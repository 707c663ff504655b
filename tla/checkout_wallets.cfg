SPECIFICATION Spec
CONSTANTS
    u1 = u1  u2 = u2
    r1 = r1  r2 = r2  r3 = r3
    Users <- TwoUsers
    Products <- TwoProducts
    Requests <- Three
    Price <- Prices
    Owner <- Owners
    InitStock <- ScarceStock
    InitWallet <- SomeMoney
    Kind <- AllWallets
    InitCarts <- VariedCarts
    MaxQty = 2
    MaxTotal = 9
    MaxStock = 2
    MaxEdits = 2
    MaxRetries = 1
INVARIANTS
    TypeOK
    NeverOversold
    WalletMatchesOrders
    WalletDropsOnlyOrdered
    CartConverted
