SPECIFICATION Spec
CONSTANTS
    r1 = r1  r2 = r2  r3 = r3  w1 = w1  w2 = w2
    Keys = {"top_selling_products", "product_rating_summary"}
    Readers = {r1, r2, r3}
    Locked = {r1, r2}
    Writers = {w1, w2}
    MaxPolls = 1
INVARIANTS
    TypeOK
    OnlyOwnerRebuilds
    NoStampede
PROPERTIES
    OthersLockSurvives
    LockIsFreed
    AllAnswered
    EventuallyFresh
