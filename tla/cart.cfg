SPECIFICATION Spec
CONSTANTS
    a1 = a1  a2 = a2  s = s  z = z  m = m  k = k  d = d  w = w
    Calls <- EveryCall
    Kind <- Kinds
    Qty <- Quantities
    Start <- EmptyOrStored
    MaxQty = 4
    MaxAttempts = 2
INVARIANTS
    TypeOK
    VersionNamesQuantity
    ConflictsMeanProgress
PROPERTIES
    CleanupSparesNew
    AsOneLine
    AllEnd
