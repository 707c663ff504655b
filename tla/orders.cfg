SPECIFICATION Spec
CONSTANTS
    c1 = c1  c2 = c2  c3 = c3  c4 = c4  c5 = c5  c6 = c6  c7 = c7
    Calls <- Seven
    Kind <- EveryKind
    NewStatus <- Ship
    Strangers = {c5}
    Created <- CardOrder
INVARIANTS
    TypeOK
    NeverPaidAndCancelled
    ProcessingIsPaid
PROPERTIES
    ChargedOnce
    CancelledIsFinal
    OneAtATime
    AllEnd
