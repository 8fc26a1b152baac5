SPECIFICATION FairSpec
CONSTANTS
    a1 = a1
    a2 = a2
    g1 = g1
    k1 = k1
    k2 = k2
    n1 = n1
    n2 = n2
    p1 = p1
    l1 = l1
    l2 = l2
    t1 = t1
    t2 = t2
    None = None
    NoText = NoText
    Aliases = {a1, a2}
    Guests = {g1}
    Keys = {NoText, k1, k2}
    Key <- KeyApart
    PexipName <- PexipNames
    Names = {k2, NoText}
    Busy = {a2}
    Pages = {p1}
    Loads = {l1, l2}
    Threads = {t1}
    MaxChanges = 1
    MaxLegs = 2
INVARIANTS
    TypeOK
    OwnLegOrNone
    RemovedIsOut
PROPERTIES
    PagesCatchUp
