SPECIFICATION Spec
CONSTANTS
    n1 = n1
    n2 = n2
    b1 = b1
    b2 = b2
    t1 = t1
    t2 = t2
    c1 = c1
    None = None
    Names = {n1}
    Browsers = {b1}
    Threads = {t1}
    Consoles = {c1}
    MaxUsers = 2
    MaxPasswords = 2
    MaxLocks = 1
INVARIANTS
    TypeOK
    AuditTellsAccounts
