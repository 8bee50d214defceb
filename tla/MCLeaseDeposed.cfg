SPECIFICATION Spec
CONSTANTS
    Server = {s1, s2}
    Migrator = {}
    NodeId <- MCOwnIds
    Ttl = 1
    MaxToken = 3
    None = None
INVARIANT WritesUnderLease
