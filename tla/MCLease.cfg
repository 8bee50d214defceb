SPECIFICATION LiveSpec
CONSTANTS
    Server = {s1}
    Migrator = {m}
    NodeId <- MCOwnIds
    Ttl = 2
    MaxToken = 4
    None = None
INVARIANT OneMaster
INVARIANT TokensNameNodes
PROPERTY DeposedStepsDown
PROPERTY Failover
