SPECIFICATION HostSpec
CONSTANTS
    Backends <- MCBackends
    MaxWrites = 2
INVARIANT HostTypeOK
INVARIANT UnitPointsAtConfig
INVARIANT BackupsHoldCommitted
PROPERTY RestartBringsUp
