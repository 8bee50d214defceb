SPECIFICATION LiveSpec
CONSTANTS
    c1 = c1
    me = me
    Conn <- Conns
    Account = {me}
    AccountOf <- MyConns
    MaxTerminals = 2
    Chunk <- MixedChunks
    InputQueueCap = 1
    KeyQueueCap = 1
    MaxKeysPerFrame = 1
    MaxChunks = 2
    NoTerminal = NoTerminal
INVARIANT TypeOK
INVARIANT ConnectionsCounted
INVARIANT KeysInOrder
PROPERTY TerminalsEnd
CHECK_DEADLOCK FALSE
