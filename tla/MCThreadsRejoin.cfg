SPECIFICATION Spec
CONSTANTS
    Account = {c, a1}
    ChannelCreator = c
    Admin = {}
    Body <- MCPlain
    MaxIndex = 2
    Muter = {}
    MayDisable = {}
    None = None
INVARIANT UnreadExact
