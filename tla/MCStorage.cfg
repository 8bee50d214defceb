SPECIFICATION Spec
CONSTANTS
    Server = {s1, s2}
    Migrator = {m}
    Released <- MCReleased
    NoProcess = NoProcess
SYMMETRY MCServersAlike
INVARIANT ServesMigrated
INVARIANT FillsRecorded
INVARIANT KeysNeverMix
