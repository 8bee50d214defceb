SPECIFICATION Spec
CONSTANTS
    Server = {s1}
    Migrator = {m}
    Released <- MCReleased
    NoProcess = NoProcess
INVARIANT CountersFilled
