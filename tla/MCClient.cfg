SPECIFICATION ClientSpec
CONSTANTS
    c1 = c1
    c2 = c2
    t1 = t1
    t2 = t2
    t3 = t3
    t4 = t4
    d1 = d1
    Channel = {c1, c2}
    Thread = {t1, t2, t3, t4}
    Dm = {d1}
    None = None
    Home <- MCHome
    Order <- MCOrder
    Posted <- MCPosted
    ThreadLimit = 2
    MaxInputs = 3
    MaxChanges = 1
INVARIANT ClientTypeOK
INVARIANT ConversationExclusive
INVARIANT PageIsSelection
PROPERTY RefreshKeepsPlace
CHECK_DEADLOCK FALSE
