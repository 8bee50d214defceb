SPECIFICATION Spec
CONSTANTS
    Account = {c, a1}
    ChannelCreator = c
    Admin = {}
    Body <- MCMentions
    MaxIndex = 2
    Muter = {a1}
    MayDisable = {a1}
    None = None
INVARIANT CommentCountExact
INVARIANT UnreadShownIsReal
PROPERTY StrangersAlertsFrozen
