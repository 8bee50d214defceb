SPECIFICATION Spec
CONSTANTS
    Member = {m1, m2}
    Body <- MCMentions
    MaxIndex = 2
SYMMETRY MCSymmetry
INVARIANT UnreadExact
PROPERTY ImplementsInbox
PROPERTY MuteHoldsNotificationsBack
