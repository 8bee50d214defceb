SPECIFICATION Spec
CONSTANTS
    Account = {a1, a2}
    Name = {n1, n2}
    Key = {k1, k2}
    BootToken = {b1}
    Invite = {i1}
    LinkToken = {}
    None = None
SYMMETRY MCSymmetry
INVARIANT PendingInviteeMayFinish
