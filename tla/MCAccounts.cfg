SPECIFICATION Spec
CONSTANTS
    Account = {a1, a2, a3}
    Name = {n1, n2, n3}
    Key = {k1, k2, k3}
    BootToken = {b1, b2}
    Invite = {i1}
    LinkToken = {l1}
    None = None
SYMMETRY MCSymmetry
INVARIANT ActiveOwnerExists
INVARIANT SingleBootstrapActivation
INVARIANT UsernamesReserved
INVARIANT TokensNameOwners
PROPERTY NamesNeverChangeHands
PROPERTY KeysNeverChangeHands
