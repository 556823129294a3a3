SPECIFICATION MCSpec
CONSTANTS
    w1 = w1
    w2 = w2
    m1 = m1
    c1 = c1
    c2 = c2
    None = None
    Users = {w1, w2, m1, c1}
    Pairs <- SharedPair
    Invited <- MCInvited
    MaxRounds = 1
    MaxUpsets = 2
    MaxFlags = 0
    FlagKinds = {"block", "report"}
    StartModes = {"counselor_based"}
INVARIANTS OpenIsBetweenMembers
