SPECIFICATION MCSpec
CONSTANTS
    w1 = w1
    w2 = w2
    m1 = m1
    c1 = c1
    c2 = c2
    None = None
    Users = {w1, m1, c1, c2}
    Pairs <- OnePair
    Invited <- MCInvited
    MaxRounds = 2
    MaxUpsets = 2
    MaxFlags = 1
    FlagKinds = {"block"}
    StartModes = {"counselor_based"}
INVARIANTS StageJustified LiveAuthorizationCurrent
PROPERTIES FlagSparesOnlyReview ClosedIsFinal SafetyBarsProposal RepeatIsAuthorized
SYMMETRY Interchangeable
