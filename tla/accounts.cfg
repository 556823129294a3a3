SPECIFICATION MCSpec
CONSTANTS
    ann = ann
    bob = bob
    cyd = cyd
    s1 = s1
    s2 = s2
    None = None
    People = {ann, bob, cyd}
    Sessions = {s1, s2}
    MaxInvitations = 2
    MaxEvents = 2
INVARIANTS TypeOK ActsAsListed ActorIsRecent AcceptedOnce
PROPERTIES LastAdministratorStays
SYMMETRY Interchangeable
