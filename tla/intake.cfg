SPECIFICATION Spec
CONSTANTS
    c1 = c1
    c2 = c2
    s1 = s1
    s2 = s2
    seed = seed
    good = good
    bad = bad
    odd = odd
    None = None
    Counselors = {c1, c2}
    Sessions = {s1, s2}
    Events = {seed, good, bad, odd}
    Catalog <- MCCatalog
    Agendas <- MCAgendas
    MaxVersion = 2
    MaxAssigned = 3
    MaxAssignments = 3
    Stamps = {1, 2, 3, 4}
INVARIANTS TypeOK FirstDeciderIsPaid
PROPERTIES SessionEndsWithAssigned ScreeningOnce LogCatchesUp
SYMMETRY Interchangeable
