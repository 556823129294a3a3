SPECIFICATION MCSpec
CONSTANTS
    anna = anna
    ben = ben
    c1 = c1
    c2 = c2
    s1 = s1
    s2 = s2
    talk = talk
    pray = pray
    day30 = day30
    None = None
    Members = {anna, ben}
    Counselors = {c1, c2}
    Sessions = {s1, s2}
    Tasks = {talk, pray}
    SharedTasks = {talk}
    Milestones = {day30}
    DueAfter <- MCDueAfter
    DayLength = 1
    Week = 1
    MaxClock = 2
    MaxEvents = 2

PROPERTY SafetyClosureStands
SYMMETRY Interchangeable
