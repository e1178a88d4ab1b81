\* Three sessions of one client, a lease of two ticks, a midnight between.
SPECIFICATION Spec
CONSTANTS
    s1 = s1
    s2 = s2
    s3 = s3
    Sessions = {s1, s2, s3}
    MaxActive = 1
    SessionMax = 2
    DailyFree = 2
    DayLength = 3
    MaxTime = 4
SYMMETRY SessionSymmetry
INVARIANTS TypeOK LeaseLimit MembershipExact NoLostCharge
PROPERTIES DenialJustified
\* Every session ends, and the clock stops at MaxTime.
CHECK_DEADLOCK FALSE
