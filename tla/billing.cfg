SPECIFICATION FairSpec
CONSTANTS
    Workers = {t1, t2}
    Events = {e1, e2}
    Catalog <- EveryKind
    GracePeriod = 7
    MaxFails = 1
    MaxCorrections = 1
    MaxRoleChanges = 2
INVARIANTS TypeOK AppliedOnce HistoryExplainsRow AckedIsRecorded
PROPERTIES KeepsSubscription EveryEventRecorded GraceKeepsDeadline FailedPaymentNeverRevives ReadCheckoutPreserves
