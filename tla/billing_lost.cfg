SPECIFICATION Spec
CONSTANTS
    Workers = {t1}
    Events = {e1}
    Catalog <- Lifecycle
    GracePeriod = 7
    MaxFails = 0
    MaxCorrections = 0
    MaxRoleChanges = 1
PROPERTIES AnsweredIsRecorded

