SPECIFICATION Spec
CONSTANTS
    Workers = {t1, t2}
    Events = {e1, e2, e3}
    Catalog <- Lifecycle
    GracePeriod = 7
    MaxFails = 0
    MaxCorrections = 0
    MaxRoleChanges = 0
PROPERTIES CheckoutPreserves

