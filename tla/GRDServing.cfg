SPECIFICATION FairSpec
CONSTANTS
    r1 = r1 r2 = r2
    Absent = Absent
    Request = {r1, r2}
    VerbOf <- MCVerbOf
    Spec0 = {1, 2} Served = {1}
    MaxUID = 2 MaxChanges = 1 MaxInfos = 2
INVARIANTS ServingTypeOK StaleInfoIsRemoved DrainedBeforeDestroyed
PROPERTIES AbandonedStorageIsDestroyed
CHECK_DEADLOCK FALSE
