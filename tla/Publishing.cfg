SPECIFICATION FairSpec
CONSTANTS
    g1 = g1 v1 = v1 v2 = v2
    GRD = {g1} Version = {v1, v2}
    Registered = {v1}
    Absent = Absent None = None
    Specs <- MCSpecs
    Subresources <- MCSubresources
    MaxChanges = 1 MaxServices = 2 MaxFaults = 1
INVARIANTS StaleDiscoveryIsQueued AdvertisedIsServed
PROPERTIES HealthyMeansPublished ForeignServicesAreKept ServedVersionsAreRegistered
CHECK_DEADLOCK FALSE
