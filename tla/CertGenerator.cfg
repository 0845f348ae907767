SPECIFICATION FairSpec
CONSTANTS
    None = None Torn = Torn
    MaxIds = 28 MaxCrashes = 3 MaxMeddling = 3
INVARIANTS CertTypeOK UpMeansConsistent RestartComesUp
PROPERTIES ComesUp
CHECK_DEADLOCK FALSE
