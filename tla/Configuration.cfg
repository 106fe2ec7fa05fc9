SPECIFICATION BothSpec
CONSTANTS
    Zero = Zero
    Garbled = Garbled
    Networks <- MCNetworks
    MaxEdits = 2
    MaxFaults = 1
    Extra <- MCExtra
INVARIANTS MountsHaveVolumes DirsAreMounted PortsAreDistinct RestartedForConfig
    RoundTrip VersionSkew ReadsAllOfIt
PROPERTIES DataStays DeletedOnlyForNames
CHECK_DEADLOCK FALSE
