SPECIFICATION Spec
CONSTANTS
    Alien = Alien
    NoFile = NoFile
    Absent = Absent
    MaxRemovals = 1
    Names <- FourNames
    Trimmed <- DotConfOff
    Bodies <- MCBodies
    RawNames <- Spellings
    ToLower <- Lowered
    ProxyConfs <- TwoProxies
    RecordFiles <- MCRecordFiles
INVARIANTS TypeOK ListTruthful
PROPERTIES SecondSyncQuiet RecordedKept
