SPECIFICATION Spec
CONSTANTS
    p1 = p1
    p2 = p2
    d1 = d1
    d2 = d2
    Junk = Junk
    NoProc = NoProc
    MaxSerial = 2
    MaxFaults = 1
    AcmeSkipsDue = TRUE
    Configs <- SomeConfigs
    KeyOf <- TwoKeys
    Procs <- TwoProcs
    Domains <- TwoDomains
    DesiredFiles <- Lists
    InitialFiles <- FewFiles
INVARIANTS TypeOK SingleWriter LoopComplete
PROPERTIES InstallsPair StaysValid CertsLoaded
SYMMETRY Interchangeable
