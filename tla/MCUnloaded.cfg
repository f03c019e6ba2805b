SPECIFICATION SyncForever
CONSTANTS
    p1 = p1
    p2 = p2
    d1 = d1
    d2 = d2
    Junk = Junk
    NoProc = NoProc
    MaxSerial = 2
    MaxFaults = 1
    AcmeSkipsDue = FALSE
    Configs <- AcmeOnly
    KeyOf <- TwoKeys
    Procs <- OneProc
    Domains <- OneDomain
    DesiredFiles <- Once
    InitialFiles <- FewFiles
PROPERTY RenewedLoaded
