SPECIFICATION SyncsGoOn
CONSTANTS
    p1 = p1
    p2 = p2
    d1 = d1
    Junk = Junk
    NoProc = NoProc
    MaxSerial = 3
    MaxFaults = 1
    MaxAdds = 1
    AcmeSkipsDue = FALSE
    Configs <- AcmeOnly
    KeyOf <- MCKeyOf
    Procs <- TwoProcs
    Domains <- OneDomain
    DesiredFiles <- Once
    InitialFiles <- FewFiles
PROPERTY Heals
