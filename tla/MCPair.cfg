SPECIFICATION FairSpec
CONSTANTS
    b1 = b1
    b2 = b2
    p1 = p1
    p2 = p2
    Alien = Alien
    NoFile = NoFile
    Absent = Absent
    MaxRemovals = 1
    MaxFaults = 1
    UpBody = b1
    AddBodies = {}
    Broken = {}
    NginxConfs = {"literal"}
    Cmds = {"sync", "up", "down", "rollback"}
    Volatile = {}
    Unreadable = {}
    Names <- OneName
    Trimmed <- AsTheyAre
    Bodies <- OneBody
    Procs <- TwoProcs
    DesiredFiles <- ThatOne
    InitialCerts = {"good"}
    InitialLive <- OneLive
PROPERTY RepairsOverlap
