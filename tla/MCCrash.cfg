SPECIFICATION Spec
CONSTANTS
    b1 = b1
    b2 = b2
    p1 = p1
    p2 = p2
    Alien = Alien
    NoFile = NoFile
    Absent = Absent
    MaxRemovals = 1
    MaxFaults = 1
    UpBody = b1
    AddBodies = {}
    Broken = {}
    NginxConfs = {"literal"}
    Cmds = {"sync"}
    Volatile = {1}
    Unreadable = {}
    Names <- TwoNames
    Trimmed <- AsTheyAre
    Bodies <- MCBodies
    Procs <- OneProc
    DesiredFiles <- BothDesired
    InitialCerts = {"good"}
    InitialLive <- FirstLive
PROPERTY SyncKeepsDesired
