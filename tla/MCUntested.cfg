SPECIFICATION Spec
CONSTANTS
    b1 = b1
    b2 = b2
    p1 = p1
    p2 = p2
    Alien = Alien
    NoFile = NoFile
    Absent = Absent
    MaxRemovals = 1
    MaxFaults = 0
    UpBody = b1
    AddBodies = {}
    Broken = {b2}
    NginxConfs = {"literal"}
    Cmds = {"sync", "up"}
    Volatile = {}
    Unreadable = {}
    Names <- TwoNames
    Trimmed <- AsTheyAre
    Bodies <- MCBodies
    Procs <- TwoProcs
    DesiredFiles <- SomeDesired
    InitialCerts = {"good"}
    InitialLive <- SomeLive
INVARIANT OnlyTestedSwappedIn
