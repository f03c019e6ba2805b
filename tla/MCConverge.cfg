SPECIFICATION SyncAgain
CONSTANTS
    b1 = b1
    b2 = b2
    p1 = p1
    Alien = Alien
    NoFile = NoFile
    Absent = Absent
    MaxRemovals = 1
    MaxFaults = 2
    UpBody = b1
    AddBodies = {}
    Broken = {}
    NginxConfs = {"literal"}
    Cmds = {"sync"}
    Volatile = {}
    Unreadable = {}
    Names <- ThreeNames
    Trimmed <- AsTheyAre
    Bodies <- MCBodies
    Procs <- OneProc
    DesiredFiles <- OneDesired
    InitialCerts = {"good", "mismatched", "invalid"}
    InitialLive <- SomeLive
INVARIANTS SyncTypeOK CertReloadOfLive
PROPERTIES CertsServed ConvergesWithAcme
