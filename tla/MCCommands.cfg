SPECIFICATION Spec
CONSTANTS
    b1 = b1
    b2 = b2
    p1 = p1
    p2 = p2
    Alien = Alien
    NoFile = NoFile
    Absent = Absent
    MaxRemovals = 1
    MaxFaults = 1
    UpBody = b1
    AddBodies <- MCBodies
    Broken = {b2}
    NginxConfs = {"literal", "other"}
    Cmds = {"sync", "up", "down", "add", "remove", "rollback"}
    Volatile = {1}
    Unreadable = {1}
    Names <- TwoNames
    Trimmed <- AsTheyAre
    Bodies <- MCBodies
    Procs <- OneProc
    DesiredFiles <- SomeDesired
    InitialCerts = {"good"}
    InitialLive <- SomeLive
INVARIANTS TypeOK LiveUntouched OnlyTestedSwappedIn OldGenerationKept SwapReady
    StagedAsPlanned LossesBounded
PROPERTIES SuccessIsServed ImplementsGenerations
