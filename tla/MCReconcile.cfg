SPECIFICATION Spec
CONSTANTS
    b1 = b1
    b2 = b2
    Alien = Alien
    NoFile = NoFile
    Absent = Absent
    MaxRemovals = 1
    Names <- MCNames
    Trimmed <- AsTheyAre
    Bodies <- MCBodies
    DesiredFiles <- MCDesiredFiles
INVARIANT TypeOK
PROPERTIES KeepsDesired RemovalsCapped Converges
