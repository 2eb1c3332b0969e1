CONSTANTS
    Procs = {p1, p2}
    Instances = {x, y, z, u}
    Migrating = {x, y}
    NoPool = {z}
    NoInst = NoInst
SPECIFICATION FairSpec
INVARIANTS UsesAreInitialised
PROPERTIES BreaksForACause CallsReturn
