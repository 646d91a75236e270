\* Three PIDs, one start at a time.
SPECIFICATION Spec
CONSTANTS
    Pids = {p1, p2, p3}
    NoPid = NoPid
    SerialStart = TRUE
INVARIANTS
    TypeOK
    MutualExclusion
    NoForeignUnlink
    HolderOwnsFile
PROPERTY
    ImplementsExclusion
