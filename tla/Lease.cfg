\* Two replicas, one of them sent two requests; two served at once; two faults.
SPECIFICATION FairSpec
CONSTANTS
    Pods = {{r1, r2}, {r3}}
    None = None
    MaxServed = 2
    AskBroken = FALSE
    MaxFaults = 2
INVARIANTS
    TypeOK
    OneWorker
    HolderOwnsLease
    NoGhost
PROPERTIES
    Recovers
