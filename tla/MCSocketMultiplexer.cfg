CONSTANTS
    s1 = s1
    s2 = s2
    j1 = j1
    j2 = j2
    j3 = j3
    j4 = j4
    Sockets = {s1, s2}
    Jobs = {j1, j2, j3, j4}
    NoJob = NoJob
    Same = Same
SPECIFICATION Spec
INVARIANTS
    OneOwner
    NoDeletedJobRuns
PROPERTIES
    NeverDropped
    RemovedNotPolled
    RemovalEnds
