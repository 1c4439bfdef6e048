CONSTANTS
    Procs = {p1, p2}
    None = None
    Days = 3
    Grain = 2
    Parallel = 2
    Cuts = {{1}}
    MaxFaults = 1
SPECIFICATION Spec
SYMMETRY Symmetry
CONSTRAINT OneTrouble
INVARIANTS
    TypeOK
    InTimeExclude
    
PROPERTIES
    NoDayTwice
    
