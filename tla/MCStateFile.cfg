\* Two goroutines, each of which sets its cursor twice, up or down; two stops anywhere.
SPECIFICATION Spec
CONSTANTS
    a = a
    b = b
    Repos = {a, b}
    MaxCursor = 2
    MaxSets = 2
    MaxCrash = 2
    NoRepo = NoRepo
    Absent = Absent
    Torn = Torn
INVARIANTS
    TypeOK
PROPERTIES
    ImplementsStore
    NeverBackwards
SYMMETRY RepoSymmetry
