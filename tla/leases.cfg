CONSTANTS
    Chain = {c1, c2}
    Root = {r1, r2, r3}
    Scope = {s1}
    Kind <- AllKinds
    MaxGeneration = 3
    NoRoot = NoRoot
SYMMETRY Interchangeable
SPECIFICATION Spec
INVARIANTS TypeOK ReferencesCounted HolderAgrees NoStrandedWaiter DrainSupersedes
CHECK_DEADLOCK FALSE
