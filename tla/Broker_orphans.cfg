SPECIFICATION Spec
CONSTANTS
    root = root
    child = child
    grandchild = grandchild
    Procs <- TwoChildren
    Root = root
    Stubborn = {grandchild}
    Consoles = {"memory"}
    MaxOutput = 1
    DiagnosticLimit = 0
    MaxWritten = 0
INVARIANTS CancellationEndsGroup
CHECK_DEADLOCK FALSE
