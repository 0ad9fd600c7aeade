SPECIFICATION Spec
CONSTANTS
    root = root
    child = child
    grandchild = grandchild
    Procs <- JustRoot
    Root = root
    Stubborn = {}
    Consoles = {"memory", "files", "diagnostics"}
    MaxOutput = 2
    DiagnosticLimit = 1
    MaxWritten = 4
INVARIANTS TypeOK BudgetKept CompleteMeansAll
CHECK_DEADLOCK FALSE
