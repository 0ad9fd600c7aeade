SPECIFICATION FairSpec
CONSTANTS
    root = root
    child = child
    grandchild = grandchild
    Procs <- OneChild
    Root = root
    Stubborn = {child}
    Consoles = {"files"}
    MaxOutput = 1
    DiagnosticLimit = 1
    MaxWritten = 1
INVARIANTS SuccessLeavesNothing RootOutlivesNoRequest
PROPERTIES CleanedMeansGone BoundedRunsEnd FinishedRunsEnd
CHECK_DEADLOCK FALSE
