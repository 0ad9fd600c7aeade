SPECIFICATION FairSpec
CONSTANTS
    p1 = p1  p2 = p2  p3 = p3
    a1 = a1  a2 = a2  e1 = e1
    Proc = {p1, p2}
    Pid = {n1, n2}
    Artifact = {a1, a2}
    Evidence = {e1}
    Parts <- Repeated
    None = None
INVARIANTS IInv
PROPERTIES OperationsEnd
CHECK_DEADLOCK FALSE
