SPECIFICATION Spec
CONSTANTS
    p1 = p1  p2 = p2  p3 = p3
    a1 = a1  a2 = a2  e1 = e1
    Proc = {p1, p2, p3}
    Pid = {n1, n2}
    Artifact = {a1}
    Evidence = {e1}
    Parts <- OneArtifact
    None = None
SYMMETRY Processes
INVARIANTS TypeOK VisibleBundlesComplete NoFalseCorruption AcknowledgedIsFound
    WorkInProgressKept StageReleased FailureHasCause
PROPERTIES ImplementsStore
CHECK_DEADLOCK FALSE
