SPECIFICATION Spec
CONSTANTS
    c1 = c1  c2 = c2  d1 = d1  d2 = d2  x1 = x1  m1 = m1  m2 = m2
    Capture = {c1, c2}
    Bundle = {d1}
    Export = {x1}
    Member = {m1, m2}
    Whole = Whole
    None = None
    Size <- UnitSize
    ExportOf <- OneExport
    Analyzed = {{m1}}
    Requests <- Mixed
    Reservation = {1}
    Overshoot = 1
    Ceiling = 3
    MaxAnalyses = 2
INVARIANTS TypeOK UnpreservedCapturesKept ActiveRootsKept PinnedInputsSurvive
    ReservationsFit
PROPERTIES StrandedOnlyByPins
