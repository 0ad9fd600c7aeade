SPECIFICATION Spec
CONSTANTS
    c1 = c1  c2 = c2  d1 = d1  d2 = d2  x1 = x1  m1 = m1  m2 = m2
    Capture = {c1}
    Bundle = {d1}
    Export = {}
    Member = {m1, m2}
    Whole = Whole
    None = None
    Size <- UnitSize
    ExportOf <- NoExport
    Analyzed = {{m1}}
    Requests <- Siblings
    Reservation = {1}
    Overshoot = 0
    Ceiling = 2
    MaxAnalyses = 2
PROPERTIES FailedRequestsDiscard
