SPECIFICATION Spec
CONSTANTS
    cursor = cursor
    codex = codex
    Clients = {cursor, codex}
    Runs = {r1, r2}
    Notes = {0, 1}
    Versions = {0, 1, 2, 3}
    Tasks <- McTasks
    Originals <- McOriginals
    Edits <- McEdits
    Extras = {"memray"}
    Environments = {"none", "proxy", "invalid"}
    Own = 2
    Latest = 3
    MaxEdits = 1
INVARIANTS
    TypeOK
    PublishedArePrepared
    OutcomesTellTheTruth
PROPERTY KeepsWhatOthersWrote
SYMMETRY McSymmetry
CHECK_DEADLOCK FALSE
