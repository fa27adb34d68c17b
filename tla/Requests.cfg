SPECIFICATION Spec
CONSTANTS
    ann = ann
    bob = bob
    Requests = {q1, q2}
    Tasks = {t1, t2}
    Users = {ann, bob}
    Admins = {ann}
    ClientIds = {x1}
    Asks <- MCAsks
    Statuses = {401, 500}
    MaxChanges = 1
    MaxCrashedRows = 1
INVARIANTS
    LinesNameTheirRequest
    ClosedOnce
    AnswersCarryTheId
    AuthenticationComesFirst
    LogTellsWhy
