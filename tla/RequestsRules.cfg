SPECIFICATION Spec
CONSTANTS
    ann = ann
    bob = bob
    Requests = {q1, q2, q3}
    Tasks = {t1}
    Users = {bob}
    Admins = {}
    ClientIds = {}
    Asks <- MCRuleAsks
    Statuses = {401}
    MaxChanges = 0
    MaxCrashedRows = 0
INVARIANTS SomeRuleIsKept
