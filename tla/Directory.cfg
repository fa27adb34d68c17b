SPECIFICATION FairSpec
CONSTANTS
    Calls = {c1, c2}
    Seeds = {root, ana}
    Admins = {root}
    OldAccounts = {anaAcc}
    Names = {n1, n2, n3, long}
    Fitting = {n1, n2, n3}
    Details = {d1, d2}
    None = None
    root = root
    ana = ana
    anaAcc = anaAcc
    n1 = n1
    n2 = n2
    long = long
    d1 = d1
    d2 = d2
    SeedUsers <- MCSeedUsers
    SeedAccounts <- MCSeedAccounts
INVARIANTS TypeOK NamesAreUnique AnswersAreTrue
PROPERTIES NoLostUpdate OnlyTheEntitledWrite TakenIsTrue EveryRequestAnswered
