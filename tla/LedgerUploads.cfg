SPECIFICATION Spec
CONSTANTS
    None = None
    ana = ana
    bob = bob
    anaAcc = anaAcc
    bobAcc = bobAcc
    anaCat = anaCat
    bobCat = bobCat
    ten = ten
    odd = odd
    huge = huge
    Users = {ana}
    Accounts = {anaAcc}
    Facts = {ten, huge}
    Merchants = {m1, m2}
    Categories = {}
    Uploads = {u1, u2, u3}
    Edits = {}
    NewMerchants = {}
    MaxRows = 2
    Owner <- MCOwner
    CategoryOwner <- MCCategoryOwner
    Rounded <- MCRounded
SYMMETRY RequestSymmetry
INVARIANTS NoTwoRowsAlike AllOrNothing OccurrencesContiguous SomeoneMoves
    OnlyTheStuckWait
PROPERTIES EachStepIsProgress ConflictMeansRace KeepsPromise
