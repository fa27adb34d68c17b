SPECIFICATION Spec
CONSTANTS
    None = None
    ana = ana
    bob = bob
    anaAcc = anaAcc
    bobAcc = bobAcc
    anaCat = anaCat
    bobCat = bobCat
    ten = ten
    odd = odd
    huge = huge
    Users = {ana}
    Accounts = {anaAcc}
    Facts = {ten}
    Merchants = {m1, m2}
    Categories = {}
    Uploads = {u1, u2}
    Edits = {e1}
    NewMerchants = {m1, m2}
    MaxRows = 1
    Owner <- MCOwner
    CategoryOwner <- MCCategoryOwner
    Rounded <- MCRounded
INVARIANTS NoRealTransactionDropped
