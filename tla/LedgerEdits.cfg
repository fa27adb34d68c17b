SPECIFICATION FairSpec
CONSTANTS
    None = None
    ana = ana
    bob = bob
    anaAcc = anaAcc
    bobAcc = bobAcc
    anaCat = anaCat
    bobCat = bobCat
    ten = ten
    odd = odd
    huge = huge
    Users = {ana, bob}
    Accounts = {anaAcc}
    Facts = {ten, huge}
    Merchants = {m1, m2}
    Categories = {anaCat, bobCat}
    Uploads = {u1}
    Edits = {e1, e2}
    NewMerchants = {m1, m2}
    MaxRows = 2
    Owner <- MCOwner
    CategoryOwner <- MCCategoryOwner
    Rounded <- MCRounded
INVARIANTS TypeOK OwnLiveCategory
PROPERTIES OnlyItsOwnerEdits NoLostEdit EveryRequestAnswered
