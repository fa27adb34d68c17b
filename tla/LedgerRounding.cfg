SPECIFICATION Spec
CONSTANTS
    None = None
    ana = ana
    bob = bob
    anaAcc = anaAcc
    bobAcc = bobAcc
    anaCat = anaCat
    bobCat = bobCat
    ten = ten
    odd = odd
    huge = huge
    Users = {ana}
    Accounts = {anaAcc}
    Facts = {ten, odd}
    Merchants = {m1}
    Categories = {}
    Uploads = {u1, u2}
    Edits = {}
    NewMerchants = {}
    MaxRows = 2
    Owner <- MCOwner
    CategoryOwner <- MCCategoryOwner
    Rounded <- MCRounded
PROPERTIES ReuploadIsStable
