SPECIFICATION Spec
CONSTANTS
    main = main
    pocket = pocket
    shop = shop
    pocketText = pocketText
    long1 = long1
    long2 = long2
    None = None
    OwnNames = {main, pocket}
    Names = {shop, pocketText, long1, long2}
    Mentions <- MCMentions
    Cut <- MCCut
    Files <- RaggedFiles
    MaxIssues = 1
INVARIANT BadRowNeverAborts
