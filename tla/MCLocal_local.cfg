\* Deliveries end.
CONSTANTS
    Keys <- UserKeys
    Tables = 2
    HashBits = 8
    Chars = {45, 65, 97}
    UpperOf <- LowerOf
    Alias <- AliasUser
    Userlen = 5
    MaxLines = 2
    MaxLocal = 3
    Names <- UserNames
    Options <- Configurations
    MaxAccounts = 3
    InstrExts <- OneExtension
    InstrLines = 3
    GovernExts <- Extensions
    GovernLines = 1
    MaxRuns = 1
    Deliveries = {"p"}
    Sessions = {"u", "v"}
    Others = TRUE
    Local <- LocalAddrs
    Remote = {"r"}
    OwnerOf <- Owners
    Postmaster = "m"
    Starts <- FirstCopies
    Forwards <- FileContents
SPECIFICATION MCSpec
INVARIANTS UserRight NothingForbidden  OnlyWholeMessages OncePerAddress
    AsRead EnvelopeAsAsked
CHECK_DEADLOCK FALSE
