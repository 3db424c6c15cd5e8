SPECIFICATION Spec
CONSTANTS
    home = home
    code = code
    table = table
    picture = picture
    secret = secret
    Clients = {c1}
    RemoteClients = {c1}
    ByName = {"gz"}
    BuiltPaths = {code}
    AssetPaths = {table, picture}
    GamePaths = {picture}
    PrivatePaths = {secret}
    GeneratedPaths = {home}
    HomePath = home
    FileOf <- MCFileOf
    Accepts <- MCAccepts
    Origins = {"none", "known"}
    EnableStatic = TRUE
    EnableSearch = TRUE
    EnableCompression = TRUE
    RemoteGrfData = FALSE
    SecondOf <- MCSecondOf
    BuildGap = 2
    MaxHeld = 1
    MaxTime = 2
    MaxBuilds = 2
INVARIANTS
    ConfirmedIsCurrent
    ConfirmedIsHeld
    NegotiatedIsWanted
    StoredFitsOthers
    GameDataStaysHome
PROPERTIES
    CodeNeverGoesBack
