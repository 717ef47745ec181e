CONSTANTS
    Segments = {"", "a", "b", "*", "**"}
    Starred = {"*", "**"}
    Handlers = {h1}
    ClientIDs = {"c"}
    Clients <- MCClients
    Requests <- MCRequests
    RouteScopes = {}
    None = None
    NoVerifier = NoVerifier
    NoProvider = NoProvider
    RemoteKids = {"k"}
    DefaultLeeway = 1
    Targets <- MCTargets
    ClientID = "c"
    Secret = "s"
    Routes <- MCRoutes
    Issuer = "i"
    KID = "k"
    AccessTokenTTL = 6
    RefreshSkew = 3
    Second = 2
    MaxDelay = 1
    MaxWire = 1
    MaxUpserts = 2
    MaxNow = 10
SPECIFICATION EndSpec
INVARIANTS
    AdmittedWasAllowed
    FreshTokenAdmitted
CHECK_DEADLOCK FALSE
