CONSTANTS
    Segments <- MCSegments
    Starred = {"*", "**", "a*"}
    MaxSegments = 3
    Handlers = {h1}
    ClientIDs = {"c"}
    Clients <- MCClients
    Requests <- MCRequests
    RouteScopes <- MCScope
    None = None
SPECIFICATION Spec
INVARIANTS IssuedWithinPolicy DefaultsHonoured CoversIsContainment
PROPERTIES ImplementsIssuance
