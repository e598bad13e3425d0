SPECIFICATION Spec
CONSTANTS
    root = root
    u1 = u1
    Users = {root, u1}
    Admin = root
    Callers = {r1, r2}
    MaxTokens <- MCMaxTokens
    Requests <- MCRequests
    Connections = {s1}
    Publishers = {w1}
    NoKey = NoKey
    MaxEvents = 2
    Capacity = 1
    MaxFaults = 1
INVARIANTS TypeOK TokensOfActiveUsers LoggedOutForGood MembersAuthenticated NothingMissed MembersConnected
PROPERTIES LogoutEndsOwnToken GroupsGranted HandshakesEnd EventsReceived
CHECK_DEADLOCK FALSE
