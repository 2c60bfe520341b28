SPECIFICATION Spec
CONSTANTS
    h1 = h1  h2 = h2  u1 = u1  u2 = u2  t1 = t1  t2 = t2  t3 = t3  p1 = p1
    Handlers <- TwoHandlers
    Users <- TwoUsers
    Tokens <- ThreeTokens
    URLs <- OneProxy
    NoUser = NoUser
    NoToken = NoToken
    Torn = Torn
    NoProxy = NoProxy
    Blank = Blank
    Mixed = Mixed
INVARIANTS
    SessionsAreTheAdmins
    ProxyInForce
SYMMETRY Interchangeable
