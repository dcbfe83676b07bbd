SPECIFICATION Spec
CONSTANTS
    Versions = {1, 2, 3}
    Initial = 2
    NoVersion = NoVersion
    Admins = {admin1, admin2}
    Posts = {post1, post2}
    Validity = 1
    Skew = 1
    MaxTime = 3
SYMMETRY Symmetry
INVARIANTS
    AtMostOneActive
    SerialActivationKeepsOne
    AcceptedWasInForce
    ReplayWindowBounded
CHECK_DEADLOCK FALSE
