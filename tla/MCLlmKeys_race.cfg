SPECIFICATION Spec
CONSTANTS
    p1 = p1
    p2 = p2
    Request = {p1, p2}
    NoOne = NoOne
    Name = {"default", "work", "home"}
    Key = {1}
    i1 = i1
    i2 = i2
    i3 = i3
    Id = {i1, i2, i3}
    NoId = NoId
    MaxRev = 2
    Cap = 2
    TTL = 2
SYMMETRY Symmetry
INVARIANTS
    Inv
    RevocationIsPrompt
PROPERTIES
    StampIsOfWhatWasTested
    RoutesWithConsent
