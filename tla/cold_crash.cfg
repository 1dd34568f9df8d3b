SPECIFICATION Spec
CONSTANTS
    Patches = {p1, p2}
    NoPatch = none
    BaseDexes = 1
    Workers = {w1}
    MaxAdds = 1
    MaxSystem = 1
SYMMETRY Symmetry
INVARIANT
    TypeOK
PROPERTIES
    InjectedIsWhole
    NoOdexOfOldSystem
