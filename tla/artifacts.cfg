SPECIFICATION AloneSpec
CONSTANTS
    Projects = {p1, p2}
    Paths = {home, page}
    Home = home
    Contents = {a, b}
    NoFile = NoFile
    Torn = Torn
    MaxVersions = 2
SYMMETRY Symmetry
INVARIANTS TypeOK VersionsAreWhole
PROPERTIES RestoreReproduces KeepsHistory
