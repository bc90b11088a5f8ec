SPECIFICATION Spec
CONSTANTS
    Projects = {p1}
    Paths = {home, page}
    Home = home
    Contents = {a, b}
    NoFile = NoFile
    Torn = Torn
    MaxVersions = 2
SYMMETRY Symmetry
PROPERTIES CommittedIsLatest
