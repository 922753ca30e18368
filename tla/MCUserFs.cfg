CONSTANTS
    Names = {n1, n2}
    NoName = NoName
    Data = {a, b}
    NoFile = NoFile
    MaxSize = 1
    MaxId = 1
    Faults = {"flash", "space"}
SYMMETRY Symmetry
SPECIFICATION Spec
INVARIANTS
    StartupExists
    FilesPublished
