CONSTANTS
    Nil = Nil
    Jobs = {j1}
    Texts = {c1, c2}
    Runs = {b1}
    MaxVersions = 3
SPECIFICATION BoardSpec
PROPERTIES
    InputsCatchUp
