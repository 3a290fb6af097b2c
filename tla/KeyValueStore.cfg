CONSTANTS
    Keys = {k1, k2, k3}
    Values = {v1, v2}
    Size = 2
    None = None
SPECIFICATION Spec
PROPERTY ImplementsDictionary
