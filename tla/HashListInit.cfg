SPECIFICATION Spec
CONSTANTS
    User = user
    Loaders = {other}
    Writers = {other}
    Keys = {1, 3}
    Data = {a}
    IndexNum = 2
    DataNum = 3
    MaxDeaths = 0
    NoData = NoData
    Torn = Torn
    None = None
INVARIANT
    StartAccepted
