CONSTANTS
    Aliases = {m1, m2}
    NoAlias = none
    DetChans <- MCDetChans
    MaxChans = 2
    Items = {known, extra}
    PslItems = {known}
    UserValues = {user}
    PslValue = psl
    NoDefault = nolist
    MaxMaster = 3
SYMMETRY MCPermutations
SPECIFICATION MCSpec
INVARIANTS
    TypeOK
    OneChannelPerDetChan
    ListsNeverDangle
PROPERTY DefaultsSurviveAddNumChans
