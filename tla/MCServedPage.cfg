SPECIFICATION Spec
CONSTANTS
    Hosts <- MCHosts
    Ports = {"none", "empty", "80", "443"}
    Names <- MCNames
    Targets <- MCTargets
    Landings <- MCLandings
    Found = {2}
    Limits = {0, 1}
    DefaultLimit = 4
    Nothing = Nothing
INVARIANTS
    PagesAreOfTheirURL
    KeysMatchPages
