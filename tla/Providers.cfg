CONSTANTS
    Task = {janitor, caller}
    Creator = {c1, c2}
    Cidr = {world, office, vpn}
    World = world
    Wanted = {office, vpn}
SPECIFICATION Spec
INVARIANTS
    ProvidersInv
    ActiveStaysUp
    GroupServesAlike
PROPERTIES
    FailureIsFindable
    DeletesEnd
CHECK_DEADLOCK FALSE
