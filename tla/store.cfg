SPECIFICATION Spec
CONSTANTS
    bastion = bastion
    api = api
    id = id
    k1 = k1
    k2 = k2
    c1 = c1
    c2 = c2
    Names = {bastion, api}
    Ports = {22, 80, 81}
    Keys = {id}
    Contents = {k1, k2}
    Calls = {c1, c2}
    Requests <- MCRequests
    ConfigFiles <- MCConfigFiles
    Absent = Absent
    Torn = Torn
    None = None
SYMMETRY Interchangeable
CHECK_DEADLOCK FALSE
INVARIANTS
    TypeOK
    StartsAgain
    PersistentOnDisk
    KeyReadyAtLaunch
PROPERTIES
    SwitchSurvives
