SPECIFICATION MCSpec
CONSTANTS
    a = a
    b = b
    Members = {a, b}
    Nodes = {1, 2}
    Revs = {0, 1}
    Templates <- MCTemplates
    None = None
    MaxChanges = 3
CHECK_DEADLOCK FALSE
INVARIANTS
    TypeOK
    
PROPERTIES
    GroupConverges
    ChildrenFollow
    DeletedLeavesNothing
    KeyConverges
