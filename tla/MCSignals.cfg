SPECIFICATION FairSpec
CONSTANTS
    l1 = l1
    l2 = l2
    l3 = l3
    Link = {l1, l2, l3}
    Signal = {s1, s2}
    Handle = {h1, h2}
    Callback = {cb}
    Priority = {0, 1}
    NULL = NULL
    MaxDepth = 2
    MaxActs = 1
    Events = {}
INVARIANTS TypeOK CalledOnce TablesAgree
PROPERTIES InPriorityOrder EmissionsEnd
