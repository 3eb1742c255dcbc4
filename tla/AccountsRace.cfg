\* Two requests at once.
CONSTANTS
    u1 = u1 u2 = u2 u3 = u3 u4 = u4 u5 = u5 u6 = u6 a1 = a1 q1 = q1 q2 = q2
    Users = {u1, u2} Properties = {a1} Roles = {"org_admin", "manager", "front_desk", "property_owner"}
    Requests = {q1, q2} Edition = "commercial" SlugAttempts = 5
    MaxNetworks = 1 MaxChanges = 3 MaxBreaks = 0
SPECIFICATION AccountsSpec
INVARIANT AdminRemains
CHECK_DEADLOCK FALSE
