CONSTANTS
    Requests = {1, 2, 3}
    MaxPerUser = 1
    PoolSize = 4
    Users = {u1, u2}
    Codes = {c1, c2}
    Passwords = {w1}
    Profiles = {p1, p2}
    Allowed = 1
    None = None
SPECIFICATION Safety
PROPERTIES StepsOfTheLifecycle StaysBlocked
