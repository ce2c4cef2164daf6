CONSTANTS
    Requests = {1, 2, 3}
    MaxPerUser = 2
    PoolSize = 4
    Users = {u1}
    Codes = {c1, c2}
    Passwords = {w1}
    Profiles = {p1, p2}
    Allowed = 1
    None = None
SPECIFICATION Safety
PROPERTY StaysBlocked
