SPECIFICATION CacheSpec
CONSTANTS
    Clients = {c1, c2}
    Imports = {i1}
    Silent = {s1}
    MaxInput = 2
INVARIANTS StaleFlagged CopiesBounded
