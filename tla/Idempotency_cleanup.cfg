SPECIFICATION Spec
CONSTANTS
    Keys = {k1}
    Hashes = {h1, h2}
    Clients = {c1, c2}
    Uids = {u1, u2, u3, u4, u5, u6}
    NoUid = NoUid
    LeaseDuration = 1
    Retention = 2
INVARIANTS
    OncePerKey
