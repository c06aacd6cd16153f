SPECIFICATION FairSpec
CONSTANTS
    u1 = u1
    u2 = u2
    s1 = s1
    s2 = s2
    s3 = s3
    s4 = s4
    None = None
    Users = {u1}
    Sessions = {s1, s2, s3}
    Admins = {a1}
    OwnerOf <- MCOwnerOf
INVARIANTS TypeOK NoGhostSession NoEmptyEntryLeak LockClosedWhatItSaw
PROPERTIES ListedOnlyOnce RegistryDrains
