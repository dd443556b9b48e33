\* One user key that every type competes for, two members, two values and
\* two scores (so that ZAdd rescores), one client holding rds.mu.  Two new
\* versions (MaxClock) let a key be created, deleted and recreated;
\* InitialListMark 1 lets a list grow to two elements from either end.
CONSTANTS
    UserKeys = {k1}
    Members = {m1, m2}
    Values = {v1, v2}
    Scores = {s1, s2}
    Clients = {c1}
    TTLs = {0, 1}
    MaxClock = 2
    InitialListMark = 1
    CallerLocks = TRUE
SPECIFICATION RDSSpec
INVARIANT RDSTypeOK
INVARIANT MetaSizeIsCount
INVARIANT ZSetIndexesAgree
PROPERTY RedisStoreSpec
