CONSTANTS
    t1 = t1
    t2 = t2
    t3 = t3
    Thread = {t1, t2, t3}
    None = None
    MaxApps = 2
    MaxVersion = 2
SPECIFICATION Spec
SYMMETRY Symmetry
INVARIANT CacheIsSound
