CONSTANTS
    dome = dome
    scheduler = scheduler
    t1 = t1
    t2 = t2
    k1 = k1
    k2 = k2
    Threads = {t1, t2}
    Instruments = {dome, scheduler}
    Configured = {dome}
    Volatile = {scheduler}
    Keys = {k1, k2}
    Settable = {"ready", "operating", "lock"}
    MayCrash = TRUE
SPECIFICATION Spec
SYMMETRY Symmetry
INVARIANTS TypeOK HeldKeysActive
PROPERTIES LockLostOnlyToRace VolatileFresh
