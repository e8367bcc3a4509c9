\* Two threads race through both modules' unsynchronised seeding.
CONSTANTS
    Threads = {t1, t2}
    Modules = {"kem", "sig"}
    MaxClock = 2
    MaxOut = 2
SPECIFICATION Spec
SYMMETRY Symmetry
INVARIANTS
    TypeOK
    DrawsAreSeeded
    SeededOncePerThread
    NoReplay
CHECK_DEADLOCK FALSE
