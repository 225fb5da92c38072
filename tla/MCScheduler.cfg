SPECIFICATION Spec
CONSTANTS
    NCPU = 2
    loop = loop
    t2 = t2
    t3 = t3
    Thread <- MCThread
    Modules <- MCModules
    Spinners = {loop}
    SleepLens = {1}
    ReadLens = {2}
INVARIANTS ThreadsSound ReturnsWhenDone
