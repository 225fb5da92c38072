SPECIFICATION FairSpec
CONSTANTS
    NCPU = 1
    loop = loop
    t2 = t2
    t3 = t3
    Thread <- MCThread
    Modules <- MCModules
    Spinners = {loop}
    SleepLens = {1}
    ReadLens = {2}
PROPERTIES RunnableRuns EventsEndWaits
