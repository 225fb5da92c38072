\* CPUs may wait for each other for ever, see DeadlockOnlyWhileShort.
CHECK_DEADLOCK FALSE
SPECIFICATION WaitSpec
CONSTANTS
    T1 = T1
    T2 = T2
    T3 = T3
    T4 = T4
    NCPU = 2
    Thread <- MCThreads
    Modules <- MCModules
    Callers = {T2, T3}
    MaxCalls = 1
    W = 3
    Wakes = 2
    SleepArgs = {1, 3, 5, 7}
    Uptimes <- MCUptimes
INVARIANTS ElementsSuffice DeadlockOnlyWhileShort TimesRight
PROPERTIES SpinningEnds WaitsEnd
