SPECIFICATION FairSpec
CONSTANTS
    Cpu = {c1, c2}
    Target = {t1, t2, t3}
    NoTarget = NoTarget
    FirstCpu = c1
INVARIANTS MutualExclusion ListSound
PROPERTIES IsQueue LockReleased
