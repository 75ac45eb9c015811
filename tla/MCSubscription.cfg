SPECIFICATION FairSpec
CONSTANTS
    Tails = {t1, t2}
    Callers = {c1, c2}
    RingSize = 2
    MaxPush = 5
INVARIANTS
    QuietAfterUnsubscribe
    GracefulDrain
PROPERTIES
    Implements
    NobodyWaitsForEver
