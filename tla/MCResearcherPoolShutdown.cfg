SPECIFICATION Spec
CONSTANTS
    s1 = s1
    s2 = s2
    a = a
    Submission = {s1, s2}
    TaskID = {a}
    IdOf <- MCIdOf
    Worker = {w1, w2}
    NoSub = NoSub
    QueueSize = 1
INVARIANT ShutdownIsGraceful
CHECK_DEADLOCK FALSE
