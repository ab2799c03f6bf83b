SPECIFICATION Spec
CONSTANTS
    s1 = s1
    s2 = s2
    f1 = f1
    f2 = f2
    NoOne = NoOne
    Submitter = {s1, s2}
    OneShot = {s2}
    Finalizer = {f1, f2}
    Environment = {{}}
INVARIANTS
    FinalizedOnce
CHECK_DEADLOCK FALSE
