\* As limiter.cfg, for the claim of the module docstring.
CONSTANTS
    Threads = {t1, t2}
    Sources = {front}
    Null = Null
    Unlabelled = unlabelled
    Limit = 2
    Window = 2
    MaxTime = 3
    MaxAdmitted = 4
SPECIFICATION Spec
INVARIANTS
    NeverExceeded
SYMMETRY ThreadSymmetry
