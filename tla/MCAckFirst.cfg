SPECIFICATION Spec
CONSTANTS
    Sessions = {s1, s2}
    Tunnels = {t1, t2}
    Admins = {admin}
    Stopper = admin
    None = None
CHECK_DEADLOCK FALSE

SYMMETRY Symmetry
INVARIANT AckIsFirstFrame
