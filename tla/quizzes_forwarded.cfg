SPECIFICATION Spec
CONSTANTS
    Users = {u1, u2}
    Polls = {p1, p2, p3}
    NoPoll = noPoll
    Nobody = nobody
    Forwarders = {u1}
INVARIANT
    NoneLeftHanging
CHECK_DEADLOCK FALSE
