SPECIFICATION Spec
CONSTANTS
    s1 = s1
    s2 = s2
    r1 = r1
    r2 = r2
    r3 = r3
    Nothing = Nothing
    Senders = {s1, s2}
    Receivers = {r1, r2, r3}
    Owner = r1
    MaxSends = 2
    MaxRecvs = 2
INVARIANT TypeOK
INVARIANT NoMessageUnannounced
INVARIANT SleepersAreWoken
INVARIANT Delivery
PROPERTY ImplementsFifo
CHECK_DEADLOCK FALSE
