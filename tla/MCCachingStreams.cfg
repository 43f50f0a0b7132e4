SPECIFICATION Spec
CONSTANTS
    Thread = {t1, t2}
    Ptr = {p1, p2, p3}
    Bytes = {1, 3, 9}
    Stream = {s0, s1}
    CallerStream = {s0}
    bin_growth = 2
    min_bin = 1
    max_bin = 2
    Limit = {6}
    Capacity = 10
    SizeWidth = 4
    MaxQueue = 1
    MaxForeign = 1
    None = None
SYMMETRY Symmetry
INVARIANT
    ReusableIsIdle
