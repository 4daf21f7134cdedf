SPECIFICATION FairSpec
CONSTANTS
    p1 = p1
    p2 = p2
    c1 = c1
    c2 = c2
    x = x
    y = y
    Threads = {p1, p2, c1, c2}
    Requests <- MCResizeRequests
    Capacity = 2
    NoCall = NoCall
    NoItem = NoItem
    NoThread = NoThread
PROPERTIES
    Responsive
