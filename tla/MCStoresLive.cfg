CONSTANTS
    None = None
    Absent = Absent
    Failed = Failed
    val1 = val1
    val2 = val2
    id1 = id1
    id2 = id2
    proc1 = proc1
    proc2 = proc2
    event1 = event1
    event2 = event2
    track1 = track1
    Followed = {"saving", "polling", "copying", "racing", "pulling", "tailing"}
SPECIFICATION MCFairSpec
PROPERTIES TabConverges StoreCatchesUp EventsArrive
CHECK_DEADLOCK FALSE
