CONSTANTS
    None = None
    Absent = Absent
    Failed = Failed
    tui = tui
    cli = cli
    offboard = offboard
    entry1 = entry1
    entry2 = entry2
    entry3 = entry3
    val1 = val1
    val2 = val2
    id1 = id1
    id2 = id2
    proc1 = proc1
    proc2 = proc2
    event1 = event1
    event2 = event2
    track1 = track1
    track2 = track2
    kid1 = kid1
    kid2 = kid2
    kid3 = kid3
    foreign = foreign
    user1 = user1
    Blank = Blank
    Installs = {proc1, proc2}
    Kids = {kid1, kid2, kid3}
    ForeignKids = {foreign}
    Subjects = {user1}
    Production = TRUE
    Verbs = {"setup", "rotate", "remove", "subjects"}
    MaxOps = 4
    MaxFaults = 2
    MaxConsole = 1
    Followed = {"undo", "purge", "esv", "esvfail", "idm", "idmtwo", "logs", "spans", "tail", "issuer", "shared"}
SPECIFICATION MCSpec
PROPERTIES UndoKept TombHidesRow RowsLeaveWithRecord  IssuerUsable
CHECK_DEADLOCK FALSE
