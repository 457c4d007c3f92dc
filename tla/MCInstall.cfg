CONSTANTS
    name1 = name1
    name2 = name2
    id1 = id1
    id2 = id2
    key1 = key1
    url1 = url1
    sa1 = sa1
    file1 = file1
    proc1 = proc1
    proc2 = proc2
    proc3 = proc3
    Absent = Absent
    Torn = Torn
    src1 = src1
    src2 = src2
    src3 = src3
    node1 = node1
    node2 = node2
    lib1 = lib1
    lib2 = lib2
    minter = minter
    record1 = record1
    daemon1 = daemon1
    daemon2 = daemon2
    daemon3 = daemon3
    None = None
    NoSa = NoSa
    Free = Free
    Names = {name1, name2}
    Ids = {id1, id2}
    Keys = {key1}
    Procs = {proc1, proc2}
    UrlOf <- MCUrlOf
    SaOf <- MCSaOf
    FileOf <- MCFileOf
    StoreKinds = {"IdmStore"}
    MaxOps = 2
    MaxFaults = 1
    Followed = {"tenants", "failing", "scripts", "apart", "both",
                 "rename", "lease", "lock", "waiters", "agent"}
SYMMETRY Symmetry
SPECIFICATION MCSpec
PROPERTIES OffboardingSafe EditsKept RenameComplete  OneAgent
CHECK_DEADLOCK FALSE
