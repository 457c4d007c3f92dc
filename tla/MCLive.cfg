CONSTANTS
    name1 = name1
    id1 = id1
    key1 = key1
    url1 = url1
    sa1 = sa1
    file1 = file1
    proc1 = proc1
    proc2 = proc2
    proc3 = proc3
    Absent = Absent
    Torn = Torn
    src1 = src1
    src2 = src2
    node1 = node1
    lib1 = lib1
    minter = minter
    record1 = record1
    daemon1 = daemon1
    daemon2 = daemon2
    daemon3 = daemon3
    Default = Default
    ident1 = ident1
    secret1 = secret1
    cert1 = cert1
    cert2 = cert2
    cert3 = cert3
    link1 = link1
    link2 = link2
    far1 = far1
    far2 = far2
    bare = bare
    role = role
    None = None
    NoSa = NoSa
    Free = Free
    Followed = {"removal", "syncing", "renaming", "leasing", "locking", "spawning",
                "closing", "starting", "settling", "linking"}
SPECIFICATION MCFairSpec
PROPERTIES RemovalCompletes Converges RenameFinishes LeaseRecovers
           EveryCommandEnds RolloverFinishes ConversionSettles RemovedComesBack
CHECK_DEADLOCK FALSE
