CONSTANTS
    None = None
    Default = Default
    proc1 = proc1
    proc2 = proc2
    ident1 = ident1
    ident2 = ident2
    secret1 = secret1
    cert1 = cert1
    cert2 = cert2
    cert3 = cert3
    link1 = link1
    link2 = link2
    far1 = far1
    far2 = far2
    bare = bare
    role = role
    Clients = {proc1, proc2}
    Ids = {cert1, cert2}
    MaxOps = 3
    MaxFailures = 1
    Followed = {"recreated"}
SPECIFICATION MCSpec
PROPERTY RecreatedIsNoPairing
CHECK_DEADLOCK FALSE
