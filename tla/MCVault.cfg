SPECIFICATION Spec
CONSTANTS
    Proc = {p1, p2}
    Artifact = {jwks, logKeys}
    Jwks = jwks
    Entry = {e1}
    Key = {d1, d2}
    Factor = {pw, sk}
    NoKey = NoKey
    Nobody = Nobody
    MaxFaults = 2
    MaxLost = 1
INVARIANTS
    TypeOK CredentialsKept EncryptedVaultOpens InterruptedFirstRunOpens
    NoLiveSidecarUnderExclusive
PROPERTY SettleLeavesNoCleartext
SYMMETRY Symmetry
