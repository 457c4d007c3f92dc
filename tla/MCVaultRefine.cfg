SPECIFICATION FairSpec
CONSTANTS
    Proc = {p1, p2}
    Artifact = {jwks, logKeys}
    Jwks = jwks
    Entry = {e1}
    Key = {d1}
    Factor = {pw, sk}
    NoKey = NoKey
    Nobody = Nobody
    MaxFaults = 1
    MaxLost = 1
INVARIANT VaultInvariant
PROPERTIES RefinesCredentialStore ExclusiveHoldEnds
