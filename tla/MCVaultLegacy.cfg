SPECIFICATION LegacySpec
CONSTANTS
    Proc = {p1, p2}
    Artifact = {jwks, logKeys}
    Jwks = jwks
    Entry = {e1, e2}
    Key = {d1, d2}
    Factor = {pw}
    NoKey = NoKey
    Nobody = Nobody
    MaxFaults = 1
    MaxLost = 1
INVARIANT CredentialsKept
SYMMETRY Symmetry
