SPECIFICATION Spec
CONSTANTS
    Arts = {a1}
    Shares = {s1, s2}
    Threads = {t1, t2}
    None = None
    ShareDays = {0, 1}
    ArtLife = {1}
    CookieTtl = 0
    EmbedTtl = 0
    MaxTime = 1
    MaxRestarts = 1
SYMMETRY Symmetry
CONSTRAINT Modest
INVARIANT NothingAfterTheEnd
INVARIANT RefusedForAReason
INVARIANT LinksHaveArtifacts
PROPERTY EndIsFinal
