CONSTANTS
    p1 = p1
    p2 = p2
    r1 = r1
    s1 = s1
    s2 = s2
    k1 = k1
    k2 = k2
    a = a
    b = b
    u1 = u1
    u2 = u2
    l1 = l1
    l2 = l2
    a1 = a1
    t1 = t1
    t2 = t2
    x = x
    c1 = c1
    who = who
    v1 = v1
    v2 = v2
    Torn = Torn
    Nothing = Nothing
    Proc = {p1, p2}
    Key = {k1, k2}
    Ledgers <- LedgersHere
    Importings <- ImportingsHere
    Url = {u1, u2}
    KeyOf <- KeysOf
    Label = {l1, l2}
    AliasName = {a1}
    CallerFacts <- KnownFacts
    Artifact <- ArtifactsHere
    MaxEntries = 2
    MaxRuns = 1
    MaxDeaths = 1
    Topic = {t1, t2}
    Ledger <- ThreeRecords
    Registry <- RegistriesHere
    MaxEdits = 1
    MaxFailures = 1
    Value = {v1, v2}
    Texts <- Clips
    Site = {c1, s1}
    MaxCalls = 3
    Covers <- CapturesHere
    CacheRows <- CacheHere
    LedgerRows <- LedgerHere
    Receipts <- ReceiptsHere
    Asks <- AsksHere
    MaxAge = 0
    MaxTime = 1
    MaxChanges = 3
    MaxRows = 1
SPECIFICATION Spec
SYMMETRY Processes
INVARIANTS TypeOK AnsweredIsOnDisk NothingTwice IntakeIsBacked
PROPERTIES ChainIsKept ProjectionIsWhole
CHECK_DEADLOCK FALSE
