CONSTANTS
    t1 = t1
    t2 = t2
    c1 = c1
    c2 = c2
    p1 = p1
    p2 = p2
    w1 = w1
    importer = importer
    i1 = i1
    i2 = i2
    k1 = k1
    k2 = k2
    Nothing = Nothing
    Proc = {p1, p2}
    Thread = {t1, t2}
    Capture = {c1, c2}
    OfferedScan <- Scans
    MaxScans = 2
    MaxDamage = 1
SPECIFICATION RepairSpec
PROPERTIES MetadataIsProjection
CHECK_DEADLOCK FALSE
