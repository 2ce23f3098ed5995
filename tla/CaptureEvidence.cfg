CONSTANTS
    Message = {1, 2, 3}
    Version = {"v1", "v2"}
    Watermark = 3
    Nothing = Nothing
    MaxWindows = 3
    MaxInvalid = 1
    MaxFailures = 1
    Observation <- MCObservation
    Batch <- MCBatch
SPECIFICATION Spec
INVARIANTS TypeOK LedgerCoversCoverage NothingRecordedTwice OrdersAgree OrderIsFound
           ConnectedMeansNoGap ReceiptBindsEvidence
PROPERTY EvidenceOnlyGrows
CHECK_DEADLOCK FALSE
