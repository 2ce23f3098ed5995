CONSTANTS
    ApprovalAction = {"scoped_scroll"}
    RetryBudget = 1
    ScanPassBudget = 2
    Proc = {p1, p2}
    Absent = Absent
    MaxEvents = 2
    MaxFailures = 2
    Routes <- MCRoutes
    Offered <- MCOffered
SPECIFICATION FairSpec
INVARIANTS TypeOK CheckpointIsReplay AppliedOnce ReceiptNeverStale
PROPERTIES InterruptedAttemptStaysClosed ImplementsCaptureRun PendingEventRecovered
CHECK_DEADLOCK FALSE
