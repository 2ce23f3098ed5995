CONSTANTS
    ApprovalAction = {"scoped_scroll", "page_keys"}
    RetryBudget = 2
    ScanPassBudget = 2
    MaxPauses = 2
    Routes <- MCRoutes
    Offered <- MCOffered
SPECIFICATION FairSpec
INVARIANTS TypeOK NoStageSkipped BudgetsBound FullIsUnblocked
PROPERTY ClosesOrStrands
CHECK_DEADLOCK FALSE
