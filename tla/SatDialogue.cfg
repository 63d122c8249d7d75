SPECIFICATION DialogueSpec
CONSTANTS
    QMax = 3
    MaxTickets = 3
    Modems = {"m1"}
    CommandKinds <- AllKinds
    Responses <- Results
    UserAnswers <- Confirms
    SendOutcomes = {TRUE, FALSE}
INVARIANTS
    NeverCrashes
    ResponsesAreOwn
    RefusalNeverReportedAsSuccess
    OnlyIdleTextStranded
CHECK_DEADLOCK FALSE
