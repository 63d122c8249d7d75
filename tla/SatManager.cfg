SPECIFICATION Spec
CONSTANTS
    QMax = 3
    MaxTickets = 4
    Modems = {"m1"}
    CommandKinds <- StaleKinds
    Responses = {"SUCCESS"}
    UserAnswers = {"YES"}
    SendOutcomes = {TRUE}
INVARIANTS
    TypeOK
    AtMostOneResponse
    AnswersNeverReachBack
    Bookkeeping
    MenuAnsweredIsCached
PROPERTIES
    MenuLeavesQueue
    CardView
CHECK_DEADLOCK FALSE
