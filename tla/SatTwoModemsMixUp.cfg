SPECIFICATION DialogueSpec
CONSTANTS
    QMax = 3
    MaxTickets = 4
    Modems = {"m1", "m2"}
    CommandKinds <- Signals
    Responses = {"SUCCESS"}
    UserAnswers = {"YES"}
    SendOutcomes = {TRUE}
INVARIANTS
    ResponsesAreOwn
CHECK_DEADLOCK FALSE
