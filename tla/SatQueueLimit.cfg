SPECIFICATION Spec
CONSTANTS
    QMax = 3
    MaxTickets = 3
    Modems = {"m1"}
    CommandKinds <- PlainCall
    Responses = {"SUCCESS"}
    UserAnswers = {"YES"}
    SendOutcomes = {TRUE}
PROPERTIES
    QueueTakesMaxSize
CHECK_DEADLOCK FALSE
