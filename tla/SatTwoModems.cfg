SPECIFICATION Spec
CONSTANTS
    QMax = 3
    MaxTickets = 3
    Modems = {"m1", "m2"}
    CommandKinds <- LostKinds
    Responses = {"SUCCESS"}
    UserAnswers = {"YES"}
    SendOutcomes = {TRUE, FALSE}
PROPERTIES
    RefusedCallSendsNothing
CHECK_DEADLOCK FALSE
