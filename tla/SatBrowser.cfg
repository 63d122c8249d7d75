SPECIFICATION DialogueSpec
CONSTANTS
    QMax = 3
    MaxTickets = 2
    Modems = {"m1"}
    CommandKinds <- Browser
    Responses = {"ME_UNABLE_TO_PROCESS_COMMAND"}
    UserAnswers = {"YES"}
    SendOutcomes = {TRUE}
INVARIANTS
    SuccessIsReported
CHECK_DEADLOCK FALSE
