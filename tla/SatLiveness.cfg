SPECIFICATION FairDialogueSpec
CONSTANTS
    QMax = 3
    MaxTickets = 3
    Modems = {"m1"}
    CommandKinds <- SettledKinds
    Responses = {"SUCCESS", "ME_UNABLE_TO_PROCESS_COMMAND"}
    UserAnswers <- Confirms
    SendOutcomes = {TRUE}
PROPERTIES
    EveryCommandAnswered
CHECK_DEADLOCK FALSE
