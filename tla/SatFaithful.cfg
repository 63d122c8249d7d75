SPECIFICATION DialogueSpec
CONSTANTS
    QMax = 3
    MaxTickets = 4
    Modems = {"m1", "m2"}
    CommandKinds <- FaithfulKinds
    Responses <- Results
    UserAnswers <- Confirms
    SendOutcomes = {TRUE, FALSE}
INVARIANTS
    SuccessIsReported
    OneCommandEach
PROPERTIES
    AnnouncedIsQueued
CHECK_DEADLOCK FALSE
