SPECIFICATION FairSpec
CONSTANTS
    Modems = {"m1", "m2"}
    Default = "m1"
    Calls = {1, 2}
    Uses <- OneOfAll
    Equipment <- SmallEquipment
    Dispatched = {TRUE, FALSE}
INVARIANTS
    TypeOK
    OneReply
    NoneForgotten
    SuccessIsTheModems
    LockIsTheCallers
PROPERTIES
    CallerView
    AcceptedCallAnswered
CHECK_DEADLOCK FALSE
