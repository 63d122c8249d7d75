SPECIFICATION FairSpec
CONSTANTS
    Modems = {"m1", "m2"}
    Default = "m1"
    Equipment <- EventEquipment
    Kinds <- EventKinds
    Values <- EventValues
    Dispatched = {TRUE, FALSE}
INVARIANTS
    TypeOK
    ObjectsAreBacked
    EmergencyListIsDefaults
PROPERTIES
    ApplicationFollowsSignal
    StartServesAll
    EmergencyListStays
    EmergencyListArrives
