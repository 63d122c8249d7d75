SPECIFICATION Spec
CONSTANTS
    Modems = {"m1", "m2"}
    Default = "m1"
    Equipment <- NetworkEquipment
    Kinds <- NetworkKinds
    Values <- NetworkValues
    Dispatched = {TRUE}
INVARIANTS
    ShownIsHeard
    PropertiesAgree
    NameAdmitsNoService
