SPECIFICATION Spec
CONSTANTS
    Client = {c1, c2}
    Child = {}
    Flags = {{"read", "write"}}
    AcceptedMay = {"none"}
    ClosedMay = {"none"}
    MovedMay = {"none"}
    DataMay = {"none"}
    BothMay = {"none", "close"}
    ChildMay = {"none"}
    PostedMay = {"register"}
    MaxLate = 0
INVARIANT CallbackClientIsOurs
CHECK_DEADLOCK FALSE
