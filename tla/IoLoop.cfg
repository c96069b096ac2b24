SPECIFICATION Spec
CONSTANTS
    Client = {c1, c2, c3}
    Child = {k1, k2}
    Flags = {{"read"}, {"read", "write"}}
    AcceptedMay = {"none", "register"}
    ClosedMay = {"none", "register"}
    MovedMay = {"none", "close", "closeOther"}
    DataMay = {"none", "close", "closeOther", "unregister", "register", "fork"}
    BothMay = {"none", "closeOther", "register"}
    ChildMay = {"none", "reap", "closeOther"}
    PostedMay = {"register", "unregister", "closeOther", "fork", "reap"}
    MaxLate = 2
INVARIANTS LoopInv CallbackClientIsOurs
PROPERTY ClosedOnlyServed
CHECK_DEADLOCK FALSE
