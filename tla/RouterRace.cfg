SPECIFICATION Spec
CONSTANTS
    Clients = {c1, c2}
    Collections = {}
    Tables = {"users", "orders"}
    Graphs = {"graph"}
    MaxVersion = 2
    Err = Err
    Absent = Absent
    NoOp = NoOp
    NoReply = NoReply
    Ops <- ReadWriteOps
    Policy = "SessionScoped"
    Capacity = 2
    FaultyDriver = FALSE
INVARIANT Coherent
