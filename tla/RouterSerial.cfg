SPECIFICATION Spec
CONSTANTS
    Clients = {c1}
    Collections = {"docs"}
    Tables = {"users", "orders"}
    Graphs = {"graph"}
    MaxVersion = 3
    Err = Err
    Absent = Absent
    NoOp = NoOp
    NoReply = NoReply
    Ops <- AllOps
    Policy = "SessionScoped"
    Capacity = 4
    FaultyDriver = FALSE
INVARIANTS TypeOK Coherent RepliesAnswerTheCall
PROPERTY ImplementsDirect
