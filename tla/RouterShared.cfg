SPECIFICATION FairSpec
CONSTANTS
    Clients = {c1, c2}
    Collections = {}
    Tables = {}
    Graphs = {"graph"}
    MaxVersion = 3
    Err = Err
    Absent = Absent
    NoOp = NoOp
    NoReply = NoReply
    Ops <- GraphReadWriteOps
    Policy = "Ttl"
    Capacity = 1
    FaultyDriver = TRUE
INVARIANT StaleOnlyIfExposed
PROPERTIES StaleExpires CallsReturn
