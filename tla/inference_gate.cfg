CONSTANTS
    Users = {"u", "v", "w"}
    Calls = {"job", "query1", "query2", "other", "third"}
    UserOf <- MCUserOf
    Background = {"job", "third"}
    UserConcurrent = 1
    GlobalConcurrent = 2
    MaxTracked = 2
SPECIFICATION Spec
INVARIANTS
    TypeOK
    UserLimit
    SlotsAccounted
