CONSTANTS
    u1 = u1  u2 = u2
    d1 = d1  d2 = d2  d3 = d3
    t1 = t1  t2 = t2  t3 = t3  t4 = t4
    NoUser = NoUser
    Users <- MCUsers
    Dusers <- MCDusers
    Txns <- MCTxns
    Owner <- MCOwner
    DuserOf <- MCDuserOf
    EnabledValues = {TRUE}
SPECIFICATION Spec
INVARIANTS
    InitFailureIsSurvived
