CONSTANTS
    u1 = u1  u2 = u2  c1 = c1  c2 = c2  c3 = c3  k1 = k1
    None = None
    Users = {u1}
    Sessions = {s1, s2}
    Orders = {o1}
    Vouchers = {v1}
    Calls = {c1, c2}
    Keys = {k1}
    Amounts = {1}
    CallUser <- MCCallUser
    CallKey <- MCCallKey
    CallCost <- MCCallCost
    Opening <- MCOpening1
    Mix = {"TOPUP", "VOUCHER_REDEEM", "ADMIN_ADJUST", "CONSUME"}
SPECIFICATION Spec
INVARIANTS TypeOK UsedMatchesLedger DocumentsMatchLedger ChargesMatchLedger
