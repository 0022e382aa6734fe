SPECIFICATION Spec
CONSTANTS
    Browsers = {b1, b2}
    SessionIds = {s1}
    Accounts = {a1}
    NoAccount = NoAccount
    NoRecord = NoRecord
    Requests = {r1, r2}
    Kinds = {"chat"}
    MaxMessages = 1
SYMMETRY Symmetry
INVARIANTS TypeOK IdentityNeverConflicts StoresAgree
