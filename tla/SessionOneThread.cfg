SPECIFICATION Spec
CONSTANTS
    Browsers = {b1}
    SessionIds = {s1}
    Accounts = {a1, a2}
    NoAccount = NoAccount
    NoRecord = NoRecord
    Requests = {r1, r2}
    Kinds = {"chat", "stream", "resume"}
    MaxMessages = 2
SYMMETRY Symmetry
INVARIANTS StoresAgree
PROPERTIES OwnershipSpec
