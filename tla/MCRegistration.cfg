SPECIFICATION Spec
CONSTANTS
    Alice = Alice
    Bob = Bob
    KeyA = KeyA
    KeyB = KeyB
    Credentials <- MCCredentials
    OwnAccounts <- MCOwnAccounts
    Names = {n1}
    NoName = NoName
    Nobody = Nobody
    NoKey = NoKey
    NoAccount = NoAccount
    MaxRequests = 3
    MaxSwitches = 3
INVARIANTS
    TypeOK
    SignatureIsForKey
    ActsForOwnerOfKey
    AccountsAreComplete
    
    ShowsRegisteredUsers
PROPERTIES
    RegistrationIsKept
    OnlyOldAnswersUnregister
    RequestsEnd
CHECK_DEADLOCK FALSE
