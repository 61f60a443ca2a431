\* Two Providers, two URLs, two keys and two logins; three changes of clients, of
\* which one may fail, and an edit between any two commands or during one.
SPECIFICATION Spec
CONSTANTS
    Names = {alpha, beta}
    Urls = {u1, u2}
    Keys = {k1, k2}
    u1 = u1
    u2 = u2
    k1 = k1
    k2 = k2
    Logins = {l1, l2}
    Custom = Custom
    OpenAI = OpenAI
    None = None
    Official = Official
    Partial = Partial
    Missing = Missing
    Garbage = Garbage
    Odd = Odd
    Refused = Refused
    Offered <- MCOffered
    StartFiles <- MCStartFiles
    Edited <- MCEdited
    InnerSelectors = {None}
    Unparsable = {}
    Overrides = {FALSE, TRUE}
    MaxSnapshots = 3
    MaxEdits = 1
    MaxFailures = 1
CHECK_DEADLOCK FALSE
SYMMETRY Symmetric
INVARIANTS
    TypeOK
    StaysInAgreement
PROPERTIES
    RemoveIsUnseen
    OfficialLoginReturns
    FailureIsUnseen
