\* A profile in config.toml selects a Provider of its own; nothing fails, nobody
\* edits.
SPECIFICATION Spec
CONSTANTS
    Names = {alpha, beta}
    Urls = {u1, u2}
    Keys = {k1, k2}
    u1 = u1
    u2 = u2
    k1 = k1
    k2 = k2
    Logins = {l1, l2}
    Custom = Custom
    OpenAI = OpenAI
    None = None
    Official = Official
    Partial = Partial
    Missing = Missing
    Garbage = Garbage
    Odd = Odd
    Refused = Refused
    Offered <- MCOffered
    StartFiles <- MCStartFiles
    Edited <- MCEdited
    InnerSelectors = {None, OpenAI}
    Unparsable = {}
    Overrides = {FALSE, TRUE}
    MaxSnapshots = 1
    MaxEdits = 0
    MaxFailures = 0
CHECK_DEADLOCK FALSE
PROPERTIES
    OtherLinesRetained
