\* Two pushes, each with its fallback; either connection may break anywhere.
SPECIFICATION FairSpec
CONSTANTS
    f = f
    g = g
    x = x
    y = y
    Files <- MCFiles
    Values <- MCValues
    Absent = Absent
    Offered <- MCOffered
    Edited <- MCEdited
    Installs <- MCInstalls
    Silence = Silence
    NoSession = NoSession
    MaxPushes = 2
CHECK_DEADLOCK FALSE
INVARIANTS
    TypeOK
    NeverOlder
    NoSpuriousConflict
PROPERTIES
    DeliveryIsOrdered
    FailureKeepsRegistry
    PushEnds
    TargetReleased
