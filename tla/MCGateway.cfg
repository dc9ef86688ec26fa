SPECIFICATION GatewaySpec
CONSTANTS
    root = root
    ann = ann
    room = room
    lab = lab
    annsBucket = annsBucket
    Workers = {w1, w2}
    Keys = {annsBucket}
    Capacity <- BucketSize
    Window = 1
    Delay = 1
    MaxTime = 1
    Watched = annsBucket
    Users = {root, ann}
    Resources = {room, lab}
    Founded = {lab}
    Asks <- TheAsks
    SystemAdmins = {root}
    Operators = {}
    Restricted = {lab}
    Members <- MembersOf
    Throttles <- ThrottlesOf
    SessionTTL = 1
    MaxHour = 2
    Nobody = Nobody
    NoArg = NoArg
SYMMETRY AlikeWorkers
INVARIANTS GatewayTypeOK WithinLimit HandledWithAuthority
CHECK_DEADLOCK FALSE
