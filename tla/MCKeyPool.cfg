SPECIFICATION MCSpec
CONSTANTS
    k1 = k1
    r1 = r1
    r2 = r2
    h1 = h1
    h2 = h2
    probe = probe
    rescan = rescan
    refresh = refresh
    Instances = {"sweeps", "requests", "operators", "probe"}
    Key = {k1}
    Request = {r1, r2}
    Probe = {probe}
    Rescan = {rescan}
    Refresh = {refresh}
    Handler = {h1, h2}
    Operator = {"update", "refresh_token", "delete", "cleanup"}
    SetByHand = {"active", "disabled", "rate_limited"}
    Cooldown = 1
    MaxTime = 1
    MaxSecret = 3
INVARIANTS TypeOK
PROPERTIES SecretRevertsByOverlap DisableHoldsOnceSeen ParkHasEnd
CHECK_DEADLOCK FALSE
