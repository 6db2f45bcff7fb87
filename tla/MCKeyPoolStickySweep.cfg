\* One probe of the balances and one operator.
SPECIFICATION MCSpec
CONSTANTS
    k1 = k1
    r1 = r1
    r2 = r2
    h1 = h1
    h2 = h2
    probe = probe
    rescan = rescan
    refresh = refresh
    Instances = {"probe"}
    Key = {k1}
    Request = {}
    Probe = {probe}
    Rescan = {}
    Refresh = {}
    Handler = {h1}
    Operator = {"update"}
    SetByHand = {"active", "disabled"}
    Cooldown = 1
    MaxTime = 1
    MaxSecret = 2
INVARIANTS DisableIsSticky
