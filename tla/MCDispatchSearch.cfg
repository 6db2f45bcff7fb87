\* Two upstreams of one provider that share a key; the attempt budget exceeds what
\* one key can cost and is smaller than what the upstreams could use, the upstream
\* budget is the length of the route.
SPECIFICATION FairSpec
CONSTANTS
    u1 = u1  u2 = u2
    k1 = k1  k2 = k2  k3 = k3
    Upstream = {u1, u2}
    Key = {k1, k2, k3}
    KeysOf <- SharedKeysOf
    Options <- SharedOptions
    Routes <- SharedRoutes
    Statuses <- SharedStatuses
    InitialStatus = {"active", "rate_limited", "disabled"}
    MaxProviderAttempts = 4
    MaxUpstreamAttempts = 0
    KeysPerUpstream = 2
INVARIANTS
    TypeOK
    AttemptBudget
    UsableKeyInFlight
    FailureLooksLikeFailure
    SearchIsComplete
    KeyRepeatBound
PROPERTIES
    Answers
CHECK_DEADLOCK FALSE
