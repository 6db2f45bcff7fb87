SPECIFICATION FairSpec
CONSTANTS
    Request = {"r1"}
    Manual = {"m1"}
    Editor = {"e1"}
    Login = {"l1", "l2", "d1"}
    Device = {"d1"}
    Flows = {"claude", "codex", "xai"}
    FirstBundles <- Bundles
    MaxIssued = 4
    Free = "free"
INVARIANTS CredentialSound PendingStateUsable
PROPERTIES  LeaseIsReached
CHECK_DEADLOCK FALSE
