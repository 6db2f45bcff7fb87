SPECIFICATION MCSpec
CONSTANTS
    p1 = p1
    p2 = p2
    s1 = s1
    s2 = s2
    n1 = n1
    g1 = g1
    boss = boss
    ann = ann
    own = own
    team1 = team1
    team2 = team2
    c1 = c1
    c2 = c2
    c3 = c3
    k1 = k1
    k2 = k2
    k3 = k3
    w1 = w1
    w2 = w2
    Provider = {p1, p2}
    Slug = {s1, s2}
    Name = {n1}
    Group = {g1}
    Caller = {boss, ann}
    Bare = Bare
    NoProvider = NoProvider
    Staff = {boss}
    GroupsOf <- MCGroupsOf
    TokenAllows <- MCTokenAllows
    Named <- MCNamed
    Forms <- MCForms
    Routes <- MCRoutes
    Window = {own, team1, team2}
    TokenWindow = own
    Length <- MCLength
    Budget <- MCBudget
    Quota = 2
    Call = {c1, c2}
    Connection = {k1, k2, k3}
    MaxConnections = 2
    MaxTime = 3
    MaxRows = 4
    Batch = 2
    Process = {w1, w2}
    Key = {"on"}
    NoValues = NoValues
    MaxTurns = 2
    Nobody = Nobody
INVARIANTS LimitsHold OneTickAtATime
PROPERTIES CatalogueKeepsItsWord RowsArrive SettingsArrive
CHECK_DEADLOCK FALSE
