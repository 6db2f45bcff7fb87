\* One request about ann at a time; edits of the group may come between its steps.
SPECIFICATION Spec
CONSTANTS
    boss = boss  guide = guide  ann = ann
    t1 = t1  t2 = t2  g1 = g1  hq = hq  org = org
    w1 = w1  w2 = w2
    User = {boss, guide, ann}
    Token = {t1, t2}
    Group = {g1}
    Team = {hq, org}
    NoToken = NoToken
    MainTeam = hq
    OwnerSubs = {boss}
    Bootstrap = FALSE
    Worker = {w1}
    Subject = {ann}
    Standings <- Moves
    MappingSets <- Mappings
    FirstRoles <- Roles
    FirstTokens <- Tokens
    MaxEpoch = 2
INVARIANTS NothingLeftBehind
PROPERTIES SessionsEnd TokensComeBack
