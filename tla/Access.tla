------------------------------- MODULE Access -------------------------------
(***************************************************************************)
(* Accounts, role groups, dashboard sessions and Void-Tokens: who may sign   *)
(* in, who may put somebody out, and what comes back at the next login       *)
(* (core/auth.py, services/role_groups.py, api/auth.py, api/me.py and        *)
(* users.py, tokens.py and role_groups.py of api/admin).                     *)
(*                                                                          *)
(* Every request works in a database session of its own: it loads the rows   *)
(* it needs, changes its copies, and as it answers writes the columns it has *)
(* changed.  Requests about an account are two steps here, what one loads    *)
(* and what it writes; edits of role groups touch no account and are one.    *)
(*                                                                          *)
(* Co-owners have the powers and the rank of owners: one tier stands for     *)
(* both.  Dev mode, expiry of sessions and tokens, and the rotation of       *)
(* secrets are left out.                                                     *)
(***************************************************************************)
EXTENDS Naturals, FiniteSets

CONSTANTS
    User, Token, Group, Team,
    NoToken,
    MainTeam,      \* admin.main_team_id
    OwnerSubs,     \* admin.owner_subs and owner_emails
    Bootstrap,     \* admin.bootstrap_first_user
    Worker,        \* requests that may be in progress at once
    Subject,       \* users the instance has requests about
    Standings,     \* Standings[u]: what Prism may say of u
    MappingSets,   \* mapping lists an owner may give a group
    FirstRoles,    \* FirstRoles[u]: u's role at the start, "absent" without a row
    FirstTokens,   \* FirstTokens[t]: whose t is at the start
    MaxEpoch       \* bound on session_epoch

Role == {"member", "admin", "owner"}
RankOf == [absent |-> 0, member |-> 1, admin |-> 2, owner |-> 3]
Staff == {"admin", "owner"}
TeamRole == 0..3    \* rank of a role in a Prism team, 0 for no member
Mapping == [team : Team, min : 1..3, grants : {"member", "admin"}]
Source == {"none", "auto", "manual"}

NoUser == NoToken

AccountRow == [role : Role \cup {"absent"}, enabled : BOOLEAN, epoch : 0..MaxEpoch,
               parked : BOOLEAN]   \* parked: void_tokens_admin_disabled
TokenRow == [of : User \cup {NoUser}, enabled : BOOLEAN, auto : BOOLEAN, deleted : BOOLEAN]

ASSUME AccessConstants ==
    /\ MainTeam \in Team /\ OwnerSubs \subseteq User /\ Subject \subseteq User
    /\ NoToken \notin Token \cup User
    /\ Bootstrap \in BOOLEAN
    /\ \A u \in User : Standings[u] \subseteq [Team -> TeamRole]
    /\ MappingSets \subseteq SUBSET Mapping
    /\ FirstRoles \in [User -> Role \cup {"absent"}]
    /\ FirstTokens \in [Token -> User \cup {NoUser}]
    /\ MaxEpoch \in Nat

VARIABLES
    acct,      \* acct[u]: u's row in users
    tok,       \* tok[t]: t's row in void_tokens, of = NoUser when there is none
    member,    \* member[u][g]: source of u's membership row of g
    observer,  \* observer[u][g]: source of u's adminship row of g
    enforced,  \* whether the database enforces foreign keys: PostgreSQL does, SQLite as
               \* it is deployed does not
    there,     \* ids of the custom role groups
    mapped,    \* mapped[g]: its mappings
    standing,  \* standing[u]: u's roles in the Prism teams
    jwt,       \* jwt[u]: epochs of the session tokens u has been given
    job,       \* job[w]: the request in progress and what it has loaded
    granted    \* granted[u]: groups the mappings gave u at the last login

rows == <<acct, tok, member, observer>>
groups == <<enforced, there, mapped>>
vars == <<rows, groups, standing, jwt, job, granted>>

NoGroups == [g \in Group |-> "none"]
Idle == [op |-> "idle"]

Init ==
    /\ acct = [u \in User |-> [role |-> FirstRoles[u], enabled |-> TRUE, epoch |-> 0,
                               parked |-> FALSE]]
    /\ tok = [t \in Token |-> [of |-> FirstTokens[t], enabled |-> FirstTokens[t] # NoUser,
                               auto |-> FALSE, deleted |-> FALSE]]
    /\ enforced \in BOOLEAN
    /\ there = Group
    /\ mapped \in [Group -> MappingSets]
    /\ standing \in {s \in [User -> [Team -> TeamRole]] : \A u \in User : s[u] \in Standings[u]}
    /\ member \in {m \in [User -> [Group -> Source]] :
                     \A u \in User, g \in Group :
                        m[u][g] \in IF u \in Subject THEN {"none", "manual"} ELSE {"none"}}
    /\ observer = [u \in User |-> [g \in Group |-> IF FirstRoles[u] = "member" /\ u \notin Subject
                                                   THEN "manual" ELSE "none"]]
    /\ jwt = [u \in User |-> IF FirstRoles[u] = "absent" THEN {} ELSE {0}]
    /\ job = [w \in Worker |-> Idle]
    /\ granted = [u \in User |-> {}]

-----------------------------------------------------------------------------
(* Guards.                                                                  *)

\* get_current_user: the account is enabled and the session of its epoch.
SignedIn(u) == /\ acct[u].role # "absent"
               /\ acct[u].enabled
               /\ acct[u].epoch \in jwt[u]

OwnerActs == \E u \in User : SignedIn(u) /\ acct[u].role = "owner"

Manages(u) == {g \in Group : observer[u][g] # "none"}

\* authenticate_void_token.
Admitted(t) == /\ tok[t].of # NoUser
               /\ tok[t].enabled
               /\ acct[tok[t].of].enabled

\* evaluate_auto_group_ids.
AutoGroups(u, kind) ==
    {g \in there : \E m \in mapped[g] : /\ m.grants = kind
                                        /\ standing[u][m.team] > 0
                                        /\ standing[u][m.team] >= m.min}

First == \A u \in User : acct[u].role = "absent"

\* _resolve_role: the configuration, the main team, the first user.
ResolvedRole(u) ==
    CASE u \in OwnerSubs -> "owner"
      [] u \notin OwnerSubs /\ standing[u][MainTeam] = 3 -> "owner"
      [] u \notin OwnerSubs /\ standing[u][MainTeam] = 2 -> "admin"
      [] OTHER -> IF First /\ Bootstrap /\ u \notin OwnerSubs THEN "owner" ELSE "member"

\* LoginDenied otherwise.  The role stored in the row does not count.
MayLogIn(u) == \/ ResolvedRole(u) \in Staff
               \/ AutoGroups(u, "member") # {}
               \/ AutoGroups(u, "admin") # {}

\* _merge_role.
MergedRole(stored, resolved) ==
    IF resolved = "owner" \/ RankOf[resolved] > RankOf[stored] THEN resolved ELSE stored

-----------------------------------------------------------------------------
(* What a request loads, and what it writes.                                *)

\* The columns it changed, over what the row holds by now.
Written(now, seen, new) == [c \in DOMAIN now |-> IF new[c] = seen[c] THEN now[c] ELSE new[c]]

Loads(w, op, u, t, more) ==
    /\ job[w] = Idle
    /\ u \in Subject
    /\ job' = [job EXCEPT ![w] =
                 [op |-> op, on |-> u, t |-> t, acct |-> acct[u], tok |-> tok,
                  member |-> member[u], observer |-> observer[u], more |-> more]]
    /\ UNCHANGED <<rows, groups, standing, jwt, granted>>

Writes(w, account, tokens) ==
    LET j == job[w]
    IN  /\ acct' = [acct EXCEPT ![j.on] = Written(@, j.acct, account)]
        /\ tok' = [t \in Token |-> Written(tok[t], j.tok[t], tokens[t])]
        /\ job' = [job EXCEPT ![w] = Idle]

-----------------------------------------------------------------------------
(* Signing in: the Prism callback and its upsert_user.                      *)

LoginLoads(w, u) ==
    /\ MayLogIn(u)
    /\ Loads(w, "login", u, NoToken,
             [role |-> ResolvedRole(u), member |-> AutoGroups(u, "member"),
              observer |-> AutoGroups(u, "admin")])

\* sync_auto_memberships, sync_auto_adminships: the rows to add and to delete.
Added(seen, desired) == {g \in desired : seen[g] = "none"}
Dropped(seen, desired) == {g \in Group \ desired : seen[g] = "auto"}

\* Mutated form: a row that no mapping grants any more stays.
SyncedAdding(now, seen, desired) ==
    [g \in Group |-> IF g \in Added(seen, desired) THEN "auto" ELSE now[g]]

Synced(now, seen, desired) ==
    [g \in Group |-> IF g \in Added(seen, desired) THEN "auto"
                     ELSE IF g \in Dropped(seen, desired) THEN "none" ELSE now[g]]

\* A row to add is there, a row to delete is not, or the group is not.
Clashes(now, seen, desired) ==
    \/ \E g \in Added(seen, desired) : now[g] # "none" \/ (enforced /\ g \notin there)
    \/ \E g \in Dropped(seen, desired) : now[g] = "none"

LoginClashes(j) ==
    \/ j.acct.role = "absent" /\ acct[j.on].role # "absent"
    \/ Clashes(member[j.on], j.member, j.more.member)
    \/ Clashes(observer[j.on], j.observer, j.more.observer)

\* Mutated form: every token of the user is switched on.
RestoredAll(j) ==
    IF j.acct.enabled /\ j.acct.parked
    THEN [t \in Token |-> IF j.tok[t].of = j.on /\ ~j.tok[t].deleted
                          THEN [j.tok[t] EXCEPT !.enabled = TRUE, !.auto = FALSE]
                          ELSE j.tok[t]]
    ELSE j.tok

\* restore_auto_disabled_tokens.
Restored(j) ==
    IF j.acct.enabled /\ j.acct.parked
    THEN [t \in Token |-> IF j.tok[t].of = j.on /\ ~j.tok[t].deleted /\ j.tok[t].auto
                          THEN [j.tok[t] EXCEPT !.enabled = TRUE, !.auto = FALSE]
                          ELSE j.tok[t]]
    ELSE j.tok

LoginWrites(w) ==
    LET j == job[w]
    IN  /\ j.op = "login"
        /\ ~LoginClashes(j)
        /\ Writes(w, [j.acct EXCEPT !.role = MergedRole(@, j.more.role),
                                    !.parked = @ /\ ~j.acct.enabled],
                  Restored(j))
        /\ member' = [member EXCEPT ![j.on] = Synced(@, j.member, j.more.member)]
        /\ observer' = [observer EXCEPT ![j.on] = Synced(@, j.observer, j.more.observer)]
        /\ jwt' = [jwt EXCEPT ![j.on] = @ \cup {j.acct.epoch}]
        /\ granted' = [granted EXCEPT ![j.on] = j.more.member \cup j.more.observer]
        /\ UNCHANGED <<groups, standing>>

\* The commit fails and with it the request.
LoginFails(w) ==
    /\ job[w].op = "login"
    /\ LoginClashes(job[w])
    /\ job' = [job EXCEPT ![w] = Idle]
    /\ UNCHANGED <<rows, groups, standing, jwt, granted>>

\* token_login: staff hold login tokens; nothing is evaluated or restored.
TokenLogin(u) ==
    /\ acct[u].role \in Staff
    /\ acct[u].enabled
    /\ jwt' = [jwt EXCEPT ![u] = @ \cup {acct[u].epoch}]
    /\ UNCHANGED <<rows, groups, standing, job, granted>>

-----------------------------------------------------------------------------
(* update_user and force_logout_user.                                       *)

\* Nobody changes the role of an owner or their own.
RoleLoads(w, by, u) ==
    /\ SignedIn(by) /\ acct[by].role = "owner"
    /\ acct[u].role \in {"member", "admin"} /\ u # by
    /\ Loads(w, "role", u, NoToken, IF acct[u].role = "admin" THEN "member" ELSE "admin")

RoleWrites(w) ==
    /\ job[w].op = "role"
    /\ Writes(w, [job[w].acct EXCEPT !.role = job[w].more], job[w].tok)
    /\ UNCHANGED <<member, observer, groups, standing, jwt, granted>>

EnableLoads(w, by, u) ==
    /\ SignedIn(by) /\ acct[by].role = "owner"
    /\ acct[u].role # "absent" /\ ~acct[u].enabled
    /\ Loads(w, "enable", u, NoToken, "none")

EnableWrites(w) ==
    /\ job[w].op = "enable"
    /\ Writes(w, [job[w].acct EXCEPT !.enabled = TRUE], job[w].tok)
    /\ UNCHANGED <<member, observer, groups, standing, jwt, granted>>

DisableLoads(w, by, u) ==
    /\ SignedIn(by) /\ acct[by].role = "owner"
    /\ acct[u].role \in {"member", "admin"} /\ acct[u].enabled /\ u # by
    /\ acct[u].epoch < MaxEpoch
    /\ Loads(w, "disable", u, NoToken, "none")

\* Staff put out whom they outrank; a group's observer its members, but neither
\* staff nor another observer of the group.
MayPutOut(by, u) ==
    \/ acct[by].role \in Staff /\ RankOf[acct[by].role] > RankOf[acct[u].role]
    \/ /\ acct[by].role = "member"
       /\ acct[u].role = "member"
       /\ \E g \in Manages(by) : member[u][g] # "none"
       /\ Manages(by) \cap Manages(u) = {}

ForceLogoutLoads(w, by, u) ==
    /\ SignedIn(by)
    /\ acct[u].role # "absent" /\ u # by
    /\ MayPutOut(by, u)
    /\ acct[u].epoch < MaxEpoch
    /\ Loads(w, "logout", u, NoToken, "none")

\* _auto_disable_tokens.
Parked(j) ==
    [t \in Token |-> IF j.tok[t].of = j.on /\ ~j.tok[t].deleted /\ j.tok[t].enabled
                     THEN [j.tok[t] EXCEPT !.enabled = FALSE, !.auto = TRUE]
                     ELSE j.tok[t]]

\* Mutated form: the epoch stays.
PutOutKeepingEpoch(w) ==
    LET j == job[w]
    IN  /\ j.op \in {"disable", "logout"}
        /\ Writes(w, [j.acct EXCEPT !.parked = TRUE, !.enabled = @ /\ j.op = "logout"], Parked(j))
        /\ UNCHANGED <<member, observer, groups, standing, jwt, granted>>

PutOut(w) ==
    LET j == job[w]
    IN  /\ j.op \in {"disable", "logout"}
        /\ Writes(w, [j.acct EXCEPT !.epoch = @ + 1, !.parked = TRUE,
                                    !.enabled = @ /\ j.op = "logout"],
                  Parked(j))
        /\ UNCHANGED <<member, observer, groups, standing, jwt, granted>>

-----------------------------------------------------------------------------
(* Void-Tokens: one's own (api/me.py), anybody's for an owner (tokens.py).  *)

MayChangeTokens(u) == OwnerActs \/ SignedIn(u)

CreateLoads(w, u) ==
    /\ MayChangeTokens(u)
    /\ acct[u].role # "absent"
    /\ \E t \in Token :
          /\ tok[t].of = NoUser
          /\ \A v \in Worker : job[v].op = "create" => job[v].t # t
          /\ Loads(w, "create", u, t, "none")

CreateWrites(w) ==
    /\ job[w].op = "create"
    /\ Writes(w, job[w].acct,
              [job[w].tok EXCEPT ![job[w].t].of = job[w].on, ![job[w].t].enabled = TRUE])
    /\ UNCHANGED <<member, observer, groups, standing, jwt, granted>>

ChangeLoads(w, u) ==
    /\ MayChangeTokens(u)
    /\ \E t \in Token, op \in {"on", "off", "delete"} :
          tok[t].of = u /\ ~tok[t].deleted /\ Loads(w, op, u, t, "none")

ChangeWrites(w) ==
    LET j == job[w]
    IN  /\ j.op \in {"on", "off", "delete"}
        /\ Writes(w, j.acct,
                  [j.tok EXCEPT ![j.t] = [@ EXCEPT !.enabled = j.op = "on", !.auto = FALSE,
                                                   !.deleted = j.op = "delete"]])
        /\ UNCHANGED <<member, observer, groups, standing, jwt, granted>>

-----------------------------------------------------------------------------
(* Role groups.                                                             *)

MapGroup(g, ms) ==
    /\ OwnerActs
    /\ g \in there
    /\ mapped' = [mapped EXCEPT ![g] = ms]
    /\ UNCHANGED <<rows, enforced, there, standing, jwt, job, granted>>

\* The id of a deleted group may be given again, on SQLite.
CreateGroup(g, ms) ==
    /\ OwnerActs
    /\ g \notin there
    /\ there' = there \cup {g}
    /\ mapped' = [mapped EXCEPT ![g] = ms]
    /\ UNCHANGED <<rows, enforced, standing, jwt, job, granted>>

Without(held, g) == [u \in User |-> [held[u] EXCEPT ![g] = "none"]]

\* The rows of the group go with it on every database (cascade of the mapped class).
DeleteGroup(g) ==
    /\ OwnerActs
    /\ g \in there
    /\ there' = there \ {g}
    /\ mapped' = [mapped EXCEPT ![g] = {}]
    /\ member' = Without(member, g)
    /\ observer' = Without(observer, g)
    /\ UNCHANGED <<acct, tok, enforced, standing, jwt, job, granted>>

\* remove_role_group_member, whatever the source of the row.
RemoveMember(u, g) ==
    /\ OwnerActs
    /\ g \in there /\ member[u][g] # "none"
    /\ member' = [member EXCEPT ![u][g] = "none"]
    /\ UNCHANGED <<acct, tok, observer, groups, standing, jwt, job, granted>>

\* The identity provider: a team changes.
TeamChanges(u) ==
    /\ \E s \in Standings[u] : standing' = [standing EXCEPT ![u] = s]
    /\ UNCHANGED <<rows, groups, jwt, job, granted>>

-----------------------------------------------------------------------------
Begin(w) ==
    \E u \in Subject :
        \/ LoginLoads(w, u)
        \/ \E by \in User : RoleLoads(w, by, u)
        \/ \E by \in User : EnableLoads(w, by, u)
        \/ \E by \in User : DisableLoads(w, by, u)
        \/ \E by \in User : ForceLogoutLoads(w, by, u)
        \/ CreateLoads(w, u)
        \/ ChangeLoads(w, u)

Answer(w) == \/ LoginWrites(w) \/ LoginFails(w)
             \/ RoleWrites(w) \/ EnableWrites(w) \/ PutOut(w)
             \/ CreateWrites(w) \/ ChangeWrites(w)

GroupEdit == \E g \in Group : \/ \E ms \in MappingSets : MapGroup(g, ms) \/ CreateGroup(g, ms)
                              \/ DeleteGroup(g)
                              \/ \E u \in Subject : RemoveMember(u, g)

Next == \/ \E w \in Worker : Begin(w) \/ Answer(w)
        \/ \E u \in Subject : TokenLogin(u) \/ TeamChanges(u)
        \/ GroupEdit

Spec == Init /\ [][Next]_vars

-----------------------------------------------------------------------------
\* Once a disabling or a forced logout has been written, no session token that is
\* out by then is accepted (update_user and force_logout_user bump the epoch).
SessionsEnd ==
    [][\A w \in Worker : job[w].op \in {"disable", "logout"} /\ job'[w] = Idle
          => \A u \in User : u = job[w].on => ~SignedIn(u)']_vars

\* A token that was off is admitted again only because somebody asked for that
\* token or, when a disabling or a forced logout had parked it, because its user
\* signed in (restore_auto_disabled_tokens, and update_user when it re-enables).
TokensComeBack ==
    [][\A t \in Token : ~tok[t].enabled /\ tok'[t].enabled
          => \E w \in Worker :
                /\ job[w].op # "idle" /\ job'[w] = Idle
                /\ \/ job[w].op \in {"create", "on"} /\ job[w].t = t
                   \/ job[w].op = "login" /\ tok[t].auto]_vars

\* What the mappings gave and no longer give is gone after the next login, whatever
\* owners edit meanwhile; where foreign keys are enforced no row outlives its group, also
\* when a login that has evaluated the mappings before writes after the deletion; and a
\* token that was parked is not forgotten, its account remembers to restore it
\* (sync_auto_memberships, sync_auto_adminships, _auto_disable_tokens).
MembershipsHaveAReason ==
    \A u \in User, g \in Group :
        /\ "auto" \in {member[u][g], observer[u][g]} => g \in granted[u]
        /\ enforced /\ g \notin there => member[u][g] = "none" /\ observer[u][g] = "none"

ParkedIsRemembered ==
    \A t \in Token : tok[t].auto /\ ~tok[t].deleted => acct[tok[t].of].parked

NothingLeftBehind == MembershipsHaveAReason /\ ParkedIsRemembered
=============================================================================
