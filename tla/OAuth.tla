------------------------------- MODULE OAuth -------------------------------
(***************************************************************************)
(* One subscription credential: the login that creates it and the rotation  *)
(* of its single-use refresh token by requests in several processes         *)
(* (services/oauth_tokens.py, codex_oauth.py and xai_oauth.py, which differ *)
(* in what they make of an incomplete bundle or answer; the leases of       *)
(* oauth_coordination.py; the login handlers of api/admin/keys.py).         *)
(*                                                                          *)
(* A request keeps the key's row as it loaded it.  When its bundle is due   *)
(* it waits for the key's lease, reads the row again in a session of its    *)
(* own, sends the refresh token to the token endpoint, commits the answer   *)
(* and releases the lease.  The client may go away, and the process stop,   *)
(* at any point.  Tokens are numbered in the order they are issued.         *)
(***************************************************************************)
EXTENDS Integers, FiniteSets

CONSTANTS
    Request,      \* dispatches that use the key
    Manual,       \* operators' "refresh token" calls (keymgmt.refresh_token_one)
    Editor,       \* operators who edit the bundle's fields (keymgmt.update_key)
    Login,        \* submissions of one pasted authorization code, and
    Device,       \* of those the polls of one device grant (codex)
    Flows,        \* which of the OAuth services are considered
    FirstBundles, \* what an import may have stored, by service: [access, refresh : BOOLEAN]
    MaxIssued,    \* bound on the tokens the endpoint issues
    Free

Caller == Request \cup Manual
Process == Caller \cup Editor \cup Login
Flow == {"claude", "codex", "xai"}
Token == 0..MaxIssued            \* 0: there is none
Bundle == [access : Token, refresh : Token]
PastedCode == MaxIssued + 1       \* the authorization codes are numbered on
DeviceCode == MaxIssued + 2
Code == {PastedCode, DeviceCode}
CodeOf(l) == IF l \in Device THEN DeviceCode ELSE PastedCode

ASSUME ConstantsAssumption ==
    /\ Request \cap Manual = {} /\ Editor \cap Caller = {}
    /\ Login \cap (Caller \cup Editor) = {} /\ Device \subseteq Login
    /\ Free \notin Process
    /\ Flows \subseteq Flow
    /\ FirstBundles \in [Flow -> SUBSET [access : BOOLEAN, refresh : BOOLEAN]]
    /\ MaxIssued \in Nat \ {0, 1}

VARIABLES
    flow,
    broken,     \* whether the renewal of a lease has failed under its holder
    row,        \* the committed bundle, NoBundle when the key has no row
    owner, renewing,
    live,       \* refresh tokens the endpoint accepts
    issued,     \* tokens issued so far
    due,        \* access tokens up to this one are about to expire
    phase,
    force,      \* force_refresh
    view,       \* view[c]: the bundle in the row as c loaded it
    fresh,      \* fresh[c]: the bundle as c read it under the lease
    answer,     \* answer[p]: the bundle the endpoint sent p
    token,      \* token[c]: the access token c goes on with, 0 when resolving failed
    rejected,   \* rejected[c]: the token the upstream answered c's first 401 to
    state,      \* whether the login's state is in Redis
    code,       \* code[k]: whether the endpoint still accepts authorization code k
    lost        \* refresh tokens and codes whose successor nobody stored

lease == <<owner, renewing>>
endpoint == <<live, issued>>
caller == <<force, view, fresh, token, rejected>>
login == <<state, code>>
world == <<flow, broken>>
vars == <<world, row, lease, endpoint, due, phase, caller, answer, login, lost>>

L == INSTANCE Lease WITH Name <- {"refresh", "login"}

NoBundle == [access |-> 0, refresh |-> 0]

\* An imported bundle carries tokens 1 and 2; without one a login is under way.
Imported(b) == [access |-> IF b.access THEN 1 ELSE 0, refresh |-> IF b.refresh THEN 2 ELSE 0]

Init ==
    /\ flow \in Flows
    /\ broken = FALSE
    /\ \/ /\ row \in {Imported(b) : b \in FirstBundles[flow]}
          /\ live = {row.refresh} \ {0} /\ issued = 2
          /\ state = FALSE /\ code = [k \in Code |-> FALSE]
       \/ /\ Login # {}
          /\ row = NoBundle
          /\ live = {} /\ issued = 0
          /\ state = TRUE /\ code = [k \in Code |-> TRUE]  \* begin_login has stored the state
    /\ L!LeaseInit
    /\ due = 0
    \* An existing credential and a login are looked at apart.
    /\ phase = [p \in Process |-> IF p \in Login <=> state THEN "idle" ELSE "failed"]
    /\ force = [c \in Caller |-> c \in Manual]
    /\ view = [c \in Caller \cup Editor |-> NoBundle]
    /\ fresh = [c \in Caller |-> NoBundle]
    /\ answer = [p \in Process |-> NoBundle]
    /\ token = [c \in Caller |-> 0]
    /\ rejected = [c \in Caller |-> 0]
    /\ lost = {}

Goes(p, next) == phase' = [phase EXCEPT ![p] = next]
Moves(p, from, next) == phase[p] = from /\ Goes(p, next)

-----------------------------------------------------------------------------
(* What the three services make of a bundle, first in the caller's own copy  *)
(* of the row (AtOnce), then under the lease (UnderLease).                   *)

NeedsRefresh(b, forced) == forced \/ b.access <= due

\* A bundle without a refresh token, or a static token, is used as it is.
Static(b, forced) == IF forced \/ b.access = 0 THEN "fails" ELSE "returns"

ClaudeAtOnce(b, forced) ==
    IF b.refresh = 0 THEN Static(b, forced)
    ELSE IF NeedsRefresh(b, forced) THEN "waits" ELSE "returns"

CodexAtOnce(b, forced) ==
    IF b.refresh = 0 THEN Static(b, forced)
    ELSE IF b.access # 0 /\ ~forced /\ b.access > due THEN "returns" ELSE "waits"

XaiAtOnce(b, forced) ==
    IF b.refresh = 0
    THEN IF b.access = 0 \/ forced THEN "fails" ELSE "returns"
    ELSE IF ~NeedsRefresh(b, forced) THEN "returns" ELSE "waits"

AtOnce(b, forced) ==
    CASE flow = "claude" -> ClaudeAtOnce(b, forced)
      [] flow = "codex"  -> CodexAtOnce(b, forced)
      [] flow = "xai"    -> XaiAtOnce(b, forced)

\* A row that has changed since it was loaded carries somebody else's rotation
\* (or the caller's own) and is not refreshed again.
UnderLease(b, observed, forced) ==
    IF b # observed /\ b.access # 0 THEN "returns" ELSE AtOnce(b, forced)

-----------------------------------------------------------------------------
(* Resolving an access token.                                               *)

Load(c) ==
    /\ row # NoBundle
    /\ view' = [view EXCEPT ![c] = row]
    /\ Moves(c, "idle", IF c \in Editor THEN "editing" ELSE "resolving")
    /\ UNCHANGED <<world, row, lease, endpoint, due, force, fresh, token, rejected, answer, login, lost>>

Takes(c, t, next) ==
    /\ token' = [token EXCEPT ![c] = t]
    /\ Goes(c, next)

Resolve(c) ==
    /\ phase[c] = "resolving"
    /\ LET decision == AtOnce(view[c], force[c])
       IN  CASE decision = "returns" -> Takes(c, view[c].access, "using")
             [] decision = "fails"   -> Takes(c, 0, "failed")
             [] decision = "waits"   -> Goes(c, "waiting") /\ UNCHANGED token
    /\ UNCHANGED <<world, row, lease, endpoint, due, force, view, fresh, rejected, answer, login, lost>>

\* refresh_lease asks every 50 ms until it gets the lease.
TakeLease(c) ==
    /\ L!Acquire("refresh", c)
    /\ Moves(c, "waiting", "reading")
    /\ UNCHANGED <<world, row, endpoint, due, caller, answer, login, lost>>

\* Mutated form: the bundle loaded with the request is refreshed.
ReadAgainNot(c) ==
    /\ Moves(c, "reading", "posting")
    /\ fresh' = [fresh EXCEPT ![c] = view[c]]
    /\ UNCHANGED <<world, row, lease, endpoint, due, force, view, token, rejected, answer, login, lost>>

ReadAgain(c) ==
    /\ phase[c] = "reading"
    /\ fresh' = [fresh EXCEPT ![c] = row]
    /\ LET decision == IF row = NoBundle THEN "fails" ELSE UnderLease(row, view[c], force[c])
       IN  CASE decision = "returns" -> Takes(c, row.access, "releasing")
             [] decision = "fails"   -> Takes(c, 0, "releasing")
             [] decision = "waits"   -> Goes(c, "posting") /\ UNCHANGED token
    /\ UNCHANGED <<world, row, lease, endpoint, due, force, view, rejected, answer, login, lost>>

\* The endpoint takes the refresh token back for a new pair, or answers with an
\* access token alone, and then the stored refresh token stays.
Accept(c, rotates) ==
    /\ fresh[c].refresh \in live
    /\ issued < MaxIssued
    /\ issued' = issued + 1
    /\ LET old == fresh[c].refresh
           new == IF rotates THEN issued + 1 ELSE old
       IN  /\ live' = (live \ {old}) \cup {new}
           /\ answer' = [answer EXCEPT ![c] = [access |-> issued + 1, refresh |-> new]]
    /\ Moves(c, "posting", "answered")
    /\ UNCHANGED <<world, row, lease, due, caller, login, lost>>

\* The refresh token that the answer c holds has replaced.
Consumed(c) == {fresh[c].refresh} \ {answer[c].refresh}

\* The answer does not arrive: execute_request may post the same refresh token
\* over the next route, or gives up and leaves the lease.
LoseAnswer(c) ==
    /\ lost' = lost \cup Consumed(c)
    /\ Moves(c, "answered", "posting")
    /\ UNCHANGED <<world, row, lease, endpoint, due, caller, answer, login>>

\* A 4xx other than a block (LoginError, NotRefreshable).
Refuse(c) ==
    /\ phase[c] = "posting"
    /\ fresh[c].refresh \notin live
    /\ Takes(c, 0, "releasing")
    /\ UNCHANGED <<world, row, lease, endpoint, due, force, view, fresh, rejected, answer, login, lost>>

\* Network errors, blocks or 5xx on every route, or the deadline.
Unreachable(c) ==
    /\ phase[c] = "posting"
    /\ Takes(c, 0, "releasing")
    /\ UNCHANGED <<world, row, lease, endpoint, due, force, view, fresh, rejected, answer, login, lost>>

\* Mutated form: the answer's new refresh token is not taken over.
StoreAccessAlone(c) ==
    /\ phase[c] = "answered"
    /\ row' = [answer[c] EXCEPT !.refresh = fresh[c].refresh]
    /\ Takes(c, answer[c].access, "releasing")
    /\ UNCHANGED <<world, lease, endpoint, due, force, view, fresh, rejected, answer, login, lost>>

\* The rotation's own session commits before the lease is left; without the row
\* its UPDATE matches nothing and the commit fails.
Store(c) ==
    /\ phase[c] = "answered"
    /\ IF row # NoBundle
       THEN row' = answer[c] /\ Takes(c, answer[c].access, "releasing")
       ELSE Takes(c, 0, "releasing") /\ UNCHANGED row
    /\ UNCHANGED <<world, lease, endpoint, due, force, view, fresh, rejected, answer, login, lost>>

LeaveLease(c) ==
    /\ L!Release("refresh", c)
    /\ Moves(c, "releasing", IF token[c] # 0 THEN "using" ELSE "failed")
    /\ fresh' = [fresh EXCEPT ![c] = NoBundle]
    /\ answer' = [answer EXCEPT ![c] = NoBundle]
    /\ UNCHANGED <<world, row, endpoint, due, force, view, token, rejected, login, lost>>

-----------------------------------------------------------------------------
(* What the dispatcher does with the token, or without one.                 *)

\* What c knew of the credential goes out of scope.
Forget(c) ==
    /\ fresh' = [x \in Caller |-> IF x = c THEN NoBundle ELSE fresh[x]]
    /\ view' = [x \in Caller \cup Editor |-> IF x = c THEN NoBundle ELSE view[x]]
    /\ token' = [x \in Caller |-> IF x = c THEN 0 ELSE token[x]]
    /\ rejected' = [x \in Caller |-> IF x = c THEN 0 ELSE rejected[x]]
    /\ force' = [x \in Caller |-> IF x = c THEN c \in Manual ELSE force[x]]

\* Served, or a failure that is not an authentication failure.
Use(c) ==
    /\ Moves(c, "using", "done")
    /\ Forget(c)
    /\ UNCHANGED <<world, row, lease, endpoint, due, answer, login, lost>>

\* The first 401 forces a refresh from the row the request has loaded; the second
\* one disables the key.
Rejected401(c) ==
    /\ c \in Request
    /\ IF force[c]
       THEN Moves(c, "using", "disabled") /\ UNCHANGED <<force, rejected>>
       ELSE /\ force' = [force EXCEPT ![c] = TRUE]
            /\ rejected' = [rejected EXCEPT ![c] = token[c]]
            /\ Moves(c, "using", "resolving")
    /\ UNCHANGED <<world, row, lease, endpoint, due, view, fresh, token, answer, login, lost>>

\* A failed forced refresh keeps the 401's verdict; before the first answer
\* the key is left alone and the next one is tried.
GiveUp(c) ==
    /\ Moves(c, "failed", IF c \in Request /\ force[c] THEN "disabled" ELSE "done")
    /\ Forget(c)
    /\ UNCHANGED <<world, row, lease, endpoint, due, answer, login, lost>>

-----------------------------------------------------------------------------
(* Operators, the clock, the client and the processes.                      *)

\* update_key merges the fields it was given into the bundle it loaded, and does
\* not take the lease: a rotation committed meanwhile is overwritten.
EditStore(e) ==
    /\ flow = "claude"
    /\ issued < MaxIssued
    /\ Moves(e, "editing", "done")
    /\ row # NoBundle
    /\ view' = [view EXCEPT ![e] = NoBundle]
    /\ row' = [view[e] EXCEPT !.access = issued + 1]
    /\ issued' = issued + 1
    /\ lost' = lost \cup ({view[e].refresh} \ (live \cup {row.refresh}))
    /\ UNCHANGED <<world, live, lease, due, force, fresh, token, rejected, answer, login>>

\* A new secret pasted over the old one.
Replace(e) ==
    /\ row # NoBundle
    /\ issued < MaxIssued
    /\ Moves(e, "editing", "done")
    /\ view' = [view EXCEPT ![e] = NoBundle]
    /\ issued' = issued + 1
    /\ live' = live \cup {issued + 1}
    /\ row' = [access |-> issued + 1, refresh |-> issued + 1]
    /\ UNCHANGED <<world, lease, due, force, fresh, token, rejected, answer, login, lost>>

DeleteKey ==
    /\ row # NoBundle
    /\ row' = NoBundle
    /\ UNCHANGED <<world, lease, endpoint, due, phase, caller, answer, login, lost>>

\* The newest access token comes within NEAR_EXPIRY_SECONDS of its expiry.
Expire ==
    /\ row.access > due
    /\ due' = row.access
    /\ UNCHANGED <<world, row, lease, endpoint, phase, caller, answer, login, lost>>

Ended == {"done", "failed", "disabled"}
Holder == {"reading", "posting", "answered", "releasing"}

\* p ends while it holds a lease or a login's answer; elsewhere it has nothing that
\* others could miss.
Vanishes(p) ==
    /\ phase[p] \in Holder \cup {"claimed", "discarded", "leaving", "inserting"}
    /\ Goes(p, "done")
    /\ lost' = IF phase[p] \notin {"answered", "discarded", "inserting"} THEN lost
               ELSE lost \cup (IF p \in Caller THEN Consumed(p) ELSE {CodeOf(p)})
    /\ answer' = [answer EXCEPT ![p] = NoBundle]
    /\ Forget(p)
    /\ UNCHANGED <<world, row, endpoint, due, login>>

\* The client goes away: the session rolls back; the release of the lease may be
\* cancelled in its turn (database.py:111), and the renewal has been.
Cancel(c) ==
    /\ c \in Request
    /\ Vanishes(c)
    /\ L!Release("refresh", c) \/ L!HolderStops(c)

Crash(p) ==
    /\ Vanishes(p)
    /\ L!HolderStops(p)

RenewalFails(n) ==
    /\ L!RenewalDies(n)
    /\ broken' = TRUE
    /\ UNCHANGED <<flow, row, endpoint, due, phase, caller, answer, login, lost>>

RunsOut(n) ==
    /\ L!RunsOut(n)
    /\ UNCHANGED <<world, row, endpoint, due, phase, caller, answer, login, lost>>

-----------------------------------------------------------------------------
(* The login: LoginStateStore.claim, complete_login, the handlers in keys.py.*)

\* A second submission of the same state fails at once while one is under way.
Claim(l) ==
    /\ l \in Login \ Device
    /\ \/ L!Acquire("login", l) /\ Moves(l, "idle", "claimed")
       \/ owner["login"] # Free /\ Moves(l, "idle", "failed") /\ UNCHANGED lease
    /\ UNCHANGED <<world, row, endpoint, due, caller, answer, login, lost>>

\* What was pasted: the code, something unreadable, or another login's URL (or
\* another provider's page), and then the state is burned.
Paste == {"code", "unreadable", "foreign"}

Peek(l) ==
    /\ \E paste \in Paste :
          /\ Moves(l, "claimed", IF state /\ paste = "code" THEN "posting" ELSE "leaving")
          /\ state' = (state /\ paste # "foreign")
    /\ UNCHANGED <<world, row, lease, endpoint, due, caller, answer, code, lost>>

\* Device login (codex): each poll asks for the grant, under no lease.
Poll(l) ==
    /\ l \in Device
    /\ flow = "codex"
    /\ Moves(l, "idle", "posting")
    /\ UNCHANGED <<world, row, lease, endpoint, due, caller, answer, login, lost>>

\* The endpoint accepts an authorization code once.
Exchange(l) ==
    /\ code[CodeOf(l)]
    /\ issued < MaxIssued
    /\ code' = [code EXCEPT ![CodeOf(l)] = FALSE]
    /\ issued' = issued + 1
    /\ live' = live \cup {issued + 1}
    /\ answer' = [answer EXCEPT ![l] = [access |-> issued + 1, refresh |-> issued + 1]]
    /\ Moves(l, "posting", "answered")
    /\ UNCHANGED <<world, row, lease, due, caller, state, lost>>

LoseExchange(l) ==
    /\ lost' = lost \cup {CodeOf(l)}
    /\ Moves(l, "answered", "posting")
    /\ UNCHANGED <<world, row, lease, endpoint, due, caller, answer, login>>

\* LoginError: the code is refused, or the answer lacks a token; the state is burned.
ExchangeRefused(l) ==
    /\ ~code[CodeOf(l)]
    /\ Moves(l, "posting", "leaving")
    /\ state' = (state /\ CodeOf(l) # PastedCode)
    /\ UNCHANGED <<world, row, lease, endpoint, due, caller, answer, code, lost>>

\* LoginUpstreamError: the state is kept for another try.
ExchangeUnreachable(l) ==
    /\ Moves(l, "posting", "leaving")
    /\ UNCHANGED <<world, row, lease, endpoint, due, caller, answer, login, lost>>

\* Mutated form: the state is left to its time to live.
DiscardForgotten(l) ==
    /\ Moves(l, "answered", "discarded")
    /\ UNCHANGED <<world, row, lease, endpoint, due, caller, answer, login, lost>>

Discard(l) ==
    /\ Moves(l, "answered", "discarded")
    /\ state' = (state /\ CodeOf(l) # PastedCode)
    /\ UNCHANGED <<world, row, lease, endpoint, due, caller, answer, code, lost>>

LeaveClaim(l) ==
    /\ \/ Moves(l, "discarded", "inserting")
       \/ Moves(l, "leaving", "failed")
    /\ L!Release("login", l)
    /\ UNCHANGED <<world, row, endpoint, due, caller, answer, login, lost>>

\* "We always insert a fresh key."
Insert(l) ==
    /\ Moves(l, "inserting", "done")
    /\ row' = answer[l]
    /\ answer' = [answer EXCEPT ![l] = NoBundle]
    /\ UNCHANGED <<world, lease, endpoint, due, caller, login, lost>>

StateExpires ==
    /\ state
    /\ state' = FALSE
    /\ UNCHANGED <<world, row, lease, endpoint, due, phase, caller, answer, code, lost>>

-----------------------------------------------------------------------------
CallerStep(c) ==
    \/ Load(c) \/ Resolve(c) \/ TakeLease(c) \/ ReadAgain(c)
    \/ \E rotates \in BOOLEAN : Accept(c, rotates)
    \/ LoseAnswer(c) \/ Refuse(c) \/ Unreachable(c) \/ Store(c) \/ LeaveLease(c)
    \/ Use(c) \/ Rejected401(c) \/ GiveUp(c) \/ Cancel(c)

LoginStep(l) ==
    \/ Claim(l) \/ Peek(l) \/ Poll(l) \/ Exchange(l) \/ LoseExchange(l)
    \/ ExchangeRefused(l) \/ ExchangeUnreachable(l) \/ Discard(l) \/ LeaveClaim(l)
    \/ Insert(l)

Next ==
    \/ \E c \in Caller : CallerStep(c)
    \/ \E e \in Editor : Load(e) \/ EditStore(e) \/ Replace(e)
    \/ \E l \in Login : LoginStep(l)
    \/ \E p \in Process : Crash(p)
    \/ DeleteKey \/ Expire \/ StateExpires
    \/ \E n \in {"refresh", "login"} : RenewalFails(n) \/ RunsOut(n)

\* A process that runs goes on; the endpoint answers or the deadline passes, and a
\* lease nobody renews runs out.
GoesOn(c) ==
    \/ Resolve(c) \/ TakeLease(c) \/ ReadAgain(c) \/ Refuse(c) \/ Unreachable(c)
    \/ Store(c) \/ LeaveLease(c) \/ Use(c) \/ GiveUp(c)

Fairness == /\ \A c \in Caller : WF_vars(GoesOn(c))
            /\ WF_vars(RunsOut("refresh"))

Spec == Init /\ [][Next]_vars
FairSpec == Spec /\ Fairness

-----------------------------------------------------------------------------
Phase == {"idle", "resolving", "waiting", "using", "editing", "claimed", "leaving", "discarded",
          "inserting"} \cup Ended \cup Holder

TypeOK ==
    /\ flow \in Flows /\ broken \in BOOLEAN
    /\ row \in Bundle
    /\ L!LeaseType
    /\ live \subseteq 1..MaxIssued /\ issued \in Token
    /\ due \in Token
    /\ phase \in [Process -> Phase]
    /\ force \in [Caller -> BOOLEAN]
    /\ view \in [Caller \cup Editor -> Bundle]
    /\ fresh \in [Caller -> Bundle]
    /\ answer \in [Process -> Bundle]
    /\ token \in [Caller -> Token] /\ rejected \in [Caller -> Token]
    /\ state \in BOOLEAN /\ code \in [Code -> BOOLEAN]
    /\ lost \subseteq Token \cup Code

\* While leases are renewed, the stored refresh token is one the endpoint accepts, or
\* its successor is in the hands of the caller that is about to commit it, unless the
\* answer to its use was lost (nobody could store it) or an edit wrote it back over its
\* rotation: both strand the credential for good, as does the end of a renewal, after
\* which nothing is claimed (oauth_tokens.py:456-484).
CredentialSurvives ==
    ~broken /\ row.refresh \notin lost \cup {0} =>
        \/ row.refresh \in live
        \/ \E c \in Caller : phase[c] = "answered" /\ Consumed(c) = {row.refresh}

\* Together with the type invariant.
CredentialSound == TypeOK /\ CredentialSurvives

\* A login whose code was spent loses its state: while the state is there, the code is
\* unspent, or was spent in an exchange that is under way or whose answer was lost
\* (oauth_tokens.py:195, "the login state is burned").  Nothing is said of the converse:
\* the page of another login and the expiry end a login that could still be completed.
PendingStateUsable ==
    state => \/ code[PastedCode] \/ PastedCode \in lost
             \/ \E l \in Login \ Device : phase[l] = "answered"

\* While leases are renewed, requests and operators that overlap, or two submissions of
\* one pasted login, do not spend a refresh token or a code under one another's hands:
\* the endpoint refuses one only where the answer to its first use was lost, so that it
\* was sent again.  Device logins are polled and have no such code
\* (oauth_tokens.py:473, oauth_coordination.py:49-63).
SingleUse ==
    [][~broken => /\ \A c \in Caller : Refuse(c) => fresh[c].refresh \in lost
                  /\ \A l \in Login \ Device : ExchangeRefused(l) => CodeOf(l) \in lost]_vars

\* A caller that waits for the lease gets through, whatever became of its holder.
LeaseIsReached ==
    \A c \in Caller : []<>(phase[c] # "waiting")

\* Before a key is given up for a 401, its token has been refreshed: the two tokens
\* that were refused are not the same (dispatcher.py:863).
RefreshedBeforeDisabled ==
    \A c \in Request : phase[c] = "disabled" /\ token[c] # 0 => token[c] # rejected[c]

\* An edit of the bundle's fields keeps the refresh token a rotation has stored
\* (oauth_tokens.py:459, "keeps the single-use refresh token durable").
RotationIsDurable ==
    [][\A e \in Editor : EditStore(e) => row'.refresh = row.refresh]_vars
=============================================================================
