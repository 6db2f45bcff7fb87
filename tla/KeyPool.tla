------------------------------ MODULE KeyPool ------------------------------
(***************************************************************************)
(* The rows of a provider's upstream API keys (models/db.py, ApiKey) and    *)
(* everybody who writes them: the dispatcher of each client request, the    *)
(* balance probe, the slow rescan and the on-demand balance refresh, and an *)
(* operator using the key-management API.                                   *)
(*                                                                          *)
(* A database session keeps the rows it loaded until it ends               *)
(* (core/database.py: expire_on_commit and autoflush are off) and, when it  *)
(* commits, updates only the columns whose value differs from the one it    *)
(* knows.  A session that awaits an upstream therefore writes on top of a   *)
(* row that others have changed, column by column.  A commit that updates a *)
(* row somebody deleted fails as a whole (StaleDataError).                  *)
(*                                                                          *)
(* A handler of the operator's holds the row it loaded in the same way, for *)
(* a few statements or, where it refreshes a credential, for as long as the *)
(* token endpoint takes.  A rotation, whoever asks for it, reads and writes *)
(* the row in a transaction of its own.  Deletions are single steps, except *)
(* the bulk cleanup, which deletes the rows an earlier query returned.      *)
(***************************************************************************)
EXTENDS Integers, FiniteSets

CONSTANTS
    Key,
    Request,       \* dispatches that may be in flight at once
    Probe,         \* sweeps of the active keys (tasks/balance_probe.py)
    Rescan,        \* sweeps of the keys out of balance (tasks/balance_rescan.py)
    Refresh,       \* balance refreshes of every key (keymgmt.refresh_balances)
    Handler,       \* operator requests for one key that may run at once
    Operator,      \* the operator actions that may happen
    SetByHand,     \* statuses an operator may give a key
    Cooldown,      \* seconds a 429 parks a key for
    MaxTime,       \* bound on the clock
    MaxSecret      \* bound on the number of secrets a key goes through

Sweep == Probe \cup Rescan \cup Refresh
KeyUser == Request \cup Handler   \* the sessions that work with one key
OperatorAction == {"update", "refresh_token", "delete", "cleanup"}
KeyStatus == {"active", "rate_limited", "invalid", "insufficient_balance", "disabled"}
Dead == {"invalid", "insufficient_balance"}   \* keymgmt.CLEANUP_TARGETS

NoTime == -1
Time == {NoTime} \cup 0..(MaxTime + Cooldown)
Secret == 1..MaxSecret

ASSUME ConstantsAssumption ==
    /\ Request \cap Sweep = {} /\ Handler \cap Sweep = {} /\ Request \cap Handler = {}
    /\ Probe \cap Rescan = {} /\ Probe \cap Refresh = {} /\ Rescan \cap Refresh = {}
    /\ Operator \subseteq OperatorAction
    /\ SetByHand \subseteq KeyStatus
    /\ Cooldown \in Nat
    /\ MaxTime \in Nat
    /\ MaxSecret \in Nat \ {0}

\* The columns the pool's behaviour depends on: status, rate_limit_until and
\* key_ciphertext (as a version number).
Row == [status : KeyStatus, until : Time, secret : Secret]

VARIABLES
    now,
    exists,    \* keys that have a row
    row,       \* the committed rows
    phase,     \* where each session is
    view,      \* view[s]: the rows as session s holds them
    using,     \* the key a request has sent upstream, or a handler is about
    issued,    \* the newest secret a key has been given, stored or not
    rotation,  \* the secret a rotation read, and the one it was given for it
    loaded,    \* the rows a sweep loaded, which its commit compares with
    todo,      \* keys a sweep has still to check
    checked,   \* keys a sweep has a reading for, written at its end
    doomed,    \* keys the cleanup's query returned
    held       \* keys an operator disabled, until an operator sets another status

rows == <<exists, row>>
secrets == <<issued, rotation>>
sweeps == <<loaded, todo, checked>>
vars == <<now, rows, phase, view, using, secrets, sweeps, doomed, held>>

Session == KeyUser \cup Sweep
Phase == {"idle", "picking", "waiting", "checking", "editing", "posting", "rotated", "reread"}

\* A session that is not running holds no rows.
NoRows == [k \in Key |-> [status |-> "disabled", until |-> NoTime, secret |-> 1]]
NoRotation == [read |-> 1, fresh |-> 1]

Init ==
    /\ now = 0
    /\ exists = Key
    /\ row \in [Key -> {r \in Row : /\ r.status \in {"active", "rate_limited",
                                                     "insufficient_balance"}
                                    /\ r.until = IF r.status = "rate_limited" THEN 0 ELSE NoTime
                                    /\ r.secret = 1}]
    /\ phase = [s \in Session |-> "idle"]
    /\ view = [s \in Session |-> NoRows]
    /\ using \in [KeyUser -> Key]
    /\ issued = [k \in Key |-> 1]
    /\ rotation = [s \in KeyUser |-> NoRotation]
    /\ loaded = [s \in Sweep |-> NoRows]
    /\ todo = [s \in Sweep |-> {}]
    /\ checked = [s \in Sweep |-> {}]
    /\ doomed = {}
    /\ held = {}

Tick ==
    /\ now < MaxTime
    /\ now' = now + 1
    /\ UNCHANGED <<rows, phase, view, using, secrets, sweeps, doomed, held>>

\* Mutated form: the whole row is written back.
ColumnAlways(cur, old, new) == new

\* What the database holds after a session that knew old and now holds new has
\* updated a row that is cur.
Column(cur, old, new) == IF new # old THEN new ELSE cur

Merge(cur, old, new) ==
    [status |-> Column(cur.status, old.status, new.status),
     until  |-> Column(cur.until, old.until, new.until),
     secret |-> Column(cur.secret, old.secret, new.secret)]

-----------------------------------------------------------------------------
(* A client request (services/dispatcher.py; the order in which keys are    *)
(* tried and the attempt budget are the subject of Dispatch).               *)

LoadKeys(r) ==
    /\ phase[r] = "idle"
    /\ phase' = [phase EXCEPT ![r] = "picking"]
    /\ view' = [view EXCEPT ![r] = row]
    /\ UNCHANGED <<now, rows, using, secrets, sweeps, doomed, held>>

Close(s) ==
    /\ phase' = [phase EXCEPT ![s] = "idle"]
    /\ view' = [view EXCEPT ![s] = NoRows]

\* services/selector.py: select_keys and _rate_limited_eligible.  A key parked by
\* hand has no rate_limit_until: disabled_since decides, which is left open here.
Selectable(r, k) ==
    \/ view[r][k].status = "active"
    \/ view[r][k].status = "rate_limited" /\ view[r][k].until <= now

SendKey(r, k) ==
    /\ phase[r] = "picking"
    /\ Selectable(r, k)
    /\ phase' = [phase EXCEPT ![r] = "waiting"]
    /\ using' = [using EXCEPT ![r] = k]
    /\ UNCHANGED <<now, rows, view, secrets, sweeps, doomed, held>>

\* The request ends: answered, out of keys, or its client went away.
EndRequest(r) ==
    /\ phase[r] \in {"picking", "waiting"}
    /\ Close(r)
    /\ UNCHANGED <<now, rows, using, secrets, sweeps, doomed, held>>

\* Every outcome touches some column of the row, so updating a deleted row
\* fails the commit and with it the request.
CommitFails(r) ==
    /\ phase[r] = "waiting"
    /\ using[r] \notin exists
    /\ Close(r)
    /\ UNCHANGED <<now, rows, using, secrets, sweeps, doomed, held>>

CommitKey(r, known, new) ==
    /\ phase[r] = "waiting"
    /\ using[r] \in exists
    /\ row' = [row EXCEPT ![using[r]] = Merge(@, known, new)]
    /\ UNCHANGED <<now, exists, using, secrets, sweeps, doomed, held>>

\* The request goes on to its next key with the row it just wrote.
GoOn(r, new) ==
    /\ phase' = [phase EXCEPT ![r] = "picking"]
    /\ view' = [view EXCEPT ![r][using[r]] = new]

\* A usable answer: _reward_key acts only on a key this session saw rate limited.
Succeed(r) ==
    LET k == using[r]
        v == view[r][k]
    IN  /\ IF v.status = "rate_limited"
           THEN CommitKey(r, v, [v EXCEPT !.status = "active", !.until = NoTime])
           ELSE CommitKey(r, v, v)
        /\ Close(r)

\* _mark_rate_limited.  Two parks never have the same rate_limit_until (it has
\* microseconds), so that column is always written, whatever was known of it.
RateLimited(r) ==
    LET k == using[r]
        v == view[r][k]
        parked == [v EXCEPT !.status = "rate_limited", !.until = now + Cooldown]
    IN  /\ CommitKey(r, [v EXCEPT !.until = NoTime], parked)
        /\ GoOn(r, parked)

\* _disable_key: a 401/403 invalidates the key, a 402 marks it out of balance.
DisableKey(r, status) ==
    LET k == using[r]
        v == view[r][k]
    IN  /\ CommitKey(r, v, [v EXCEPT !.status = status])
        /\ GoOn(r, [v EXCEPT !.status = status])

\* Server errors, empty successes and network errors leave the three columns.
OtherFailure(r) ==
    LET v == view[r][using[r]]
    IN  CommitKey(r, v, v) /\ GoOn(r, v)

-----------------------------------------------------------------------------
(* The rotation of a key's credential (services/oauth_tokens.py,            *)
(* resolve_access_token), for a request before it sends or for an operator's *)
(* refresh.  Its lease and its failures are the subject of OAuth.           *)

Rotating(s) == phase[s] = IF s \in Request THEN "waiting" ELSE "editing"

\* The rotation reads the row and is given a new secret for the one it read.
PostToken(s) ==
    LET k == using[s]
    IN  /\ Rotating(s)
        /\ s \in Handler => "refresh_token" \in Operator
        /\ k \in exists
        /\ issued[k] < MaxSecret
        /\ issued' = [issued EXCEPT ![k] = @ + 1]
        /\ rotation' = [rotation EXCEPT ![s] = [read |-> row[k].secret, fresh |-> issued[k] + 1]]
        /\ phase' = [phase EXCEPT ![s] = "posting"]
        /\ UNCHANGED <<now, rows, view, using, sweeps, doomed, held>>

\* The new secret is written over whatever secret the row holds by now.
CommitToken(s) ==
    LET k == using[s]
    IN  /\ phase[s] = "posting"
        /\ k \in exists
        /\ row' = [row EXCEPT ![k].secret = rotation[s].fresh]
        /\ rotation' = [rotation EXCEPT ![s] = NoRotation]
        /\ phase' = [phase EXCEPT ![s] = IF s \in Request THEN "waiting" ELSE "rotated"]
        /\ UNCHANGED <<now, exists, view, using, issued, sweeps, doomed, held>>

\* Refused, lost on the way, or the row is gone: a failed attempt of the request,
\* the end of the handler.
TokenFails(s) ==
    /\ phase[s] = "posting"
    /\ IF s \in Request
       THEN phase' = [phase EXCEPT ![s] = "waiting"] /\ UNCHANGED view
       ELSE Close(s)
    /\ rotation' = [rotation EXCEPT ![s] = NoRotation]
    /\ UNCHANGED <<now, rows, using, issued, sweeps, doomed, held>>

RotationStep(s) == PostToken(s) \/ CommitToken(s) \/ TokenFails(s)

RequestStep(r) ==
    \/ LoadKeys(r)
    \/ \E k \in Key : SendKey(r, k)
    \/ EndRequest(r) \/ CommitFails(r)
    \/ Succeed(r) \/ RateLimited(r) \/ OtherFailure(r)
    \/ \E status \in Dead : DisableKey(r, status)

-----------------------------------------------------------------------------
(* Balance sweeps: one session from the query to the commit at the end.     *)

InScope(s) ==
    IF s \in Probe THEN {"active"}
    ELSE IF s \in Rescan THEN {"insufficient_balance"}
    ELSE KeyStatus

StartSweep(s) ==
    /\ phase[s] = "idle"
    /\ phase' = [phase EXCEPT ![s] = "checking"]
    /\ view' = [view EXCEPT ![s] = row]
    /\ loaded' = [loaded EXCEPT ![s] = row]
    /\ todo' = [todo EXCEPT ![s] = {k \in exists : row[k].status \in InScope(s)}]
    /\ checked' = [checked EXCEPT ![s] = {}]
    /\ UNCHANGED <<now, rows, using, secrets, doomed, held>>

Condemned(reading) == IF reading = "auth_error" THEN "invalid" ELSE "insufficient_balance"

\* Mutated form: without the check that keeps a manual disable sticky.
ApplyBalanceUnguarded(v, reading) ==
    IF reading = "available"
    THEN IF v.status = "insufficient_balance" THEN [v EXCEPT !.status = "active"] ELSE v
    ELSE [v EXCEPT !.status = Condemned(reading)]

\* Mutated form: the detail's error is stored as the status.
ApplyBalanceRaw(v, reading) ==
    IF reading = "available" \/ v.status = "disabled" THEN v ELSE [v EXCEPT !.status = reading]

\* services/balance.py, apply_balance with auto_disable on
ApplyBalance(v, reading) ==
    IF reading = "available"
    THEN IF v.status = "insufficient_balance" THEN [v EXCEPT !.status = "active"] ELSE v
    ELSE IF v.status = "disabled" THEN v ELSE [v EXCEPT !.status = Condemned(reading)]

CheckKey(s, k, reading) ==
    /\ phase[s] = "checking"
    /\ k \in todo[s]
    /\ todo' = [todo EXCEPT ![s] = @ \ {k}]
    /\ checked' = [checked EXCEPT ![s] = @ \cup {k}]
    /\ view' = [view EXCEPT ![s][k] = ApplyBalance(@, reading)]
    /\ UNCHANGED <<now, rows, phase, using, secrets, loaded, doomed, held>>

\* The balance endpoint is unreachable or its answer unreadable.
CheckFails(s, k) ==
    /\ phase[s] = "checking"
    /\ k \in todo[s]
    /\ todo' = [todo EXCEPT ![s] = @ \ {k}]
    /\ UNCHANGED <<now, rows, phase, view, using, secrets, loaded, checked, doomed, held>>

EndSweep(s) ==
    /\ phase[s] = "checking"
    /\ todo[s] = {}
    /\ Close(s)
    /\ loaded' = [loaded EXCEPT ![s] = NoRows]
    /\ checked' = [checked EXCEPT ![s] = {}]
    /\ IF checked[s] \subseteq exists
       THEN /\ row' = [k \in Key |-> IF k \in checked[s]
                                     THEN Merge(row[k], loaded[s][k], view[s][k])
                                     ELSE row[k]]
       ELSE UNCHANGED row
    /\ UNCHANGED <<now, exists, using, secrets, todo, doomed, held>>

SweepStep(s) ==
    \/ StartSweep(s) \/ EndSweep(s)
    \/ \E k \in Key : \/ CheckFails(s, k)
                      \/ \E reading \in {"available", "empty", "auth_error"} :
                             CheckKey(s, k, reading)

-----------------------------------------------------------------------------
(* The operator (services/keymgmt.py).                                      *)

OpenKey(h, k) ==
    /\ phase[h] = "idle"
    /\ Operator \cap {"update", "refresh_token"} # {}
    /\ k \in exists
    /\ phase' = [phase EXCEPT ![h] = "editing"]
    /\ view' = [view EXCEPT ![h] = row]
    /\ using' = [using EXCEPT ![h] = k]
    /\ UNCHANGED <<now, rows, secrets, sweeps, doomed, held>>

\* Refused, or its client went away: the handler is rolled back.
CloseKey(h) ==
    /\ phase[h] \in {"editing", "rotated", "reread"}
    /\ Close(h)
    /\ UNCHANGED <<now, rows, using, secrets, sweeps, doomed, held>>

\* The commit of a handler that knew its row as known; a row that is gone is not
\* brought back.
CommitEdit(h, new) ==
    /\ row' = IF using[h] \in exists THEN [row EXCEPT ![using[h]] = new] ELSE row
    /\ Close(h)
    /\ UNCHANGED <<now, exists, using, rotation, sweeps, doomed>>

Hold(h, status) ==
    held' = IF using[h] \notin exists \/ status = "keep" THEN held
            ELSE IF status = "disabled" THEN held \cup {using[h]} ELSE held \ {using[h]}

Edited(v, status) == IF status = "keep" THEN v ELSE [v EXCEPT !.status = status]

\* update_key with a status (enabled stands for active or disabled), no new secret.
\* Nothing here touches rate_limit_until.
UpdateKey(h, status) ==
    LET k == using[h]
        v == view[h][k]
    IN  /\ phase[h] = "editing"
        /\ "update" \in Operator
        /\ CommitEdit(h, Merge(row[k], v, Edited(v, status)))
        /\ Hold(h, status)
        /\ UNCHANGED issued

\* update_key with a raw key or a new refresh token: a secret of its own.
ReplaceSecret(h, status) ==
    LET k == using[h]
        v == view[h][k]
    IN  /\ phase[h] = "editing"
        /\ "update" \in Operator
        /\ issued[k] < MaxSecret
        /\ issued' = [issued EXCEPT ![k] = @ + 1]
        /\ CommitEdit(h, [Merge(row[k], v, Edited(v, status)) EXCEPT !.secret = issued[k] + 1])
        /\ Hold(h, status)

\* update_key with other fields of a credential bundle: the bundle is built from
\* the row as loaded and encrypted anew, so its old refresh token is written.
EditBundle(h, status) ==
    LET k == using[h]
        v == view[h][k]
    IN  /\ phase[h] = "editing"
        /\ "update" \in Operator
        /\ CommitEdit(h, [Merge(row[k], v, Edited(v, status)) EXCEPT !.secret = v.secret])
        /\ Hold(h, status)
        /\ UNCHANGED issued

\* refresh_token_one: another rotation came first, its secret is used as it is.
RotatedAlready(h) ==
    /\ phase[h] = "editing"
    /\ "refresh_token" \in Operator
    /\ using[h] \in exists
    /\ row[using[h]].secret # view[h][using[h]].secret
    /\ phase' = [phase EXCEPT ![h] = "rotated"]
    /\ UNCHANGED <<now, rows, view, using, secrets, sweeps, doomed, held>>

\* After the rotation the row is read again.
ReadAgain(h) ==
    /\ phase[h] = "rotated"
    /\ phase' = [phase EXCEPT ![h] = "reread"]
    /\ view' = [view EXCEPT ![h] = row]
    /\ UNCHANGED <<now, rows, using, secrets, sweeps, doomed, held>>

\* Mutated form: the status is not reset with the cooldown.
PutBackParked(h) ==
    LET k == using[h]
        v == view[h][k]
    IN  /\ phase[h] = "reread"
        /\ CommitEdit(h, Merge(row[k], v, [v EXCEPT !.until = NoTime]))
        /\ Hold(h, "active")
        /\ UNCHANGED issued

\* The key is put back in service.
PutBack(h) ==
    LET k == using[h]
        v == view[h][k]
    IN  /\ phase[h] = "reread"
        /\ CommitEdit(h, Merge(row[k], v, [v EXCEPT !.status = "active", !.until = NoTime]))
        /\ Hold(h, "active")
        /\ UNCHANGED issued

HandlerStep(h) ==
    \/ \E k \in Key : OpenKey(h, k)
    \/ CloseKey(h)
    \/ \E status \in SetByHand \cup {"keep"} :
          UpdateKey(h, status) \/ ReplaceSecret(h, status) \/ EditBundle(h, status)
    \/ RotatedAlready(h) \/ ReadAgain(h) \/ PutBack(h)

DeleteKey(k) ==
    /\ "delete" \in Operator
    /\ k \in exists
    /\ exists' = exists \ {k}
    /\ UNCHANGED <<now, row, phase, view, using, secrets, sweeps, doomed, held>>

\* cleanup_keys: the keys to delete are chosen by one statement and deleted by
\* id by a later one.
CleanupSelect(target) ==
    /\ "cleanup" \in Operator
    /\ doomed = {}
    /\ doomed' = {k \in exists : row[k].status = target}
    /\ UNCHANGED <<now, rows, phase, view, using, secrets, sweeps, held>>

CleanupDelete ==
    /\ doomed # {}
    /\ exists' = exists \ doomed
    /\ doomed' = {}
    /\ UNCHANGED <<now, row, phase, view, using, secrets, sweeps, held>>

OperatorStep ==
    \/ \E h \in Handler : HandlerStep(h)
    \/ \E k \in Key : DeleteKey(k)
    \/ \E target \in Dead : CleanupSelect(target)
    \/ CleanupDelete

-----------------------------------------------------------------------------
Next ==
    \/ Tick
    \/ \E r \in Request : RequestStep(r)
    \/ \E s \in Sweep : SweepStep(s)
    \/ \E s \in KeyUser : RotationStep(s)
    \/ OperatorStep

Spec == Init /\ [][Next]_vars

-----------------------------------------------------------------------------
TypeOK ==
    /\ now \in 0..MaxTime
    /\ exists \subseteq Key
    /\ row \in [Key -> Row]
    /\ phase \in [Session -> Phase]
    /\ view \in [Session -> [Key -> Row]]
    /\ using \in [KeyUser -> Key]
    /\ issued \in [Key -> Secret]
    /\ rotation \in [KeyUser -> [read : Secret, fresh : Secret]]
    /\ loaded \in [Sweep -> [Key -> Row]]
    /\ todo \in [Sweep -> SUBSET Key]
    /\ checked \in [Sweep -> SUBSET Key]
    /\ doomed \subseteq Key
    /\ held \subseteq Key

(***************************************************************************)
(* Nobody who is not writing the credential brings an older one back: a     *)
(* verdict of a request, a sweep, a change of the status and the tail of a  *)
(* refresh leave the secret that was stored or rotated in meanwhile.  Only  *)
(* an edit of a bundle and a rotation can, and only if they read the row    *)
(* before a newer secret came in.                                           *)
(***************************************************************************)
BundleOvertaken(k) ==
    \E h \in Handler : /\ using[h] = k
                       /\ view[h][k].secret # row[k].secret
                       /\ \E status \in SetByHand \cup {"keep"} : EditBundle(h, status)

RotationOvertaken(k) ==
    \E s \in KeyUser : /\ using[s] = k
                       /\ rotation[s].read # row[k].secret
                       /\ CommitToken(s)

SecretRevertsByOverlap ==
    [][\A k \in Key : row'[k].secret < row[k].secret =>
                         BundleOvertaken(k) \/ RotationOvertaken(k)]_vars

(***************************************************************************)
(* A rate limited key carries the time it comes back at, whatever requests  *)
(* and sweeps that overlap write to its columns; without one it would wait  *)
(* for the legacy window, which may be switched off, forever.  An operator  *)
(* leaves a key so by setting that very status, or by a refresh that read   *)
(* the row in service, with the end of an earlier park, and clears this end *)
(* over a park committed meanwhile.                                         *)
(***************************************************************************)
EndlessPark(k) == row[k].status = "rate_limited" /\ row[k].until = NoTime

ParkedByHand(h) ==
    \/ UpdateKey(h, "rate_limited")
    \/ ReplaceSecret(h, "rate_limited")
    \/ EditBundle(h, "rate_limited")

RefreshOverPark(h) ==
    /\ PutBack(h)
    /\ view[h][using[h]].status = "active"
    /\ view[h][using[h]].until # NoTime

ParkHasEnd ==
    [][\A k \in Key :
         EndlessPark(k)' /\ ~EndlessPark(k) =>
            \E h \in Handler : using[h] = k /\ (ParkedByHand(h) \/ RefreshOverPark(h))]_vars

(***************************************************************************)
(* A disable holds against every session that began after it: once all the  *)
(* sessions still running have seen the key disabled, only an operator      *)
(* brings it back.                                                          *)
(***************************************************************************)
SeenDisabled(k) ==
    /\ row[k].status = "disabled"
    /\ \A r \in Request : phase[r] # "idle" => view[r][k].status = "disabled"
    /\ \A s \in Sweep : phase[s] # "idle" => loaded[s][k].status = "disabled"

DisableHoldsOnceSeen ==
    [][\A k \in Key : SeenDisabled(k) /\ ~OperatorStep => row'[k].status = "disabled"]_vars

-----------------------------------------------------------------------------
(* What the code's comments say and its concurrency does not keep.          *)

(***************************************************************************)
(* services/balance.py: a manually disabled key is sticky.                  *)
(***************************************************************************)
DisableIsSticky == \A k \in held : row[k].status = "disabled"
=============================================================================
