# VoidSwitch in TLA+

VoidSwitch (`backend/voidswitch`) is a reverse proxy for LLM APIs. A client
request is routed to one of several upstreams, with one of the provider's API
keys, over one of several outbound nodes, and is tried again elsewhere when that
fails; the answer is translated between three API dialects, streamed on, logged
and accounted. Many requests do this at once, in several processes, on the same
database rows and Redis keys as the background tasks and the operators of the
admin API. The modules in this directory model the parts of it that decide what
a client gets and what is left in the database, check them with TLC, and prove
part of what holds of them for any number of keys, upstreams and sessions with
TLAPS.

Paths below are relative to `src/backend/voidswitch/`.

## Inventory

| Component | State it keeps | Operations | What is hard about it | What makes it correct | Here |
|---|---|---|---|---|---|
| **Request dispatch loop** (`services/dispatcher.py`, `selector.py`, `providers/base.py`) | two budgets, last status, last answer, the flags of the key in use; the request's rows of the keys | select a route, rank, select keys, attempt, classify, refresh the credential, repeat, rotate key or upstream, answer | three nested loops on one budget, two ways back into the innermost; keys selected once and shared by upstreams; an empty 200 is a failure | budgets hold; no key known to be out of service is sent; a failure looks like one; a failed search looked everywhere; every request is answered | modelled |
| **Key pool** (`models/db.py`, `core/database.py`, `services/keymgmt.py`, `balance.py`, `tasks/balance_*.py`) | rows of `upstream_api_keys`: `status`, `rate_limit_until`, secret | the dispatcher's verdicts, rotations of credentials, balance sweeps, operator updates, token refresh, delete, cleanup | sessions keep the rows they loaded, across an upstream's answer, and write back only changed columns | a session undoes an operator's decision or brings an old credential back only by the overlaps named here; a parked key comes back | partly |
| **Upstream health** (`services/upstream_health.py`, `tasks/log_cleanup.py`) | `upstream_cooldowns` rows; conversation pins and moving averages in Redis | `rank`, `trip`, `reward`, operator clear, retention | stale copies of a row; first insert race; `SET NX` of a pin; four select modes over groups, cooldowns and tiers | groups are strict stages; rankings are permutations; cooled ones stay behind; a conversation stays put; a cooldown says what the latest report said | partly |
| **Outbound nodes** (`services/routing.py`, `network.py`, `api/admin/nodes.py`, `tasks/node_resurrector.py`) | `nodes` and group rows: switch, status, failures, averages | expand a group, rank, attempt, penalize, reward, probe, resurrect, edit | a resurrector session as long as its whole tick; retries under one deadline; groups that inherit from one another while they are edited | a node that works comes back; only faults count; a switch survives; responses are closed; an expansion finds what is there | partly |
| **OAuth credentials** (`services/oauth_tokens.py`, `codex_oauth.py`, `xai_oauth.py`, `oauth_coordination.py`, `core/redis.py`) | the bundle of a key row; Redis leases; pending logins | begin and complete a login, resolve an access token, refresh under the lease, edit | a single-use refresh token, several processes, a lease that can run out under its holder, a crash after the token endpoint answered | while leases are renewed, a refresh token or pasted code is sent again, and a credential stranded, only after an answer was lost, or by an edit over a rotation; a spent login loses its state | partly |
| **Streaming and request log** (`services/dispatcher.py`, `usage_rollup.py`, `tasks/log_cleanup.py`) | `request_logs`, daily roll-ups, session spans, the set of active requests | write pending, spool, stream, fold, finalize, terminate, reconcile at boot | clients that stall or leave, timeouts, a crash in the middle, a save that fails and is retried, a roll-up that fails and is not | bytes in order; every response that was started is closed; every saved request is counted once | modelled |
| **Live view of the log** (`api/admin/logs.py`) | a position, a watch list per connection | poll in batches | rows that end while others begin; polls that fail | every row and its end are shown | partly |
| **Settings store** (`services/settings_store.py`) | database, Redis snapshot, a cache per process | update, publish, listen, boot | commits and publications in different orders, lost messages | caches converge to the snapshot | modelled |
| **Task manager** (`tasks/manager.py`) | a loop per process and task, a lease per task | wake, acquire, tick, release | settings that change under a tick, a process that stops with the lease | one tick at a time; switches are obeyed | modelled |
| **Limits** (`core/ratelimit.py`, `core/sse.py`, `api/proxy.py`) | Redis windows and slots, logged requests | check, reserve, answer, open, renew, close | check then act; two windows of which the second refuses; a slot that expires under an open connection | limits hold, the quota but for the calls under way and those rolled back | modelled |
| **Catalogue and providers** (`api/models.py`, `api/admin/providers.py`, `services/models_catalog.py`, `api/proxy.py`) | whitelists of providers, model rows with routes and role groups | resolve, advertise, list, edit, delete, clean | the same id from a whitelist and from a row; cleaning judges by other tables than serving | what is deleted is gone, cleaning takes nothing away that was not edited meanwhile, what is hidden is hidden | partly |
| **Accounts, roles and tokens** (`core/auth.py`, `services/role_groups.py`, `api/auth.py`, `api/me.py`, `api/admin/users.py`, `tokens.py`, `role_groups.py`) | users, Void-Tokens, memberships and adminships, session epochs | login, disable, force logout, park and restore tokens, edit groups | read-modify-write of an epoch; memberships with two origins; ids that come again | sessions end, parked tokens come back, nothing outlives its reason | partly |
| **Protocol translation** (`services/transform.py`) | state of one conversion | translate a request, an event, a whole answer | three dialects, interleaved blocks, streams that end early | what is said arrives, streamed as folded | partly |
| **Usage statistics, error policy** | - | queries; a predicate | - | - | not modelled |
| **Go port, relay agent, dashboard, editor plugin** | - | - | outside the Python gateway | - | not modelled |

How they interact. The gateway API checks the limits and the caller's token,
opens a database session per request (`RequestSessionMiddleware`), resolves the
model in the catalogue and calls `dispatch`, which asks `upstream_health.rank`
for the order of upstreams, `select_keys` for the keys of each, `oauth_tokens`
for an access token, `transform` for the request in the upstream's dialect, and
`execute_request` for the attempt itself over the nodes of `routing`. What comes
back changes key rows (`_disable_key`, `_mark_rate_limited`, `_reward_key`),
cooldown rows (`trip`, `reward`) and node rows, in the request's own session,
whose copies of these rows may be as old as the request; a stream goes on after
that session and is accounted in one of its own. Tasks, started by the task
manager as the settings say, and operators write the same rows from sessions of
their own. `PROJECT.json` lists the components with their sources, the hazards of
the code at their lines, and for every definition the lines it models.

One pattern runs through the code, and through the modules: a session loads
rows, waits for something outside, and at its end writes **the columns whose value
it has changed**, over whatever others have written meanwhile. `KeyPool`, `Nodes`,
`OAuth`, `UpstreamHealth`, `StreamLog` and `Access` each keep the copies apart from
the database.

## Modules

| Module | Models | Composed with |
|---|---|---|
| `Dispatch` | one request: `_do_dispatch` with `select_keys`, `classify` and the writes to the request's own rows | |
| `KeyPool` | the rows of the keys under overlapping requests, sweeps and operator actions | |
| `UpstreamHealth` | `rank`, pins, `trip`, `reward` and the other writers of cooldown rows | |
| `Lease` | the named Redis leases of `core/redis.py` | instantiated by `OAuth` and `Tasks` |
| `OAuth` | logins and the rotation of refresh tokens | `Lease` |
| `NodeGroups` | groups of nodes and their edits | extended by `Nodes` |
| `Nodes` | requests, the resurrector and inspections over the nodes of a group | `NodeGroups` |
| `StreamLog` | from the response headers to the accounted request | |
| `Streams` | the event state machines of the three dialects and their folds | extended by `Requests` |
| `Requests` | the translation of requests and whole answers | extended by `Dialogue` |
| `Answer` | what a client may see of an answer, abstractly | implemented by `Dialogue` |
| `Dialogue` | a conversation between a client and an upstream of different dialects | `Requests`, `Streams`, `Answer` |
| `Access` | accounts, role groups, dashboard sessions and Void-Tokens | |
| `Catalogue` | which ids are served, advertised and listed, and the edits | `MCGateway` |
| `Limits` | windows, quota, slots of live connections | `MCGateway` |
| `LiveLog` | the polling stream of the request log | `MCGateway` |
| `Settings` | rows, snapshot and caches of the settings | extended by `Tasks` |
| `Tasks` | a periodic task in every process, switched by the settings | `Settings`, `Lease`, `MCGateway` |
| `DispatchProofs`, `KeyPoolProofs`, `OAuthProofs`, `NodesProofs`, `AccessProofs`, `StreamLogProofs`, `UpstreamHealthProofs` | the theorems about the module each is named after | |
| `GatewayProofs` | the theorems about `Tasks`, `Settings`, `LiveLog`, `Limits`, `Catalogue` and `Dialogue` | |
| `MCDispatch`, ..., `MCGateway` | the instances TLC checks | |

Where an MC module has a variable `instance`, every behaviour picks one instance
and stays with it. In `MCKeyPool` and `MCUpstreamHealth` the instances are
different casts of the same module, or restrict the settings it may have. In `MCGateway` they are four modules that share
no state, so that moving one at a time loses no behaviour of any; they share one
run because each alone is small.

### Dispatch

`pc` is the place in the three nested loops: `route` (before them), `upstream`
(head of the loop over the ranking, at entry `at`), `key` (head of the loop over
`queue`, the keys selected for the entry), `send` (head of the loop over repeats)
and `answer` (an attempt is in flight), then `done`. `providerAttempts`,
`upstreamsTried`, `lastStatus`, `lastHttp` and `passHttp` are the locals of the
same names; `refreshed` and `repeated` are `oauth_refreshed` and
`protected_repeat_used`. `entered`, `contacted` and `sends` are history for the
properties. `keyStatus` and `parked` are the request's own rows: its session
does not reload them, so within one request they change only by its own hand,
which is why one request can be studied alone here and the rows' other writers in
`KeyPool`. Time is one fact per key: whether its `rate_limit_until` lies ahead;
`CooldownElapses` makes it pass at any moment.

The answer to an attempt is a choice over the statuses of the instance and over
what the gateway makes of them: the error policy's verdict (`ProtectedRepeat`,
`ProtectedGivesUp`), an empty success, a 429 that means no quota, a network error
blamed on the route or on the gateway. Which provider options are on is a choice
of `Init`. The ranking is a choice of `Rank` among injective sequences; that
`rank` produces those is `RankingComplete` of `UpstreamHealth`. The loop's own
test for a disabled provider is never met, since `rank` leaves such entries out.

### KeyPool

`row` is the database, `view[s]` the copies session `s` holds. `Merge` is what an
UPDATE of the changed columns does to a row that others changed meanwhile. A
request loads its rows (`LoadKeys`), sends one (`SendKey`), and commits each
outcome (`Succeed`, `RateLimited`, `DisableKey`, `OtherFailure`); every outcome
touches a column, so a deleted row fails the commit and the request
(`CommitFails`). A sweep loads (`StartSweep`), judges keys one by one while
others write (`CheckKey`, `CheckFails`) and commits once (`EndSweep`, which fails
as a whole if a judged row is gone). Probe, rescan and refresh differ by the keys
in scope.

A handler of the operator's loads the row (`OpenKey`) and commits later what it has
changed (`CommitEdit`): a status (`UpdateKey`), a secret of its own (`ReplaceSecret`),
or other fields of a credential bundle (`EditBundle`, which writes back the refresh
token of the bundle it loaded). A rotation reads and writes the row in a transaction
of its own (`PostToken`, `CommitToken`, `TokenFails`), for a request or for
`refresh_token_one`, which then reads the row again (`ReadAgain`) and writes what
differs from a key in service (`PutBack`), or finds that somebody else has rotated
(`RotatedAlready`). `CloseKey` is a handler that is refused or rolled back. Deletions
are single steps, except the bulk cleanup, which is two. `now` is a clock bounded by
`MaxTime`; secrets are version numbers bounded by `MaxSecret`.

`held` is history: the keys an operator disabled. `issued` numbers the secrets a key has
been given, stored or not, and `rotation` is what a rotation under way has read and
been given.

Left out: adding and reordering keys, usage counters, auto-disable switched off,
several providers (a sweep walks all of them in one session, the model one), and
the lease of a rotation with its failures, which is `OAuth`: here two rotations may
overlap, as they do once a lease is lost. A key an operator
parks by hand has no `rate_limit_until`; the code then goes by `disabled_since`
and a legacy window, which the model leaves open (it may come back at any time).

### UpstreamHealth

`row` and `pin` are the two stores, `known[r]` the cooldown rows request `r`
loaded when it ranked, `cooled[r]` the entries it treats as cooled. `rank` is
`LoadCooldowns`, then `RankByPin` or `RankByMode` on readings of the statistics
that may be anything (`Readings`), then `StorePin` and `FollowPin` around the
`SET NX`. Random draws are sets of possible leads (`WithinTolerance`,
`WithinJitter`). `trip` and `reward` are a read (`ReadRow`, which returns the
request's own copy when it has one) and a write (`Trip`, `Reward`), with
`WriteFails` for a row deleted or inserted meanwhile. `Gone` marks a copy whose
row was deleted. Pins expire without a clock. `verdict` is history: until when
the latest report on an upstream keeps it from leading.

### Lease and OAuth

`Lease` keeps `owner[n]`, the value of the Redis key of lease `n`, and
`renewing[n]`, whether the owner's renewal task runs. A lease that is renewed
does not run out; the renewal ends with its process (`HolderStops`), and with the
first call to Redis that fails (`RenewalDies`), of which its holder knows nothing.
`Release` compares owners, as the script of `core/redis.py` does.

In `OAuth`, `row` is the committed bundle, `view[c]` the bundle in the row that
caller `c` loaded, `fresh[c]` what it read again under the lease. Tokens are
numbered in the order the endpoint issues them, so a rotation is visible as a
larger number; `live` is what the endpoint accepts, `due` how far access tokens
have come near their expiry. A caller goes from `idle` over `resolving` (`AtOnce`,
which differs among the three services), `waiting`, `reading` (`UnderLease`),
`posting` and `answered` (the endpoint has rotated, nothing is stored) to
`releasing` and `using`. From every place under the lease it may be cancelled, its
process may stop, and the answer may be lost on the way. `Rejected401` returns it
to `resolving` with `force`. Editors are the two operator handlers that write the
bundle without the lease. `Login` is a submission of a pasted code (`Claim`, under
a lease of the state, `Peek`, `Exchange`, `Discard`, `Insert`) or a poll of a
device grant. `lost` and `broken` are history: the tokens whose successor nobody
stored, and whether a renewal has failed under a holder.

### NodeGroups and Nodes

`enforced` says whether the database enforces foreign keys. PostgreSQL does; SQLite, as
it is deployed, does not, since the pragma at `core/database.py:92` belongs to the one
connection that `create_all` uses. The handlers that delete a node or a group leave
the rows that refer to it to `ON DELETE CASCADE`, so on SQLite these dangle, and the id
of a deleted node may be given to a new one (`AddNode`). `members[g]` are the rows of a
group: a node, pinned or not, or another group.
`Collect` is the expansion of `routing.py`, path by path with its cycle guard;
`EditGroups` all handlers of the groups, with the validation that walks the
sources. A handler of this part awaits nothing but the database and is one step.

In `Nodes`, `base[s]` and `view[s]` are the rows as session `s` loaded them and
its copies; `Written` takes over the columns that differ. `reaches[n]` is the
world: whether a connection over `n` comes about. A request walks `todo`, the
routes of its group by rank (`Routes`, or direct), and each attempt ends in
headers, a connection fault, a full local pool, the deadline or the client's
departure; with `strict[r]` the body is inspected while the response is open.
`Reviver` is the resurrector, whose session lasts as long as all its probes,
`Inspector` an operator's test of one node. Latency samples move the average
within the instance's latencies, which is all the ranking needs.

### StreamLog

A request makes attempts (`Attempt`), whose response may be spooled until its
first content (`SpoolTake` fills `prefix`, `SpoolQuiet` and `SpoolLate` are the two
time limits), then streamed on, folded or read whole (`ReadMore`). A piece is yielded
(`Piece`) and the generator stands still until the client takes it (`ClientTakes`) or
leaves; the deadline is looked at between two pieces only (`Cut`). `sent`,
`queue` and `out` number the chunks on their way. A stream gets a pending row
(`Finalise`, `StartResponse` for the middleware's commit), ends in one of four ways,
is closed and is saved in up to `SavesMax` transactions; anything else is written
in the request's own. A transaction that touches a roll-up of a day holds `lock`
until it commits; a roll-up that fails is swallowed, and the row is committed without
it (`Locks`, `rollup`). `Crash` and `Boot` are the process, `Cleanup` the retention.
`now` counts response timeouts; `Tick` does not pass while something that takes the
gateway milliseconds is under way.

### Streams, Requests, Answer and Dialogue

OpenAI Chat Completions is the hub of `transform.py`. In `Streams`, `Read...` is one
event of an upstream turned into hub chunks, `Write...` one chunk turned into events
of a client, with the state each conversion keeps; the folds make one answer of a
stream. In `Requests`, the translators of requests turn a payload of one dialect
into that of another by turns, and those of whole answers likewise. Texts are
sequences of numbered pieces, so a piece lost, doubled or put elsewhere shows.

`Dialogue` puts a client before and an upstream behind them: the client sends its
history (`Ask`), the upstream generates blocks one piece at a time
(`UpstreamOpens`, `UpstreamContinues`), may fail or break off, and the client keeps
what it received as part of the next request (`Keep`). Client and upstream are
external: they read and write as the dialects prescribe. The client sends images
only where no tool results are due, because the translators drop them beside
results, and reasoning comes first in an answer, as a comment of `transform.py`
expects. With `lists`, text beside tool calls and tool outputs are sent as lists of
parts, which the code drops in two places, and the model with it. `Answer` is the abstract specification: texts and calls only grow, the
end comes once, the next answer comes after a complete one only. `Dialogue`
implements it under the mapping of `Seen`, for every pair of dialects.

### Access

`acct`, `tok`, `member` and `observer` are the tables. A request about an account
is two steps, what it loads (`job[w]`) and the changed columns it writes; an edit of
a role group touches no account and is one. `standing` is what Prism says of a user
and changes at will. A login evaluates the mappings (`AutoGroups`), merges the role,
adds and drops automatic rows, restores parked tokens and issues a session of the
account's epoch; disabling and forced logout raise the epoch and park the tokens.
`granted` is history: the groups the mappings gave at the last login.

### Catalogue, Limits, LiveLog, Settings, Tasks

`Catalogue`: an id is a slug (or none) and a name. `MayCall`, `Advertises`, `IsListed`
and `IsServed` are the four places of the code that say something about an id;
edits commit before anybody else reads and are one step. Cleaning reads the enabled
providers, then the models, and deletes at the end (`CleanReads`, `CleanJudges`,
`CleanDeletes`), while edits go on; `clean.changed` are the ids edited meanwhile.
Deleting a provider clears the routes that name it where foreign keys are enforced. On
SQLite the upstreams of a route that was changed during a cleaning may be left behind
by its deletion, which is not modelled.

`Limits`: a window is what the Lua scripts keep, with the second as its unit;
`counted` is history. A call passes `_check_rpm`, `_check_daily_quota` and
`_check_call_rate_limit` in steps of their own, is answered, and is logged when the
session of its request commits (`LogCall`), unless its client has left or the commit
fails and the row is rolled back (`RollBack`); `uncounted` are these.
Slots of live connections run out unless renewed.

`LiveLog`: rows get their ids when they are inserted and become visible when they
commit, in any order. A poll takes a batch of new rows and of ends of the rows it
watches.

`Settings`: a write is flushed (which reads the rows of its transaction), committed,
published and applied; a message may miss any process, a listener reads the
snapshot and applies what it has read later, and a process that stops in the middle
leaves what it has done. `Tasks` adds a loop per process that wakes as its cache says
and ticks under a lease. `lost` is history: ticks whose renewal has failed.

## What the runs show

| Run | Shows |
|---|---|
| `dispatch_search` | Two upstreams share a key; every class of answer, provider options on and off, keys active, parked and disabled, attempt budget 4, rankings of 0 to 2 entries. `AttemptBudget`, `KeyRepeatBound`, `UsableKeyInFlight`, `FailureLooksLikeFailure`, `SearchIsComplete` hold and every request ends (`Answers`). |
| `keypool` | A request, a sweep and an operator who sets statuses, replaces secrets, edits bundles, refreshes, deletes and cleans up; two requests, one of which rotates, and a rescan; a request and two operators, one of whom refreshes while the other edits; a probe and an operator. An older secret comes back only by an edit of a bundle or a rotation that was overtaken (`SecretRevertsByOverlap`), a disable that every running session has seen is lifted by an operator only (`DisableHoldsOnceSeen`), and a key is left rate limited without an end only by an operator who sets that status, or by a refresh that clears the end of a park it has not seen (`ParkHasEnd`). |
| `health` | `RankingSound`: under all modes, tiered and strict or not, three upstreams in two groups, cooled or not, whatever the statistics and although Redis may fail, a ranking keeps the groups in order, is a permutation and leads with no cooled upstream where a normal one is there (`pinned_best` apart). `ConversationSticks`: two first requests race to pin a conversation, pins expire, Redis fails; nobody moves a pin that stands, and whoever settles follows it, a request that Redis fails at its last step apart. `CooldownIsLatestReport`: two requests report from stale copies, the operator clears, retention deletes, and an upstream is cooled as long as the latest report says. |
| `nodes` | `GroupsSound`: however edits and deletions of inheriting groups mix, no row dangles where foreign keys are enforced, and the expansion finds every node on every database, cycles, dangling rows and ids given again included. `ResponseOwned`: no fault, deadline or cancellation leaves a response open. `OnlyFaultsCount`: a full pool, a deadline or a departure never counts against a node. `SwitchSurvives`: an operator's switch survives every session in flight. `Revived`: a node that stays reachable is in service again. |
| `oauth` | A request, an operator's refresh and an editor around one credential, or two pasted codes and a device poll of one login, for three services. Unless a lease's renewal fails under its holder, a credential is stranded only by an answer nobody could store or an edit over a rotation (`CredentialSound`), and a refresh token or pasted code is refused as used only where the answer to its first use was lost (`SingleUse`); a spent login loses its state (`PendingStateUsable`; nothing is said of states that expire or that a foreign page discards); a caller that waits for the lease gets through, whatever became of the holder (`LeaseIsReached`). |
| `streamlog` | Two requests of one conversation, streamed, folded or read whole, that break, are cancelled, time out or are killed and reconciled at boot, with clients that stall and roll-ups that fail. Bytes arrive in order through the spool (`DeliveredInOrder`), a response is open only while the coroutine that closes it has not left it (`ResponsesSound`), each saved request is counted once whatever saves fail, roll-ups that fail themselves apart (`AccountedOnce`), and a response whose client takes its pieces or leaves does not stay open for ever (`EveryResponseEnds`). Both properties about responses except a stream abandoned before its iterator starts: nobody closes it. |
| `dialogue` | Conversations of two answers between every pair of dialects, over streams that may fail or break off anywhere. Every event finds its block (`DeltasFindTheirBlock`), a client is shown all of what was said so far and nothing else, and no failed generation is folded into an answer (`AnswerIntact`), a client that does not stream gets the same answer or an error, and an error wherever the streaming one is cut off (`StreamedAsFolded`), the next request says what was said so far, list forms that the code drops apart, in an order upstreams accept (`RequestIntact`), and all of this implements `Answer` (`IsAnAnswer`). |
| `access` | Logins, role changes, disabling, forced logouts and token changes of one user, one request about her at a time, with group edits between a request's steps. Sessions end (`SessionsEnd`), a token comes back only if somebody asked or it was parked (`TokensComeBack`), no membership outlives its reason and no parked token is forgotten (`NothingLeftBehind`), with or without foreign keys: the classes of memberships and mappings cascade by themselves (`models/db.py:660`). Only a login that evaluated the mappings before a group was deleted may leave its row on SQLite, which is excused there. |
| `gateway` | `LimitsHold`: no window lets more through than its budget in any stretch of its length, slots bound the connections whose renewal runs, the quota is exceeded by no more than the calls that may be under way and those whose row was rolled back, one each (a client that leaves every call before its response begins is not held by it). `OneTickAtATime` and `SettingsArrive`: one tick at a time, caches converge to the snapshot in Redis, tasks obey the switches in spite of lost messages and stopped processes; that the snapshot is the database's is not claimed, since writers may publish in the opposite order of their commits. `CatalogueKeepsItsWord`: what is deleted is served to nobody, cleaning takes nothing away that was not edited while it was under way, hidden ids stay hidden. `RowsArrive`: where rows commit in order and no poll fails, the live view catches up; a row committed behind the position is missed, and a poll that fails may lose what it read. |

Three runs end in a violation, each of a sentence in the repository that the code
does not keep:

| Run | What happens |
|---|---|
| `keypool_sticky_sweep` | A sweep that loaded a key before it was disabled writes its verdict over the disable (`services/balance.py:66`). Requests in flight do the same (`services/dispatcher.py:310`, `:381`). `DisableHoldsOnceSeen` is what remains true. |
| `access_overlap` | Two forced logouts that overlap, with a login between their commits, write the same epoch: the session of that login is still accepted (`api/admin/users.py:283`, `:174`). `SessionsEnd` with one request at a time is what remains true. |
| `dialogue_items` | A text between two tool calls is not closed before the second call, which is added under the same `output_index` (`services/transform.py:1439`). |

More sentences turned out false while the modules were written. Their definitions
stand in the modules, outside the properties of the runs, each with the sentence
it takes from the code; the counterexamples are short and repeat the patterns above.

| Definition | What happens |
|---|---|
| `Dispatch!BudgetCountsSenders` | An upstream none of whose credentials can be resolved uses up the upstream budget without a request being sent (`services/dispatcher.py:638`). |
| `KeyPool!FreshSecretNotCondemned` | A 401 answered to the old secret condemns the new one (`services/dispatcher.py:891`). |
| `KeyPool!ParkStands` | Two requests know a key as rate limited; one recovers it, the other gets a 429, believes the status unchanged and does not write it (`services/dispatcher.py:381`). |
| `UpstreamHealth!CooledIsLastResort` | `pinned_best` draws a cooled upstream although a normal one of its group is there (`services/upstream_health.py:437`). |
| `UpstreamHealth!TripNeverAborts` | Two requests insert the first cooldown row of an upstream; the second fails instead of rotating (`services/upstream_health.py:256`). |
| `OAuth!RotationIsDurable` | An edit of a bundle's fields merges them into the bundle it loaded and overwrites a rotation committed meanwhile. `SecretRevertsByOverlap` is what remains true. |
| `OAuth!RefreshedBeforeDisabled` | When another request has rotated the bundle before the first 401, the forced refresh may return the token that was refused, and the second 401 disables the key. |
| `NodeGroups!NoInheritanceCycle` | The walk of the validation never enters the group it validates, so it never finds that it has come back to it, and cycles of two groups are accepted. The expansion copes with them (`ExpansionComplete`). |
| `StreamLog!SpanInOrder` | Requests of a session are recorded in the order they end, and `last_at` is whatever was recorded last. |
| `Dialogue!UsageArrives` | An Anthropic stream reports its input tokens in its first event; the translators take the usage of a later one. |
| `Catalogue!ExactlyCallable` | The ids advertised to a token and those it may call differ. |

Three more are losses the model makes as the code does, and the properties about
`Dialogue` are stated around them:

* Text in list form beside tool calls is dropped on the way to an Anthropic upstream
  (`services/transform.py:139-141` keeps strings only), and tool outputs in list form
  made of `input_text` parts are dropped on the way out of the Responses dialect
  (`_stringify`, `:815-828`, at `:1095`), although the module's docstring
  counts "multi-part content" (`:16`) among what is "translated faithfully". `Conveyed` is what a turn says less these.
* To a client that streams, a Responses stream that fails or breaks off ends like a
  complete answer (`:1724-1747`), and so does an OpenAI stream with an error chunk
  (`:687-807`). A client that does not stream gets an error for the same events
  (`:1844-1866`, `:1917-1970`), which `NoFailureFolded` states.
* Anthropic events in the stream of a Responses upstream (`:1554-1575`) are translated
  for a streaming client, while their fold is an error.

### Bounds

A bound is enough where the hazard needs no more parties than it admits: every
counterexample found so far needs two sessions and one row.

* `dispatch_search`: `MaxProviderAttempts = 4` is one more than a visit to a key
  can cost and less than two upstreams with two keys each could use, so both the
  budget and the limit per key bite, and searches also end with budget left. One
  status for each class that the loop tells apart (`not_found`, `overloaded` and
  `server_error` share every branch). Two upstreams and a common key are what it
  takes for one upstream's verdict to matter at the next. `MaxUpstreamAttempts`
  is 0 (all of the route), so the halves of `AttemptBudget` and `SearchIsComplete` that
  are about it cannot fail in the run; the proofs cover all values.
* `keypool`: rows do not interact except in a sweep's all-or-nothing commit,
  so there is one key; two or three sessions overlap; `MaxTime = 1` with
  `Cooldown = 1` lets a park begin and end, `MaxSecret = 3` lets a rotation overtake a
  replacement; sweeps and operators together need one replacement only. The theorems need none of these bounds.
* `health`: three upstreams are the fewest with a second one in a group and a
  second group. Scores are in hundredths; the four readings tie, lie within the
  20 % tolerance or 15 % jitter, or outside. The reports need one upstream (rows
  are independent); `MaxTime = 4` and `Retention = 1` let a row be tripped, expire,
  be deleted and be inserted again; `MaxTrips = 2`.
* `nodes`: two nodes, three groups, six member lists with inheritance in every
  direction. Two connection faults disable a node and a request has two routes, so
  one request can take out a node only together with another session. Three
  scenarios divide the room: three edits beside the resurrector; one edit, a
  request, the resurrector and an inspection; two requests and the resurrector.
* `oauth`: one request, one refresh by hand, one editor, or three submissions of a
  login with a pasted code and a device code. `MaxIssued = 4` leaves two answers of
  the endpoint after an import: a rotation, and a second that a mistake would take.
  Per service the bundles that take a different way through the code.
* `streamlog`: two chunks, the second with the content and the usage; two times at
  most, of which the second is the next day and the retention's end; two tries to
  save; one attempt per request, since another begins like the first. Two pairs of
  modes: a spooled stream beside a spooled fold, and a stream beside an answer read
  whole with a crash.
* `dialogue`: four pieces and calls in a conversation of two answers let two calls
  interleave with texts, in the shapes of `MCDialogue`; with an Anthropic wire under
  a Responses upstream, and Responses streams that leave out deltas. List forms
  stand where a translator looks at them. The shape that
  breaks the Responses writer is that of `dialogue_items`, and only there.
* `access`: one subject, an owner and a group's observer, two tokens, one group
  with a mapping for members and one for admins, two logouts (`MaxEpoch = 2`).
  Foreign keys are enforced or not. `access_overlap` has two requests at a time and one token.
* `gateway`: windows of 1, 2 and 3 seconds with budgets of 2, 3 and 1 over four
  seconds of a clock, so that members leave a window while others stay; two calls
  at a time against a quota of 2; three connections for two slots; two processes and two
  turns (writes or stops) of one setting; four log rows in batches of 2; two
  providers, of which one passes models through, one route, one edit while a cleaning
  is under way, one caller on the staff and one not.
* Runs say `CHECK_DEADLOCK FALSE` where the system may stop: requests are over
  when they are answered, and bounded clocks, edits and tokens run out.

### Fairness

* `Dispatch`: `WF_vars(Step)`. A dispatch is one coroutine whose every await
  (database, Redis, token endpoint, upstream) is under the request's deadline
  (`response_timeout`), so it always takes another step; nothing is assumed about
  which answer an upstream gives.
* `OAuth`: `WF` of `GoesOn(c)`, a caller's steps that need nobody else (the answer
  of the endpoint is `Unreachable` at the latest by the deadline), and of
  `RunsOut("refresh")`, since Redis expires what nobody renews. A waiting caller is
  not assumed to win any race in particular; that waits end although others keep
  coming follows from there being finitely many in the instance.
* `Nodes`: `WF` of the resurrector's steps. The task manager starts the task again,
  and every probe ends by its timeout. No request or operator need act.
* `StreamLog`: `WF` of `Tick` and of each request's `Step`: time passes and the
  event loop runs. Neither upstream nor client need act: a piece the client does not
  take leaves the generator at its `yield`, past the deadline. So `EveryResponseEnds`
  has `[]<>(phase[r] # "offering")` as a hypothesis, the client takes each piece at
  some time or leaves.
* `MCGateway`: `WF` of the poll, of each process's listener and loop, which sleep
  and wake for ever in the code, and of the lease's time to live.

## What is proved

The theorems hold for every value of the constants that satisfies
`ConstantsAssumption` of the module (budgets are positive, rankings repeat no
entry, kinds of session are disjoint, groups are finitely many, ...); a theorem that
assumes more says so below.

`DispatchProofs`: `TypeCorrect`, `BudgetHolds`, `RepeatsBounded`,
`InFlightUsable`, `FailureVisible` and `SearchComplete`, each about the invariant
of the run with the same meaning. None of these is inductive alone. `IInv` adds

* `RepeatsPaid`: what was spent on a key is at most one plus the repeats whose
  flag is set, so the flags bound the attempts;
* `QueueUsable`: the keys still waiting are distinct and eligible *now*: the
  selection's order was fixed earlier, but an answer changes only the row of the
  key at the head, which is about to leave the queue or is still usable
  (a refresh or a protected repeat does not touch the row);
* `PassIsFailure`: `passHttp` is set only with an answer that is no success;
* `NothingYet`: no upstream was entered before there is a ranking.

`SearchEnds` is the safety half of `Answers`: as soon as the upstreams are ranked, every
step of the request lowers a pair of bounded natural numbers lexicographically,
`EntriesLeft` (of the ranking) before `StepsLeft` (the keys that wait at the entry, and what
the visit to one of them can still cost). That the step is taken is
fairness, and stays with TLC.

`SearchComplete` needs a second invariant, `SearchInv`: every entry before `at` was
entered or had no active key when it was looked at, and a request never gives a
key back into service except by ending with success; with the count of
`entered` tied to `upstreamsTried` (which uses that rankings are injective).

`KeyPoolProofs`: `TypeCorrect`, `ParksEnd`, `SecretsRevertByOverlap`, `DisableHolds`. `IInv` is
the type invariant with

* `SweepWrites`: what a running sweep would write differs from what it loaded at
  most in the status, and never *from* `disabled`, nor *to* `rate_limited`;
* `InUse`: the key a waiting request has sent was selectable in the request's own
  copy, in particular not disabled, so its copy of a disabled key is never the
  one it writes back;
* `SecretsIssued`: no secret stored, held or read by a rotation is newer than the
  newest issued.

The action properties follow from it case by case: a request's verdict other
than a 429 never sets `rate_limited`, a 429 always writes the end together with
(or under) the status, and no session but an edit of a bundle changes its copy of the
secret, so `Merge` leaves that column as it is.

`GatewayProofs`: `OneTick`, `CommittedIsSeen`, `NothingIsPassedOver`, `LimitsAreKept`,
`CatalogueSound` and `ClientsServed`, for parts that share no state.

* Tasks: a process that ticks and whose renewal has not failed owns the lease, and a
  lease that is being renewed belongs to a process that ticks (`HolderTicks`). So
  it does not run out under its holder, and nobody else acquires it.
* Settings: `CommittedIsSeen` is the safety under `SettingsArrive`. A key of which no change
  was ever committed has its default in the snapshot, in every cache, in what a process
  has fetched and in what a job is about to publish (`Untouched`).
* Live log: `NothingIsPassedOver` is the safety under `RowsArrive`. A row up to the position
  was shown as it is, or it is watched while it is pending or was pending when last read
  (`LastRead`, `WatchedRead`, `PendingWatched`).
* Windows: what was counted within the last length of a window is still among the
  members Redis keeps (`Remembers`), and the script admits only below the limit. Two
  cardinality lemmas carry the count through pruning and adding. Slots: the members
  of the sorted set are at most the limit, and a connection whose renewal runs is
  one of them. Quota: what is answered and not rolled back exceeds the quota by no more
  than the calls that have passed the check and not been logged (`QuotaInv`).
* Catalogue: providers that are there have different slugs, which is what makes
  an id that names a deleted provider nobody's. What a cleaning is about to delete was
  served to nobody when it read, or was edited since (`CleanInv`).
* Streams: `ClientsServed` is `DeltasFindTheirBlock` for clients and upstreams of every
  dialect, blocks in any order and any number, and streams that fail or break off anywhere.
  Its one hypothesis, for Responses clients, is `NoTextBetweenCalls`: no answer puts a
  text between two calls. The shapes of `MCDialogue` satisfy it, and `dialogue_items` has
  the answer that shows it to be necessary.

  Translators and client are folds, and what a fold computes cannot be proved by
  induction over its sequence here; but a fold *is* a function with one value per step
  (`FoldSteps`, from the recursive function in its definition, which
  `WellFoundedInduction` shows to exist), and what holds of step 0 and passes from each
  step to the next holds of the last (`UpTo`).

  For an Anthropic client (`ServedInv`) the invariant of the steps is `BlocksKnown`: the
  client has open exactly the blocks that the writer keeps as its text, its reasoning and
  its calls, each of its kind, no two calls in one block, and every block it has ever had
  is below the writer's next number. It holds whatever chunks the writer is given.

  The others (`TalkInv`) depend on what they are given, so three links have to hold. The
  upstream's events keep to a discipline (`SentFine`: a piece belongs to a block that was
  opened as a call, and a text comes before all calls or makes the answer `Late`); the
  readers make of it chunks that keep to one (`Fine`: each call is opened once under a
  number of its own); and a client follows such chunks. For an OpenAI client that is
  `Follows`: it has the calls that were opened. For a Responses client it is `ItemsKnown`:
  its open items are the writer's text and calls, with what the client has got of each,
  because the end of an item repeats the whole of it. In between stands `Tells`: a step of
  the upstream is a run of chunks from one state of the stream to another.

`OAuthProofs`: `CredentialKept`, `StateKept`, `SpentOnce`. Mutual exclusion holds
until a renewal fails (`RefreshHeld`, `LoginHeld` under `~broken`). On it rests the
rest: what a holder has been sent is alive (`AnswersLive`), what it sends is alive
or the answer that replaced it was lost on the way, and a submission sends an unspent
code (`CodeGood`). `LoginsLive` and `Apart` say that a login's own bundle is not
touched by the other flow.

`NodesProofs`: `NothingLeftOpen`, `FaultsAreConnections`, `SwitchKept` and
`GroupsAreSound`. `FaultlessCopies` is the strengthening: a session's copy of a node
over which it had no fault differs from what it loaded by a reset count at most, so
what is written back at the end is a penalty for nodes in `faulty` only, and never
the switch. `GroupsAreSound` is the whole of `GroupsSound`: `EditsRefer` shows that no
edit leaves a row that refers to what is gone where foreign keys are enforced, and
`ExpansionFinds` that the path-wise
expansion of a group (`Collect`) is what can be reached by inheritance, cycles
included. A call for g with a path returns what is reached from g *around* the path
(`Reach`): there is one step of the recursion in it (`ReachStep`: leave g once, and
never come back), so the closed form solves the recursive equation
(`FoundFromCollects`), and it is the only solution (`Collects`): of two solutions that
differ, take a place where they differ with as little as possible outside its path.
That is an induction over the subsets of a finite set, which the library's
well-founded minimum `WFMin` gives without an operator parameter; it is why `Group`
is assumed to be finite, as the rows of a table are.

`AccessProofs`: `SessionsAreOver`, `ParkedComeBack` and `NothingIsLeft`. They are about
behaviours in which no two requests about one account overlap, `Spec /\ []OneAtATime`:
`access_overlap` shows that the first is false otherwise. With one worker this always
holds (`AloneIsEnough`), requests about different accounts may overlap freely, and
groups may be edited between a request's steps. The core is `Current`: the rows
a request may write are as it has loaded them, apart from memberships that went with
their group. None of them assumes foreign keys. That no row outlives its group is said
where they are enforced: elsewhere a login that evaluated the mappings before a group
was deleted may write a row of it after.

`StreamLogProofs`: `ResponsesClosed`, `ChunksInOrder`, `RequestsAccounted`. The
invariant `Stream` has

* `Places`: a response is open exactly in the phases whose coroutine closes it, and in
  a stream abandoned before its iterator started, which nobody closes;
* `Bytes`: what was passed on is 1, 2, ..., and what waits in prefix and queue
  continues it up to what was sent; only its last item may be the end or a fault;
* `Entire`: whoever is done with a whole response, or will record it as completed,
  has passed on all that was sent.

`Account` has `RowsStand` (a save that goes without a roll-up because its row is gone
has none) and `Books` (the roll-ups are sums over the saved requests whose roll-up did
not fail, and no copy of the token's totals is ahead of the saved ones). It is inductive
together with `Stream`, whatever the retention: the row of a stream that a stalled
client holds up may be deleted before the stream is saved, which is then counted in the
token's totals and in no roll-up, as one whose roll-up failed is.

`UpstreamHealthProofs`: `CooldownKept`, `RankingKept`, `PinKept`.

* Cooldowns: row and verdict are equal wherever either is still to come (`Agree`),
  since every report writes `until` unconditionally, from however old a copy, and retention
  takes only rows that are over. `CopiesStand`, that a row with a live copy is there,
  is what makes a reward's update well-typed.
* Rankings: a sorted ranking is a permutation with the groups in order and the
  cooled behind (`SortedIsOrderly`); moving an upstream of the first group to the front
  keeps that, if it is not cooled or its whole group is (`MovedIsOrderly`);
  every lead but that of `pinned_best` is such an upstream (`LeadIsSelectable`). The
  theorem is the whole of `RankingSound`, for all upstreams, groups and statistics.
* Pins: for any number of conversations and requests, and although Redis may fail at
  any step. The one step left out of `ConversationSticks` is `LosePin`: a request whose
  claim Redis does not answer leads with its own choice, whatever is pinned.

Powers of two are no natural numbers to the provers without an induction, so the ends of
cooldowns are integers in the type invariant.

Only model-checked remain

* liveness (`Answers`, `Revived`, `LeaseIsReached`, `EveryResponseEnds`, `RowsArrive`,
  `SettingsArrive`), which is out of this prover's reach;
* of `Dialogue`, what an answer and the next request say (`AnswerIntact`,
  `StreamedAsFolded`, `RequestIntact`) and the refinement of `Answer`: they compare
  sequences that two recursions compute, and relate them to a third, which is an
  induction over data;
* the violations. What the random draws of a ranking make of the statistics is
  finite choice in the model.

## Plan

1. `Dispatch`, `KeyPool`, `UpstreamHealth`, and the proofs about the first two - done.
2. `Lease`, `OAuth`, `NodeGroups`, `Nodes`, `StreamLog`, `Streams`, `Requests`,
   `Answer`, `Dialogue`, `Access`, `Catalogue`, `Limits`, `LiveLog`, `Settings`,
   `Tasks` - done.
3. `GatewayProofs`, `OAuthProofs`, `NodesProofs`, `AccessProofs`, `StreamLogProofs`,
   `UpstreamHealthProofs` - done.
4. The safety under the liveness of `Dispatch`, `LiveLog` and `Settings`; the expansion
   of node groups; translated streams for the clients of every dialect - done.

## Not modelled

The reasons stand beside each component in `PROJECT.json`. In short:

* The error policy's predicate and the key-select orders are choices in `Dispatch`.
* Of the translation: numeric parameters, tool schemas, refusals, built-in tools;
  images beside tool results, which the translators drop, are kept out of the
  client's requests by `Ask`.
* Of the accounts: Prism, JWT signatures and passwords are external; expiry and
  rotation of tokens, and the dev mode, are left out.
* Of the catalogue: categories, metadata, models.dev, key API tokens.
* Of the log: filters, look-ups, downloads and the usage statistics, all of which
  only read.
* The samples of `node_health.py`, the moving averages in Redis (read as arbitrary
  values), the usage counters of keys and nodes (listed as a hazard: nothing
  promises exact counts).
* The Go port trails the Python gateway, the relay is stateless, the dashboard and
  the editor plugin are user interfaces.
