------------------------------ MODULE Dispatch ------------------------------
(***************************************************************************)
(* One client request walking the ranked upstreams of its route:           *)
(* services/dispatcher.py, _do_dispatch.  Three nested loops share one      *)
(* budget of provider attempts: the ranked upstreams, the keys selected for *)
(* an upstream, and the repeats of one key (a forced credential refresh     *)
(* after a 401, one repeat of a protected error).                           *)
(*                                                                          *)
(* The session of a request holds its ORM rows for the whole request, so    *)
(* keyStatus and parked are the rows as this request sees them; what other  *)
(* sessions write to the same rows is the subject of KeyPool.  Time is      *)
(* abstracted to one fact per key: whether its rate_limit_until lies ahead. *)
(***************************************************************************)
EXTENDS Integers, Sequences, FiniteSets, Functions

CONSTANTS
    Upstream,            \* entries of the route (provider, upstream model, key pool)
    Key,
    KeysOf,              \* KeysOf[u]: the keys of u's provider that carry u's pool tag
    Options,             \* what may be configured for an upstream's provider and adapter
    Routes,              \* the rankings a route can produce
    Statuses,            \* HTTP statuses an upstream answers with
    InitialStatus,       \* key statuses the request may find
    MaxProviderAttempts, \* setting max_provider_attempts
    MaxUpstreamAttempts, \* route.max_upstream_attempts, 0 = all of them
    KeysPerUpstream      \* setting upstream_max_keys_per_attempt

KeyStatus == {"active", "rate_limited", "invalid", "insufficient_balance", "disabled"}

OptionRecord == [refreshes      : BOOLEAN,  \* adapter.refresh_on_invalid_key
                 protectedRetry : BOOLEAN,  \* provider.protected_error_retry_enabled
                 zeroTokenRetry : BOOLEAN,  \* provider.retry_on_zero_token
                 networkTrips   : BOOLEAN]  \* 0 is among the cooldown status codes

ASSUME ConstantsAssumption ==
    /\ KeysOf \in [Upstream -> SUBSET Key]
    /\ Options \subseteq [Upstream -> OptionRecord]
    /\ Routes \subseteq Seq(Upstream)
    /\ \A s \in Routes : IsInjective(s)   \* UpstreamHealth: RankingComplete
    /\ Statuses \subseteq 100..599
    /\ InitialStatus \subseteq KeyStatus
    /\ MaxProviderAttempts \in Nat \ {0}
    /\ MaxUpstreamAttempts \in Nat
    /\ KeysPerUpstream \in Nat \ {0}

VARIABLES
    options,           \* configuration in force for this request
    order,             \* ranked upstreams
    fallback,          \* cooled upstreams restored as a last resort
    at,                \* position in order
    queue,             \* keys still to try at order[at]; its head is the one in use
    pc,
    keyStatus, parked, \* the request's rows: status, and rate_limit_until > now
    providerAttempts, upstreamsTried,
    entered,           \* the upstreams whose keys this request has begun to try
    contacted,         \* the upstreams it has sent to
    refreshed,         \* oauth_refreshed of the key in use
    repeated,          \* protected_repeat_used of the key in use
    sends,             \* attempts spent on the key in use
    lastStatus,        \* last_status
    lastHttp,          \* status of last_http_outcome, 0 before the first answer
    passHttp,          \* return_last_http_outcome
    result             \* what the client receives

config == <<options, order, fallback>>
rows == <<keyStatus, parked>>
reached == <<entered, contacted>>
budget == <<providerAttempts, upstreamsTried, reached>>
perKey == <<refreshed, repeated, sends>>
book == <<lastStatus, lastHttp, passHttp>>
vars == <<config, at, queue, pc, rows, budget, perKey, book, result>>

NoResult == [kind |-> "none", status |-> 0]
ResultKind == {"none", "rejected", "success", "client_error", "passthrough", "unavailable"}

upstream == order[at]
key == queue[1]
opts == options[upstream]

(***************************************************************************)
(* services/providers/base.py, BaseProvider.classify                        *)
(***************************************************************************)
Classify(s) ==
    CASE s \in 200..299             -> "ok"
      [] s \in {401, 403}           -> "key_invalid"
      [] s = 402                    -> "insufficient_balance"
      [] s = 404                    -> "not_found"
      [] s = 429                    -> "rate_limited"
      [] s \in {503, 529}           -> "overloaded"
      [] s \in (400..499) \ {401, 402, 403, 404, 408, 409, 425, 429} -> "bad_request"
      [] OTHER                      -> "server_error"

StatusOf(class) == {s \in Statuses : Classify(s) = class}

(***************************************************************************)
(* services/selector.py, select_keys: active keys first in whatever order   *)
(* the provider's key-select mode gives, keys back from a rate limit last.  *)
(***************************************************************************)
Active(u) == {k \in KeysOf[u] : keyStatus[k] = "active"}

Recovered(u) == {k \in KeysOf[u] : /\ keyStatus[k] = "rate_limited"
                                   /\ ~parked[k] \/ u \in fallback}

Eligible(u) == Active(u) \cup Recovered(u)

KeyOrders(u) ==
    {s \in UNION {Injection(1..n, Eligible(u)) : n \in 1..KeysPerUpstream} :
        /\ \A i \in DOMAIN s : s[i] \in Recovered(u) =>
               Active(u) \subseteq {s[j] : j \in 1..(i - 1)}
        \* the slice ends early only when every eligible key is in it
        /\ \/ DOMAIN s = 1..KeysPerUpstream
           \/ Eligible(u) \subseteq {s[j] : j \in DOMAIN s}}

-----------------------------------------------------------------------------
Init ==
    /\ options \in Options
    /\ order = <<>> /\ fallback = {}
    /\ at = 1 /\ queue = <<>> /\ pc = "route"
    /\ keyStatus \in [Key -> InitialStatus]
    /\ parked \in [Key -> BOOLEAN]
    /\ \A k \in Key : parked[k] => keyStatus[k] = "rate_limited"
    /\ providerAttempts = 0 /\ upstreamsTried = 0
    /\ entered = {} /\ contacted = {}
    /\ refreshed = FALSE /\ repeated = FALSE /\ sends = 0
    /\ lastStatus = 502 /\ lastHttp = 0 /\ passHttp = FALSE
    /\ result = NoResult

MaxUpstreams == IF MaxUpstreamAttempts = 0 THEN Len(order) ELSE MaxUpstreamAttempts

AttemptsLeft == providerAttempts < MaxProviderAttempts

Finish(kind, status) ==
    /\ pc' = "done"
    /\ result' = [kind |-> kind, status |-> status]

\* The model is not exposed, has no route, or names a disabled provider.
RejectModel ==
    /\ pc = "route"
    /\ Finish("rejected", 404)
    /\ UNCHANGED <<config, at, queue, rows, budget, perKey, book>>

\* upstream_health.rank leaves out disabled upstreams and providers, and cooled
\* upstreams unless the route restores them as a fallback.
Rank ==
    /\ pc = "route"
    /\ order' \in Routes
    /\ fallback' \in SUBSET {order'[i] : i \in DOMAIN order'}
    /\ pc' = "upstream"
    /\ UNCHANGED <<options, at, queue, rows, budget, perKey, book, result>>

-----------------------------------------------------------------------------
(* The loop over ranked upstreams.                                          *)

CanTryUpstream ==
    /\ pc = "upstream"
    /\ at <= Len(order)
    /\ AttemptsLeft
    /\ upstreamsTried < MaxUpstreams

\* Mutated form: `break` where the code has `continue`.
SkipKeylessStops ==
    /\ CanTryUpstream
    /\ Eligible(upstream) = {}
    /\ lastStatus' = 502
    /\ at' = Len(order) + 1
    /\ UNCHANGED <<config, queue, pc, rows, budget, perKey, lastHttp, passHttp, result>>

\* Mutated form: the entry is looked at again.
SkipKeylessStays ==
    /\ CanTryUpstream
    /\ Eligible(upstream) = {}
    /\ lastStatus' = 502
    /\ UNCHANGED <<config, at, queue, pc, rows, budget, perKey, lastHttp, passHttp, result>>

SkipKeyless ==
    /\ CanTryUpstream
    /\ Eligible(upstream) = {}
    /\ lastStatus' = 502
    /\ at' = at + 1
    /\ UNCHANGED <<config, queue, pc, rows, budget, perKey, lastHttp, passHttp, result>>

EnterUpstream ==
    /\ CanTryUpstream
    /\ \E s \in KeyOrders(upstream) : queue' = s
    /\ upstreamsTried' = upstreamsTried + 1
    /\ entered' = entered \cup {upstream}
    /\ pc' = "key"
    /\ UNCHANGED <<config, at, rows, providerAttempts, contacted, perKey, book, result>>

\* Mutated form: last_status is passed on whatever it is.
ExhaustUnclamped ==
    /\ pc = "upstream"
    /\ ~CanTryUpstream
    /\ IF passHttp THEN Finish("passthrough", lastHttp) ELSE Finish("unavailable", lastStatus)
    /\ UNCHANGED <<config, at, queue, rows, budget, perKey, book>>

\* The last HTTP answer is handed to the client unless a later one was a 200
\* nobody could use; without any answer the gateway reports 502.
Exhaust ==
    /\ pc = "upstream"
    /\ ~CanTryUpstream
    /\ IF passHttp
       THEN Finish("passthrough", lastHttp)
       ELSE Finish("unavailable", IF lastStatus >= 400 THEN lastStatus ELSE 502)
    /\ UNCHANGED <<config, at, queue, rows, budget, perKey, book>>

-----------------------------------------------------------------------------
(* The loop over the selected keys of one upstream.                         *)

\* Mutated form: the next key is used without the checks at the loop's head.
NextKeyUnchecked == pc' = "send" /\ queue' = Tail(queue) /\ UNCHANGED at

NextKey == pc' = "key" /\ queue' = Tail(queue) /\ UNCHANGED at

AbandonUpstream == pc' = "upstream" /\ queue' = <<>> /\ at' = at + 1

LeaveUpstream ==
    /\ pc = "key"
    /\ queue = <<>> \/ ~AttemptsLeft
    /\ AbandonUpstream
    /\ UNCHANGED <<config, rows, budget, perKey, book, result>>

CanTryKey == pc = "key" /\ queue # <<>> /\ AttemptsLeft

\* A failed credential resolution is no proof against the key: it is left alone.
CredentialFails ==
    /\ CanTryKey
    /\ NextKey
    /\ lastStatus' = 401
    /\ UNCHANGED <<config, rows, budget, perKey, lastHttp, passHttp, result>>

TakeKey ==
    /\ CanTryKey
    /\ refreshed' = FALSE /\ repeated' = FALSE /\ sends' = 0
    /\ pc' = "send"
    /\ UNCHANGED <<config, at, queue, rows, budget, book, result>>

-----------------------------------------------------------------------------
(* The repeats of one key.                                                  *)

\* Mutated form: the repeats of a key do not look at the budget.
SendUnbounded ==
    /\ pc = "send"
    /\ providerAttempts' = providerAttempts + 1
    /\ sends' = sends + 1
    /\ contacted' = contacted \cup {upstream}
    /\ pc' = "answer"
    /\ UNCHANGED <<config, at, queue, rows, upstreamsTried, entered, refreshed, repeated, book, result>>

Send ==
    /\ pc = "send"
    /\ AttemptsLeft
    /\ providerAttempts' = providerAttempts + 1
    /\ sends' = sends + 1
    /\ contacted' = contacted \cup {upstream}
    /\ pc' = "answer"
    /\ UNCHANGED <<config, at, queue, rows, upstreamsTried, entered, refreshed, repeated, book, result>>

\* A refresh consumed the last attempt: the key is left as it is.
SendRefused ==
    /\ pc = "send"
    /\ ~AttemptsLeft
    /\ NextKey
    /\ UNCHANGED <<config, rows, budget, perKey, book, result>>

\* No HTTP answer.  A failure blamed on the outbound route leaves the upstream
\* in the race; one of the gateway's own (pool, deadline) may cool it.
NetworkFails(blameRoute) ==
    /\ pc = "answer"
    /\ lastStatus' = 502
    /\ IF ~blameRoute /\ opts.networkTrips THEN AbandonUpstream ELSE NextKey
    /\ UNCHANGED <<config, rows, budget, perKey, lastHttp, passHttp, result>>

\* An HTTP answer: every such action records it before acting on it.
Answered(s) ==
    /\ pc = "answer"
    /\ lastHttp' = s
    /\ passHttp' = (Classify(s) # "ok")

SetStatus(status, until) ==
    /\ keyStatus' = [keyStatus EXCEPT ![key] = status]
    /\ parked' = [parked EXCEPT ![key] = until]

\* Mutated form: protected_repeat_used is not consulted.
CanRepeatAlways == opts.protectedRetry /\ AttemptsLeft

CanRepeat == opts.protectedRetry /\ ~repeated /\ AttemptsLeft

\* The provider's error policy protects the key whatever the status says.
ProtectedRepeat(s) ==
    /\ Answered(s)
    /\ CanRepeat
    /\ repeated' = TRUE
    /\ lastStatus' = s
    /\ pc' = "send"
    /\ UNCHANGED <<config, at, queue, rows, budget, refreshed, sends, result>>

ProtectedGivesUp(s) ==
    /\ Answered(s)
    /\ ~CanRepeat
    /\ lastStatus' = s
    /\ AbandonUpstream
    /\ UNCHANGED <<config, rows, budget, perKey, result>>

\* _reward_key puts a key that was rate limited back into service.
Succeed(s) ==
    /\ Answered(s)
    /\ Classify(s) = "ok"
    /\ IF keyStatus[key] = "rate_limited" THEN SetStatus("active", FALSE) ELSE UNCHANGED rows
    /\ Finish("success", s)
    /\ UNCHANGED <<config, at, queue, budget, perKey, lastStatus>>

EmptySuccess(s) ==
    /\ Answered(s)
    /\ Classify(s) = "ok"
    /\ opts.zeroTokenRetry
    /\ lastStatus' = 200
    /\ NextKey
    /\ UNCHANGED <<config, rows, budget, perKey, result>>

CanRefresh(s) == Classify(s) = "key_invalid" /\ opts.refreshes /\ ~refreshed

RefreshCredential(s) ==
    /\ Answered(s)
    /\ CanRefresh(s)
    /\ refreshed' = TRUE
    /\ pc' = "send"
    /\ UNCHANGED <<config, at, queue, rows, budget, repeated, sends, lastStatus, result>>

\* Mutated form: the disabled key is tried once more.
DisableInvalidRetries(s) ==
    /\ Answered(s)
    /\ Classify(s) = "key_invalid"
    /\ refreshed' = (refreshed \/ opts.refreshes)
    /\ SetStatus("invalid", FALSE)
    /\ lastStatus' = s
    /\ pc' = "send"
    /\ UNCHANGED <<config, at, queue, budget, repeated, sends, result>>

\* The refresh was not possible or failed: the key leaves the pool.
DisableInvalid(s) ==
    /\ Answered(s)
    /\ Classify(s) = "key_invalid"
    /\ refreshed' = (refreshed \/ opts.refreshes)
    /\ SetStatus("invalid", FALSE)
    /\ lastStatus' = s
    /\ NextKey
    /\ UNCHANGED <<config, budget, repeated, sends, result>>

\* 402, or a 429 whose body says there is no quota left (detect_no_quota).
DisableNoBalance(s) ==
    /\ Answered(s)
    /\ Classify(s) \in {"insufficient_balance", "rate_limited"}
    /\ SetStatus("insufficient_balance", FALSE)
    /\ lastStatus' = s
    /\ NextKey
    /\ UNCHANGED <<config, budget, perKey, result>>

\* until is FALSE when the cooldown applied is 0 seconds.
RateLimited(s, until) ==
    /\ Answered(s)
    /\ Classify(s) = "rate_limited"
    /\ SetStatus("rate_limited", until)
    /\ lastStatus' = 429
    /\ NextKey
    /\ UNCHANGED <<config, budget, perKey, result>>

UpstreamFails(s) ==
    /\ Answered(s)
    /\ Classify(s) \in {"not_found", "server_error", "overloaded"}
    /\ lastStatus' = s
    /\ AbandonUpstream
    /\ UNCHANGED <<config, rows, budget, perKey, result>>

BadRequest(s) ==
    /\ Answered(s)
    /\ Classify(s) = "bad_request"
    /\ Finish("client_error", s)
    /\ UNCHANGED <<config, at, queue, rows, budget, perKey, lastStatus>>

-----------------------------------------------------------------------------
\* rate_limit_until passes.
CooldownElapses(k) ==
    /\ pc # "done"
    /\ parked[k]
    /\ parked' = [parked EXCEPT ![k] = FALSE]
    /\ UNCHANGED <<config, at, queue, pc, keyStatus, budget, perKey, book, result>>

HttpAnswer(s) ==
    \/ ProtectedRepeat(s) \/ ProtectedGivesUp(s)
    \/ Succeed(s) \/ EmptySuccess(s)
    \/ RefreshCredential(s) \/ DisableInvalid(s) \/ DisableNoBalance(s)
    \/ \E until \in BOOLEAN : RateLimited(s, until)
    \/ UpstreamFails(s) \/ BadRequest(s)

Step ==
    \/ RejectModel \/ Rank
    \/ SkipKeyless \/ EnterUpstream \/ Exhaust
    \/ LeaveUpstream \/ CredentialFails \/ TakeKey
    \/ Send \/ SendRefused
    \/ \E blameRoute \in BOOLEAN : NetworkFails(blameRoute)
    \/ \E s \in Statuses : HttpAnswer(s)

Next == Step \/ \E k \in Key : CooldownElapses(k)

Spec == Init /\ [][Next]_vars

\* Every await of a dispatch is bounded by the request deadline, so the request
\* itself never stops moving.
FairSpec == Spec /\ WF_vars(Step)

-----------------------------------------------------------------------------
TypeOK ==
    /\ options \in Options
    /\ order \in Seq(Upstream)
    /\ fallback \in SUBSET Upstream
    /\ at \in Nat \ {0}
    /\ queue \in Seq(Key)
    /\ pc \in {"route", "upstream", "key", "send", "answer", "done"}
    /\ pc \in {"key", "send", "answer"} => at \in DOMAIN order
    /\ pc \in {"send", "answer"} => queue # <<>>
    /\ keyStatus \in [Key -> KeyStatus]
    /\ parked \in [Key -> BOOLEAN]
    /\ providerAttempts \in Nat
    /\ upstreamsTried \in Nat
    /\ entered \in SUBSET Upstream
    /\ contacted \in SUBSET Upstream
    /\ refreshed \in BOOLEAN
    /\ repeated \in BOOLEAN
    /\ sends \in Nat
    /\ lastStatus \in Statuses \cup {200, 401, 429, 502}
    /\ lastHttp \in Statuses \cup {0}
    /\ passHttp \in BOOLEAN
    /\ result \in [kind : ResultKind, status : {0, 404, 502} \cup Statuses \cup {401, 429}]

(***************************************************************************)
(* The retry budget holds across the three nested loops and the two repeats *)
(* that re-enter the innermost one, and so does the upstream budget.        *)
(***************************************************************************)
AttemptBudget ==
    /\ providerAttempts <= MaxProviderAttempts
    /\ upstreamsTried <= MaxUpstreams

(***************************************************************************)
(* One visit to a key costs at most three attempts: the first, one after a  *)
(* forced refresh, one repeat of a protected error.                         *)
(***************************************************************************)
KeyRepeatBound == sends <= 3

(***************************************************************************)
(* An attempt in flight never uses a key this request knows to be out of    *)
(* service: disabled, invalid, out of balance, or parked by a 429 (unless   *)
(* its upstream was restored as an all-cooled fallback), although the keys  *)
(* of an upstream are selected once and several upstreams share a key.      *)
(***************************************************************************)
Usable(k) == k \in Eligible(upstream)

UsableKeyInFlight == pc = "answer" => Usable(key)

(***************************************************************************)
(* A request that failed never answers with a success status, although an   *)
(* empty 200 may be the last thing any upstream said.                       *)
(***************************************************************************)
FailureLooksLikeFailure ==
    result.kind \notin {"none", "success"} => result.status \notin 200..299

(***************************************************************************)
(* A failed search with both budgets left overlooked nothing: every ranked  *)
(* upstream was entered or had no active key.  An upstream skipped for want *)
(* of keys does not use up the upstream budget.                             *)
(***************************************************************************)
SearchIsComplete ==
    /\ result.kind \in {"passthrough", "unavailable"}
    /\ AttemptsLeft
    /\ Cardinality(entered) < MaxUpstreams
    => \A i \in DOMAIN order : order[i] \in entered \/ Active(order[i]) = {}

(***************************************************************************)
(* Every request is answered: no chain of refreshes, protected repeats,     *)
(* empty successes and skips goes on forever.                               *)
(***************************************************************************)
Answers == <>(pc = "done")

-----------------------------------------------------------------------------
(***************************************************************************)
(* docs/en/admin/models.md: the upstream budget counts only upstreams that  *)
(* actually send a request.  The code counts an upstream before it has a    *)
(* credential for any of its keys.                                          *)
(***************************************************************************)
BudgetCountsSenders == pc = "upstream" => upstreamsTried <= Cardinality(contacted)
=============================================================================
