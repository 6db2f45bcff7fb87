--------------------------- MODULE DispatchProofs ---------------------------
(***************************************************************************)
(* Proofs about Dispatch, for every route, key pool and setting.            *)
(***************************************************************************)
EXTENDS Dispatch, FiniteSetTheorems, TLAPS

USE DEF KeyStatus, OptionRecord, ResultKind

(***************************************************************************)
(* The inductive invariant.                                                 *)
(***************************************************************************)
Cost(b) == IF b THEN 1 ELSE 0

\* Every attempt on a key but the first is paid for by one of its two repeats.
RepeatsPaid ==
    /\ sends <= 3
    /\ pc = "send" => sends <= Cost(refreshed) + Cost(repeated)
    /\ pc = "answer" => sends <= 1 + Cost(refreshed) + Cost(repeated)

NothingYet == pc = "route" => upstreamsTried = 0

AtKeys == pc \in {"key", "send", "answer"}

\* The selected keys are distinct, and what happens to the one in use does not
\* touch those still waiting.
QueueUsable ==
    AtKeys => /\ \A i \in 1..Len(queue) : queue[i] \in Eligible(upstream)
              /\ \A i, j \in 1..Len(queue) : queue[i] = queue[j] => i = j

\* What may be passed through is no success.
PassIsFailure == passHttp => lastHttp \in Statuses /\ lastHttp \notin 200..299

IInv ==
    /\ TypeOK
    /\ AttemptBudget
    /\ NothingYet
    /\ RepeatsPaid
    /\ QueueUsable
    /\ PassIsFailure
    /\ FailureLooksLikeFailure

-----------------------------------------------------------------------------
(***************************************************************************)
(* classify calls a status a success exactly when it is a 2xx.              *)
(***************************************************************************)
LEMMA ClassifyOk ==
    ASSUME NEW s \in Int
    PROVE  Classify(s) = "ok" <=> s \in 200..299
<1>1. CASE s \in 200..299
  BY <1>1 DEF Classify
<1>2. CASE s \notin 200..299
  <2>1. Classify(s) \in {"key_invalid", "insufficient_balance", "not_found", "rate_limited",
                         "overloaded", "bad_request", "server_error"}
    BY <1>2 DEF Classify
  <2> QED BY <2>1, <1>2
<1> QED BY <1>1, <1>2

(***************************************************************************)
(* select_keys returns distinct keys, all of them eligible.                 *)
(***************************************************************************)
LEMMA KeyOrdersSound ==
    ASSUME NEW u \in Upstream, NEW s \in KeyOrders(u)
    PROVE  /\ s \in Seq(Key)
           /\ \A i \in 1..Len(s) : s[i] \in Eligible(u)
           /\ \A i, j \in 1..Len(s) : s[i] = s[j] => i = j
<1>1. PICK n \in 1..KeysPerUpstream : s \in Injection(1..n, Eligible(u))
  BY DEF KeyOrders
<1>2. s \in [1..n -> Eligible(u)] /\ \A i, j \in 1..n : s[i] = s[j] => i = j
  BY <1>1 DEF Injection, IsInjective
<1>3. n \in Nat
  BY ConstantsAssumption
<1>4. Eligible(u) \subseteq Key
  BY ConstantsAssumption DEF Eligible, Active, Recovered
<1>5. s \in Seq(Eligible(u)) /\ Len(s) = n
  BY <1>2, <1>3
<1> QED BY <1>2, <1>4, <1>5

\* No more keys are selected for an upstream than upstream_max_keys_per_attempt.
LEMMA KeyOrdersShort ==
    ASSUME NEW u \in Upstream, NEW s \in KeyOrders(u)
    PROVE  Len(s) <= KeysPerUpstream /\ Len(s) \in Nat
<1>1. PICK n \in 1..KeysPerUpstream : s \in Injection(1..n, Eligible(u))
  BY DEF KeyOrders
<1>2. s \in [1..n -> Eligible(u)] /\ n \in Nat /\ n <= KeysPerUpstream
  BY <1>1, ConstantsAssumption DEF Injection
<1>3. Len(s) = n
  BY <1>2
<1> QED BY <1>2, <1>3

(***************************************************************************)
(* Whatever is left of a queue of distinct usable keys after its head is    *)
(* one too, as long as only the head's row changed.                         *)
(***************************************************************************)
LEMMA TailUsable ==
    ASSUME NEW q \in Seq(Key), q # <<>>, NEW E, NEW F,
           \A i \in 1..Len(q) : q[i] \in E,
           \A i, j \in 1..Len(q) : q[i] = q[j] => i = j,
           \A k \in Key : k # q[1] /\ k \in E => k \in F
    PROVE  /\ Tail(q) \in Seq(Key)
           /\ \A i \in 1..Len(Tail(q)) : Tail(q)[i] \in F
           /\ \A i, j \in 1..Len(Tail(q)) : Tail(q)[i] = Tail(q)[j] => i = j
<1>1. Tail(q) \in Seq(Key) /\ Len(Tail(q)) = Len(q) - 1 /\ Len(q) \in Nat \ {0}
  OBVIOUS
<1>2. \A i \in 1..Len(Tail(q)) : Tail(q)[i] = q[i + 1] /\ i + 1 \in 1..Len(q) /\ q[i + 1] \in Key
  BY <1>1
<1>3. 1 \in 1..Len(q)
  BY <1>1
<1> QED BY <1>1, <1>2, <1>3

-----------------------------------------------------------------------------
LEMMA InitIInv == Init => IInv
<1> SUFFICES ASSUME Init PROVE IInv
  OBVIOUS
<1> USE ConstantsAssumption DEF Init
<1>1. TypeOK
  <2>1. order \in Seq(Upstream) /\ queue \in Seq(Key)
    OBVIOUS
  <2>2. result \in [kind : ResultKind, status : {0, 404, 502} \cup Statuses \cup {401, 429}]
    BY DEF NoResult
  <2>3. keyStatus \in [Key -> KeyStatus]
    OBVIOUS
  <2>4. parked \in [Key -> BOOLEAN] /\ refreshed \in BOOLEAN /\ repeated \in BOOLEAN /\ passHttp \in BOOLEAN
    OBVIOUS
  <2>5. at \in Nat \ {0} /\ providerAttempts \in Nat /\ upstreamsTried \in Nat /\ sends \in Nat
    OBVIOUS
  <2>6. lastStatus \in {200, 401, 429, 502} /\ lastHttp = 0 /\ pc = "route" /\ options \in Options
    OBVIOUS
  <2>7. fallback = {} /\ entered = {} /\ contacted = {}
    OBVIOUS
  <2> HIDE DEF Init
  <2> QED BY <2>1, <2>2, <2>3, <2>4, <2>5, <2>6, <2>7 DEF TypeOK
<1>2. AttemptBudget
  BY DEF AttemptBudget, MaxUpstreams
<1>3. NothingYet /\ RepeatsPaid /\ QueueUsable /\ PassIsFailure
  BY DEF NothingYet, RepeatsPaid, QueueUsable, AtKeys, PassIsFailure
<1>4. FailureLooksLikeFailure
  BY DEF FailureLooksLikeFailure, NoResult
<1> QED BY <1>1, <1>2, <1>3, <1>4 DEF IInv

LEMMA TypeStep == IInv /\ [Next]_vars => TypeOK'
<1> SUFFICES ASSUME IInv, [Next]_vars PROVE TypeOK'
  OBVIOUS
<1> USE ConstantsAssumption DEF IInv, TypeOK
<1> USE DEF config, rows, reached, budget, perKey, book, Finish
<1>1. CASE RejectModel
  BY <1>1 DEF RejectModel
<1>2. CASE Rank
  BY <1>2 DEF Rank
<1>3. CASE SkipKeyless
  BY <1>3 DEF SkipKeyless, CanTryUpstream
<1>4. CASE EnterUpstream
  <2>1. upstream \in Upstream /\ at \in DOMAIN order
    BY <1>4 DEF EnterUpstream, CanTryUpstream, upstream
  <2>2. queue' \in Seq(Key)
    BY <1>4, <2>1, KeyOrdersSound DEF EnterUpstream
  <2> QED BY <1>4, <2>1, <2>2 DEF EnterUpstream
<1>5. CASE Exhaust
  BY <1>5 DEF Exhaust, PassIsFailure
<1>6. CASE LeaveUpstream
  BY <1>6 DEF LeaveUpstream, AbandonUpstream
<1>7. CASE CredentialFails
  BY <1>7 DEF CredentialFails, CanTryKey, NextKey
<1>8. CASE TakeKey
  <2>1. queue' # <<>> /\ at' \in DOMAIN order'
    BY <1>8 DEF TakeKey, CanTryKey
  <2>2. refreshed' \in BOOLEAN /\ repeated' \in BOOLEAN
    BY <1>8, ZenonT(60) DEF TakeKey
  <2>3. sends' \in Nat /\ pc' = "send"
    BY <1>8 DEF TakeKey
  <2>4. UNCHANGED <<config, at, queue, rows, budget, book, result>>
    BY <1>8 DEF TakeKey
  <2> QED BY <2>1, <2>2, <2>3, <2>4
<1>9. CASE Send
  <2>1. upstream \in Upstream
    BY <1>9 DEF Send, upstream
  <2> QED BY <1>9, <2>1 DEF Send
<1>10. CASE SendRefused
  BY <1>10 DEF SendRefused, NextKey
<1>11. ASSUME NEW blameRoute \in BOOLEAN, NetworkFails(blameRoute) PROVE TypeOK'
  <2>1. CASE AbandonUpstream
    BY <1>11, <2>1 DEF NetworkFails, AbandonUpstream
  <2>2. CASE NextKey
    BY <1>11, <2>2 DEF NetworkFails, NextKey
  <2> QED BY <1>11, <2>1, <2>2 DEF NetworkFails
<1>12. ASSUME NEW s \in Statuses, HttpAnswer(s) PROVE TypeOK'
  <2> USE <1>12 DEF Answered
  <2>a. pc = "answer"
    BY ZenonT(60) DEF HttpAnswer, ProtectedRepeat, ProtectedGivesUp, Succeed, EmptySuccess, RefreshCredential,
           DisableInvalid, DisableNoBalance, RateLimited, UpstreamFails, BadRequest
  <2>k. key \in Key /\ Tail(queue) \in Seq(Key)
    <3> HIDE <1>12
    <3>1. queue \in Seq(Key) /\ queue # <<>>
      BY <2>a
    <3> QED BY <3>1 DEF key
  <2>s. ASSUME NEW st \in KeyStatus, NEW un \in BOOLEAN, SetStatus(st, un)
        PROVE  keyStatus' \in [Key -> KeyStatus] /\ parked' \in [Key -> BOOLEAN]
    BY <2>s, <2>k DEF SetStatus
  <2>1. CASE ProtectedRepeat(s)
    BY <2>1 DEF ProtectedRepeat
  <2>2. CASE ProtectedGivesUp(s)
    BY <2>2 DEF ProtectedGivesUp, AbandonUpstream
  <2>3. CASE Succeed(s)
    <3>1. keyStatus' \in [Key -> KeyStatus] /\ parked' \in [Key -> BOOLEAN]
      <4>1. CASE keyStatus[key] = "rate_limited"
        BY <4>1, <2>3, <2>s, ZenonT(60) DEF Succeed
      <4>2. CASE keyStatus[key] # "rate_limited"
        BY <4>2, <2>3 DEF Succeed
      <4> QED BY <4>1, <4>2
    <3> QED BY <2>3, <3>1 DEF Succeed
  <2>4. CASE EmptySuccess(s)
    BY <2>4, <2>k DEF EmptySuccess, NextKey
  <2>5. CASE RefreshCredential(s)
    BY <2>5 DEF RefreshCredential
  <2>6. CASE DisableInvalid(s)
    <3>1. keyStatus' \in [Key -> KeyStatus] /\ parked' \in [Key -> BOOLEAN]
      BY <2>6, <2>s, ZenonT(60) DEF DisableInvalid
    <3>2. refreshed' \in BOOLEAN
      BY <2>6 DEF DisableInvalid
    <3> QED BY <2>6, <2>k, <3>1, <3>2 DEF DisableInvalid, NextKey
  <2>7. CASE DisableNoBalance(s)
    <3>1. keyStatus' \in [Key -> KeyStatus] /\ parked' \in [Key -> BOOLEAN]
      BY <2>7, <2>s, ZenonT(60) DEF DisableNoBalance
    <3> QED BY <2>7, <2>k, <3>1 DEF DisableNoBalance, NextKey
  <2>8. ASSUME NEW until \in BOOLEAN, RateLimited(s, until) PROVE TypeOK'
    <3>1. keyStatus' \in [Key -> KeyStatus] /\ parked' \in [Key -> BOOLEAN]
      BY <2>8, <2>s DEF RateLimited
    <3> QED BY <2>8, <2>k, <3>1 DEF RateLimited, NextKey
  <2>9. CASE UpstreamFails(s)
    BY <2>9 DEF UpstreamFails, AbandonUpstream
  <2>10. CASE BadRequest(s)
    BY <2>10 DEF BadRequest
  <2> QED BY <2>1, <2>2, <2>3, <2>4, <2>5, <2>6, <2>7, <2>8, <2>9, <2>10 DEF HttpAnswer
<1>13. ASSUME NEW k \in Key, CooldownElapses(k) PROVE TypeOK'
  BY <1>13 DEF CooldownElapses
<1>14. CASE UNCHANGED vars
  BY <1>14 DEF vars
<1> QED
  BY <1>1, <1>2, <1>3, <1>4, <1>5, <1>6, <1>7, <1>8, <1>9, <1>10, <1>11, <1>12, <1>13, <1>14
  DEF Next, Step

-----------------------------------------------------------------------------
(* The other conjuncts, from the invariant and the type of the next state.  *)

\* The repeats re-enter the innermost loop through Send, which looks at the
\* budget; the ranking is drawn before any upstream is counted.
LEMMA BudgetStep == IInv /\ [Next]_vars /\ TypeOK' => AttemptBudget' /\ NothingYet'
<1> SUFFICES ASSUME IInv, [Next]_vars, TypeOK' PROVE AttemptBudget' /\ NothingYet'
  OBVIOUS
<1> USE ConstantsAssumption DEF IInv, AttemptBudget, NothingYet, MaxUpstreams
<1>t. /\ providerAttempts \in Nat /\ upstreamsTried \in Nat /\ order \in Seq(Upstream)
      /\ order' \in Seq(Upstream)
      /\ Len(order) \in Nat /\ Len(order)' \in Nat
  BY DEF TypeOK
<1>1. CASE RejectModel
  BY <1>1, <1>t DEF RejectModel, Finish, config, budget
<1>2. CASE Rank
  BY <1>2, <1>t DEF Rank, budget
<1>3. CASE EnterUpstream
  BY <1>3, <1>t DEF EnterUpstream, CanTryUpstream, AttemptsLeft, config, budget
<1>4. CASE Send
  BY <1>4, <1>t DEF Send, AttemptsLeft, config, budget
<1>5. CASE \/ SkipKeyless \/ Exhaust \/ LeaveUpstream \/ CredentialFails \/ TakeKey \/ SendRefused
           \/ UNCHANGED vars
  <2>1. UNCHANGED <<order, providerAttempts, upstreamsTried>> /\ (pc' = "route" => pc = "route")
    BY <1>5
    DEF SkipKeyless, CanTryUpstream, Exhaust, LeaveUpstream, CredentialFails, TakeKey, SendRefused,
        NextKey, AbandonUpstream, CanTryKey, Finish, config, budget, vars
  <2> QED BY <2>1, <1>t
<1>6. ASSUME NEW blameRoute \in BOOLEAN, NetworkFails(blameRoute)
      PROVE  AttemptBudget' /\ NothingYet'
  <2>1. UNCHANGED <<order, providerAttempts, upstreamsTried>> /\ pc' # "route"
    BY <1>6 DEF NetworkFails, NextKey, AbandonUpstream, config, budget
  <2> QED BY <2>1, <1>t
<1>7. ASSUME NEW s \in Statuses, HttpAnswer(s)
      PROVE  AttemptBudget' /\ NothingYet'
  <2>1. UNCHANGED <<order, providerAttempts, upstreamsTried>> /\ pc' # "route"
    BY <1>7
    DEF HttpAnswer, ProtectedRepeat, ProtectedGivesUp, Succeed, EmptySuccess, RefreshCredential,
        DisableInvalid, DisableNoBalance, RateLimited, UpstreamFails, BadRequest, NextKey,
        AbandonUpstream, Finish, config, budget
  <2> QED BY <2>1, <1>t
<1>8. ASSUME NEW k \in Key, CooldownElapses(k)
      PROVE  AttemptBudget' /\ NothingYet'
  BY <1>8, <1>t DEF CooldownElapses, config, budget
<1> QED
  BY <1>1, <1>2, <1>3, <1>4, <1>5, <1>6, <1>7, <1>8 DEF Next, Step

\* A repeat raises one of the two flags it is paid with; Send spends it.
LEMMA RepeatsStep == IInv /\ [Next]_vars /\ TypeOK' => RepeatsPaid'
<1> SUFFICES ASSUME IInv, [Next]_vars, TypeOK' PROVE RepeatsPaid'
  OBVIOUS
<1> USE DEF IInv, RepeatsPaid, Cost
<1>t. /\ sends \in Nat /\ refreshed \in BOOLEAN /\ repeated \in BOOLEAN
      /\ sends' \in Nat /\ refreshed' \in BOOLEAN /\ repeated' \in BOOLEAN
  BY DEF TypeOK
<1>1. CASE \/ RejectModel \/ Rank \/ SkipKeyless \/ EnterUpstream \/ Exhaust \/ LeaveUpstream
           \/ CredentialFails \/ SendRefused \/ UNCHANGED vars
  <2>1. UNCHANGED perKey /\ (pc' \in {"send", "answer"} => pc' = pc)
    BY <1>1
    DEF RejectModel, Rank, SkipKeyless, EnterUpstream, Exhaust, LeaveUpstream, CredentialFails,
        SendRefused, NextKey, AbandonUpstream, Finish, vars
  <2> QED BY <2>1, <1>t DEF perKey
<1>2. CASE TakeKey
  BY <1>2, <1>t DEF TakeKey
<1>3. CASE Send
  BY <1>3, <1>t DEF Send
<1>4. ASSUME NEW blameRoute \in BOOLEAN, NetworkFails(blameRoute) PROVE RepeatsPaid'
  BY <1>4, <1>t DEF NetworkFails, NextKey, AbandonUpstream, perKey
<1>5. ASSUME NEW s \in Statuses, HttpAnswer(s) PROVE RepeatsPaid'
  <2>1. CASE ProtectedRepeat(s)
    BY <2>1, <1>t DEF ProtectedRepeat, Answered, CanRepeat
  <2>2. CASE RefreshCredential(s)
    BY <2>2, <1>t DEF RefreshCredential, Answered, CanRefresh
  <2>3. CASE ~ProtectedRepeat(s) /\ ~RefreshCredential(s)
    <3>1. UNCHANGED sends /\ pc' \notin {"send", "answer"}
      BY <1>5, <2>3
      DEF HttpAnswer, ProtectedGivesUp, Succeed, EmptySuccess, DisableInvalid, DisableNoBalance,
          RateLimited, UpstreamFails, BadRequest, NextKey, AbandonUpstream, Finish, perKey
    <3> QED BY <3>1, <1>t
  <2> QED BY <2>1, <2>2, <2>3
<1>6. ASSUME NEW k \in Key, CooldownElapses(k) PROVE RepeatsPaid'
  BY <1>6, <1>t DEF CooldownElapses, perKey
<1> QED BY <1>1, <1>2, <1>3, <1>4, <1>5, <1>6 DEF Next, Step

\* Within one upstream the status of a key changes only while the key is at the
\* head of the queue, and then it leaves the queue; a cooldown that elapses
\* makes more keys eligible, never fewer.
LEMMA QueueStep == IInv /\ [Next]_vars /\ TypeOK' => QueueUsable'
<1> SUFFICES ASSUME IInv, [Next]_vars, TypeOK' PROVE QueueUsable'
  OBVIOUS
<1> USE ConstantsAssumption DEF IInv
<1>t. /\ queue \in Seq(Key) /\ queue' \in Seq(Key)
      /\ keyStatus \in [Key -> KeyStatus] /\ parked \in [Key -> BOOLEAN]
      /\ at \in Nat \ {0} /\ order \in Seq(Upstream)
  BY DEF TypeOK
<1>g. Eligible(upstream) = {k \in KeysOf[upstream] :
         \/ keyStatus[k] = "active"
         \/ keyStatus[k] = "rate_limited" /\ (~parked[k] \/ upstream \in fallback)}
  BY DEF Eligible, Active, Recovered
\* The steps that leave the rows and the queue as they are.
<1>s. ASSUME UNCHANGED <<config, at, queue, rows>>, AtKeys
      PROVE  QueueUsable'
  BY <1>s DEF QueueUsable, AtKeys, Eligible, Active, Recovered, upstream, config, rows
\* The steps that go on to the next key.
<1>n. ASSUME NextKey, UNCHANGED config, AtKeys, queue # <<>>,
             \A k \in Key : k # key => keyStatus'[k] = keyStatus[k] /\ parked'[k] = parked[k]
      PROVE  QueueUsable'
  <2>1. queue' = Tail(queue) /\ at' = at
    BY <1>n DEF NextKey
  <2>2. upstream' = upstream /\ fallback' = fallback
    BY <1>n, <2>1 DEF upstream, config
  <2>3. upstream \in Upstream
    BY <1>n DEF TypeOK, AtKeys, upstream
  <2>4. KeysOf[upstream] \subseteq Key
    BY <2>3
  <2>5. \A k \in Key : k # queue[1] /\ k \in Eligible(upstream) => k \in Eligible(upstream)'
    BY <1>n, <2>2, <2>4 DEF Eligible, Active, Recovered, key
  <2> DEFINE E == Eligible(upstream)
             F == Eligible(upstream)'
  <2>6. /\ \A i \in 1..Len(queue) : queue[i] \in E
        /\ \A i, j \in 1..Len(queue) : queue[i] = queue[j] => i = j
    BY <1>n DEF QueueUsable
  <2>7. \A k \in Key : k # queue[1] /\ k \in E => k \in F
    BY <2>5
  <2> HIDE ConstantsAssumption DEF E, F, IInv
  <2>8. /\ \A i \in 1..Len(Tail(queue)) : Tail(queue)[i] \in F
        /\ \A i, j \in 1..Len(Tail(queue)) : Tail(queue)[i] = Tail(queue)[j] => i = j
    BY <1>n, <1>t, <2>6, <2>7, TailUsable
  <2> QED BY <2>1, <2>8 DEF QueueUsable, F
<1>1. CASE \/ RejectModel \/ Rank \/ SkipKeyless \/ Exhaust \/ LeaveUpstream
  <2>1. ~AtKeys'
    BY <1>1 DEF RejectModel, Rank, SkipKeyless, CanTryUpstream, Exhaust, LeaveUpstream,
                AbandonUpstream, Finish, AtKeys
  <2> QED BY <2>1 DEF QueueUsable
<1>2. CASE EnterUpstream
  <2>1. upstream \in Upstream /\ queue' \in KeyOrders(upstream)
    BY <1>2, <1>t DEF EnterUpstream, CanTryUpstream, upstream
  <2>2. Eligible(upstream)' = Eligible(upstream)
    BY <1>2 DEF EnterUpstream, Eligible, Active, Recovered, upstream, config, rows
  <2> QED BY <2>1, <2>2, KeyOrdersSound DEF QueueUsable
<1>3. CASE CredentialFails \/ SendRefused
  <2>1. AtKeys /\ queue # <<>> /\ NextKey /\ UNCHANGED <<config, rows>>
    BY <1>3 DEF CredentialFails, SendRefused, CanTryKey, AtKeys, TypeOK
  <2> QED BY <2>1, <1>n DEF rows
<1>4. CASE TakeKey \/ Send
  <2>1. AtKeys /\ UNCHANGED <<config, at, queue, rows>>
    BY <1>4 DEF TakeKey, CanTryKey, Send, AtKeys
  <2> QED BY <2>1, <1>s
<1>5. ASSUME NEW blameRoute \in BOOLEAN, NetworkFails(blameRoute) PROVE QueueUsable'
  <2>1. CASE AbandonUpstream
    BY <2>1 DEF AbandonUpstream, QueueUsable, AtKeys
  <2>2. CASE NextKey
    <3>1. AtKeys /\ queue # <<>> /\ UNCHANGED <<config, rows>>
      BY <1>5 DEF NetworkFails, AtKeys, TypeOK
    <3> QED BY <2>2, <3>1, <1>n DEF rows
  <2> QED BY <1>5, <2>1, <2>2 DEF NetworkFails
<1>6. ASSUME NEW s \in Statuses, HttpAnswer(s) PROVE QueueUsable'
  <2>a. AtKeys /\ queue # <<>>
    <3>1. pc = "answer"
      BY <1>6 DEF HttpAnswer, ProtectedRepeat, ProtectedGivesUp, Succeed, EmptySuccess,
                  RefreshCredential, DisableInvalid, DisableNoBalance, RateLimited, UpstreamFails,
                  BadRequest, Answered
    <3> QED BY <3>1 DEF AtKeys, TypeOK
  <2>s. ASSUME NEW st, NEW un, SetStatus(st, un)
        PROVE  \A k \in Key : k # key => keyStatus'[k] = keyStatus[k] /\ parked'[k] = parked[k]
    BY <2>s, <1>t DEF SetStatus
  <2>1. CASE ProtectedRepeat(s) \/ RefreshCredential(s)
    BY <2>1, <2>a, <1>s DEF ProtectedRepeat, RefreshCredential
  <2>2. CASE ProtectedGivesUp(s) \/ Succeed(s) \/ UpstreamFails(s) \/ BadRequest(s)
    <3>1. ~AtKeys'
      BY <2>2 DEF ProtectedGivesUp, Succeed, UpstreamFails, BadRequest, AbandonUpstream, Finish,
                  AtKeys
    <3> QED BY <3>1 DEF QueueUsable
  <2>3. CASE EmptySuccess(s)
    BY <2>3, <2>a, <1>n DEF EmptySuccess, rows
  <2>4. CASE DisableInvalid(s)
    BY <2>4, <2>a, <2>s, <1>n DEF DisableInvalid
  <2>5. CASE DisableNoBalance(s)
    BY <2>5, <2>a, <2>s, <1>n DEF DisableNoBalance
  <2>6. ASSUME NEW until \in BOOLEAN, RateLimited(s, until) PROVE QueueUsable'
    BY <2>6, <2>a, <2>s, <1>n DEF RateLimited
  <2> QED BY <1>6, <2>1, <2>2, <2>3, <2>4, <2>5, <2>6 DEF HttpAnswer
<1>7. ASSUME NEW k \in Key, CooldownElapses(k) PROVE QueueUsable'
  <2>1. /\ UNCHANGED <<config, at, queue, pc, keyStatus>>
        /\ \A j \in Key : parked'[j] => parked[j]
    BY <1>7, <1>t DEF CooldownElapses
  <2>2. upstream' = upstream /\ fallback' = fallback
    BY <2>1 DEF upstream, config
  <2>3. CASE AtKeys
    <3>1. KeysOf[upstream] \subseteq Key
      BY <2>3 DEF TypeOK, AtKeys, upstream
    <3>2. Eligible(upstream) \subseteq Eligible(upstream)'
      BY <2>1, <2>2, <3>1 DEF Eligible, Active, Recovered
    <3> QED BY <2>1, <2>3, <3>2 DEF QueueUsable, AtKeys
  <2> QED BY <2>1, <2>3 DEF QueueUsable, AtKeys
<1>8. CASE UNCHANGED vars
  BY <1>8, <1>s DEF vars, QueueUsable, AtKeys
<1> QED
  BY <1>1, <1>2, <1>3, <1>4, <1>5, <1>6, <1>7, <1>8 DEF Next, Step

\* Every HTTP answer decides afresh whether it may be passed through; what ends
\* a request without success is a 4xx, a passed failure, or at least 400.
LEMMA FailureStep ==
    IInv /\ [Next]_vars /\ TypeOK' => PassIsFailure' /\ FailureLooksLikeFailure'
<1> SUFFICES ASSUME IInv, [Next]_vars, TypeOK' PROVE PassIsFailure' /\ FailureLooksLikeFailure'
  OBVIOUS
<1> USE ConstantsAssumption DEF IInv, PassIsFailure, FailureLooksLikeFailure, Finish
<1>1. CASE RejectModel
  BY <1>1 DEF RejectModel, book
<1>2. CASE Exhaust
  <2>0. lastStatus \in Int
    BY DEF TypeOK
  <2>1. CASE passHttp
    BY <1>2, <2>1 DEF Exhaust, book
  <2>2. CASE ~passHttp
    <3>1. result' = [kind |-> "unavailable", status |-> IF lastStatus >= 400 THEN lastStatus ELSE 502]
      BY <1>2, <2>2 DEF Exhaust
    <3>2. result'.status \notin 200..299
      BY <3>1, <2>0
    <3> QED BY <1>2, <2>2, <3>2 DEF Exhaust, book
  <2> QED BY <2>1, <2>2
<1>3. CASE \/ Rank \/ SkipKeyless \/ EnterUpstream \/ LeaveUpstream \/ CredentialFails \/ TakeKey
           \/ Send \/ SendRefused \/ UNCHANGED vars
  <2>1. UNCHANGED <<lastHttp, passHttp, result>>
    BY <1>3 DEF Rank, SkipKeyless, EnterUpstream, LeaveUpstream, CredentialFails, TakeKey, Send,
                SendRefused, book, vars
  <2> QED BY <2>1
<1>4. ASSUME NEW blameRoute \in BOOLEAN, NetworkFails(blameRoute)
      PROVE  PassIsFailure' /\ FailureLooksLikeFailure'
  BY <1>4 DEF NetworkFails
<1>5. ASSUME NEW s \in Statuses, HttpAnswer(s)
      PROVE  PassIsFailure' /\ FailureLooksLikeFailure'
  <2>0. s \in Int
    OBVIOUS
  <2>1. Answered(s)
    BY <1>5 DEF HttpAnswer, ProtectedRepeat, ProtectedGivesUp, Succeed, EmptySuccess,
                RefreshCredential, DisableInvalid, DisableNoBalance, RateLimited, UpstreamFails,
                BadRequest
  <2>2. PassIsFailure'
    <3>1. lastHttp' = s
      BY <2>1 DEF Answered
    <3>2. passHttp' => Classify(s) # "ok"
      BY <2>1 DEF Answered
    <3> QED BY <2>0, <3>1, <3>2, ClassifyOk
  <2>3. CASE Succeed(s)
    BY <2>2, <2>3 DEF Succeed
  <2>4. CASE BadRequest(s)
    <3>1. s \notin 200..299
      BY <2>0, <2>4, ClassifyOk DEF BadRequest
    <3> QED BY <2>2, <2>4, <3>1 DEF BadRequest
  <2>5. CASE ~Succeed(s) /\ ~BadRequest(s)
    <3>1. UNCHANGED result
      BY <1>5, <2>5 DEF HttpAnswer, ProtectedRepeat, ProtectedGivesUp, EmptySuccess,
                        RefreshCredential, DisableInvalid, DisableNoBalance, RateLimited,
                        UpstreamFails
    <3> QED BY <2>2, <3>1
  <2> QED BY <2>3, <2>4, <2>5
<1>6. ASSUME NEW k \in Key, CooldownElapses(k)
      PROVE  PassIsFailure' /\ FailureLooksLikeFailure'
  BY <1>6 DEF CooldownElapses, book
<1> QED
  BY <1>1, <1>2, <1>3, <1>4, <1>5, <1>6 DEF Next, Step

-----------------------------------------------------------------------------
(***************************************************************************)
(* The invariant is inductive.                                              *)
(***************************************************************************)
THEOREM Invariance == Spec => []IInv
<1>1. IInv /\ [Next]_vars => IInv'
  BY TypeStep, BudgetStep, RepeatsStep, QueueStep, FailureStep DEF IInv
<1> QED BY InitIInv, <1>1, PTL DEF Spec

(***************************************************************************)
(* The variables of a dispatch stay in their types, whatever the route, the *)
(* keys and the settings.                                                   *)
(***************************************************************************)
THEOREM TypeCorrect == Spec => []TypeOK
<1>1. IInv => TypeOK
  BY DEF IInv
<1> QED BY Invariance, <1>1, PTL

(***************************************************************************)
(* A request never spends more provider attempts than the setting allows,   *)
(* nor tries more upstreams than its route allows.                          *)
(***************************************************************************)
THEOREM BudgetHolds == Spec => []AttemptBudget
<1>1. IInv => AttemptBudget
  BY DEF IInv
<1> QED BY Invariance, <1>1, PTL

(***************************************************************************)
(* One visit to a key costs at most three attempts, however large the       *)
(* budget is.                                                               *)
(***************************************************************************)
THEOREM RepeatsBounded == Spec => []KeyRepeatBound
<1>1. IInv => KeyRepeatBound
  BY DEF IInv, RepeatsPaid, KeyRepeatBound
<1> QED BY Invariance, <1>1, PTL

(***************************************************************************)
(* The key of an attempt in flight is one the request holds to be usable.   *)
(***************************************************************************)
THEOREM InFlightUsable == Spec => []UsableKeyInFlight
<1>1. IInv => UsableKeyInFlight
  <2> SUFFICES ASSUME IInv, pc = "answer" PROVE Usable(key)
    BY DEF UsableKeyInFlight
  <2>1. 1 \in 1..Len(queue)
    BY DEF IInv, TypeOK
  <2> QED BY <2>1 DEF IInv, QueueUsable, AtKeys, Usable, key
<1> QED BY Invariance, <1>1, PTL

(***************************************************************************)
(* A request that was not served never reports a 2xx to its client.         *)
(***************************************************************************)
THEOREM FailureVisible == Spec => []FailureLooksLikeFailure
<1>1. IInv => FailureLooksLikeFailure
  BY DEF IInv
<1> QED BY Invariance, <1>1, PTL

-----------------------------------------------------------------------------
(***************************************************************************)
(* Completeness of the search.  Behind the position of the loop every       *)
(* upstream was entered or had no active key, and none gets one back before *)
(* the request ends; each counted upstream is entered once.                 *)
(***************************************************************************)
Behind == IF AtKeys THEN at ELSE at - 1

SearchInv ==
    /\ pc # "done" => result = NoResult
    /\ pc = "route" => entered = {} /\ at = 1
    /\ IsInjective(order)
    /\ IsFiniteSet(entered)
    /\ upstreamsTried = Cardinality(entered)
    /\ pc = "upstream" \/ AtKeys =>
          /\ entered \subseteq {order[i] : i \in {j \in DOMAIN order : j <= Behind}}
          /\ \A i \in DOMAIN order :
                i <= Behind => order[i] \in entered \/ Active(order[i]) = {}
    /\ SearchIsComplete

LEMMA InitSearch == Init => SearchInv
<1> SUFFICES ASSUME Init PROVE SearchInv
  OBVIOUS
<1>1. IsInjective(order)
  BY DEF Init, IsInjective
<1>2. IsFiniteSet(entered) /\ Cardinality(entered) = 0
  BY FS_EmptySet DEF Init
<1>3. SearchIsComplete
  BY DEF Init, SearchIsComplete, NoResult
<1> QED BY <1>1, <1>2, <1>3 DEF Init, SearchInv, AtKeys

\* Steps within the search that enter no upstream, pass none and activate no key.
LEMMA SearchKept ==
    ASSUME IInv, SearchInv, pc # "route", pc' # "route", pc' # "done",
           UNCHANGED <<order, entered, upstreamsTried, result>>,
           pc # "done", Behind' = Behind,
           \A k \in Key : keyStatus'[k] = "active" => keyStatus[k] = "active"
    PROVE  SearchInv'
<1>1. pc = "upstream" \/ AtKeys
  BY DEF IInv, TypeOK, AtKeys
<1>2. \A i \in DOMAIN order : Active(order[i])' \subseteq Active(order[i])
  BY ConstantsAssumption DEF IInv, TypeOK, Active
<1>3. SearchIsComplete'
  BY DEF SearchInv, SearchIsComplete, NoResult
<1> QED BY <1>1, <1>2, <1>3 DEF SearchInv

LEMMA SearchStep == IInv /\ SearchInv /\ [Next]_vars /\ IInv' => SearchInv'
<1> SUFFICES ASSUME IInv, SearchInv, [Next]_vars, IInv' PROVE SearchInv'
  OBVIOUS
<1>t. /\ at \in Nat \ {0} /\ order \in Seq(Upstream) /\ Len(order) \in Nat
      /\ providerAttempts \in Nat /\ upstreamsTried \in Nat
      /\ keyStatus \in [Key -> KeyStatus]
  BY DEF IInv, TypeOK
<1>c. Cardinality(entered) \in Nat
  BY FS_CardinalityType DEF SearchInv
\* Steps that end the request other than by exhausting the search.
<1>e. ASSUME pc # "done", pc' = "done", UNCHANGED <<order, entered, upstreamsTried>>,
             result'.kind \notin {"passthrough", "unavailable"}
      PROVE  SearchInv'
  BY <1>e DEF SearchInv, SearchIsComplete, AtKeys
\* Steps within the search that go past an upstream already entered.
<1>p. ASSUME AtKeys, pc' = "upstream", at' = at + 1,
             UNCHANGED <<order, entered, upstreamsTried, result, keyStatus>>
      PROVE  SearchInv'
  <2>1. pc # "route" /\ pc' # "route" /\ pc' # "done" /\ pc # "done" /\ Behind' = Behind
    BY <1>p, <1>t DEF AtKeys, Behind
  <2> QED BY <1>p, <2>1, SearchKept
\* Steps that stay with the upstream.
<1>k. ASSUME AtKeys, AtKeys', at' = at,
             UNCHANGED <<order, entered, upstreamsTried, result>>,
             \A k \in Key : keyStatus'[k] = "active" => keyStatus[k] = "active"
      PROVE  SearchInv'
  <2>1. pc # "route" /\ pc' # "route" /\ pc' # "done" /\ pc # "done" /\ Behind' = Behind
    BY <1>k DEF AtKeys, Behind
  <2> QED BY <1>k, <2>1, SearchKept
<1>1. CASE RejectModel
  <2>1. pc # "done" /\ pc' = "done" /\ UNCHANGED <<order, entered, upstreamsTried>>
        /\ result'.kind = "rejected"
    BY <1>1 DEF RejectModel, Finish, config, budget, reached
  <2> QED BY <2>1, <1>e
<1>2. CASE Rank
  <2>1. /\ pc = "route" /\ pc' = "upstream" /\ order' \in Routes
        /\ UNCHANGED <<at, keyStatus, entered, upstreamsTried, result>>
    BY <1>2 DEF Rank, budget, reached, rows
  <2>2. IsInjective(order')
    BY <2>1, ConstantsAssumption
  <2>3. entered = {}
    BY <2>1 DEF SearchInv
  <2>4. at = 1
    BY <2>1 DEF SearchInv
  <2>5. SearchIsComplete'
    BY <2>1 DEF SearchInv, SearchIsComplete, NoResult
  <2>6. Behind' = 0
    BY <2>1, <2>4 DEF Behind, AtKeys
  <2>7. \A i \in DOMAIN order' : ~(i <= Behind')
    BY <2>1, <2>6, ConstantsAssumption
  <2>8. entered' = {} /\ upstreamsTried' = Cardinality(entered') /\ IsFiniteSet(entered')
    BY <2>1, <2>3 DEF SearchInv
  <2> QED BY <2>1, <2>2, <2>5, <2>7, <2>8 DEF SearchInv
<1>3. CASE SkipKeyless
  <2>1. /\ pc = "upstream" /\ pc' = "upstream" /\ at' = at + 1 /\ at <= Len(order)
        /\ Active(order[at]) = {}
        /\ UNCHANGED <<order, entered, upstreamsTried, result, keyStatus>>
    BY <1>3 DEF SkipKeyless, CanTryUpstream, Eligible, upstream, config, budget, reached, rows
  <2>2. Behind = at - 1 /\ Behind' = at
    BY <2>1, <1>t DEF Behind, AtKeys
  <2>3. ASSUME NEW i \in DOMAIN order, i <= at
        PROVE  order[i] \in entered \/ Active(order[i]) = {}
    <3>1. CASE i = at
      BY <2>1, <3>1
    <3>2. CASE i # at
      <4>1. i <= Behind
        BY <2>2, <2>3, <3>2, <1>t
      <4> QED BY <2>1, <4>1 DEF SearchInv
    <3> QED BY <3>1, <3>2
  <2>4. entered \subseteq {order[i] : i \in {j \in DOMAIN order : j <= at}}
    BY <2>1, <2>2, <1>t DEF SearchInv
  <2>5. SearchIsComplete'
    BY <2>1 DEF SearchInv, SearchIsComplete, NoResult
  <2> QED BY <2>1, <2>2, <2>3, <2>4, <2>5 DEF SearchInv, Active, AtKeys
<1>4. CASE EnterUpstream
  <2>1. /\ pc = "upstream" /\ pc' = "key" /\ at' = at /\ at \in DOMAIN order
        /\ entered' = entered \cup {order[at]} /\ upstreamsTried' = upstreamsTried + 1
        /\ UNCHANGED <<order, result, keyStatus>>
    BY <1>4, <1>t DEF EnterUpstream, CanTryUpstream, upstream, config, rows
  <2>2. Behind = at - 1 /\ Behind' = at
    BY <2>1 DEF Behind, AtKeys
  <2>3. order[at] \notin entered
    BY <2>1, <2>2, <1>t DEF SearchInv, IsInjective
  <2>4. IsFiniteSet(entered') /\ Cardinality(entered') = Cardinality(entered) + 1
    BY <2>1, <2>3, FS_AddElement DEF SearchInv
  <2>5. \A i \in DOMAIN order : i <= at => order[i] \in entered' \/ Active(order[i]) = {}
    BY <2>1, <2>2, <1>t DEF SearchInv
  <2>6. entered' \subseteq {order[i] : i \in {j \in DOMAIN order : j <= at}}
    BY <2>1, <2>2, <1>t DEF SearchInv
  <2>7. SearchIsComplete'
    BY <2>1 DEF SearchInv, SearchIsComplete, NoResult
  <2>8. IsInjective(order)' /\ upstreamsTried' = Cardinality(entered)'
    BY <2>1, <2>4 DEF SearchInv
  <2>10. (\A i \in DOMAIN order : i <= Behind =>
            order[i] \in entered \/ Active(order[i]) = {})'
    <3>1. order' = order /\ Behind' = at /\ keyStatus' = keyStatus
      BY <2>1, <2>2
    <3> QED BY <3>1, <2>5 DEF Active
  <2>11. entered' \subseteq {order'[i] : i \in {j \in DOMAIN order' : j <= Behind'}}
    <3>1. order' = order /\ Behind' = at
      BY <2>1, <2>2
    <3> QED BY <3>1, <2>6
  <2>12. pc' = "key"
    BY <2>1
  <2>13. result' = NoResult
    BY <2>1 DEF SearchInv
  <2> QED BY <2>4, <2>7, <2>8, <2>10, <2>11, <2>12, <2>13 DEF SearchInv
<1>5. CASE Exhaust
  <2>1. /\ pc = "upstream" /\ pc' = "done" /\ ~CanTryUpstream
        /\ UNCHANGED <<order, entered, upstreamsTried, providerAttempts, keyStatus>>
    BY <1>5 DEF Exhaust, Finish, config, budget, reached, rows
  <2>2. Behind = at - 1
    BY <2>1 DEF Behind, AtKeys
  <2>3. AttemptsLeft /\ Cardinality(entered) < MaxUpstreams => at > Len(order)
    BY <2>1, <1>t DEF CanTryUpstream, SearchInv
  <2>4. at > Len(order) => \A i \in DOMAIN order : order[i] \in entered \/ Active(order[i]) = {}
    BY <2>1, <2>2, <1>t DEF SearchInv
  <2>5. SearchIsComplete'
    BY <2>1, <2>3, <2>4 DEF SearchIsComplete, AttemptsLeft, MaxUpstreams, Active
  <2> QED BY <2>1, <2>5 DEF SearchInv, AtKeys
<1>6. CASE LeaveUpstream
  <2>1. /\ AtKeys /\ pc' = "upstream" /\ at' = at + 1
        /\ UNCHANGED <<order, entered, upstreamsTried, result, keyStatus>>
    BY <1>6 DEF LeaveUpstream, AbandonUpstream, AtKeys, config, budget, reached, rows
  <2> QED BY <2>1, <1>p
<1>7. CASE CredentialFails \/ TakeKey \/ Send \/ SendRefused
  <2>1. /\ AtKeys /\ AtKeys' /\ at' = at
        /\ UNCHANGED <<order, entered, upstreamsTried, result, keyStatus>>
    BY <1>7 DEF CredentialFails, TakeKey, CanTryKey, Send, SendRefused, NextKey, AtKeys, config,
                budget, reached, rows
  <2> QED BY <2>1, <1>k
<1>8. ASSUME NEW blameRoute \in BOOLEAN, NetworkFails(blameRoute) PROVE SearchInv'
  <2>1. AtKeys /\ UNCHANGED <<order, entered, upstreamsTried, result, keyStatus>>
    BY <1>8 DEF NetworkFails, AtKeys, config, budget, reached, rows
  <2>2. CASE AbandonUpstream
    BY <2>1, <2>2, <1>p DEF AbandonUpstream
  <2>3. CASE NextKey
    BY <2>1, <2>3, <1>k DEF NextKey, AtKeys
  <2> QED BY <1>8, <2>2, <2>3 DEF NetworkFails
<1>9. ASSUME NEW s \in Statuses, HttpAnswer(s) PROVE SearchInv'
  <2>1. AtKeys
    <3>1. pc = "answer"
      BY <1>9 DEF HttpAnswer, ProtectedRepeat, ProtectedGivesUp, Succeed, EmptySuccess,
                  RefreshCredential, DisableInvalid, DisableNoBalance, RateLimited, UpstreamFails,
                  BadRequest, Answered
    <3> QED BY <3>1 DEF AtKeys
  <2>2. UNCHANGED <<order, entered, upstreamsTried>>
    BY <1>9 DEF HttpAnswer, ProtectedRepeat, ProtectedGivesUp, Succeed, EmptySuccess,
                RefreshCredential, DisableInvalid, DisableNoBalance, RateLimited, UpstreamFails,
                BadRequest, config, budget, reached
  <2>3. CASE ProtectedRepeat(s) \/ RefreshCredential(s) \/ EmptySuccess(s)
    <3>1. AtKeys' /\ at' = at /\ UNCHANGED <<result, keyStatus>>
      BY <2>3 DEF ProtectedRepeat, RefreshCredential, EmptySuccess, NextKey, AtKeys, rows
    <3> QED BY <2>1, <2>2, <3>1, <1>k
  <2>4. CASE ProtectedGivesUp(s) \/ UpstreamFails(s)
    <3>1. pc' = "upstream" /\ at' = at + 1 /\ UNCHANGED <<result, keyStatus>>
      BY <2>4 DEF ProtectedGivesUp, UpstreamFails, AbandonUpstream, rows
    <3> QED BY <2>1, <2>2, <3>1, <1>p
  <2>5. CASE Succeed(s) \/ BadRequest(s)
    <3>1. pc' = "done" /\ result'.kind \in {"success", "client_error"}
      <4>1. CASE Succeed(s)
        BY <4>1 DEF Succeed, Finish
      <4>2. CASE BadRequest(s)
        BY <4>2 DEF BadRequest, Finish
      <4> QED BY <2>5, <4>1, <4>2
    <3>2. pc # "done"
      BY <2>1 DEF AtKeys
    <3> QED BY <2>2, <3>1, <3>2, <1>e
  <2>6. ASSUME NEW st \in KeyStatus \ {"active"}, NEW un, SetStatus(st, un), NextKey,
               UNCHANGED result
        PROVE  SearchInv'
    <3>1. \A k \in Key : keyStatus'[k] = "active" => keyStatus[k] = "active"
      BY <2>6, <1>t DEF SetStatus
    <3>2. AtKeys' /\ at' = at
      BY <2>6 DEF NextKey, AtKeys
    <3> QED BY <2>1, <2>2, <2>6, <3>1, <3>2, <1>k
  <2>7. CASE DisableInvalid(s)
    BY <2>6, <2>7 DEF DisableInvalid
  <2>8. CASE DisableNoBalance(s)
    BY <2>6, <2>8 DEF DisableNoBalance
  <2>9. ASSUME NEW until \in BOOLEAN, RateLimited(s, until) PROVE SearchInv'
    BY <2>6, <2>9 DEF RateLimited
  <2> QED BY <1>9, <2>3, <2>4, <2>5, <2>7, <2>8, <2>9 DEF HttpAnswer
<1>10. CASE (\E k \in Key : CooldownElapses(k)) \/ UNCHANGED vars
  <2>1. UNCHANGED <<order, at, pc, entered, upstreamsTried, providerAttempts, keyStatus, result>>
    BY <1>10 DEF CooldownElapses, config, budget, reached, rows, vars
  <2> QED BY <2>1 DEF SearchInv, SearchIsComplete, AttemptsLeft, MaxUpstreams, Active, AtKeys,
                      Behind
<1> QED
  BY <1>1, <1>2, <1>3, <1>4, <1>5, <1>6, <1>7, <1>8, <1>9, <1>10 DEF Next, Step

(***************************************************************************)
(* A search that fails with both budgets left has overlooked no upstream    *)
(* that had an active key.                                                  *)
(***************************************************************************)
THEOREM SearchComplete == Spec => []SearchIsComplete
<1>1. Init => SearchInv
  BY InitSearch
<1>2. IInv /\ SearchInv /\ [Next]_vars /\ IInv' => SearchInv'
  BY SearchStep
<1>3. SearchInv => SearchIsComplete
  BY DEF SearchInv
<1> QED BY Invariance, <1>1, <1>2, <1>3, PTL DEF Spec

-----------------------------------------------------------------------------
(***************************************************************************)
(* The search ends.  Once the upstreams are ranked, a pair of numbers goes    *)
(* down in lexicographic order with every step of the request: the entries    *)
(* of the ranking still to visit, and the steps that can still follow in the  *)
(* visit: at most seven for a key, since a repeat uses up one of two flags    *)
(* that are reset only when the next key is taken.  The second number is      *)
(* bounded, so no request makes more than                                    *)
(* (Len(order) + 1) * (8 * KeysPerUpstream + 9) steps.                       *)
(***************************************************************************)
EntriesLeft == Len(order) + 1 - at

RepeatsLeft == 2 - Cost(refreshed) - Cost(repeated)

StepsLeftOnKey ==
    IF pc = "key" THEN 7
    ELSE IF pc = "send" THEN 2 * RepeatsLeft + 2
    ELSE 2 * RepeatsLeft + 1

StepsLeft ==
    IF pc = "done" THEN 0
    ELSE IF pc = "upstream" THEN 8 * KeysPerUpstream + 8
    ELSE 8 * Len(queue) + StepsLeftOnKey

Shrinks ==
    \/ EntriesLeft' < EntriesLeft
    \/ EntriesLeft' = EntriesLeft /\ StepsLeft' < StepsLeft

\* Where the measure is: both numbers are natural and bounded.
MeasureBounded ==
    pc # "route" => /\ EntriesLeft \in 0..Len(order)
                    /\ StepsLeft \in 0..(8 * KeysPerUpstream + 8)

\* A step of the request lowers the measure; time alone leaves it.
MeasureFalls ==
    pc # "route" => /\ Step => Shrinks
                    /\ ~Step => UNCHANGED <<EntriesLeft, StepsLeft>>

Places ==
    /\ pc # "route" => at <= Len(order) + 1
    /\ AtKeys => Len(queue) <= KeysPerUpstream
    /\ pc = "route" => at = 1

LEMMA MeasureTypes ==
    ASSUME IInv
    PROVE  /\ Len(order) \in Nat /\ at \in Nat \ {0} /\ Len(queue) \in Nat
           /\ refreshed \in BOOLEAN /\ repeated \in BOOLEAN /\ RepeatsLeft \in 0..2
           /\ KeysPerUpstream \in Nat \ {0}
           /\ AtKeys => at <= Len(order)
           /\ pc \in {"route", "upstream", "key", "send", "answer", "done"}
           /\ pc \in {"send", "answer"} => Len(queue) >= 1
<1>1. /\ order \in Seq(Upstream) /\ queue \in Seq(Key)
      /\ pc \in {"key", "send", "answer"} => at \in DOMAIN order
      /\ pc \in {"send", "answer"} => queue # <<>>
      /\ refreshed \in BOOLEAN /\ repeated \in BOOLEAN /\ at \in Nat \ {0}
      /\ pc \in {"route", "upstream", "key", "send", "answer", "done"}
  BY DEF IInv, TypeOK
<1>2. RepeatsLeft \in 0..2
  BY <1>1 DEF RepeatsLeft, Cost
<1>3. Len(order) \in Nat /\ Len(queue) \in Nat /\ (queue # <<>> => Len(queue) >= 1)
      /\ DOMAIN order = 1..Len(order)
  BY <1>1
<1> QED BY <1>1, <1>2, <1>3, ConstantsAssumption DEF AtKeys

LEMMA MeasureIsBounded == IInv /\ Places => MeasureBounded
<1> SUFFICES ASSUME IInv, Places, pc # "route"
             PROVE  /\ EntriesLeft \in 0..Len(order)
                    /\ StepsLeft \in 0..(8 * KeysPerUpstream + 8)
  BY DEF MeasureBounded
<1>1. EntriesLeft \in 0..Len(order)
  BY MeasureTypes DEF Places, EntriesLeft
<1>2. CASE pc \in {"done", "upstream"}
  BY <1>1, <1>2, MeasureTypes DEF StepsLeft
<1>3. CASE AtKeys
  <2>1. StepsLeftOnKey \in 0..7
    BY MeasureTypes DEF StepsLeftOnKey
  <2>2. StepsLeft = 8 * Len(queue) + StepsLeftOnKey /\ Len(queue) <= KeysPerUpstream
    BY <1>3 DEF StepsLeft, AtKeys, Places
  <2> QED BY <1>1, <2>1, <2>2, MeasureTypes
<1> QED BY <1>2, <1>3, MeasureTypes DEF AtKeys

\* What leaving a key or an upstream does to the measure.
LEMMA LeavingShrinks ==
    ASSUME IInv, IInv', Places, UNCHANGED order,
           \/ pc \in {"send", "answer"} /\ NextKey
           \/ pc = "key" /\ queue # <<>> /\ NextKey
           \/ pc \in {"key", "answer"} /\ AbandonUpstream
    PROVE  Shrinks /\ Places'
<1>1. CASE NextKey /\ queue # <<>> /\ pc \in {"key", "send", "answer"}
  <2>1. queue \in Seq(Key)
    BY DEF IInv, TypeOK
  <2>2. Len(queue') = Len(queue) - 1 /\ pc' = "key" /\ at' = at
    BY <1>1, <2>1 DEF NextKey
  <2> QED BY <1>1, <2>2, MeasureTypes
          DEF Shrinks, EntriesLeft, StepsLeft, StepsLeftOnKey, Places, AtKeys
<1>2. CASE AbandonUpstream /\ pc \in {"key", "answer"}
  BY <1>2, MeasureTypes DEF AbandonUpstream, Shrinks, EntriesLeft, Places, AtKeys
<1>3. pc \in {"send", "answer"} => queue # <<>>
  BY DEF IInv, TypeOK
<1> QED BY <1>1, <1>2, <1>3

LEMMA StepShrinks ==
    ASSUME IInv, IInv', Places, Step
    PROVE  Places' /\ (pc # "route" => Shrinks)
<1> USE DEF config
<1>1. CASE RejectModel
  BY <1>1, MeasureTypes DEF RejectModel, Finish, Places, AtKeys
<1>2. CASE Rank
  <2>1. pc = "route" /\ pc' = "upstream" /\ at' = at /\ order' \in Routes
    BY <1>2 DEF Rank
  <2>2. Len(order') \in Nat
    BY <2>1, ConstantsAssumption
  <2> QED BY <2>1, <2>2 DEF Places, AtKeys
<1>3. CASE SkipKeyless
  BY <1>3, MeasureTypes DEF SkipKeyless, CanTryUpstream, Places, AtKeys, Shrinks, EntriesLeft
<1>4. CASE EnterUpstream
  <2>1. /\ pc = "upstream" /\ pc' = "key" /\ at' = at /\ order' = order
        /\ at <= Len(order) /\ queue' \in KeyOrders(upstream)
    BY <1>4 DEF EnterUpstream, CanTryUpstream
  <2>2. upstream \in Upstream
    <3>1. order \in Seq(Upstream) /\ at \in 1..Len(order)
      BY <2>1, MeasureTypes DEF IInv, TypeOK
    <3> QED BY <3>1 DEF upstream
  <2>3. Len(queue') <= KeysPerUpstream /\ Len(queue') \in Nat
    BY <2>1, <2>2, KeyOrdersShort
  <2> QED BY <2>1, <2>3, MeasureTypes
          DEF Places, AtKeys, Shrinks, EntriesLeft, StepsLeft, StepsLeftOnKey
<1>5. CASE Exhaust
  BY <1>5, MeasureTypes DEF Exhaust, Finish, Places, AtKeys, Shrinks, EntriesLeft, StepsLeft
<1>6. CASE LeaveUpstream
  BY <1>6, LeavingShrinks DEF LeaveUpstream
<1>7. CASE CredentialFails
  BY <1>7, LeavingShrinks DEF CredentialFails, CanTryKey
<1>8. CASE TakeKey
  BY <1>8, MeasureTypes
  DEF TakeKey, CanTryKey, Places, AtKeys, Shrinks, EntriesLeft, StepsLeft, StepsLeftOnKey,
      RepeatsLeft, Cost
<1>9. CASE Send
  BY <1>9, MeasureTypes
  DEF Send, Places, AtKeys, Shrinks, EntriesLeft, StepsLeft, StepsLeftOnKey, RepeatsLeft
<1>10. CASE SendRefused
  BY <1>10, LeavingShrinks DEF SendRefused
<1>11. ASSUME NEW blameRoute \in BOOLEAN, NetworkFails(blameRoute) PROVE Places' /\ Shrinks
  BY <1>11, LeavingShrinks DEF NetworkFails
<1>12. ASSUME NEW s \in Statuses, HttpAnswer(s) PROVE Places' /\ Shrinks
  <2>1. pc = "answer" /\ order' = order
    BY <1>12
    DEF HttpAnswer, Answered, ProtectedRepeat, ProtectedGivesUp, Succeed, EmptySuccess,
        RefreshCredential, DisableInvalid, DisableNoBalance, RateLimited, UpstreamFails,
        BadRequest
  <2>2. CASE ProtectedRepeat(s)
    BY <2>1, <2>2, MeasureTypes
    DEF ProtectedRepeat, CanRepeat, budget, Places, AtKeys, Shrinks, EntriesLeft, StepsLeft,
        StepsLeftOnKey, RepeatsLeft, Cost
  <2>3. CASE RefreshCredential(s)
    BY <2>1, <2>3, MeasureTypes
    DEF RefreshCredential, CanRefresh, budget, Places, AtKeys, Shrinks, EntriesLeft, StepsLeft,
        StepsLeftOnKey, RepeatsLeft, Cost
  <2>4. CASE Succeed(s) \/ BadRequest(s)
    <3>1. pc' = "done" /\ at' = at
      BY <2>4 DEF Succeed, BadRequest, Finish
    <3>2. StepsLeft > 0 /\ StepsLeft' = 0 /\ EntriesLeft' = EntriesLeft
      BY <2>1, <3>1, MeasureTypes DEF StepsLeft, StepsLeftOnKey, EntriesLeft
    <3> QED BY <2>1, <3>1, <3>2, MeasureTypes DEF Places, AtKeys, Shrinks
  <2>5. CASE NextKey \/ AbandonUpstream
    BY <2>1, <2>5, LeavingShrinks
  <2> QED BY <1>12, <2>2, <2>3, <2>4, <2>5
          DEF HttpAnswer, ProtectedGivesUp, EmptySuccess, DisableInvalid, DisableNoBalance,
              RateLimited, UpstreamFails
<1> QED BY <1>1, <1>2, <1>3, <1>4, <1>5, <1>6, <1>7, <1>8, <1>9, <1>10, <1>11, <1>12 DEF Step

\* Whatever upstreams and keys answer, no chain of refreshes, repeats, empty successes and
\* skips goes on forever: what is left of the search goes down with every step of the
\* request, and never grows (_do_dispatch).
THEOREM SearchEnds == Spec => []MeasureBounded /\ [][MeasureFalls]_vars
<1>1. Init => Places
  BY DEF Init, Places, AtKeys
<1>2. IInv /\ IInv' /\ Places /\ [Next]_vars => Places' /\ [MeasureFalls]_vars
  <2> SUFFICES ASSUME IInv, IInv', Places, [Next]_vars PROVE Places' /\ [MeasureFalls]_vars
    OBVIOUS
  <2>1. CASE Step
    BY <2>1, StepShrinks DEF MeasureFalls
  <2>2. CASE ~Step /\ \E k \in Key : CooldownElapses(k)
    <3>1. UNCHANGED <<order, at, queue, pc, refreshed, repeated>>
      BY <2>2 DEF CooldownElapses, config, perKey
    <3>2. Places' /\ UNCHANGED <<EntriesLeft, StepsLeft>>
      BY <2>2, <3>1 DEF Places, AtKeys, EntriesLeft, StepsLeft, StepsLeftOnKey, RepeatsLeft
    <3> QED BY <2>2, <3>2 DEF MeasureFalls
  <2>3. CASE UNCHANGED vars
    <3>1. UNCHANGED <<order, queue, pc, at>>
      BY <2>3 DEF vars, config
    <3> QED BY <2>3, <3>1 DEF Places, AtKeys
  <2> QED BY <2>1, <2>2, <2>3 DEF Next
<1> QED BY <1>1, <1>2, MeasureIsBounded, Invariance, PTL DEF Spec
=============================================================================
