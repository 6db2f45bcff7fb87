----------------------------- MODULE OAuthProofs -----------------------------
(***************************************************************************)
(* Proofs about OAuth: rotations and logins that overlap strand no           *)
(* credential and spend nothing twice, for any number of requests,           *)
(* operators and logins.                                                    *)
(***************************************************************************)
EXTENDS OAuth, TLAPS

USE ConstantsAssumption
    DEF Ended, Holder, Phase, NoBundle, Bundle, Token, Code, PastedCode, DeviceCode, CodeOf,
        Process, Caller

(***************************************************************************)
(* The inductive invariant.                                                 *)
(***************************************************************************)

\* Tokens are numbered as they are issued.
LiveIssued == live \subseteq 1..issued

\* Either the logins are over or the callers and editors are.
Apart ==
    \/ \A l \in Login : phase[l] \in Ended
    \/ \A p \in Process \ Login : phase[p] \in Ended

\* Until a renewal fails, who is past the wait for a lease owns it, and it is renewed.
RefreshHeld ==
    ~broken => \A c \in Caller : phase[c] \in Holder =>
                  owner["refresh"] = c /\ renewing["refresh"] = TRUE

LoginHolder == {"claimed", "posting", "answered", "discarded", "leaving"}

LoginHeld ==
    ~broken => \A l \in Login \ Device : phase[l] \in LoginHolder =>
                  owner["login"] = l /\ renewing["login"] = TRUE

\* What a caller has been sent is good, and what it sends is, or its answer was lost.
AnswersLive ==
    ~broken => \A c \in Caller :
                  /\ phase[c] = "answered" => answer[c].refresh \in live
                  /\ phase[c] = "posting" => fresh[c].refresh \in live \cup lost

LoginsLive ==
    \A l \in Login : phase[l] \in {"answered", "discarded", "inserting"} => answer[l].refresh \in live

\* A submission sends a code that is unspent, or whose answer was lost.
CodeGood ==
    ~broken => \A l \in Login \ Device :
                  phase[l] = "posting" => code[PastedCode] = TRUE \/ PastedCode \in lost

IInv ==
    /\ TypeOK /\ LiveIssued /\ Apart /\ RefreshHeld /\ LoginHeld
    /\ AnswersLive /\ LoginsLive /\ CodeGood
    /\ CredentialSurvives /\ PendingStateUsable

-----------------------------------------------------------------------------
(* The types of the steps.                                                  *)

\* What TypeOK says of the callers' own variables.
CallersOK ==
    /\ force \in [Caller -> BOOLEAN]
    /\ view \in [Caller \cup Editor -> Bundle]
    /\ fresh \in [Caller -> Bundle]
    /\ token \in [Caller -> Token] /\ rejected \in [Caller -> Token]

\* A bundle is returned, refused or refreshed; what is refreshed has a refresh token.
LEMMA Decides ==
    ASSUME TypeOK, NEW b, NEW o, NEW f
    PROVE  /\ AtOnce(b, f) \in {"fails", "waits", "returns"}
           /\ UnderLease(b, o, f) \in {"fails", "waits", "returns"}
           /\ UnderLease(b, o, f) = "waits" => b.refresh # 0
BY DEF AtOnce, ClaudeAtOnce, CodexAtOnce, XaiAtOnce, Static, UnderLease, TypeOK, Flow

\* The steps with a decision in them, variable by variable.
LEMMA ResolveStep ==
    ASSUME TypeOK, NEW c \in Caller, Resolve(c)
    PROVE  /\ phase[c] = "resolving"
           /\ \E next \in {"using", "failed", "waiting"} : phase' = [phase EXCEPT ![c] = next]
           /\ token' \in [Caller -> Token]
           /\ UNCHANGED <<world, row, lease, endpoint, due, force, view, fresh, rejected, answer,
                          login, lost>>
<1>1. AtOnce(view[c], force[c]) \in {"fails", "waits", "returns"}
  BY Decides
<1>2. view[c].access \in Token
  BY DEF TypeOK
<1>3. CASE AtOnce(view[c], force[c]) = "waits"
  BY <1>3 DEF Resolve, Goes, TypeOK
<1>4. CASE AtOnce(view[c], force[c]) = "returns"
  BY <1>2, <1>4 DEF Resolve, Takes, Goes, TypeOK
<1>5. CASE AtOnce(view[c], force[c]) = "fails"
  BY <1>5 DEF Resolve, Takes, Goes, TypeOK
<1> QED BY <1>1, <1>3, <1>4, <1>5

LEMMA ReadAgainStep ==
    ASSUME TypeOK, NEW c \in Caller, ReadAgain(c)
    PROVE  /\ phase[c] = "reading"
           /\ \/ phase' = [phase EXCEPT ![c] = "releasing"]
              \/ phase' = [phase EXCEPT ![c] = "posting"] /\ row.refresh # 0
           /\ token' \in [Caller -> Token]
           /\ fresh' = [fresh EXCEPT ![c] = row]
           /\ UNCHANGED <<world, row, lease, endpoint, due, force, view, rejected, answer, login, lost>>
<1> DEFINE decision == IF row = NoBundle THEN "fails" ELSE UnderLease(row, view[c], force[c])
<1>1. decision \in {"fails", "waits", "returns"} /\ (decision = "waits" => row.refresh # 0)
  BY Decides
<1>2. row.access \in Token
  BY DEF TypeOK
<1>3. /\ phase[c] = "reading" /\ fresh' = [fresh EXCEPT ![c] = row]
      /\ CASE decision = "returns" -> Takes(c, row.access, "releasing")
             [] decision = "fails"   -> Takes(c, 0, "releasing")
             [] decision = "waits"   -> Goes(c, "posting") /\ UNCHANGED token
      /\ UNCHANGED <<world, row, lease, endpoint, due, force, view, rejected, answer, login, lost>>
  BY DEF ReadAgain
<1> HIDE DEF decision
<1>4. CASE decision = "waits"
  BY <1>1, <1>3, <1>4 DEF Goes, TypeOK
<1>5. CASE decision = "returns"
  BY <1>2, <1>3, <1>5 DEF Takes, Goes, TypeOK
<1>6. CASE decision = "fails"
  BY <1>3, <1>6 DEF Takes, Goes, TypeOK
<1> QED BY <1>1, <1>4, <1>5, <1>6

LEMMA ForgetType ==
    ASSUME CallersOK, NEW c, Forget(c)
    PROVE  CallersOK'
<1>1. fresh' \in [Caller -> Bundle] /\ view' \in [Caller \cup Editor -> Bundle]
  <2>1. NoBundle \in Bundle
    OBVIOUS
  <2> QED BY <2>1 DEF CallersOK, Forget
<1>2. token' \in [Caller -> Token] /\ rejected' \in [Caller -> Token]
  BY DEF CallersOK, Forget
<1>3. force' \in [Caller -> BOOLEAN]
  <2>1. ASSUME NEW x \in Caller
        PROVE  (IF x = c THEN c \in Manual ELSE force[x]) \in BOOLEAN
    <3>1. force[x] \in BOOLEAN
      BY DEF CallersOK
    <3>2. (c \in Manual) \in BOOLEAN
      OBVIOUS
    <3> QED BY <3>1, <3>2
  <2>2. force' = [x \in Caller |-> IF x = c THEN c \in Manual ELSE force[x]]
    BY DEF Forget
  <2> QED BY <2>1, <2>2
<1> QED BY <1>1, <1>2, <1>3 DEF CallersOK

LEMMA ConsumedType ==
    ASSUME TypeOK, NEW c \in Caller
    PROVE  Consumed(c) \subseteq Token
BY DEF Consumed, TypeOK

\* A process that ends with something in its hands: that is known to be lost.
LEMMA VanishStep ==
    ASSUME TypeOK, NEW p \in Process, Vanishes(p)
    PROVE  /\ phase[p] \in Holder \cup {"claimed", "discarded", "leaving", "inserting"}
           /\ phase' = [phase EXCEPT ![p] = "done"]
           /\ answer' = [answer EXCEPT ![p] = NoBundle]
           /\ lost \subseteq lost' /\ lost' \subseteq Token \cup Code
           /\ phase[p] = "answered" =>
                 (IF p \in Caller THEN Consumed(p) ELSE {CodeOf(p)}) \subseteq lost'
           /\ UNCHANGED <<world, row, endpoint, due, login>>
           /\ CallersOK'
<1>1. CallersOK
  BY DEF TypeOK, CallersOK
<1>2. CallersOK'
  BY <1>1, ForgetType DEF Vanishes
<1>3. (IF p \in Caller THEN Consumed(p) ELSE {CodeOf(p)}) \subseteq Token \cup Code
  BY ConsumedType
<1> QED BY <1>2, <1>3 DEF Vanishes, TypeOK, Goes

\* One process moves at a time, and not out of the end.
LEMMA PhaseStep ==
    ASSUME TypeOK, Next
    PROVE  \/ UNCHANGED phase
           \/ \E p \in Process, next \in Phase :
                 /\ phase' = [phase EXCEPT ![p] = next]
                 /\ phase[p] \in Ended => phase[p] = "failed" /\ next \in Ended
<1> DEFINE Moved == \/ UNCHANGED phase
                    \/ \E p \in Process, next \in Phase :
                          /\ phase' = [phase EXCEPT ![p] = next]
                          /\ phase[p] \in Ended => phase[p] = "failed" /\ next \in Ended
<1> USE DEF Moves, Goes, Takes
<1>1. ASSUME NEW p \in Caller \cup Editor, Load(p) PROVE Moved
  BY <1>1 DEF Load
<1>2. ASSUME NEW c \in Caller, Resolve(c) PROVE Moved
  BY <1>2, ResolveStep
<1>3. ASSUME NEW c \in Caller, ReadAgain(c) PROVE Moved
  BY <1>3, ReadAgainStep
<1>4. ASSUME NEW c \in Caller, \E rotates \in BOOLEAN : Accept(c, rotates) PROVE Moved
  BY <1>4 DEF Accept
<1>5. ASSUME NEW c \in Caller,
             TakeLease(c) \/ LoseAnswer(c) \/ Refuse(c) \/ Unreachable(c) \/ Store(c) \/ LeaveLease(c)
      PROVE  Moved
  BY <1>5 DEF TakeLease, LoseAnswer, Refuse, Unreachable, Store, LeaveLease
<1>6. ASSUME NEW c \in Caller, Use(c) \/ Rejected401(c) \/ GiveUp(c)
      PROVE  Moved
  BY <1>6 DEF Use, Rejected401, GiveUp
<1>7. ASSUME NEW p \in Process, Vanishes(p) PROVE Moved
  BY <1>7, VanishStep
<1>8. ASSUME NEW e \in Editor, EditStore(e) \/ Replace(e) PROVE Moved
  BY <1>8 DEF EditStore, Replace
<1>9. ASSUME NEW l \in Login, LoginStep(l) PROVE Moved
  BY <1>9 DEF LoginStep, Claim, Peek, Poll, Exchange, LoseExchange, ExchangeRefused,
              ExchangeUnreachable, Discard, LeaveClaim, Insert
<1>10. \/ DeleteKey \/ Expire \/ StateExpires
       \/ \E n \in {"refresh", "login"} : RenewalFails(n) \/ RunsOut(n)
       => UNCHANGED phase
  BY DEF DeleteKey, Expire, StateExpires, RenewalFails, RunsOut
<1> QED BY <1>1, <1>2, <1>3, <1>4, <1>5, <1>6, <1>7, <1>8, <1>9, <1>10
        DEF Next, CallerStep, Cancel, Crash

LEMMA CallersNext == TypeOK /\ Next => CallersOK'
<1> SUFFICES ASSUME TypeOK, Next PROVE CallersOK'
  OBVIOUS
<1>0. CallersOK
  BY DEF TypeOK, CallersOK
<1>1. ASSUME NEW p \in Caller \cup Editor, Load(p) PROVE CallersOK'
  BY <1>1 DEF Load, CallersOK, TypeOK
<1>2. ASSUME NEW c \in Caller, Resolve(c) PROVE CallersOK'
  BY <1>0, <1>2, ResolveStep DEF CallersOK
<1>3. ASSUME NEW c \in Caller, ReadAgain(c) PROVE CallersOK'
  <2>1. row \in Bundle
    BY DEF TypeOK
  <2>2. /\ fresh' = [fresh EXCEPT ![c] = row] /\ token' \in [Caller -> Token]
        /\ UNCHANGED <<force, view, rejected>>
    BY <1>3, ReadAgainStep
  <2>3. fresh' \in [Caller -> Bundle]
    BY <1>0, <2>1, <2>2 DEF CallersOK
  <2> QED BY <1>0, <2>2, <2>3 DEF CallersOK
<1>4. ASSUME UNCHANGED caller PROVE CallersOK'
  BY <1>0, <1>4 DEF caller, CallersOK
<1>5. ASSUME NEW c \in Caller,
             TakeLease(c) \/ LoseAnswer(c) \/ \E rotates \in BOOLEAN : Accept(c, rotates)
      PROVE  UNCHANGED caller
  BY <1>5 DEF TakeLease, LoseAnswer, Accept
<1>6. ASSUME NEW c \in Caller, Refuse(c) \/ Unreachable(c) \/ Store(c) PROVE CallersOK'
  <2>1. CASE Refuse(c)
    BY <1>0, <2>1 DEF Refuse, Takes, CallersOK, TypeOK
  <2>2. CASE Unreachable(c)
    BY <1>0, <2>2 DEF Unreachable, Takes, CallersOK, TypeOK
  <2>3. CASE Store(c)
    <3>1. /\ \E t \in {answer[c].access, 0} : token' = [token EXCEPT ![c] = t]
          /\ UNCHANGED <<force, view, fresh, rejected>>
      BY <2>3 DEF Store, Takes
    <3>2. answer[c].access \in Token /\ 0 \in Token
      BY DEF TypeOK, Bundle, NoBundle, Token
    <3> QED BY <1>0, <3>1, <3>2 DEF CallersOK
  <2> QED BY <1>6, <2>1, <2>2, <2>3
<1>7. ASSUME NEW c \in Caller, LeaveLease(c) PROVE CallersOK'
  BY <1>0, <1>7 DEF LeaveLease, CallersOK
<1>8. ASSUME NEW c \in Caller, Use(c) \/ GiveUp(c) PROVE CallersOK'
  BY <1>0, <1>8, ForgetType DEF Use, GiveUp
<1>9. ASSUME NEW c \in Caller, Rejected401(c) PROVE CallersOK'
  BY <1>0, <1>9 DEF Rejected401, CallersOK
<1>10. ASSUME NEW p \in Process, Vanishes(p) PROVE CallersOK'
  BY <1>10, VanishStep
<1>11. ASSUME NEW e \in Editor, EditStore(e) \/ Replace(e) PROVE CallersOK'
  BY <1>0, <1>11 DEF EditStore, Replace, CallersOK
<1>12. ASSUME NEW l \in Login, LoginStep(l) PROVE UNCHANGED caller
  BY <1>12 DEF LoginStep, Claim, Peek, Poll, Exchange, LoseExchange, ExchangeRefused,
               ExchangeUnreachable, Discard, LeaveClaim, Insert
<1>13. \/ DeleteKey \/ Expire \/ StateExpires
       \/ \E n \in {"refresh", "login"} : RenewalFails(n) \/ RunsOut(n)
       => UNCHANGED caller
  BY DEF DeleteKey, Expire, StateExpires, RenewalFails, RunsOut
<1> QED BY <1>1, <1>2, <1>3, <1>4, <1>5, <1>6, <1>7, <1>8, <1>9, <1>10, <1>11, <1>12, <1>13
        DEF Next, CallerStep, Cancel, Crash

-----------------------------------------------------------------------------
(* The leases.                                                              *)
Lease == {"refresh", "login"}

\* A step that leaves the leases alone lets nobody in among those past the wait.
Quiet ==
    /\ UNCHANGED <<lease, broken>>
    /\ \A c \in Caller : phase'[c] \in Holder => phase[c] \in Holder
    /\ \A l \in Login \ Device : phase'[l] \in LoginHolder => phase[l] \in LoginHolder

\* What a step does to the leases.
LEMMA LeaseStep ==
    ASSUME TypeOK, Next
    PROVE  \/ Quiet
           \/ \E c \in Caller : TakeLease(c) \/ LeaveLease(c)
           \/ \E p \in Process :
                 Vanishes(p) /\ (L!HolderStops(p) \/ (p \in Caller /\ L!Release("refresh", p)))
           \/ \E l \in Login : (Claim(l) /\ L!Acquire("login", l)) \/ LeaveClaim(l)
           \/ \E n \in Lease : RenewalFails(n) \/ RunsOut(n)
<1> USE DEF world, Moves, Goes, Takes
<1>1. ASSUME NEW p \in Process, NEW next, phase' = [phase EXCEPT ![p] = next],
             UNCHANGED <<lease, broken>>,
             p \in Caller /\ next \in Holder => phase[p] \in Holder,
             p \in Login \ Device /\ next \in LoginHolder => phase[p] \in LoginHolder
      PROVE  Quiet
  BY <1>1 DEF Quiet, TypeOK
<1>2. UNCHANGED <<lease, broken, phase>> => Quiet
  BY DEF Quiet
<1>3. ASSUME NEW c \in Caller, NEW next, phase' = [phase EXCEPT ![c] = next],
             UNCHANGED <<lease, broken>>, next \in Holder => phase[c] \in Holder
      PROVE  Quiet
  BY <1>1, <1>3
<1>4. ASSUME NEW c \in Caller, Load(c) PROVE Quiet
  BY <1>3, <1>4 DEF Load
<1>5. ASSUME NEW c \in Caller, Resolve(c) PROVE Quiet
  BY <1>3, <1>5, ResolveStep
<1>6. ASSUME NEW c \in Caller, ReadAgain(c) PROVE Quiet
  BY <1>3, <1>6, ReadAgainStep
<1>7. ASSUME NEW c \in Caller, NEW rotates \in BOOLEAN, Accept(c, rotates) PROVE Quiet
  BY <1>3, <1>7 DEF Accept
<1>8. ASSUME NEW c \in Caller, LoseAnswer(c) \/ Refuse(c) \/ Unreachable(c) \/ Store(c) PROVE Quiet
  BY <1>3, <1>8 DEF LoseAnswer, Refuse, Unreachable, Store
<1>9. ASSUME NEW c \in Caller, Use(c) \/ Rejected401(c) \/ GiveUp(c) PROVE Quiet
  BY <1>3, <1>9 DEF Use, Rejected401, GiveUp
<1>10. ASSUME NEW e \in Editor, Load(e) \/ EditStore(e) \/ Replace(e) PROVE Quiet
  BY <1>1, <1>10 DEF Load, EditStore, Replace
<1>11. ASSUME NEW l \in Login, NEW next, phase' = [phase EXCEPT ![l] = next],
              UNCHANGED <<lease, broken>>,
              l \notin Device /\ next \in LoginHolder => phase[l] \in LoginHolder
       PROVE  Quiet
  BY <1>1, <1>11
<1> USE DEF LoginHolder
<1>12. ASSUME NEW l \in Login, Peek(l) \/ Poll(l) \/ Exchange(l) \/ LoseExchange(l) PROVE Quiet
  BY <1>11, <1>12 DEF Peek, Poll, Exchange, LoseExchange
<1>13. ASSUME NEW l \in Login,
              ExchangeRefused(l) \/ ExchangeUnreachable(l) \/ Discard(l) \/ Insert(l)
       PROVE  Quiet
  BY <1>11, <1>13 DEF ExchangeRefused, ExchangeUnreachable, Discard, Insert
<1>14. ASSUME NEW l \in Login, Claim(l) PROVE Quiet \/ L!Acquire("login", l)
  BY <1>11, <1>14 DEF Claim
<1>15. DeleteKey \/ Expire \/ StateExpires => Quiet
  BY <1>2 DEF DeleteKey, Expire, StateExpires
<1>16. CASE \E c \in Caller : CallerStep(c)
  BY <1>4, <1>5, <1>6, <1>7, <1>8, <1>9, <1>16 DEF CallerStep, Cancel
<1>17. CASE \E l \in Login : LoginStep(l)
  BY <1>12, <1>13, <1>14, <1>17 DEF LoginStep
<1>18. CASE \E p \in Process : Crash(p)
  BY <1>18 DEF Crash
<1>19. CASE \E n \in {"refresh", "login"} : RenewalFails(n) \/ RunsOut(n)
  BY <1>19 DEF Lease
<1> QED BY <1>10, <1>15, <1>16, <1>17, <1>18, <1>19 DEF Next

\* The operations of a lease keep its type.
LEMMA LeaseOps ==
    ASSUME L!LeaseType, NEW n \in Lease, NEW p \in Process,
           \/ L!Acquire(n, p) \/ L!Release(n, p) \/ L!HolderStops(p)
           \/ L!RenewalDies(n) \/ L!RunsOut(n) \/ UNCHANGED lease
    PROVE  L!LeaseType'
<1> USE DEF L!LeaseType, Lease
<1>1. CASE L!Acquire(n, p)
  BY <1>1 DEF L!Acquire
<1>2. CASE L!Release(n, p)
  BY <1>2 DEF L!Release
<1>3. CASE L!HolderStops(p)
  BY <1>3 DEF L!HolderStops
<1>4. CASE L!RenewalDies(n) \/ L!RunsOut(n) \/ UNCHANGED lease
  BY <1>4 DEF L!RenewalDies, L!RunsOut, lease
<1> QED BY <1>1, <1>2, <1>3, <1>4

LEMMA LeaseNext == TypeOK /\ Next => L!LeaseType'
<1> SUFFICES ASSUME TypeOK, Next PROVE L!LeaseType'
  OBVIOUS
<1>0. L!LeaseType /\ "refresh" \in Lease /\ "login" \in Lease
  BY DEF TypeOK, Lease
<1>1. ASSUME NEW c \in Caller, TakeLease(c) \/ LeaveLease(c) PROVE L!LeaseType'
  <2>1. L!Acquire("refresh", c) \/ L!Release("refresh", c)
    BY <1>1 DEF TakeLease, LeaveLease
  <2> QED BY <1>0, <2>1, LeaseOps
<1>2. ASSUME NEW l \in Login, (Claim(l) /\ L!Acquire("login", l)) \/ LeaveClaim(l) PROVE L!LeaseType'
  <2>1. L!Acquire("login", l) \/ L!Release("login", l)
    BY <1>2 DEF LeaveClaim
  <2> QED BY <1>0, <2>1, LeaseOps
<1>3. ASSUME NEW n \in Lease, RenewalFails(n) \/ RunsOut(n) PROVE L!LeaseType'
  <2>1. L!RenewalDies(n) \/ L!RunsOut(n)
    BY <1>3 DEF RenewalFails, RunsOut
  <2> QED BY <1>0, <2>1, LeaseOps DEF L!RenewalDies, L!RunsOut, L!LeaseType, Lease
<1>4. CASE Quiet
  BY <1>0, <1>4 DEF Quiet, lease, L!LeaseType
<1> QED BY <1>0, <1>1, <1>2, <1>3, <1>4, LeaseStep, LeaseOps

-----------------------------------------------------------------------------
(* The type invariant.                                                      *)

\* What TypeOK says of the rest.
RecordsOK ==
    /\ flow \in Flows /\ broken \in BOOLEAN
    /\ row \in Bundle
    /\ live \subseteq 1..MaxIssued /\ issued \in Token
    /\ due \in Token
    /\ answer \in [Process -> Bundle]
    /\ state \in BOOLEAN /\ code \in [Code -> BOOLEAN]
    /\ lost \subseteq Token \cup Code
    /\ LiveIssued

records == <<world, row, endpoint, due, answer, login, lost>>

LEMMA RecordsNext == TypeOK /\ LiveIssued /\ Next => RecordsOK'
<1> SUFFICES ASSUME TypeOK, LiveIssued, Next PROVE RecordsOK'
  OBVIOUS
<1>0. RecordsOK
  BY DEF TypeOK, RecordsOK
<1> USE DEF LiveIssued
<1>1. ASSUME UNCHANGED records PROVE RecordsOK'
  BY <1>0, <1>1 DEF records, RecordsOK, world, endpoint, login
<1>2. ASSUME NEW c \in Caller,
             Resolve(c) \/ ReadAgain(c) \/ TakeLease(c) \/ Refuse(c) \/ Unreachable(c)
               \/ Use(c) \/ Rejected401(c) \/ GiveUp(c)
      PROVE  UNCHANGED records
  BY <1>2 DEF Resolve, ReadAgain, TakeLease, Refuse, Unreachable, Use, Rejected401,
     GiveUp, records
<1>3. ASSUME NEW p \in Caller \cup Editor, Load(p) PROVE UNCHANGED records
  BY <1>3 DEF Load, records
<1>4. ASSUME NEW c \in Caller, NEW rotates \in BOOLEAN, Accept(c, rotates) PROVE RecordsOK'
  <2> DEFINE old == fresh[c].refresh
             new == IF rotates THEN issued + 1 ELSE old
             pair == [access |-> issued + 1, refresh |-> new]
  <2>1. /\ old \in 1..issued /\ issued \in Nat /\ issued + 1 <= MaxIssued
        /\ issued' = issued + 1 /\ live' = (live \ {old}) \cup {new}
        /\ answer' = [answer EXCEPT ![c] = pair]
        /\ UNCHANGED <<world, row, due, login, lost>>
    <3>1. old \in live /\ live \subseteq 1..issued /\ issued \in Nat /\ MaxIssued \in Nat
      BY <1>0, <1>4 DEF Accept, RecordsOK
    <3>2. /\ issued < MaxIssued /\ issued' = issued + 1
          /\ UNCHANGED <<world, row, due, login, lost>>
      BY <1>4 DEF Accept
    <3>3. live' = (live \ {old}) \cup {new} /\ answer' = [answer EXCEPT ![c] = pair]
      BY <1>4 DEF Accept
    <3> HIDE DEF old, new, pair
    <3> QED BY <3>1, <3>2, <3>3
  <2>2. new \in 1..(issued + 1) /\ pair \in Bundle
    BY <2>1
  <2>3. answer' \in [Process -> Bundle]
    <3> HIDE DEF pair
    <3> QED BY <1>0, <2>1, <2>2 DEF RecordsOK
  <2>4. live' \subseteq 1..issued' /\ live' \subseteq 1..MaxIssued /\ issued' \in Token
    <3> HIDE DEF new, old
    <3> QED BY <1>0, <2>1, <2>2 DEF RecordsOK
  <2> QED BY <1>0, <2>1, <2>3, <2>4 DEF RecordsOK, world, login
<1>5. ASSUME NEW c \in Caller, LoseAnswer(c) PROVE RecordsOK'
  BY <1>0, <1>5, ConsumedType DEF LoseAnswer, RecordsOK, world, endpoint, login
<1>6. ASSUME NEW c \in Caller, Store(c) \/ LeaveLease(c) PROVE RecordsOK'
  <2>1. row' \in Bundle /\ answer' \in [Process -> Bundle]
    BY <1>0, <1>6 DEF Store, LeaveLease, RecordsOK
  <2>2. UNCHANGED <<world, endpoint, due, login, lost>>
    BY <1>6 DEF Store, LeaveLease
  <2> QED BY <1>0, <2>1, <2>2 DEF RecordsOK, world, endpoint, login
<1>7. ASSUME NEW p \in Process, Vanishes(p) PROVE RecordsOK'
  <2>1. /\ UNCHANGED <<world, row, endpoint, due, login>> /\ lost' \subseteq Token \cup Code
        /\ answer' = [answer EXCEPT ![p] = NoBundle]
    BY <1>7, VanishStep
  <2>2. answer' \in [Process -> Bundle]
    BY <1>0, <2>1 DEF RecordsOK
  <2> QED BY <1>0, <2>1, <2>2 DEF RecordsOK, world, endpoint, login
<1>8. ASSUME NEW e \in Editor, EditStore(e) \/ Replace(e) PROVE RecordsOK'
  <2>1. view[e] \in Bundle
    BY DEF TypeOK
  <2> QED BY <1>0, <1>8, <2>1 DEF EditStore, Replace, RecordsOK, world, endpoint, login
<1>9. ASSUME NEW l \in Login, LoginStep(l) PROVE RecordsOK'
  <2>1. CASE Claim(l) \/ Poll(l) \/ ExchangeUnreachable(l) \/ LeaveClaim(l)
    BY <1>1, <2>1 DEF Claim, Poll, ExchangeUnreachable, LeaveClaim, records
  <2>2. CASE Peek(l) \/ ExchangeRefused(l) \/ Discard(l)
    BY <1>0, <2>2 DEF Peek, ExchangeRefused, Discard, RecordsOK, world, endpoint
  <2>3. CASE LoseExchange(l)
    BY <1>0, <2>3 DEF LoseExchange, RecordsOK, world, endpoint, login
  <2>4. CASE Exchange(l)
    BY <1>0, <2>4 DEF Exchange, RecordsOK, world
  <2>5. CASE Insert(l)
    BY <1>0, <2>5 DEF Insert, RecordsOK, world, endpoint, login
  <2> QED BY <1>9, <2>1, <2>2, <2>3, <2>4, <2>5 DEF LoginStep
<1>10. DeleteKey \/ Expire \/ StateExpires => RecordsOK'
  <2>1. DeleteKey => RecordsOK'
    BY <1>0 DEF DeleteKey, RecordsOK, world, endpoint, login
  <2>2. Expire => RecordsOK'
    BY <1>0 DEF Expire, RecordsOK, world, endpoint, login
  <2>3. StateExpires => RecordsOK'
    BY <1>0 DEF StateExpires, RecordsOK, world, endpoint, login
  <2> QED BY <2>1, <2>2, <2>3
<1>11. ASSUME NEW n \in {"refresh", "login"}, RenewalFails(n) \/ RunsOut(n) PROVE RecordsOK'
  BY <1>0, <1>11 DEF RenewalFails, RunsOut, RecordsOK, world, endpoint, login
<1> QED BY <1>1, <1>2, <1>3, <1>4, <1>5, <1>6, <1>7, <1>8, <1>9, <1>10, <1>11
        DEF Next, CallerStep, Cancel, Crash

LEMMA TypeNext == TypeOK /\ LiveIssued /\ [Next]_vars => TypeOK' /\ LiveIssued'
<1> SUFFICES ASSUME TypeOK, LiveIssued, [Next]_vars PROVE TypeOK' /\ LiveIssued'
  OBVIOUS
<1>1. CASE UNCHANGED vars
  BY <1>1 DEF vars, world, lease, endpoint, caller, login, TypeOK, LiveIssued, L!LeaseType
<1>2. CASE Next
  <2>1. phase' \in [Process -> Phase]
    BY <1>2, PhaseStep DEF TypeOK
  <2> QED BY <1>2, <2>1, CallersNext, LeaseNext, RecordsNext DEF TypeOK, CallersOK,
          RecordsOK
<1> QED BY <1>1, <1>2

\* Who is at the end stays there: what is over at the start is over for good.
LEMMA ApartNext == TypeOK /\ Apart /\ [Next]_vars => Apart'
<1> SUFFICES ASSUME TypeOK, Apart, [Next]_vars PROVE Apart'
  OBVIOUS
<1>1. \A p \in Process : phase[p] \in Ended => phase'[p] \in Ended
  BY PhaseStep DEF TypeOK, vars
<1> QED BY <1>1 DEF Apart

-----------------------------------------------------------------------------
(* Mutual exclusion.                                                        *)

\* The lease of the refresh.
LEMMA RefreshHeldNext == TypeOK /\ RefreshHeld /\ [Next]_vars => RefreshHeld'
<1> SUFFICES ASSUME TypeOK, RefreshHeld, [Next]_vars PROVE RefreshHeld'
  OBVIOUS
<1> USE DEF TypeOK, L!LeaseType, Moves, Goes
<1>1. CASE UNCHANGED vars \/ Quiet
  BY <1>1 DEF vars, world, lease, Quiet, RefreshHeld
<1>2. ASSUME NEW c \in Caller, TakeLease(c) PROVE RefreshHeld'
  <2>1. /\ owner["refresh"] = Free /\ phase' = [phase EXCEPT ![c] = "reading"] /\ broken' = broken
        /\ owner' = [owner EXCEPT !["refresh"] = c] /\ renewing' = [renewing EXCEPT !["refresh"] = TRUE]
    BY <1>2 DEF TakeLease, L!Acquire, world
  <2> QED BY <2>1 DEF RefreshHeld
<1>3. ASSUME NEW c \in Caller, LeaveLease(c) PROVE RefreshHeld'
  <2>1. /\ phase[c] = "releasing" /\ broken' = broken
        /\ phase' = [phase EXCEPT ![c] = IF token[c] # 0 THEN "using" ELSE "failed"]
    BY <1>3 DEF LeaveLease, world
  <2> QED BY <2>1 DEF RefreshHeld
<1>4. ASSUME NEW p \in Process, Vanishes(p),
             L!HolderStops(p) \/ (p \in Caller /\ L!Release("refresh", p))
      PROVE  RefreshHeld'
  <2>1. phase' = [phase EXCEPT ![p] = "done"] /\ broken' = broken
    BY <1>4, VanishStep DEF world
  <2>2. CASE L!HolderStops(p)
    BY <2>1, <2>2 DEF RefreshHeld, L!HolderStops
  <2>3. CASE p \in Caller /\ L!Release("refresh", p)
    <3>1. phase[p] \in Holder \cup {"claimed", "discarded", "leaving", "inserting"}
      BY <1>4, VanishStep
    <3>2. \A c \in Caller : c # p /\ phase[c] \in Holder /\ ~broken => owner["refresh"] # p
      BY DEF RefreshHeld
    <3> QED BY <2>1, <2>3, <3>2 DEF RefreshHeld, L!Release
  <2> QED BY <1>4, <2>2, <2>3
<1>5. ASSUME NEW l \in Login, (Claim(l) /\ L!Acquire("login", l)) \/ LeaveClaim(l)
      PROVE  RefreshHeld'
  <2>1. owner'["refresh"] = owner["refresh"] /\ renewing'["refresh"] = renewing["refresh"] /\ broken' = broken
    BY <1>5 DEF LeaveClaim, Claim, L!Acquire, L!Release, world
  <2>2. \A c \in Caller : phase'[c] = phase[c]
    BY <1>5 DEF LeaveClaim, Claim
  <2> QED BY <2>1, <2>2 DEF RefreshHeld
<1>6. ASSUME NEW n \in Lease, RunsOut(n) PROVE RefreshHeld'
  BY <1>6 DEF RefreshHeld, RunsOut, L!RunsOut, world, Lease
<1>7. ASSUME NEW n \in Lease, RenewalFails(n) PROVE RefreshHeld'
  BY <1>7 DEF RefreshHeld, RenewalFails
<1> QED BY <1>1, <1>2, <1>3, <1>4, <1>5, <1>6, <1>7, LeaseStep

\* The lease of the login.
LEMMA LoginHeldNext == TypeOK /\ LoginHeld /\ [Next]_vars => LoginHeld'
<1> SUFFICES ASSUME TypeOK, LoginHeld, [Next]_vars PROVE LoginHeld'
  OBVIOUS
<1> USE DEF TypeOK, L!LeaseType, Moves, Goes, LoginHolder
<1>1. CASE UNCHANGED vars \/ Quiet
  BY <1>1 DEF vars, world, lease, Quiet, LoginHeld
<1>2. ASSUME NEW c \in Caller, TakeLease(c) \/ LeaveLease(c) PROVE LoginHeld'
  <2>1. owner'["login"] = owner["login"] /\ renewing'["login"] = renewing["login"] /\ broken' = broken
    BY <1>2 DEF TakeLease, LeaveLease, L!Acquire, L!Release, world
  <2>2. \A l \in Login : phase'[l] = phase[l]
    BY <1>2 DEF TakeLease, LeaveLease
  <2> QED BY <2>1, <2>2 DEF LoginHeld
<1>3. ASSUME NEW p \in Process, Vanishes(p),
             L!HolderStops(p) \/ (p \in Caller /\ L!Release("refresh", p))
      PROVE  LoginHeld'
  <2>1. phase' = [phase EXCEPT ![p] = "done"] /\ broken' = broken
    BY <1>3, VanishStep DEF world
  <2>2. CASE L!HolderStops(p)
    BY <2>1, <2>2 DEF LoginHeld, L!HolderStops
  <2>3. CASE p \in Caller /\ L!Release("refresh", p)
    <3>1. owner'["login"] = owner["login"] /\ renewing'["login"] = renewing["login"]
      BY <2>3 DEF L!Release
    <3> QED BY <2>1, <3>1 DEF LoginHeld
  <2> QED BY <1>3, <2>2, <2>3
<1>4. ASSUME NEW l \in Login, Claim(l), L!Acquire("login", l) PROVE LoginHeld'
  <2>1. /\ owner["login"] = Free /\ broken' = broken /\ l \notin Device
        /\ owner' = [owner EXCEPT !["login"] = l] /\ renewing' = [renewing EXCEPT !["login"] = TRUE]
        /\ \A x \in Login : x # l => phase'[x] = phase[x]
    BY <1>4 DEF Claim, L!Acquire, world
  <2> QED BY <2>1 DEF LoginHeld
<1>5. ASSUME NEW l \in Login, LeaveClaim(l) PROVE LoginHeld'
  <2>1. /\ broken' = broken /\ L!Release("login", l)
        /\ phase' = [phase EXCEPT ![l] = "inserting"] \/ phase' = [phase EXCEPT ![l] = "failed"]
        /\ phase[l] \in LoginHolder
    BY <1>5 DEF LeaveClaim, world
  <2>2. \A x \in Login : x # l => phase'[x] = phase[x]
    BY <2>1
  <2>3. phase'[l] \notin LoginHolder
    BY <2>1
  <2>4. ASSUME ~broken, NEW x \in Login \ Device, x # l, phase[x] \in LoginHolder
        PROVE  owner'["login"] = x /\ renewing'["login"] = TRUE
    BY <2>1, <2>4 DEF LoginHeld, L!Release
  <2> QED BY <2>1, <2>2, <2>3, <2>4 DEF LoginHeld
<1>6. ASSUME NEW n \in Lease, RunsOut(n) PROVE LoginHeld'
  BY <1>6 DEF LoginHeld, RunsOut, L!RunsOut, world, Lease
<1>7. ASSUME NEW n \in Lease, RenewalFails(n) PROVE LoginHeld'
  BY <1>7 DEF LoginHeld, RenewalFails
<1> QED BY <1>1, <1>2, <1>3, <1>4, <1>5, <1>6, <1>7, LeaseStep

(***************************************************************************)
(* The credential.                                                          *)
(***************************************************************************)
Sending == {"posting", "answered"}
Stocked == {"answered", "discarded", "inserting"}

\* A step that neither sends nor stores: what is in somebody's hands stays there, or is
\* known to be lost.
Calm ==
    /\ row' = row /\ live' = live /\ lost \subseteq lost' /\ (~broken' => ~broken)
    /\ \A c \in Caller :
          /\ phase'[c] \in Sending =>
                phase'[c] = phase[c] /\ fresh'[c] = fresh[c] /\ answer'[c] = answer[c]
          /\ phase[c] = "answered" => phase'[c] = "answered" \/ Consumed(c) \subseteq lost'
    /\ \A l \in Login : phase'[l] \in Stocked => phase[l] \in Stocked /\ answer'[l] = answer[l]

LEMMA CredentialStep ==
    ASSUME TypeOK, Next
    PROVE  \/ Calm
           \/ \E c \in Caller : \/ ReadAgain(c) \/ LoseAnswer(c) \/ Store(c)
                                \/ \E rotates \in BOOLEAN : Accept(c, rotates)
           \/ \E e \in Editor : EditStore(e) \/ Replace(e)
           \/ \E l \in Login : Exchange(l) \/ Insert(l)
           \/ DeleteKey
<1> USE DEF world, endpoint, caller, login, Moves, Goes, Takes
<1>1. ASSUME NEW p \in Process, NEW next, phase' = [phase EXCEPT ![p] = next],
             UNCHANGED <<row, live, lost, broken>>,
             \A x \in Process \ {p} : answer'[x] = answer[x],
             \A x \in Caller \ {p} : fresh'[x] = fresh[x],
             p \in Caller => phase[p] # "answered" /\ next \notin Sending,
             p \in Login => next \notin Stocked \/ (phase[p] \in Stocked /\ answer' = answer)
      PROVE  Calm
  <2>1. ASSUME NEW c \in Caller
        PROVE  /\ phase'[c] \in Sending =>
                     phase'[c] = phase[c] /\ fresh'[c] = fresh[c] /\ answer'[c] = answer[c]
               /\ phase[c] = "answered" => phase'[c] = "answered"
    BY <1>1 DEF TypeOK
  <2>2. ASSUME NEW l \in Login
        PROVE  phase'[l] \in Stocked => phase[l] \in Stocked /\ answer'[l] = answer[l]
    BY <1>1 DEF TypeOK
  <2> QED BY <1>1, <2>1, <2>2 DEF Calm
<1>2. UNCHANGED <<row, endpoint, phase, fresh, answer, lost>> /\ (~broken' => ~broken) => Calm
  BY DEF Calm
<1> USE DEF Sending, Stocked
<1>3. ASSUME NEW p \in Caller \cup Editor, Load(p) PROVE Calm
  BY <1>1, <1>3 DEF Load
<1>4. ASSUME NEW c \in Caller, Resolve(c) PROVE Calm
  <2>1. PICK next \in {"using", "failed", "waiting"} : phase' = [phase EXCEPT ![c] = next]
    BY <1>4, ResolveStep
  <2>2. phase[c] = "resolving" /\ UNCHANGED <<world, row, endpoint, fresh, answer, lost>>
    BY <1>4, ResolveStep
  <2> QED BY <1>1, <2>1, <2>2
<1>5. ASSUME NEW c \in Caller, TakeLease(c) \/ Refuse(c) \/ Unreachable(c) PROVE Calm
  BY <1>1, <1>5 DEF TakeLease, Refuse, Unreachable
<1>6. ASSUME NEW c \in Caller, LeaveLease(c) PROVE Calm
  <2>1. /\ \A x \in Process \ {c} : answer'[x] = answer[x]
        /\ \A x \in Caller \ {c} : fresh'[x] = fresh[x]
    BY <1>6 DEF LeaveLease, TypeOK
  <2>2. /\ phase[c] = "releasing" /\ UNCHANGED <<row, live, lost, broken>>
        /\ phase' = [phase EXCEPT ![c] = IF token[c] # 0 THEN "using" ELSE "failed"]
    BY <1>6 DEF LeaveLease
  <2> QED BY <1>1, <2>1, <2>2
<1>7. ASSUME NEW c \in Caller, Use(c) \/ GiveUp(c) PROVE Calm
  <2>1. \A x \in Caller \ {c} : fresh'[x] = fresh[x]
    BY <1>7 DEF Use, GiveUp, Forget
  <2>2. PICK next \in Ended : phase' = [phase EXCEPT ![c] = next]
    BY <1>7 DEF Use, GiveUp
  <2>3. phase[c] # "answered" /\ UNCHANGED <<row, live, lost, broken, answer>>
    BY <1>7 DEF Use, GiveUp
  <2> QED BY <1>1, <2>1, <2>2, <2>3
<1>8. ASSUME NEW c \in Caller, Rejected401(c) PROVE Calm
  <2>1. PICK next \in {"disabled", "resolving"} : phase' = [phase EXCEPT ![c] = next]
    BY <1>8 DEF Rejected401
  <2>2. phase[c] # "answered" /\ UNCHANGED <<row, live, lost, broken, answer, fresh>>
    BY <1>8 DEF Rejected401
  <2> QED BY <1>1, <2>1, <2>2
<1>9. ASSUME NEW p \in Process, Vanishes(p) PROVE Calm
  <2>1. /\ phase' = [phase EXCEPT ![p] = "done"] /\ answer' = [answer EXCEPT ![p] = NoBundle]
        /\ lost \subseteq lost' /\ UNCHANGED <<row, live, broken>>
        /\ phase[p] = "answered" /\ p \in Caller => Consumed(p) \subseteq lost'
    BY <1>9, VanishStep
  <2>2. \A x \in Caller \ {p} : fresh'[x] = fresh[x]
    BY <1>9 DEF Vanishes, Forget
  <2>3. ASSUME NEW c \in Caller
        PROVE  /\ phase'[c] \in Sending =>
                     phase'[c] = phase[c] /\ fresh'[c] = fresh[c] /\ answer'[c] = answer[c]
               /\ phase[c] = "answered" => phase'[c] = "answered" \/ Consumed(c) \subseteq lost'
    BY <2>1, <2>2 DEF TypeOK
  <2>4. ASSUME NEW l \in Login
        PROVE  phase'[l] \in Stocked => phase[l] \in Stocked /\ answer'[l] = answer[l]
    BY <2>1 DEF TypeOK
  <2> QED BY <2>1, <2>3, <2>4 DEF Calm
<1>10. ASSUME NEW l \in Login, Claim(l) \/ Peek(l) \/ Poll(l) PROVE Calm
  <2>1. PICK next \in {"claimed", "failed", "posting", "leaving"} : phase' = [phase EXCEPT ![l] = next]
    BY <1>10 DEF Claim, Peek, Poll
  <2>2. UNCHANGED <<row, live, lost, broken, answer, fresh>>
    BY <1>10 DEF Claim, Peek, Poll
  <2> QED BY <1>1, <2>1, <2>2
<1>11. ASSUME NEW l \in Login, LoseExchange(l) PROVE Calm
  <2>1. /\ phase' = [phase EXCEPT ![l] = "posting"] /\ lost \subseteq lost'
        /\ UNCHANGED <<row, live, broken, answer, fresh>>
    BY <1>11 DEF LoseExchange
  <2> QED BY <2>1 DEF Calm, TypeOK
<1>12. ASSUME NEW l \in Login,
              ExchangeRefused(l) \/ ExchangeUnreachable(l) \/ Discard(l) \/ LeaveClaim(l)
       PROVE  Calm
  <2>1. /\ \/ phase' = [phase EXCEPT ![l] = "leaving"] \/ phase' = [phase EXCEPT ![l] = "failed"]
           \/ phase' = [phase EXCEPT ![l] = "discarded"] /\ phase[l] = "answered"
           \/ phase' = [phase EXCEPT ![l] = "inserting"] /\ phase[l] = "discarded"
        /\ UNCHANGED <<row, live, lost, broken, answer, fresh>>
    BY <1>12 DEF ExchangeRefused, ExchangeUnreachable, Discard, LeaveClaim
  <2> QED BY <1>1, <2>1
<1>13. Expire \/ StateExpires => Calm
  BY <1>2 DEF Expire, StateExpires
<1>14. ASSUME NEW n \in {"refresh", "login"}, RenewalFails(n) \/ RunsOut(n) PROVE Calm
  BY <1>2, <1>14 DEF RenewalFails, RunsOut
<1>15. ASSUME NEW c \in Caller, CallerStep(c)
       PROVE  \/ Calm \/ ReadAgain(c) \/ LoseAnswer(c) \/ Store(c)
              \/ \E rotates \in BOOLEAN : Accept(c, rotates)
  BY <1>3, <1>4, <1>5, <1>6, <1>7, <1>8, <1>9, <1>15 DEF CallerStep, Cancel
<1>16. ASSUME NEW l \in Login, LoginStep(l) PROVE Calm \/ Exchange(l) \/ Insert(l)
  BY <1>10, <1>11, <1>12, <1>16 DEF LoginStep
<1>17. ASSUME NEW p \in Process, Crash(p) PROVE Calm
  BY <1>9, <1>17 DEF Crash
<1> QED BY <1>3, <1>13, <1>14, <1>15, <1>16, <1>17 DEF Next

\* The stored refresh token may be spent only by an answer that is still to come, as
\* CredentialSurvives says of the caller that holds it.
InHand(r) == \E c \in Caller : phase[c] = "answered" /\ Consumed(c) = {r}

LEMMA CredentialNext == IInv /\ [Next]_vars => AnswersLive' /\ LoginsLive' /\ CredentialSurvives'
<1> SUFFICES ASSUME IInv, [Next]_vars PROVE AnswersLive' /\ LoginsLive' /\ CredentialSurvives'
  OBVIOUS
<1> DEFINE Goal == AnswersLive' /\ LoginsLive' /\ CredentialSurvives'
<1>0. TypeOK /\ LiveIssued /\ Apart /\ RefreshHeld /\ AnswersLive /\ LoginsLive /\ CredentialSurvives
  BY DEF IInv
\* Until a renewal fails, one caller at a time is past the wait for the lease.
<1>1. ~broken => \A c, d \in Caller : phase[c] \in Holder /\ phase[d] \in Holder => c = d
  BY <1>0 DEF RefreshHeld
<1> USE DEF Moves, Goes, Takes, world, endpoint, login
<1>2. CASE UNCHANGED vars
  <2>1. UNCHANGED <<broken, row, live, lost, phase, fresh, answer>>
    BY <1>2 DEF vars, caller
  <2>2. AnswersLive' /\ LoginsLive'
    BY <1>0, <2>1 DEF AnswersLive, LoginsLive
  <2>3. CredentialSurvives'
    BY <1>0, <2>1 DEF CredentialSurvives, Consumed
  <2> QED BY <2>2, <2>3
<1>3. CASE Calm
  <2>1. AnswersLive'
    BY <1>0, <1>3 DEF Calm, AnswersLive, Sending
  <2>2. LoginsLive'
    BY <1>0, <1>3 DEF Calm, LoginsLive, Stocked
  <2>3. CredentialSurvives'
    <3> SUFFICES ASSUME ~broken', row'.refresh \notin lost' \cup {0}, row'.refresh \notin live'
                 PROVE  InHand(row.refresh)'
      BY <1>3 DEF CredentialSurvives, InHand, Calm
    <3>1. PICK c \in Caller : phase[c] = "answered" /\ Consumed(c) = {row.refresh}
      BY <1>0, <1>3 DEF Calm, CredentialSurvives
    <3>2. phase'[c] = "answered" /\ Consumed(c)' = Consumed(c)
      BY <1>3, <3>1 DEF Calm, Consumed, Sending
    <3> QED BY <1>3, <3>1, <3>2 DEF InHand, Calm
  <2> QED BY <2>1, <2>2, <2>3
<1>4. ASSUME NEW c \in Caller, ReadAgain(c) PROVE Goal
  <2>1. /\ phase[c] = "reading"
        /\ \/ phase' = [phase EXCEPT ![c] = "releasing"]
           \/ phase' = [phase EXCEPT ![c] = "posting"] /\ row.refresh # 0
        /\ fresh' = [fresh EXCEPT ![c] = row]
        /\ UNCHANGED <<broken, row, live, answer, lost>>
    BY <1>0, <1>4, ReadAgainStep
  <2>2. \A x \in Process : x # c => phase'[x] = phase[x]
    BY <1>0, <2>1 DEF TypeOK
  <2>3. ~broken /\ row.refresh # 0 => row.refresh \in live \cup lost
    BY <1>0, <1>1, <2>1 DEF CredentialSurvives
  <2>4. AnswersLive'
    BY <1>0, <2>1, <2>3 DEF AnswersLive, TypeOK
  <2>5. LoginsLive'
    BY <1>0, <2>1, <2>2 DEF LoginsLive
  <2>6. CredentialSurvives'
    BY <2>1, <2>3 DEF CredentialSurvives
  <2> QED BY <2>4, <2>5, <2>6
<1>5. ASSUME NEW c \in Caller, NEW rotates \in BOOLEAN, Accept(c, rotates) PROVE Goal
  <2> DEFINE old == fresh[c].refresh
             new == IF rotates THEN issued + 1 ELSE old
  <2>1. /\ phase[c] = "posting" /\ phase' = [phase EXCEPT ![c] = "answered"] /\ old \in live
        /\ live' = (live \ {old}) \cup {new}
        /\ answer' = [answer EXCEPT ![c] = [access |-> issued + 1, refresh |-> new]]
        /\ UNCHANGED <<broken, row, lost, fresh>>
    BY <1>5 DEF Accept, caller
  <2>2. answer'[c].refresh = new /\ (new # old => old # answer'[c].refresh) /\ new \in live'
    BY <1>0, <2>1 DEF TypeOK
  <2>3. new = old \/ new # old
    OBVIOUS
  <2>4. \A x \in Process : x # c => phase'[x] = phase[x] /\ answer'[x] = answer[x]
    BY <1>0, <2>1 DEF TypeOK
  <2>5. phase'[c] = "answered"
    BY <1>0, <2>1 DEF TypeOK
  <2> HIDE DEF old, new
  <2>6. AnswersLive'
    BY <1>0, <1>1, <2>1, <2>2, <2>4, <2>5 DEF AnswersLive
  <2>7. \A l \in Login : phase[l] \in Ended
    BY <1>0, <2>1 DEF Apart
  <2>8. LoginsLive'
    BY <2>4, <2>7 DEF LoginsLive
  <2>9. CredentialSurvives'
    <3> SUFFICES ASSUME ~broken, row.refresh \notin lost \cup {0}, row.refresh \notin live'
                 PROVE  Consumed(c)' = {row.refresh}
      BY <2>1, <2>5 DEF CredentialSurvives
    <3>1. row.refresh \in live
      BY <1>0, <1>1, <2>1 DEF CredentialSurvives
    <3>2. row.refresh = old /\ new # old
      BY <2>1, <3>1
    <3> QED BY <2>1, <2>2, <3>2 DEF Consumed, old
  <2> QED BY <2>6, <2>8, <2>9
<1>6. ASSUME NEW c \in Caller, LoseAnswer(c) PROVE Goal
  <2>1. /\ phase[c] = "answered" /\ phase' = [phase EXCEPT ![c] = "posting"]
        /\ lost' = lost \cup Consumed(c)
        /\ UNCHANGED <<broken, row, live, fresh, answer>>
    BY <1>6 DEF LoseAnswer, caller
  <2>2. \A x \in Process : x # c => phase'[x] = phase[x]
    BY <1>0, <2>1 DEF TypeOK
  <2>3. ~broken => answer[c].refresh \in live /\ fresh[c].refresh \in live \cup lost'
    BY <1>0, <2>1 DEF AnswersLive, Consumed
  <2>4. AnswersLive'
    BY <1>0, <2>1, <2>2, <2>3 DEF AnswersLive
  <2>5. LoginsLive'
    BY <1>0, <2>1, <2>2 DEF LoginsLive
  <2>6. CredentialSurvives'
    BY <1>0, <1>1, <2>1, <2>2 DEF CredentialSurvives, Consumed
  <2> QED BY <2>4, <2>5, <2>6
<1>7. ASSUME NEW c \in Caller, Store(c) PROVE Goal
  <2>1. /\ phase[c] = "answered" /\ phase' = [phase EXCEPT ![c] = "releasing"]
        /\ row' = row \/ row' = answer[c]
        /\ row' = row => row = NoBundle \/ row = answer[c]
        /\ UNCHANGED <<broken, live, fresh, answer, lost>>
    BY <1>7 DEF Store
  <2>2. \A x \in Process : x # c => phase'[x] = phase[x]
    BY <1>0, <2>1 DEF TypeOK
  <2>3. phase'[c] = "releasing"
    BY <1>0, <2>1 DEF TypeOK
  <2>4. AnswersLive'
    BY <1>0, <2>1, <2>2, <2>3 DEF AnswersLive
  <2>5. LoginsLive'
    BY <1>0, <2>1, <2>2, <2>3 DEF LoginsLive
  <2>6. CredentialSurvives'
    BY <1>0, <2>1 DEF CredentialSurvives, AnswersLive
  <2> QED BY <2>4, <2>5, <2>6
<1>8. ASSUME NEW e \in Editor, EditStore(e) PROVE Goal
  <2>1. /\ phase[e] = "editing" /\ phase' = [phase EXCEPT ![e] = "done"]
        /\ row'.refresh = view[e].refresh
        /\ lost' = lost \cup ({view[e].refresh} \ (live \cup {row.refresh}))
        /\ UNCHANGED <<broken, live, fresh, answer>>
    BY <1>0, <1>8 DEF EditStore, TypeOK
  <2>2. \A x \in Process : x # e => phase'[x] = phase[x]
    BY <1>0, <2>1 DEF TypeOK
  <2>3. AnswersLive'
    BY <1>0, <2>1, <2>2 DEF AnswersLive
  <2>4. LoginsLive'
    BY <1>0, <2>1, <2>2 DEF LoginsLive
  <2>5. CredentialSurvives'
    BY <1>0, <2>1, <2>2 DEF CredentialSurvives, Consumed
  <2> QED BY <2>3, <2>4, <2>5
<1>9. ASSUME NEW e \in Editor, Replace(e) PROVE Goal
  <2>1. /\ phase' = [phase EXCEPT ![e] = "done"]
        /\ row'.refresh = issued + 1 /\ live' = live \cup {issued + 1}
        /\ UNCHANGED <<broken, lost, fresh, answer>>
    BY <1>9 DEF Replace
  <2>2. \A x \in Process : x # e => phase'[x] = phase[x]
    BY <1>0, <2>1 DEF TypeOK
  <2>3. AnswersLive'
    BY <1>0, <2>1, <2>2 DEF AnswersLive
  <2>4. LoginsLive'
    BY <1>0, <2>1, <2>2 DEF LoginsLive
  <2>5. CredentialSurvives'
    BY <2>1 DEF CredentialSurvives
  <2> QED BY <2>3, <2>4, <2>5
<1>10. ASSUME NEW l \in Login, Exchange(l) PROVE Goal
  <2>1. /\ phase' = [phase EXCEPT ![l] = "answered"]
        /\ live' = live \cup {issued + 1}
        /\ answer' = [answer EXCEPT ![l] = [access |-> issued + 1, refresh |-> issued + 1]]
        /\ UNCHANGED <<broken, row, lost, fresh>>
    BY <1>10 DEF Exchange, caller
  <2>2. \A x \in Process : x # l => phase'[x] = phase[x] /\ answer'[x] = answer[x]
    BY <1>0, <2>1 DEF TypeOK
  <2>3. answer'[l].refresh \in live'
    BY <1>0, <2>1 DEF TypeOK
  <2>4. AnswersLive'
    BY <1>0, <2>1, <2>2 DEF AnswersLive
  <2>5. LoginsLive'
    BY <1>0, <2>1, <2>2, <2>3 DEF LoginsLive
  <2>6. CredentialSurvives'
    BY <1>0, <2>1, <2>2 DEF CredentialSurvives, Consumed
  <2> QED BY <2>4, <2>5, <2>6
<1>11. ASSUME NEW l \in Login, Insert(l) PROVE Goal
  <2>1. /\ phase[l] = "inserting" /\ phase' = [phase EXCEPT ![l] = "done"]
        /\ row' = answer[l] /\ answer' = [answer EXCEPT ![l] = NoBundle]
        /\ UNCHANGED <<broken, live, lost, fresh>>
    BY <1>11 DEF Insert, caller
  <2>2. \A x \in Process : x # l => phase'[x] = phase[x] /\ answer'[x] = answer[x]
    BY <1>0, <2>1 DEF TypeOK
  <2>3. phase'[l] = "done" /\ answer[l].refresh \in live
    BY <1>0, <2>1 DEF TypeOK, LoginsLive
  <2>4. AnswersLive'
    BY <1>0, <2>1, <2>2 DEF AnswersLive
  <2>5. LoginsLive'
    BY <1>0, <2>1, <2>2, <2>3 DEF LoginsLive
  <2>6. CredentialSurvives'
    BY <2>1, <2>3 DEF CredentialSurvives
  <2> QED BY <2>4, <2>5, <2>6
<1>12. CASE DeleteKey
  BY <1>0, <1>12 DEF DeleteKey, caller, AnswersLive, LoginsLive, CredentialSurvives
<1> QED BY <1>0, <1>2, <1>3, <1>4, <1>5, <1>6, <1>7, <1>8, <1>9, <1>10, <1>11, <1>12,
        CredentialStep

(***************************************************************************)
(* The login.                                                               *)
(***************************************************************************)

\* A step of anything but a pasted login: codes may be lost, and spent by devices.
CodesKept ==
    /\ state' = TRUE => state = TRUE
    /\ code'[PastedCode] = code[PastedCode]
    /\ lost \subseteq lost'
    /\ ~broken' => ~broken
    /\ \A l \in Login \ Device :
          /\ phase[l] = "answered" => phase'[l] = "answered" \/ PastedCode \in lost'
          /\ phase'[l] = "posting" => phase[l] = "posting"

LEMMA LoginNext == IInv /\ [Next]_vars => PendingStateUsable' /\ CodeGood'
<1> SUFFICES ASSUME IInv, [Next]_vars PROVE PendingStateUsable' /\ CodeGood'
  OBVIOUS
<1> DEFINE Goal == PendingStateUsable' /\ CodeGood'
<1>0. TypeOK /\ LoginHeld /\ CodeGood /\ PendingStateUsable
  BY DEF IInv
\* Until a renewal fails, one submission at a time has claimed the state.
<1>1. ~broken => \A l, m \in Login \ Device :
                    phase[l] \in LoginHolder /\ phase[m] \in LoginHolder => l = m
  BY <1>0 DEF LoginHeld
<1> USE DEF Moves, Goes, Takes, world, endpoint, login
<1>2. CASE CodesKept
  BY <1>0, <1>2 DEF CodesKept, PendingStateUsable, CodeGood
<1>3. ASSUME NEW p \in Process, p \notin Login \ Device, NEW next, phase' = [phase EXCEPT ![p] = next],
             UNCHANGED <<broken, login>>, lost \subseteq lost'
      PROVE  CodesKept
  BY <1>0, <1>3 DEF CodesKept, TypeOK
<1>4. ASSUME UNCHANGED <<phase, code>>, state' = TRUE => state = TRUE, ~broken' => ~broken,
             lost \subseteq lost'
      PROVE  CodesKept
  BY <1>4 DEF CodesKept
<1>5. UNCHANGED vars => CodesKept
  <2>1. UNCHANGED vars => UNCHANGED <<phase, code, state, broken, lost>>
    BY DEF vars
  <2> QED BY <1>4, <2>1
<1>6. ASSUME NEW p \in Caller \cup Editor, Load(p) PROVE CodesKept
  BY <1>3, <1>6 DEF Load
<1>7. ASSUME NEW c \in Caller, Resolve(c) \/ ReadAgain(c) PROVE CodesKept
  <2>1. PICK next : phase' = [phase EXCEPT ![c] = next]
    BY <1>0, <1>7, ResolveStep, ReadAgainStep
  <2>2. UNCHANGED <<broken, login, lost>>
    BY <1>7 DEF Resolve, ReadAgain
  <2> QED BY <1>3, <2>1, <2>2
<1>8. ASSUME NEW c \in Caller,
             TakeLease(c) \/ LoseAnswer(c) \/ Refuse(c) \/ Unreachable(c) \/ Store(c) \/ LeaveLease(c)
               \/ Use(c) \/ GiveUp(c) \/ Rejected401(c) \/ \E rotates \in BOOLEAN : Accept(c, rotates)
      PROVE  CodesKept
  <2>1. PICK next : phase' = [phase EXCEPT ![c] = next]
    BY <1>8 DEF TakeLease, LoseAnswer, Refuse, Unreachable, Store, LeaveLease, Use, GiveUp,
                Rejected401, Accept
  <2>2. UNCHANGED <<broken, login>> /\ lost \subseteq lost'
    BY <1>8 DEF TakeLease, LoseAnswer, Refuse, Unreachable, Store, LeaveLease, Use, GiveUp,
                Rejected401, Accept
  <2> QED BY <1>3, <2>1, <2>2
<1>9. ASSUME NEW p \in Process, Vanishes(p) PROVE CodesKept
  <2>1. /\ phase' = [phase EXCEPT ![p] = "done"] /\ lost \subseteq lost' /\ UNCHANGED <<broken, login>>
        /\ phase[p] = "answered" => (IF p \in Caller THEN Consumed(p) ELSE {CodeOf(p)}) \subseteq lost'
    BY <1>0, <1>9, VanishStep
  <2>2. p \in Login \ Device => p \notin Caller /\ CodeOf(p) = PastedCode
    OBVIOUS
  <2> QED BY <1>0, <2>1, <2>2 DEF CodesKept, TypeOK
<1>10. ASSUME NEW e \in Editor, EditStore(e) \/ Replace(e) PROVE CodesKept
  BY <1>3, <1>10 DEF EditStore, Replace
<1>11. DeleteKey \/ Expire \/ StateExpires => CodesKept
  <2>1. ASSUME DeleteKey \/ Expire \/ StateExpires
        PROVE  UNCHANGED <<phase, code, broken, lost>> /\ (state' = state \/ state' = FALSE)
    BY <2>1 DEF DeleteKey, Expire, StateExpires
  <2> QED BY <1>4, <2>1
<1>12. ASSUME NEW n \in {"refresh", "login"}, RenewalFails(n) \/ RunsOut(n) PROVE CodesKept
  BY <1>4, <1>12 DEF RenewalFails, RunsOut
<1>13. ASSUME NEW l \in Login, LoginStep(l) PROVE Goal
  <2>1. ASSUME NEW next, phase' = [phase EXCEPT ![l] = next], phase[l] # "answered", next # "posting",
               UNCHANGED <<broken, code, lost>>, state' = TRUE => state = TRUE
        PROVE  CodesKept
    BY <1>0, <2>1 DEF CodesKept, TypeOK
  <2>2. CASE Claim(l) \/ LeaveClaim(l) \/ Insert(l)
    <3>1. PICK next \in {"claimed", "failed", "inserting", "done"} : phase' = [phase EXCEPT ![l] = next]
      BY <2>2 DEF Claim, LeaveClaim, Insert
    <3>2. phase[l] # "answered" /\ UNCHANGED <<broken, login, lost>>
      BY <2>2 DEF Claim, LeaveClaim, Insert
    <3> QED BY <1>2, <2>1, <3>1, <3>2
  <2>3. CASE Peek(l)
    <3>1. /\ phase[l] = "claimed" /\ UNCHANGED <<broken, code, lost>> /\ (state' = TRUE => state = TRUE)
          /\ \/ phase' = [phase EXCEPT ![l] = "leaving"]
             \/ phase' = [phase EXCEPT ![l] = "posting"] /\ state = TRUE
      BY <1>0, <2>3 DEF Peek, TypeOK
    <3>2. CASE phase' = [phase EXCEPT ![l] = "leaving"]
      BY <1>2, <2>1, <3>1, <3>2
    <3>3. CASE phase' = [phase EXCEPT ![l] = "posting"] /\ state = TRUE
      <4>1. PendingStateUsable'
        BY <1>0, <3>1, <3>3 DEF PendingStateUsable, TypeOK
      <4>2. ~broken => code[PastedCode] = TRUE \/ PastedCode \in lost \/ l \in Device
        BY <1>0, <1>1, <3>1, <3>3 DEF PendingStateUsable, LoginHolder, TypeOK
      <4>3. CodeGood'
        BY <1>0, <3>1, <3>3, <4>2 DEF CodeGood, TypeOK
      <4> QED BY <4>1, <4>3
    <3> QED BY <3>1, <3>2, <3>3
  <2>4. CASE Poll(l)
    BY <1>2, <1>3, <2>4 DEF Poll
  <2>5. CASE Exchange(l)
    <3>1. /\ phase[l] = "posting" /\ phase' = [phase EXCEPT ![l] = "answered"]
          /\ code' = [code EXCEPT ![CodeOf(l)] = FALSE] /\ UNCHANGED <<broken, state, lost>>
      BY <2>5 DEF Exchange
    <3>2. CASE l \in Device
      <4>1. code'[PastedCode] = code[PastedCode]
        <5>1. CodeOf(l) # PastedCode
          BY <3>2
        <5> QED BY <1>0, <3>1, <5>1 DEF TypeOK
      <4>2. CodesKept
        BY <1>0, <3>1, <3>2, <4>1 DEF CodesKept, TypeOK
      <4> QED BY <1>2, <4>2
    <3>3. CASE l \notin Device
      <4>1. PendingStateUsable'
        BY <1>0, <3>1, <3>3 DEF PendingStateUsable, TypeOK
      <4>2. CodeGood'
        BY <1>0, <1>1, <3>1, <3>3 DEF CodeGood, LoginHolder, TypeOK
      <4> QED BY <4>1, <4>2
    <3> QED BY <3>2, <3>3
  <2>6. CASE LoseExchange(l)
    <3>1. /\ phase[l] = "answered" /\ phase' = [phase EXCEPT ![l] = "posting"]
          /\ lost' = lost \cup {CodeOf(l)} /\ UNCHANGED <<broken, login>>
      BY <2>6 DEF LoseExchange
    <3>2. CASE l \in Device
      BY <1>2, <1>3, <3>1, <3>2
    <3>3. CASE l \notin Device
      BY <3>1, <3>3 DEF PendingStateUsable, CodeGood
    <3> QED BY <3>2, <3>3
  <2>7. CASE ExchangeRefused(l) \/ ExchangeUnreachable(l)
    <3>1. /\ phase[l] = "posting" /\ phase' = [phase EXCEPT ![l] = "leaving"]
          /\ UNCHANGED <<broken, code, lost>> /\ (state' = TRUE => state = TRUE)
      BY <1>0, <2>7 DEF ExchangeRefused, ExchangeUnreachable, TypeOK
    <3> QED BY <1>2, <2>1, <3>1
  <2>8. CASE Discard(l)
    <3>1. /\ phase[l] = "answered" /\ phase' = [phase EXCEPT ![l] = "discarded"]
          /\ state' = (state /\ CodeOf(l) # PastedCode) /\ UNCHANGED <<broken, code, lost>>
      BY <2>8 DEF Discard
    <3>2. CASE l \in Device
      <4>1. state' = TRUE => state = TRUE
        BY <1>0, <3>1 DEF TypeOK
      <4>2. CodesKept
        BY <1>0, <3>1, <3>2, <4>1 DEF CodesKept, TypeOK
      <4> QED BY <1>2, <4>2
    <3>3. CASE l \notin Device
      BY <1>0, <3>1, <3>3 DEF PendingStateUsable, CodeGood, TypeOK
    <3> QED BY <3>2, <3>3
  <2> QED BY <1>13, <2>2, <2>3, <2>4, <2>5, <2>6, <2>7, <2>8 DEF LoginStep
<1> QED BY <1>2, <1>5, <1>6, <1>7, <1>8, <1>9, <1>10, <1>11, <1>12, <1>13
        DEF Next, CallerStep, Cancel, Crash

-----------------------------------------------------------------------------
LEMMA InitInv == Init => IInv
<1> SUFFICES ASSUME Init PROVE IInv
  OBVIOUS
<1>1. /\ flow \in Flows /\ broken = FALSE
      /\ owner = [n \in Lease |-> Free] /\ renewing = [n \in Lease |-> FALSE] /\ due = 0
      /\ phase = [p \in Process |-> IF p \in Login <=> state THEN "idle" ELSE "failed"]
      /\ answer = [p \in Process |-> NoBundle] /\ lost = {}
  BY DEF Init, L!LeaseInit, Lease
<1>2. CallersOK
  BY DEF Init, CallersOK
<1>3. ASSUME NEW b, b \in [access : BOOLEAN, refresh : BOOLEAN]
      PROVE  Imported(b) \in Bundle /\ Imported(b).refresh \in {0, 2}
  BY <1>3 DEF Imported
<1>4. /\ row \in Bundle /\ live = {row.refresh} \ {0} /\ issued \in Token
      /\ live \subseteq 1..issued /\ live \subseteq 1..MaxIssued
      /\ state \in BOOLEAN /\ code \in [Code -> BOOLEAN]
      /\ state = TRUE => code[PastedCode] = TRUE
  <2>1. CASE /\ row \in {Imported(b) : b \in FirstBundles[flow]}
             /\ live = {row.refresh} \ {0} /\ issued = 2
             /\ state = FALSE /\ code = [k \in Code |-> FALSE]
    <3>1. FirstBundles[flow] \subseteq [access : BOOLEAN, refresh : BOOLEAN]
      BY <1>1
    <3>2. row \in Bundle /\ row.refresh \in {0, 2}
      BY <1>3, <2>1, <3>1
    <3>3. 2 \in 1..MaxIssued /\ issued \in Token /\ live \subseteq {2}
      BY <2>1, <3>2
    <3>4. code \in [Code -> BOOLEAN] /\ state \in BOOLEAN /\ (state = TRUE => code[PastedCode] = TRUE)
      BY <2>1
    <3> QED BY <2>1, <3>2, <3>3, <3>4
  <2>2. CASE /\ row = NoBundle /\ live = {} /\ issued = 0
             /\ state = TRUE /\ code = [k \in Code |-> TRUE]
    BY <2>2
  <2> QED BY <2>1, <2>2 DEF Init
<1>5. phase \in [Process -> Phase] /\ \A p \in Process : phase[p] \in {"idle", "failed"}
  BY <1>1
<1>6. TypeOK
  <2>1. L!LeaseType
    BY <1>1 DEF L!LeaseType, Lease
  <2>2. answer \in [Process -> Bundle] /\ due \in Token /\ lost \subseteq Token \cup Code
    BY <1>1
  <2> QED BY <1>1, <1>2, <1>4, <1>5, <2>1, <2>2 DEF TypeOK, CallersOK
<1>7. Apart
  <2>1. CASE state = TRUE
    BY <1>1, <2>1 DEF Apart
  <2>2. CASE state = FALSE
    BY <1>1, <2>2 DEF Apart
  <2> QED BY <1>4, <2>1, <2>2
<1>8. LiveIssued /\ RefreshHeld /\ LoginHeld /\ AnswersLive /\ LoginsLive /\ CodeGood
  BY <1>4, <1>5 DEF LiveIssued, RefreshHeld, LoginHeld, LoginHolder, AnswersLive,
     LoginsLive, CodeGood
<1>9. CredentialSurvives /\ PendingStateUsable
  BY <1>4 DEF CredentialSurvives, PendingStateUsable
<1> QED BY <1>6, <1>7, <1>8, <1>9 DEF IInv

LEMMA NextInv == IInv /\ [Next]_vars => IInv'
BY TypeNext, ApartNext, RefreshHeldNext, LoginHeldNext, CredentialNext, LoginNext DEF IInv

\* While no renewal has failed, nothing but an answer nobody could store or an edit over
\* a rotation strands the credential, however refreshes, edits, replacements and
\* deletions overlap and wherever callers stop (oauth_tokens.py:456-484).
THEOREM CredentialKept == Spec => []CredentialSound
<1>1. IInv => CredentialSound
  BY DEF IInv, CredentialSound
<1> QED BY <1>1, InitInv, NextInv, PTL DEF Spec

\* A login's state outlives its code only while the answer is under way or after it was
\* lost, also when leases have run out (oauth_tokens.py:195).
THEOREM StateKept == Spec => []PendingStateUsable
<1>1. IInv => PendingStateUsable
  BY DEF IInv
<1> QED BY <1>1, InitInv, NextInv, PTL DEF Spec

\* While leases are renewed, a refresh token or the code of a pasted login that the
\* endpoint refuses was used in an exchange whose answer was lost: nobody else has spent
\* it (oauth_tokens.py:473).
THEOREM SpentOnce == Spec => SingleUse
<1> DEFINE Once == ~broken => /\ \A c \in Caller : Refuse(c) => fresh[c].refresh \in lost
                              /\ \A l \in Login \ Device : ExchangeRefused(l) => CodeOf(l) \in lost
<1>1. IInv => Once
  <2> SUFFICES ASSUME IInv, ~broken PROVE Once
    OBVIOUS
  <2>1. ASSUME NEW c \in Caller, Refuse(c) PROVE fresh[c].refresh \in lost
    BY <2>1 DEF IInv, AnswersLive, Refuse
  <2>2. ASSUME NEW l \in Login \ Device, ExchangeRefused(l) PROVE CodeOf(l) \in lost
    BY <2>2 DEF IInv, CodeGood, ExchangeRefused, Moves
  <2> QED BY <2>1, <2>2
<1>2. IInv /\ [Next]_vars => [Once]_vars
  BY <1>1
<1> QED BY <1>2, InitInv, NextInv, PTL DEF Spec, SingleUse
=============================================================================
