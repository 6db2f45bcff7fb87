------------------------ MODULE UpstreamHealthProofs ------------------------
(***************************************************************************)
(* Proofs about UpstreamHealth: cooldowns are what the latest report says,   *)
(* rankings are permutations in group order and pins stay, for any number   *)
(* of upstreams, groups, conversations and requests.                        *)
(***************************************************************************)
EXTENDS UpstreamHealth, FiniteSetTheorems, TLAPS

\* What the proofs use of the constants.
LEMMA Parameters ==
    /\ IsFiniteSet(Upstream) /\ NoPin \notin Upstream /\ NoConversation \notin Conversation
    /\ Group \in [Upstream -> Nat] /\ Position \in [Upstream -> Nat]
    /\ ConversationOf \in [Request -> Conversation \cup {NoConversation}]
    /\ Routes \subseteq RouteSettings
    /\ Readings \subseteq [Upstream -> [score : Nat, tier : 0..2]]
    /\ Tolerance \in Nat /\ InitialRows \subseteq Row /\ Base \in Nat /\ Cap \in Nat
    /\ RetryAfter \subseteq Nat /\ Maximum \in Nat /\ Retention \in Nat
BY ConstantsAssumption

-----------------------------------------------------------------------------
(* The inductive invariant.                                                 *)

\* Row and verdict agree wherever either of them is still to come.
Agree == \A u \in Upstream : \/ row[u].until = verdict[u]
                             \/ row[u].until <= now /\ verdict[u] <= now

\* A row of which some request holds a copy is there, unless the request will be told
\* that it is gone.
CopiesStand ==
    /\ \A r \in Request, u \in Upstream : known[r][u] # Absent => row[u] # Absent
    /\ \A r \in Request : phase[r] \in {"tripping", "rewarding"} =>
          /\ trying[r] \in Upstream
          /\ seen[r] \notin {Absent, Gone} => row[trying[r]] # Absent

\* s tries every candidate of r once, one group after the other.
Orderly(r, s) ==
    /\ s \in Bijection(1..Cardinality(Candidates(r)), Candidates(r))
    /\ \A i, j \in DOMAIN s : i < j => Group[s[i]] <= Group[s[j]]

Behind(r, s) ==
    \A i, j \in DOMAIN s : i < j /\ Group[s[i]] = Group[s[j]] /\ s[i] \in cooled[r]
                           => s[j] \in cooled[r]

RankingsOrderly ==
    \A r \in Request : Routed(r) =>
        /\ Orderly(r, ranking[r])
        /\ route.mode # "pinned_best" => Behind(r, ranking[r])

\* Only a request with a conversation, and somebody to pin it to, comes to a pin.
PinsAtStake ==
    \A r \in Request : phase[r] \in {"pinning", "yielding"} => Pinned(r) /\ ranking[r] # <<>>

IInv == TypeOK /\ Agree /\ CopiesStand /\ RankingsOrderly /\ PinsAtStake

-----------------------------------------------------------------------------
(* Rankings.                                                                *)

\* There are finitely many candidates.
LEMMA CandidateCount ==
    ASSUME NEW r
    PROVE  /\ Candidates(r) \subseteq Upstream
           /\ Cardinality(Candidates(r)) \in Nat
           /\ Cardinality(Candidates(r)) = 0 <=> Candidates(r) = {}
<1>1. Candidates(r) \subseteq Upstream
  BY DEF Candidates
<1>2. IsFiniteSet(Candidates(r))
  BY <1>1, Parameters, FS_Subset
<1> QED BY <1>1, <1>2, FS_CardinalityType, FS_EmptySet

\* A sorted ranking keeps the groups in order and the cooled behind.
LEMMA SortedIsOrderly ==
    ASSUME TypeOK, NEW r \in Request, NEW health \in Readings, NEW s \in Sorted(r, health)
    PROVE  Orderly(r, s) /\ Behind(r, s)
<1> DEFINE n == Cardinality(Candidates(r))
<1>1. s \in Bijection(1..n, Candidates(r)) /\ DOMAIN s = 1..n
      /\ s \in [1..n -> Candidates(r)]
  BY DEF Sorted, Bijection, Injection
<1>2. \A i \in 1..n : s[i] \in Upstream
  BY <1>1, CandidateCount
<1>3. ASSUME NEW i \in 1..n, NEW j \in 1..n, i < j
      PROVE  /\ Group[s[i]] <= Group[s[j]]
             /\ Group[s[i]] = Group[s[j]] /\ s[i] \in cooled[r] => s[j] \in cooled[r]
  <2> DEFINE a == SortKey(r, s[i], health)
             b == SortKey(r, s[j], health)
  <2>1. PICK k \in DOMAIN a : a[k] < b[k] /\ \A l \in 1..(k - 1) : a[l] = b[l]
    BY <1>1, <1>3 DEF Sorted, Precedes
  <2>2. /\ DOMAIN a = 1..5
        /\ a[1] = Group[s[i]] /\ b[1] = Group[s[j]]
        /\ s[i] \in cooled[r] => a[2] = 1
        /\ s[j] \notin cooled[r] => b[2] = 0
        /\ a[2] \in {0, 1} /\ b[2] \in {0, 1}
    BY DEF SortKey
  <2> HIDE DEF a, b
  <2>3. Group[s[i]] \in Nat /\ Group[s[j]] \in Nat
    BY <1>2, Parameters
  <2>4. CASE k = 1
    BY <2>1, <2>2, <2>3, <2>4
  <2>5. CASE k = 2
    <3>1. a[1] = b[1] /\ a[2] < b[2]
      BY <2>1, <2>5
    <3>2. Group[s[i]] = Group[s[j]]
      BY <3>1, <2>2
    <3>3. s[i] \notin cooled[r]
      BY <3>1, <2>2
    <3> QED BY <3>2, <3>3, <2>3
  <2>6. CASE k \in 3..5
    <3>1. a[1] = b[1] /\ a[2] = b[2]
      BY <2>1, <2>6
    <3>2. Group[s[i]] = Group[s[j]]
      BY <3>1, <2>2
    <3>3. s[i] \in cooled[r] => s[j] \in cooled[r]
      BY <3>1, <2>2
    <3> QED BY <3>2, <3>3, <2>3
  <2> QED BY <2>1, <2>2, <2>4, <2>5, <2>6
<1> QED BY <1>1, <1>3 DEF Orderly, Behind

\* Moving an upstream of the first group to the front repeats and loses none, and keeps
\* the groups in order.  It keeps the cooled behind if it is not cooled itself, or all
\* of its group are.
LEMMA MovedIsOrderly ==
    ASSUME TypeOK, NEW r \in Request, NEW s, Orderly(r, s), NEW u \in Selectable(s)
    PROVE  LET moved == MoveToFront(s, u)
           IN  /\ Orderly(r, moved) /\ moved # <<>> /\ moved[1] = u
               /\ Behind(r, s) /\ (u \notin cooled[r] \/ Selectable(s) \subseteq cooled[r])
                     => Behind(r, moved)
<1> DEFINE n == Cardinality(Candidates(r))
           C == Candidates(r)
           k == CHOOSE i \in DOMAIN s : s[i] = u
           moved == MoveToFront(s, u)
<1>1. /\ s \in [1..n -> C] /\ DOMAIN s = 1..n
      /\ \A i, j \in 1..n : s[i] = s[j] => i = j
      /\ \A c \in C : \E i \in 1..n : s[i] = c
      /\ \A i, j \in 1..n : i < j => Group[s[i]] <= Group[s[j]]
  BY DEF Orderly, Bijection, Injection, Surjection, IsInjective
<1>2. n \in Nat /\ C \subseteq Upstream
  BY CandidateCount
<1>3. \E i \in DOMAIN s : s[i] = u
  BY DEF Selectable, Range
<1>4. k \in 1..n /\ s[k] = u /\ 1 \in 1..n
  BY <1>1, <1>2, <1>3
<1>5. Group[u] = Group[s[1]]
  BY DEF Selectable
<1>6. moved = [i \in 1..n |-> IF i = 1 THEN u ELSE IF i <= k THEN s[i - 1] ELSE s[i]]
  BY <1>1 DEF MoveToFront
<1> DEFINE from == [i \in 1..n |-> IF i = 1 THEN k ELSE IF i <= k THEN i - 1 ELSE i]
<1>7. \A i \in 1..n : from[i] \in 1..n /\ moved[i] = s[from[i]]
  BY <1>2, <1>4, <1>6
<1>8. \A i \in 1..n : Group[s[i]] \in Nat
  BY <1>1, <1>2, Parameters
<1>9. \A i \in 1..k : Group[s[i]] = Group[u]
  BY <1>1, <1>2, <1>4, <1>5, <1>8
<1> HIDE DEF k, n, C, moved
<1>10. moved \in Bijection(1..n, C)
  <2>1. moved \in [1..n -> C]
    BY <1>1, <1>4, <1>6, <1>7
  <2>2. \A i, j \in 1..n : moved[i] = moved[j] => i = j
    <3> SUFFICES ASSUME NEW i \in 1..n, NEW j \in 1..n, moved[i] = moved[j] PROVE i = j
      OBVIOUS
    <3>1. from[i] = from[j]
      BY <1>1, <1>7
    <3> QED BY <3>1, <1>2, <1>4
  <2>3. \A c \in C : \E i \in 1..n : moved[i] = c
    <3> SUFFICES ASSUME NEW c \in C PROVE \E i \in 1..n : moved[i] = c
      OBVIOUS
    <3>1. PICK j \in 1..n : s[j] = c
      BY <1>1
    <3>2. \E i \in 1..n : from[i] = j
      <4>1. CASE j = k
        BY <4>1, <1>4
      <4>2. CASE j < k
        <5>1. j + 1 \in 1..n /\ from[j + 1] = j
          BY <4>2, <1>2, <1>4
        <5> QED BY <5>1
      <4>3. CASE j > k
        <5>1. from[j] = j
          BY <4>3, <1>2, <1>4
        <5> QED BY <5>1
      <4> QED BY <4>1, <4>2, <4>3, <1>2, <1>4
    <3> QED BY <3>1, <3>2, <1>7
  <2> QED BY <2>1, <2>2, <2>3 DEF Bijection, Injection, Surjection, IsInjective
<1>11. DOMAIN moved = 1..n /\ moved[1] = u
  BY <1>4, <1>6
<1>12. moved # <<>>
  <2>1. DOMAIN <<>> = {} /\ DOMAIN moved # {}
    BY <1>4, <1>11
  <2> QED BY <2>1
\* Up to k all are of one group; behind it nothing has moved.
<1>13. ASSUME NEW i \in 1..n, NEW j \in 1..n, i < j
       PROVE  /\ Group[moved[i]] <= Group[moved[j]]
              /\ from[i] < from[j] \/ (i = 1 /\ from[j] \in 1..k /\ from[j] # k)
  <2>1. CASE j <= k
    <3>1. from[i] \in 1..k /\ from[j] \in 1..k
      BY <2>1, <1>2, <1>4, <1>13
    <3>2. Group[moved[i]] = Group[moved[j]] /\ Group[moved[i]] \in Nat
      BY <3>1, <1>7, <1>8, <1>9
    <3>3. from[i] < from[j] \/ (i = 1 /\ from[j] \in 1..k /\ from[j] # k)
      BY <2>1, <3>1, <1>2, <1>4, <1>13
    <3> QED BY <3>2, <3>3
  <2>2. CASE j > k
    <3>1. from[j] = j /\ from[i] < j
      BY <2>2, <1>2, <1>4, <1>13
    <3> QED BY <3>1, <1>1, <1>7
  <2> QED BY <2>1, <2>2, <1>2, <1>4
<1>14. Orderly(r, moved)
  BY <1>10, <1>11, <1>13 DEF Orderly, n, C
<1>15. ASSUME Behind(r, s), u \notin cooled[r] \/ Selectable(s) \subseteq cooled[r]
       PROVE  Behind(r, moved)
  <2> SUFFICES ASSUME NEW i \in 1..n, NEW j \in 1..n, i < j,
                      Group[moved[i]] = Group[moved[j]], moved[i] \in cooled[r]
               PROVE  moved[j] \in cooled[r]
    BY <1>11 DEF Behind
  <2>1. CASE from[i] < from[j]
    BY <2>1, <1>1, <1>7, <1>15 DEF Behind
  <2>2. CASE i = 1 /\ from[j] \in 1..k
    <3>1. u \in cooled[r]
      BY <2>2, <1>11
    <3>2. moved[j] \in Selectable(s)
      BY <2>2, <1>1, <1>5, <1>7, <1>9 DEF Selectable, Range
    <3> QED BY <3>1, <3>2, <1>15
  <2> QED BY <2>1, <2>2, <1>13
<1> QED BY <1>11, <1>12, <1>14, <1>15 DEF moved

\* Whoever leads is of the first group, and cooled only where all of that group are;
\* pinned_best alone may draw a cooled one.
LEMMA LeadIsSelectable ==
    ASSUME TypeOK, NEW r \in Request, NEW health \in Readings, NEW s \in Sorted(r, health),
           s # <<>>, NEW u \in Lead(r, s, health)
    PROVE  /\ u \in Selectable(s)
           /\ route.mode # "pinned_best" => u \notin cooled[r] \/ Selectable(s) \subseteq cooled[r]
<1> DEFINE n == Cardinality(Candidates(r))
<1>1. /\ Orderly(r, s) /\ Behind(r, s) /\ DOMAIN s = 1..n /\ s \in [1..n -> Candidates(r)]
      /\ n \in Nat
  BY SortedIsOrderly, CandidateCount DEF Orderly, Bijection, Injection
<1>2. 1 \in 1..n
  <2>1. CASE n = 0
    <3>1. s = <<>>
      BY <1>1, <2>1
    <3> QED BY <3>1
  <2> QED BY <1>1, <2>1
<1>3. s[1] \in Selectable(s)
  BY <1>1, <1>2 DEF Selectable, Range
<1>4. s[1] \in cooled[r] => Selectable(s) \subseteq cooled[r]
  <2> SUFFICES ASSUME s[1] \in cooled[r], NEW v \in Selectable(s) PROVE v \in cooled[r]
    OBVIOUS
  <2>1. PICK i \in 1..n : s[i] = v
    BY <1>1 DEF Selectable, Range
  <2>2. Group[v] = Group[s[1]]
    BY DEF Selectable
  <2> QED BY <1>1, <1>2, <2>1, <2>2 DEF Behind
<1>5. CASE route.mode \in {"balanced", "pinned_balanced"}
  <2> DEFINE close == {v \in Selectable(s) : health[v].score * 100 <= Limit(s, health)}
             best == health[s[1]].score
  <2>1. u \in WithinTolerance(r, s, health)
    BY <1>5 DEF Lead
  <2>2. best \in Nat /\ Tolerance \in Nat
    BY <1>1, <1>2, CandidateCount, Parameters
  <2>3. best * (100 + Tolerance) = best * 100 + best * Tolerance /\ best * Tolerance \in Nat
    BY <2>2
  <2>4. best * 100 <= Limit(s, health)
    BY <2>2, <2>3, SMTT(60) DEF Limit
  <2>5. s[1] \in close
    BY <1>3, <2>4
  <2>6. CASE close \ cooled[r] # {}
    <3>1. u \in close \ cooled[r]
      BY <2>1, <2>6 DEF WithinTolerance
    <3> QED BY <3>1
  <2>7. CASE close \ cooled[r] = {}
    <3>1. u \in close /\ s[1] \in cooled[r]
      BY <2>1, <2>5, <2>7 DEF WithinTolerance
    <3> QED BY <3>1, <1>4
  <2> QED BY <2>6, <2>7
<1>6. CASE route.mode = "pinned_best"
  <2>1. u \in WithinJitter(s, health)
    BY <1>6 DEF Lead
  <2> QED BY <1>6, <2>1 DEF WithinJitter
<1>7. CASE route.mode = "best"
  <2>1. u = s[1]
    BY <1>7 DEF Lead
  <2> QED BY <2>1, <1>3, <1>4
<1>8. route.mode \in Mode
  BY Parameters DEF TypeOK, RouteSettings
<1> QED BY <1>5, <1>6, <1>7, <1>8 DEF Mode

-----------------------------------------------------------------------------
(* Types.                                                                   *)

RankStep(r) ==
    LoadCooldowns(r) \/ RankNone(r) \/ RankByPin(r) \/ RankByMode(r)
    \/ StorePin(r) \/ FollowPin(r) \/ LosePin(r)

ReportStep(r) ==
    ReadForTrip(r) \/ ReadForReward(r) \/ WriteFails(r) \/ Trip(r) \/ Reward(r)
    \/ RewardNothing(r) \/ EndRequest(r)

Elsewhere ==
    \/ Tick \/ LogCleanup
    \/ \E c \in Conversation : PinExpires(c)
    \/ \E u \in Upstream : ClearCooldown(u)

\* A step ranks, reports or belongs to no request.
LEMMA Steps ==
    ASSUME [Next]_vars
    PROVE  \/ \E r \in Request : RankStep(r) \/ ReportStep(r)
           \/ Elsewhere \/ UNCHANGED vars
BY DEF Next, RequestStep, RankStep, ReportStep, Elsewhere

\* An order of the candidates is a sequence of upstreams.
LEMMA OrderlyIsSeq ==
    ASSUME NEW r, NEW s, Orderly(r, s)
    PROVE  s \in Seq(Upstream)
<1>1. s \in [1..Cardinality(Candidates(r)) -> Candidates(r)]
  BY DEF Orderly, Bijection, Injection
<1> QED BY <1>1, CandidateCount

\* What a ranking step leaves as the order of its request.
LEMMA RankedOrderly ==
    ASSUME IInv, NEW r \in Request, RankStep(r)
    PROVE  \/ LoadCooldowns(r)
           \/ /\ UNCHANGED <<now, route, row, known, cooled, write, verdict>>
              /\ \E s : /\ ranking' = [ranking EXCEPT ![r] = s]
                        /\ Orderly(r, s) /\ (route.mode # "pinned_best" => Behind(r, s))
                        /\ \E next \in {"pinning", "yielding", "routed"} :
                              /\ phase' = [phase EXCEPT ![r] = next]
                              /\ next # "routed" => Pinned(r) /\ s # <<>>
              /\ pin' = pin \/ (ranking[r] # <<>> /\ ranking[r][1] \in Upstream
                                 /\ pin' = [pin EXCEPT ![ConversationOf[r]] = ranking[r][1]]
                                 /\ pin[ConversationOf[r]] = NoPin)
<1> DEFINE Goal ==
      /\ UNCHANGED <<now, route, row, known, cooled, write, verdict>>
      /\ \E s : /\ ranking' = [ranking EXCEPT ![r] = s]
                /\ Orderly(r, s) /\ (route.mode # "pinned_best" => Behind(r, s))
                /\ \E next \in {"pinning", "yielding", "routed"} :
                      /\ phase' = [phase EXCEPT ![r] = next]
                      /\ next # "routed" => Pinned(r) /\ s # <<>>
      /\ pin' = pin \/ (ranking[r] # <<>> /\ ranking[r][1] \in Upstream
                         /\ pin' = [pin EXCEPT ![ConversationOf[r]] = ranking[r][1]]
                         /\ pin[ConversationOf[r]] = NoPin)
<1>1. CASE RankNone(r)
  <2>1. Candidates(r) = {} /\ Cardinality(Candidates(r)) = 0
    BY <1>1, CandidateCount DEF RankNone
  <2>2. DOMAIN <<>> = {} /\ <<>> \in [{} -> Candidates(r)]
    OBVIOUS
  <2>3. Orderly(r, <<>>) /\ Behind(r, <<>>)
    BY <2>1, <2>2 DEF Orderly, Behind, Bijection, Injection, Surjection, IsInjective
  <2> QED BY <1>1, <2>3 DEF RankNone, Ranks
<1>2. CASE RankByPin(r)
  <2>0. PICK health \in Readings : \E s \in Sorted(r, health) :
           /\ s # <<>> /\ Acceptable(r, s, PinOf(r))
           /\ Ranks(r, MoveToFront(s, PinOf(r)), "routed")
    BY <1>2 DEF RankByPin
  <2>1. PICK s \in Sorted(r, health) :
           /\ s # <<>> /\ Acceptable(r, s, PinOf(r))
           /\ Ranks(r, MoveToFront(s, PinOf(r)), "routed")
    BY <2>0
  <2>2. Orderly(r, s) /\ Behind(r, s)
    BY SortedIsOrderly DEF IInv
  <2>3. Orderly(r, MoveToFront(s, PinOf(r))) /\ Behind(r, MoveToFront(s, PinOf(r)))
    BY <2>1, <2>2, MovedIsOrderly DEF IInv, Acceptable
  <2> QED BY <1>2, <2>1, <2>3 DEF RankByPin, Ranks
<1>3. CASE RankByMode(r)
  <2>0. PICK health \in Readings : \E s \in Sorted(r, health) :
           /\ s # <<>>
           /\ \E u \in Lead(r, s, health) :
                 Ranks(r, MoveToFront(s, u), IF Pinned(r) THEN "pinning" ELSE "routed")
    BY <1>3 DEF RankByMode
  <2>1. PICK s \in Sorted(r, health) :
           /\ s # <<>>
           /\ \E u \in Lead(r, s, health) :
                 Ranks(r, MoveToFront(s, u), IF Pinned(r) THEN "pinning" ELSE "routed")
    BY <2>0
  <2>2. PICK u \in Lead(r, s, health) :
           Ranks(r, MoveToFront(s, u), IF Pinned(r) THEN "pinning" ELSE "routed")
    BY <2>1
  <2>3. Orderly(r, s) /\ Behind(r, s)
    BY SortedIsOrderly DEF IInv
  <2>4. /\ u \in Selectable(s)
        /\ route.mode # "pinned_best" => u \notin cooled[r] \/ Selectable(s) \subseteq cooled[r]
    BY <2>1, LeadIsSelectable DEF IInv
  <2>5. /\ Orderly(r, MoveToFront(s, u)) /\ MoveToFront(s, u) # <<>>
        /\ route.mode # "pinned_best" => Behind(r, MoveToFront(s, u))
    BY <2>3, <2>4, MovedIsOrderly DEF IInv
  <2> QED BY <1>3, <2>2, <2>5 DEF RankByMode, Ranks
<1>4. ASSUME phase[r] \in {"pinning", "yielding"}
      PROVE  /\ Orderly(r, ranking[r]) /\ (route.mode # "pinned_best" => Behind(r, ranking[r]))
             /\ Pinned(r) /\ ranking[r] # <<>> /\ ranking[r][1] \in Upstream
  <2>1. /\ Orderly(r, ranking[r]) /\ (route.mode # "pinned_best" => Behind(r, ranking[r]))
        /\ Pinned(r) /\ ranking[r] # <<>> /\ ranking[r] \in Seq(Upstream)
    BY <1>4 DEF IInv, RankingsOrderly, PinsAtStake, Routed, TypeOK
  <2> QED BY <2>1
<1>5. CASE StorePin(r)
  BY <1>4, <1>5 DEF StorePin, Ranks
<1>6. CASE FollowPin(r)
  <2>1. CASE Acceptable(r, ranking[r], PinOf(r))
    <3>1. /\ Orderly(r, MoveToFront(ranking[r], PinOf(r)))
          /\ route.mode # "pinned_best" => Behind(r, MoveToFront(ranking[r], PinOf(r)))
      BY <1>4, <1>6, <2>1, MovedIsOrderly DEF IInv, Acceptable, FollowPin
    <3> QED BY <1>6, <2>1, <3>1 DEF FollowPin, Ranks
  <2>2. CASE ~Acceptable(r, ranking[r], PinOf(r))
    BY <1>4, <1>6, <2>2 DEF FollowPin, Ranks
  <2> QED BY <2>1, <2>2
<1>7. CASE LosePin(r)
  BY <1>4, <1>7 DEF LosePin, Ranks
<1> QED BY <1>1, <1>2, <1>3, <1>5, <1>6, <1>7 DEF RankStep

-----------------------------------------------------------------------------
(* The steps of a report and of the other writers.                          *)

Report == Row \cup {Gone}

\* A delay is a number of seconds.
LEMMA DelayType ==
    ASSUME NEW trips \in Nat, NEW d \in Delays(trips)
    PROVE  d \in Int
BY Parameters DEF Delays, Limited

\* Rows, and the two values that stand for none.
LEMMA RowTypes ==
    /\ Absent \in Row /\ Gone \notin Row
    /\ \A x \in Report : x \in Row \/ x = Gone
    /\ \A x \in Row : x # Absent => x \in [until : Int, trips : Nat]
    /\ \A x \in [until : Int, trips : Nat] : x \in Row /\ x # Absent
    /\ \A x \in Row : x.until \in Int
BY DEF Row, Report, Absent, Gone

\* Where a step of a report leaves its request: at a row it has read, on the way again
\* after a trip, or at its end.
Own(r, next, tries, read) ==
    /\ phase' = [phase EXCEPT ![r] = next]
    /\ trying' = [trying EXCEPT ![r] = tries]
    /\ seen' = [seen EXCEPT ![r] = read]
    /\ \/ /\ next \in {"tripping", "rewarding"} /\ tries \in Upstream
          /\ read \in {row[tries], known[r][tries]}
          /\ row' = row
          /\ read # Absent => row[tries] # Absent
          /\ phase[r] = "routed" /\ UNCHANGED <<cooled, ranking>>
       \/ /\ next = "routed" /\ tries = NoPin /\ read = Absent
          /\ phase[r] = "tripping" /\ UNCHANGED <<cooled, ranking>>
       \/ /\ next \in {"idle", "failed"} /\ tries = NoPin /\ read = Absent
          /\ cooled' = [cooled EXCEPT ![r] = {}]
          /\ ranking' = [ranking EXCEPT ![r] = <<>>]

\* What a report does to the rows and to the request's own variables.
LEMMA ReportEffect ==
    ASSUME TypeOK, CopiesStand, NEW r \in Request, ReportStep(r)
    PROVE  /\ UNCHANGED <<now, route, pin>>
           /\ \/ UNCHANGED <<row, verdict>>
              \/ \E u \in Upstream, new \in [until : Int, trips : Nat] :
                    /\ row' = [row EXCEPT ![u] = new]
                    /\ verdict' = [verdict EXCEPT ![u] = new.until]
           /\ \/ known' = known
              \/ known' = [known EXCEPT ![r] = [u \in Upstream |-> Absent]]
              \/ \E u \in Upstream, new \in [until : Int, trips : Nat] :
                    /\ row' = [row EXCEPT ![u] = new]
                    /\ known' = [known EXCEPT ![r][u] = new]
           /\ \E next, tries, read : Own(r, next, tries, read)
<1>1. ASSUME NEW u \in Upstream, NEW next \in {"tripping", "rewarding"}, ReadRow(r, u, next)
      PROVE  /\ UNCHANGED <<now, route, stores, ranked, verdict>>
             /\ phase[r] = "routed" /\ phase' = [phase EXCEPT ![r] = next]
             /\ trying' = [trying EXCEPT ![r] = u]
             /\ \E read \in {row[u], known[r][u]} :
                   /\ seen' = [seen EXCEPT ![r] = read]
                   /\ read # Absent => row[u] # Absent
  BY <1>1 DEF ReadRow, CopiesStand
<1>2. CASE ReadForTrip(r) \/ ReadForReward(r)
  <2>1. PICK u \in Upstream, next \in {"tripping", "rewarding"} : ReadRow(r, u, next)
    BY <1>2 DEF ReadForTrip, ReadForReward
  <2>2. UNCHANGED <<now, route, pin, row, verdict, known, cooled, ranking>>
    BY <1>1, <2>1 DEF stores, ranked
  <2>3. PICK read \in {row[u], known[r][u]} :
           /\ seen' = [seen EXCEPT ![r] = read]
           /\ read # Absent => row[u] # Absent
    BY <1>1, <2>1
  <2>4. /\ phase[r] = "routed" /\ phase' = [phase EXCEPT ![r] = next]
        /\ trying' = [trying EXCEPT ![r] = u]
    BY <1>1, <2>1
  <2>5. Own(r, next, u, read)
    BY <2>2, <2>3, <2>4 DEF Own
  <2> QED BY <2>2, <2>5
<1>3. CASE WriteFails(r) \/ RewardNothing(r) \/ EndRequest(r)
  <2>1. Own(r, "failed", NoPin, Absent) \/ Own(r, "idle", NoPin, Absent)
    BY <1>3 DEF WriteFails, RewardNothing, EndRequest, Goes, Ends, Own
  <2>2. /\ UNCHANGED <<now, route, pin, row, verdict>>
        /\ known' = known \/ known' = [known EXCEPT ![r] = [u \in Upstream |-> Absent]]
    BY <1>3 DEF WriteFails, RewardNothing, EndRequest, Ends, stores
  <2> QED BY <2>1, <2>2
<1>4. CASE Trip(r)
  <2> DEFINE u == trying[r]
             trips == IF seen[r] = Absent THEN 0 ELSE seen[r].trips
  <2>1. u \in Upstream /\ seen[r] \in Row
    BY <1>4, RowTypes DEF Trip, Conflict, CopiesStand, TypeOK, Report
  <2>2. trips \in Nat
    BY <2>1, RowTypes
  <2>3. PICK d \in Delays(trips) :
           LET new == [until |-> now + d, trips |-> trips + 1]
           IN  /\ row' = [row EXCEPT ![u] = new]
               /\ verdict' = [verdict EXCEPT ![u] = now + d]
               /\ Keeps(r, u, new)
    BY <1>4 DEF Trip
  <2> DEFINE new == [until |-> now + d, trips |-> trips + 1]
  <2>4. new \in [until : Int, trips : Nat] /\ new.until = now + d
    BY <2>2, DelayType DEF TypeOK
  <2>5. /\ row' = [row EXCEPT ![u] = new] /\ verdict' = [verdict EXCEPT ![u] = new.until]
        /\ known' = known \/ known' = [known EXCEPT ![r][u] = new]
    BY <2>3, <2>4 DEF Keeps
  <2>6. /\ phase' = [phase EXCEPT ![r] = "routed"] /\ trying' = [trying EXCEPT ![r] = NoPin]
        /\ seen' = [seen EXCEPT ![r] = Absent] /\ phase[r] = "tripping"
        /\ UNCHANGED <<now, route, pin, cooled, ranking>>
    BY <1>4 DEF Trip, Goes
  <2>7. Own(r, "routed", NoPin, Absent)
    BY <2>6 DEF Own
  <2> HIDE DEF new, u
  <2> QED BY <2>1, <2>4, <2>5, <2>6, <2>7
<1>5. CASE Reward(r)
  <2> DEFINE u == trying[r]
             new == [until |-> now, trips |-> IF seen[r].trips # 0 THEN 0 ELSE row[u].trips]
  <2>1. u \in Upstream /\ row[u] \in Row /\ row[u] # Absent
    BY <1>5, RowTypes DEF Reward, Conflict, CopiesStand, TypeOK, Report
  <2>2. row[u] \in [until : Int, trips : Nat]
    BY <2>1, RowTypes
  <2>3. new \in [until : Int, trips : Nat] /\ new.until = now
    BY <2>2 DEF TypeOK
  <2>5. row' = [row EXCEPT ![u] = new] /\ verdict' = [verdict EXCEPT ![u] = new.until]
    BY <1>5, <2>1, <2>3 DEF Reward, TypeOK
  <2>6. /\ phase' = [phase EXCEPT ![r] = "idle"] /\ trying' = [trying EXCEPT ![r] = NoPin]
        /\ seen' = [seen EXCEPT ![r] = Absent]
        /\ known' = [known EXCEPT ![r] = [v \in Upstream |-> Absent]]
        /\ cooled' = [cooled EXCEPT ![r] = {}] /\ ranking' = [ranking EXCEPT ![r] = <<>>]
        /\ UNCHANGED <<now, route, pin>>
    BY <1>5 DEF Reward, Goes, Ends
  <2>7. Own(r, "idle", NoPin, Absent)
    BY <2>6 DEF Own
  <2> HIDE DEF new, u
  <2> QED BY <2>1, <2>3, <2>5, <2>6, <2>7
<1> QED BY <1>2, <1>3, <1>4, <1>5 DEF ReportStep

\* What retention and an operator do to the rows and their copies.
LEMMA ElsewhereEffect ==
    ASSUME TypeOK, Elsewhere
    PROVE  /\ UNCHANGED <<route, phase, cooled, ranking, trying>>
           /\ \/ now' = now /\ UNCHANGED <<row, verdict, known, seen>>
                 /\ pin' \in [Conversation -> Upstream \cup {NoPin}]
                 /\ \A c \in Conversation : pin'[c] \in {pin[c], NoPin}
              \/ now' = now + 1 /\ UNCHANGED <<row, verdict, known, seen, pin>>
              \/ /\ UNCHANGED <<now, known, seen, pin>>
                 /\ \E u \in Upstream : /\ row' = [row EXCEPT ![u] = [until |-> now, trips |-> 0]]
                                       /\ verdict' = [verdict EXCEPT ![u] = now]
              \/ /\ UNCHANGED <<now, verdict, pin>>
                 /\ \E dropped \in SUBSET Upstream :
                       /\ \A u \in dropped : row[u].until <= now
                       /\ row' = [u \in Upstream |-> IF u \in dropped THEN Absent ELSE row[u]]
                       /\ known' = [r \in Request |-> [u \in Upstream |->
                                       IF u \in dropped THEN Absent ELSE known[r][u]]]
                       /\ seen' = [r \in Request |->
                                       IF trying[r] \in dropped /\ seen[r] # Absent THEN Gone
                                       ELSE seen[r]]
<1>1. CASE Tick
  BY <1>1 DEF Tick, stores, ranked, write
<1>2. ASSUME NEW c \in Conversation, PinExpires(c)
      PROVE  /\ UNCHANGED <<now, route, row, phase, ranked, write, verdict>>
             /\ pin' \in [Conversation -> Upstream \cup {NoPin}]
             /\ \A d \in Conversation : pin'[d] \in {pin[d], NoPin}
  BY <1>2 DEF PinExpires, TypeOK
<1>3. ASSUME NEW u \in Upstream, ClearCooldown(u)
      PROVE  /\ UNCHANGED <<now, route, pin, phase, ranked, write>>
             /\ row' = [row EXCEPT ![u] = [until |-> now, trips |-> 0]]
             /\ verdict' = [verdict EXCEPT ![u] = now]
  BY <1>3 DEF ClearCooldown
<1>4. CASE LogCleanup
  <2> DEFINE dropped == {u \in Upstream : Old(u) /\ row[u].trips = 0}
  <2>1. Drop(dropped)
    BY <1>4 DEF LogCleanup
  <2>2. \A u \in dropped : row[u].until <= now
    BY Parameters, RowTypes DEF Old, TypeOK
  <2>3. dropped \in SUBSET Upstream
    OBVIOUS
  <2> HIDE DEF dropped
  <2> QED BY <2>1, <2>2, <2>3 DEF Drop
<1>5. CASE \E c \in Conversation : PinExpires(c)
  BY <1>2, <1>5 DEF ranked, write
<1>6. CASE \E u \in Upstream : ClearCooldown(u)
  BY <1>3, <1>6 DEF ranked, write
<1> QED BY <1>1, <1>4, <1>5, <1>6 DEF Elsewhere

-----------------------------------------------------------------------------
(* The invariant is kept.                                                   *)

Load(r) ==
    /\ phase' = [phase EXCEPT ![r] = "loaded"]
    /\ known' = [known EXCEPT ![r] = row]
    /\ \E few \in SUBSET Upstream : cooled' = [cooled EXCEPT ![r] = few]
    /\ phase[r] = "idle"
    /\ UNCHANGED <<now, route, row, pin, ranking, trying, seen, verdict>>

\* A request loads the rows and judges by them what is cooled.
LEMMA LoadEffect ==
    ASSUME NEW r \in Request, LoadCooldowns(r)
    PROVE  Load(r)
BY DEF LoadCooldowns, Load, stores, write

\* Every step keeps the type invariant,
LEMMA TypeKept ==
    ASSUME IInv, [Next]_vars
    PROVE  TypeOK'
<1>0. TypeOK /\ CopiesStand
  BY DEF IInv
<1>1. /\ now \in Nat /\ route \in Routes
      /\ row \in [Upstream -> Row] /\ verdict \in [Upstream -> Int]
      /\ known \in [Request -> [Upstream -> Row]] /\ seen \in [Request -> Row \cup {Gone}]
  BY <1>0 DEF TypeOK
<1>2. /\ pin \in [Conversation -> Upstream \cup {NoPin}]
      /\ phase \in [Request -> {"idle", "loaded", "pinning", "yielding", "routed",
                                "tripping", "rewarding", "failed"}]
      /\ cooled \in [Request -> SUBSET Upstream] /\ ranking \in [Request -> Seq(Upstream)]
      /\ trying \in [Request -> Upstream \cup {NoPin}]
  BY <1>0 DEF TypeOK
<1>3. Absent \in Row /\ \A x \in [until : Int, trips : Nat] : x \in Row
  BY RowTypes
<1>4. ASSUME NEW r \in Request, RankStep(r) PROVE TypeOK'
  <2>1. CASE LoadCooldowns(r)
    <3>1. known' = [known EXCEPT ![r] = row] /\ phase' = [phase EXCEPT ![r] = "loaded"]
      BY <2>1, LoadEffect DEF Load
    <3>2. cooled' \in [Request -> SUBSET Upstream]
      BY <1>2, <2>1, LoadEffect DEF Load
    <3>3. UNCHANGED <<now, route, row, pin, ranking, trying, seen, verdict>>
      BY <2>1, LoadEffect DEF Load
    <3> QED BY <1>1, <1>2, <3>1, <3>2, <3>3 DEF TypeOK
  <2>2. CASE ~LoadCooldowns(r)
    <3>1. UNCHANGED <<now, route, row, known, cooled, trying, seen, verdict>>
      BY <1>4, <2>2, RankedOrderly DEF write
    <3>2. PICK s : ranking' = [ranking EXCEPT ![r] = s] /\ Orderly(r, s)
      BY <1>4, <2>2, RankedOrderly
    <3>3. ranking' \in [Request -> Seq(Upstream)]
      BY <1>2, <3>2, OrderlyIsSeq
    <3>4. \E next \in {"pinning", "yielding", "routed"} : phase' = [phase EXCEPT ![r] = next]
      BY <1>4, <2>2, RankedOrderly
    <3>5. \/ pin' = pin
          \/ /\ ranking[r][1] \in Upstream
             /\ pin' = [pin EXCEPT ![ConversationOf[r]] = ranking[r][1]]
      BY <1>4, <2>2, RankedOrderly
    <3>6. pin' \in [Conversation -> Upstream \cup {NoPin}]
      BY <1>2, <3>5
    <3> QED BY <1>1, <1>2, <3>1, <3>3, <3>4, <3>6 DEF TypeOK
  <2> QED BY <2>1, <2>2
<1>5. ASSUME NEW r \in Request, ReportStep(r) PROVE TypeOK'
  <2>0. PICK next, tries, read : Own(r, next, tries, read)
    BY <1>0, <1>5, ReportEffect
  <2>1. UNCHANGED <<now, route, pin>>
    BY <1>0, <1>5, ReportEffect
  <2>2. row' \in [Upstream -> Row] /\ verdict' \in [Upstream -> Int]
    <3>1. \/ UNCHANGED <<row, verdict>>
          \/ \E u \in Upstream, new \in [until : Int, trips : Nat] :
                /\ row' = [row EXCEPT ![u] = new]
                /\ verdict' = [verdict EXCEPT ![u] = new.until]
      BY <1>0, <1>5, ReportEffect
    <3> QED BY <1>1, <1>3, <3>1
  <2>3. known' \in [Request -> [Upstream -> Row]]
    <3>1. \/ known' = known
          \/ known' = [known EXCEPT ![r] = [u \in Upstream |-> Absent]]
          \/ \E u \in Upstream, new \in [until : Int, trips : Nat] :
                known' = [known EXCEPT ![r][u] = new]
      BY <1>0, <1>5, ReportEffect
    <3>2. ASSUME NEW u \in Upstream, NEW new \in [until : Int, trips : Nat],
                 known' = [known EXCEPT ![r][u] = new]
          PROVE  known' \in [Request -> [Upstream -> Row]]
      BY <1>1, <1>3, <3>2
    <3>3. ASSUME known' = [known EXCEPT ![r] = [u \in Upstream |-> Absent]]
          PROVE  known' \in [Request -> [Upstream -> Row]]
      BY <1>1, <1>3, <3>3
    <3> QED BY <1>1, <3>1, <3>2, <3>3
  <2>4. /\ cooled' \in [Request -> SUBSET Upstream] /\ ranking' \in [Request -> Seq(Upstream)]
    <3>1. \/ UNCHANGED <<cooled, ranking>>
          \/ /\ cooled' = [cooled EXCEPT ![r] = {}]
             /\ ranking' = [ranking EXCEPT ![r] = <<>>]
      BY <2>0 DEF Own
    <3>2. <<>> \in Seq(Upstream) /\ {} \in SUBSET Upstream
      OBVIOUS
    <3> QED BY <1>2, <3>1, <3>2
  <2>5. /\ phase' = [phase EXCEPT ![r] = next]
        /\ trying' = [trying EXCEPT ![r] = tries]
        /\ seen' = [seen EXCEPT ![r] = read]
        /\ next \in {"tripping", "rewarding", "routed", "idle", "failed"}
        /\ \/ tries \in Upstream /\ read \in {row[tries], known[r][tries]}
           \/ tries = NoPin /\ read = Absent
    BY <2>0 DEF Own
  <2>6. read \in Row /\ tries \in Upstream \cup {NoPin}
    BY <1>1, <1>3, <2>5
  <2>7. phase' \in [Request -> {"idle", "loaded", "pinning", "yielding", "routed",
                                "tripping", "rewarding", "failed"}]
    BY <1>2, <2>5
  <2>8. seen' \in [Request -> Row \cup {Gone}] /\ trying' \in [Request -> Upstream \cup {NoPin}]
    BY <1>1, <1>2, <2>5, <2>6
  <2>9. now' \in Nat /\ route' \in Routes /\ pin' \in [Conversation -> Upstream \cup {NoPin}]
    BY <1>1, <1>2, <2>1
  <2> QED BY <2>2, <2>3, <2>4, <2>7, <2>8, <2>9 DEF TypeOK
<1>6. CASE Elsewhere
  <2>1. UNCHANGED <<route, phase, cooled, ranking, trying>>
    BY <1>0, <1>6, ElsewhereEffect
  <2>2. /\ now' \in Nat /\ pin' \in [Conversation -> Upstream \cup {NoPin}]
    BY <1>0, <1>1, <1>2, <1>6, ElsewhereEffect
  <2>3. [until |-> now, trips |-> 0] \in [until : Int, trips : Nat] /\ now \in Int
    BY <1>1
  <2>4. \/ UNCHANGED <<row, verdict>>
        \/ \E u \in Upstream : /\ row' = [row EXCEPT ![u] = [until |-> now, trips |-> 0]]
                              /\ verdict' = [verdict EXCEPT ![u] = now]
        \/ /\ UNCHANGED verdict
           /\ \E dropped : row' = [u \in Upstream |-> IF u \in dropped THEN Absent ELSE row[u]]
    BY <1>0, <1>6, ElsewhereEffect
  <2>5. row' \in [Upstream -> Row] /\ verdict' \in [Upstream -> Int]
    BY <1>1, <1>3, <2>3, <2>4
  <2>6. \/ UNCHANGED <<known, seen>>
        \/ \E dropped :
              /\ known' = [r \in Request |-> [u \in Upstream |->
                              IF u \in dropped THEN Absent ELSE known[r][u]]]
              /\ seen' = [r \in Request |->
                              IF trying[r] \in dropped /\ seen[r] # Absent THEN Gone ELSE seen[r]]
    BY <1>0, <1>6, ElsewhereEffect
  <2>7. known' \in [Request -> [Upstream -> Row]] /\ seen' \in [Request -> Row \cup {Gone}]
    BY <1>1, <1>3, <2>6
  <2> QED BY <1>1, <1>2, <2>1, <2>2, <2>5, <2>7 DEF TypeOK
<1>7. CASE UNCHANGED vars
  BY <1>0, <1>7 DEF vars, stores, ranked, write, TypeOK
<1> QED BY <1>4, <1>5, <1>6, <1>7, Steps

\* the rows and the verdicts in agreement,
LEMMA AgreeKept ==
    ASSUME IInv, [Next]_vars
    PROVE  Agree'
<1> SUFFICES ASSUME NEW u \in Upstream
             PROVE  \/ row'[u].until = verdict'[u]
                    \/ row'[u].until <= now' /\ verdict'[u] <= now'
  BY DEF Agree
<1>0. /\ TypeOK /\ CopiesStand
      /\ row[u].until = verdict[u] \/ (row[u].until <= now /\ verdict[u] <= now)
      /\ row \in [Upstream -> Row] /\ verdict \in [Upstream -> Int] /\ now \in Nat
      /\ row[u].until \in Int /\ verdict[u] \in Int
  BY RowTypes DEF IInv, TypeOK, Agree
<1>1. ASSUME NEW r \in Request, RankStep(r) PROVE UNCHANGED <<now, row, verdict>>
  BY <1>1, RankedOrderly, LoadEffect DEF Load
<1>2. ASSUME NEW r \in Request, ReportStep(r)
      PROVE  now' = now /\ (UNCHANGED <<row, verdict>>
                            \/ row'[u].until = verdict'[u] \/ (UNCHANGED <<row[u], verdict[u]>>))
  <2>1. /\ now' = now
        /\ \/ UNCHANGED <<row, verdict>>
           \/ \E v \in Upstream, new \in [until : Int, trips : Nat] :
                 /\ row' = [row EXCEPT ![v] = new]
                 /\ verdict' = [verdict EXCEPT ![v] = new.until]
    BY <1>0, <1>2, ReportEffect
  <2> QED BY <1>0, <2>1
<1>3. CASE Elsewhere
  <2>1. Absent.until = 0
    BY DEF Absent
  <2> QED BY <1>0, <1>3, <2>1, ElsewhereEffect
<1>4. CASE UNCHANGED vars
  BY <1>0, <1>4 DEF vars, stores
<1> QED BY <1>0, <1>1, <1>2, <1>3, <1>4, Steps

\* the rows of which there are copies,
LEMMA CopiesKept ==
    ASSUME IInv, [Next]_vars
    PROVE  CopiesStand'
<1>0. /\ TypeOK /\ CopiesStand
      /\ row \in [Upstream -> Row] /\ known \in [Request -> [Upstream -> Row]]
      /\ phase \in [Request -> {"idle", "loaded", "pinning", "yielding", "routed",
                                "tripping", "rewarding", "failed"}]
      /\ trying \in [Request -> Upstream \cup {NoPin}] /\ seen \in [Request -> Row \cup {Gone}]
  BY DEF IInv, TypeOK
<1>1. ASSUME NEW r \in Request, RankStep(r) PROVE CopiesStand'
  <2>1. /\ UNCHANGED <<row, trying, seen>>
        /\ known' = known \/ known' = [known EXCEPT ![r] = row]
        /\ \E next \in {"loaded", "pinning", "yielding", "routed"} :
              phase' = [phase EXCEPT ![r] = next]
    BY <1>1, RankedOrderly, LoadEffect DEF Load, write
  <2> QED BY <1>0, <2>1 DEF CopiesStand
<1>2. ASSUME NEW r \in Request, ReportStep(r) PROVE CopiesStand'
  <2>1. \A u \in Upstream : row[u] # Absent => row'[u] # Absent
    <3>1. \/ row' = row
          \/ \E u \in Upstream, new \in [until : Int, trips : Nat] : row' = [row EXCEPT ![u] = new]
      BY <1>0, <1>2, ReportEffect
    <3> QED BY <1>0, <3>1, RowTypes
  <2>2. \A q \in Request, u \in Upstream : known'[q][u] # Absent => row'[u] # Absent
    <3>1. \/ known' = known
          \/ known' = [known EXCEPT ![r] = [u \in Upstream |-> Absent]]
          \/ \E u \in Upstream, new \in [until : Int, trips : Nat] :
                /\ row' = [row EXCEPT ![u] = new]
                /\ known' = [known EXCEPT ![r][u] = new]
      BY <1>0, <1>2, ReportEffect
    <3>2. CASE known' = known
      BY <3>2, <2>1, <1>0 DEF CopiesStand
    <3>3. CASE known' = [known EXCEPT ![r] = [u \in Upstream |-> Absent]]
      BY <3>3, <2>1, <1>0 DEF CopiesStand
    <3>4. ASSUME NEW u \in Upstream, NEW new \in [until : Int, trips : Nat],
                 row' = [row EXCEPT ![u] = new], known' = [known EXCEPT ![r][u] = new]
          PROVE  \A q \in Request, v \in Upstream : known'[q][v] # Absent => row'[v] # Absent
      <4>1. row'[u] # Absent
        BY <1>0, <3>4, RowTypes
      <4>2. \A q \in Request, v \in Upstream : v # u => known'[q][v] = known[q][v]
        BY <1>0, <3>4
      <4> QED BY <1>0, <2>1, <4>1, <4>2 DEF CopiesStand
    <3> QED BY <3>1, <3>2, <3>3, <3>4
  <2>0. PICK next, tries, read : Own(r, next, tries, read)
    BY <1>0, <1>2, ReportEffect
  <2>3. /\ phase' = [phase EXCEPT ![r] = next]
        /\ trying' = [trying EXCEPT ![r] = tries]
        /\ seen' = [seen EXCEPT ![r] = read]
        /\ next \in {"tripping", "rewarding"} =>
              tries \in Upstream /\ (read # Absent => row[tries] # Absent)
    BY <2>0 DEF Own
  <2>4. \A q \in Request \ {r} : /\ phase'[q] = phase[q] /\ trying'[q] = trying[q]
                                /\ seen'[q] = seen[q]
    BY <1>0, <2>3
  <2>5. phase'[r] = next /\ trying'[r] = tries /\ seen'[r] = read
    BY <1>0, <2>3
  <2>6. \A q \in Request : phase'[q] \in {"tripping", "rewarding"} =>
            /\ trying'[q] \in Upstream
            /\ seen'[q] \notin {Absent, Gone} => row'[trying'[q]] # Absent
    BY <1>0, <2>1, <2>3, <2>4, <2>5 DEF CopiesStand
  <2> QED BY <2>2, <2>6 DEF CopiesStand
<1>3. CASE Elsewhere
  <2>1. UNCHANGED <<phase, trying>>
    BY <1>0, <1>3, ElsewhereEffect
  <2>2. \/ UNCHANGED <<row, known, seen>>
        \/ /\ UNCHANGED <<known, seen>>
           /\ \E u \in Upstream : row' = [row EXCEPT ![u] = [until |-> now, trips |-> 0]]
        \/ \E dropped \in SUBSET Upstream :
              /\ row' = [u \in Upstream |-> IF u \in dropped THEN Absent ELSE row[u]]
              /\ known' = [r \in Request |-> [u \in Upstream |->
                              IF u \in dropped THEN Absent ELSE known[r][u]]]
              /\ seen' = [r \in Request |->
                              IF trying[r] \in dropped /\ seen[r] # Absent THEN Gone ELSE seen[r]]
    BY <1>0, <1>3, ElsewhereEffect
  <2>3. [until |-> now, trips |-> 0] # Absent
    BY DEF Absent
  <2>4. CASE UNCHANGED <<row, known, seen>>
    BY <1>0, <2>1, <2>4 DEF CopiesStand
  <2>5. ASSUME NEW u \in Upstream, row' = [row EXCEPT ![u] = [until |-> now, trips |-> 0]],
               UNCHANGED <<known, seen>>
        PROVE  CopiesStand'
    <3>1. \A v \in Upstream : row[v] # Absent => row'[v] # Absent
      BY <1>0, <2>3, <2>5
    <3> QED BY <1>0, <2>1, <2>5, <3>1 DEF CopiesStand
  <2>6. ASSUME NEW dropped \in SUBSET Upstream,
               row' = [u \in Upstream |-> IF u \in dropped THEN Absent ELSE row[u]],
               known' = [r \in Request |-> [u \in Upstream |->
                              IF u \in dropped THEN Absent ELSE known[r][u]]],
               seen' = [r \in Request |->
                              IF trying[r] \in dropped /\ seen[r] # Absent THEN Gone ELSE seen[r]]
        PROVE  CopiesStand'
    BY <1>0, <2>1, <2>6 DEF CopiesStand
  <2> QED BY <2>2, <2>4, <2>5, <2>6
<1>4. CASE UNCHANGED vars
  BY <1>0, <1>4 DEF vars, stores, ranked, write, CopiesStand
<1> QED BY <1>1, <1>2, <1>3, <1>4, Steps

\* An order is judged by the route and by what its request ranks as cooled.
LEMMA SameOrder ==
    ASSUME NEW r, NEW s, route' = route, cooled'[r] = cooled[r]
    PROVE  /\ Orderly(r, s) => Orderly(r, s)'
           /\ Behind(r, s) => Behind(r, s)'
BY DEF Orderly, Behind, Candidates

\* and the rankings in order.
LEMMA RankingsKept ==
    ASSUME IInv, [Next]_vars
    PROVE  RankingsOrderly' /\ PinsAtStake'
<1> DEFINE At(r) == /\ Routed(r) => /\ Orderly(r, ranking[r])
                                    /\ route.mode # "pinned_best" => Behind(r, ranking[r])
                    /\ phase[r] \in {"pinning", "yielding"} => Pinned(r) /\ ranking[r] # <<>>
<1>0. /\ TypeOK /\ CopiesStand
      /\ phase \in [Request -> {"idle", "loaded", "pinning", "yielding", "routed",
                                "tripping", "rewarding", "failed"}]
      /\ cooled \in [Request -> SUBSET Upstream] /\ ranking \in [Request -> Seq(Upstream)]
      /\ \A r \in Request : At(r)
  BY DEF IInv, TypeOK, RankingsOrderly, PinsAtStake
<1> SUFFICES ASSUME NEW q \in Request PROVE At(q)'
  BY DEF RankingsOrderly, PinsAtStake
<1>1. ASSUME route' = route, phase'[q] = phase[q], cooled'[q] = cooled[q],
             ranking'[q] = ranking[q]
      PROVE  At(q)'
  <2>1. At(q)
    BY <1>0
  <2>2. Routed(q)' = Routed(q) /\ Pinned(q)' = Pinned(q)
    BY <1>1 DEF Routed, Pinned
  <2> QED BY <1>1, <2>1, <2>2, SameOrder
<1>2. ASSUME NEW r \in Request, RankStep(r) PROVE At(q)'
  <2>1. CASE LoadCooldowns(r)
    <3>1. CASE q # r
      BY <1>0, <1>1, <2>1, <3>1, LoadEffect DEF Load
    <3>2. CASE q = r
      <4>1. phase'[q] = "loaded"
        BY <1>0, <2>1, <3>2, LoadEffect DEF Load
      <4> QED BY <4>1 DEF Routed
    <3> QED BY <3>1, <3>2
  <2>2. CASE ~LoadCooldowns(r)
    <3>1. route' = route /\ cooled' = cooled
      BY <1>2, <2>2, RankedOrderly
    <3>0. PICK s : /\ ranking' = [ranking EXCEPT ![r] = s]
                   /\ Orderly(r, s) /\ (route.mode # "pinned_best" => Behind(r, s))
                   /\ \E next \in {"pinning", "yielding", "routed"} :
                         /\ phase' = [phase EXCEPT ![r] = next]
                         /\ next # "routed" => Pinned(r) /\ s # <<>>
      BY <1>2, <2>2, RankedOrderly
    <3>2. PICK next \in {"pinning", "yielding", "routed"} :
              /\ ranking' = [ranking EXCEPT ![r] = s] /\ phase' = [phase EXCEPT ![r] = next]
              /\ Orderly(r, s) /\ (route.mode # "pinned_best" => Behind(r, s))
              /\ next # "routed" => Pinned(r) /\ s # <<>>
      BY <3>0
    <3>3. CASE q # r
      BY <1>0, <1>1, <3>1, <3>2, <3>3
    <3>4. CASE q = r
      <4>1. ranking'[r] = s /\ phase'[r] = next
        BY <1>0, <3>2
      <4>2. Pinned(r)' = Pinned(r)
        BY <3>1 DEF Pinned
      <4>3. Orderly(r, s)' /\ (route.mode # "pinned_best" => Behind(r, s)')
        BY <3>1, <3>2, SameOrder
      <4> QED BY <3>1, <3>2, <3>4, <4>1, <4>2, <4>3
    <3> QED BY <3>3, <3>4
  <2> QED BY <2>1, <2>2
<1>3. ASSUME NEW r \in Request, ReportStep(r) PROVE At(q)'
  <2>0. PICK next, tries, read : Own(r, next, tries, read)
    BY <1>0, <1>3, ReportEffect
  <2>1. route' = route
    BY <1>0, <1>3, ReportEffect
  <2>2. /\ phase' = [phase EXCEPT ![r] = next]
        /\ \/ /\ next \in {"tripping", "rewarding", "routed"} /\ Routed(r)
              /\ UNCHANGED <<cooled, ranking>>
           \/ /\ next \in {"idle", "failed"}
              /\ cooled' = [cooled EXCEPT ![r] = {}]
              /\ ranking' = [ranking EXCEPT ![r] = <<>>]
    BY <2>0 DEF Own, Routed
  <2>3. CASE q # r
    BY <1>0, <1>1, <2>1, <2>2, <2>3
  <2>4. CASE q = r /\ next \in {"idle", "failed"}
    <3>1. phase'[q] \in {"idle", "failed"}
      BY <1>0, <2>2, <2>4
    <3> QED BY <3>1 DEF Routed
  <2>5. CASE q = r /\ next \in {"tripping", "rewarding", "routed"}
    <3>1. phase'[q] = next /\ UNCHANGED <<cooled, ranking>> /\ Routed(q)
      BY <1>0, <2>2, <2>5
    <3>2. Orderly(q, ranking[q]) /\ (route.mode # "pinned_best" => Behind(q, ranking[q]))
      BY <1>0, <3>1
    <3>3. /\ Orderly(q, ranking[q])'
          /\ route.mode # "pinned_best" => Behind(q, ranking[q])'
      BY <2>1, <3>1, <3>2 DEF Orderly, Behind, Candidates
    <3> QED BY <2>1, <2>5, <3>1, <3>3
  <2> QED BY <2>2, <2>3, <2>4, <2>5
<1>4. CASE Elsewhere
  BY <1>0, <1>1, <1>4, ElsewhereEffect
<1>5. CASE UNCHANGED vars
  BY <1>0, <1>1, <1>5 DEF vars, stores, ranked, write
<1> QED BY <1>2, <1>3, <1>4, <1>5, Steps

\* The initial states satisfy the invariant.
LEMMA Inits == Init => IInv
<1> SUFFICES ASSUME Init PROVE IInv
  OBVIOUS
<1>1. /\ now = 1 /\ route \in Routes /\ row \in [Upstream -> Row]
      /\ pin = [c \in Conversation |-> NoPin] /\ phase = [r \in Request |-> "idle"]
      /\ known = [r \in Request |-> [u \in Upstream |-> Absent]]
      /\ cooled = [r \in Request |-> {}] /\ ranking = [r \in Request |-> <<>>]
      /\ trying = [r \in Request |-> NoPin] /\ seen = [r \in Request |-> Absent]
      /\ verdict = [u \in Upstream |-> row[u].until]
  BY Parameters DEF Init
<1>2. TypeOK
  BY <1>1, RowTypes DEF TypeOK
<1>3. Agree
  BY <1>1 DEF Agree
<1>4. CopiesStand
  BY <1>1 DEF CopiesStand
<1>5. RankingsOrderly /\ PinsAtStake
  BY <1>1 DEF RankingsOrderly, PinsAtStake, Routed
<1> QED BY <1>2, <1>3, <1>4, <1>5 DEF IInv

-----------------------------------------------------------------------------
(* The theorems.                                                            *)

\* The inductive invariant holds in every reachable state.
THEOREM Always == Spec => []IInv
<1>1. Init => IInv
  BY Inits
<1>2. IInv /\ [Next]_vars => IInv'
  BY TypeKept, AgreeKept, CopiesKept, RankingsKept DEF IInv
<1> QED BY <1>1, <1>2, PTL DEF Spec

\* However requests report from stale copies, operators clear and retention deletes,
\* an upstream is cooled exactly as long as the latest report on it says.
THEOREM CooldownKept == Spec => []CooldownIsLatestReport
<1>1. IInv => CooldownIsLatestReport
  <2> SUFFICES ASSUME IInv, NEW u \in Upstream
               PROVE  (row[u].until > now) = (verdict[u] > now)
    BY DEF CooldownIsLatestReport
  <2>1. row[u].until \in Int /\ verdict[u] \in Int /\ now \in Int
    BY RowTypes DEF IInv, TypeOK
  <2> QED BY <2>1 DEF IInv, Agree
<1> QED BY <1>1, Always, PTL

\* Whatever the statistics, the mode and the pins, a ranking is a permutation of the
\* candidates with the groups in order, and under every mode but pinned_best no cooled
\* upstream is tried before a normal one of its group.
THEOREM RankingKept == Spec => []RankingSound
<1>1. IInv => GroupOrder /\ RankingComplete /\ CooledBehindNormal
  <2> SUFFICES ASSUME IInv, NEW r \in Request, Routed(r)
               PROVE  /\ \A i, j \in DOMAIN ranking[r] :
                            i < j => Group[ranking[r][i]] <= Group[ranking[r][j]]
                      /\ Range(ranking[r]) = Candidates(r)
                      /\ Len(ranking[r]) = Cardinality(Candidates(r))
                      /\ route.mode # "pinned_best" => CooledBehind(r)
    BY DEF GroupOrder, RankingComplete, CooledBehindNormal
  <2> DEFINE n == Cardinality(Candidates(r))
  <2>1. /\ Orderly(r, ranking[r]) /\ ranking[r] \in Seq(Upstream)
        /\ route.mode # "pinned_best" => Behind(r, ranking[r])
    BY DEF IInv, RankingsOrderly, TypeOK
  <2>2. /\ ranking[r] \in [1..n -> Candidates(r)] /\ n \in Nat
        /\ \A c \in Candidates(r) : \E i \in 1..n : ranking[r][i] = c
    BY <2>1, CandidateCount DEF Orderly, Bijection, Injection, Surjection
  <2>3. Len(ranking[r]) = n
    BY <2>1, <2>2
  <2>4. Range(ranking[r]) = Candidates(r)
    BY <2>2 DEF Range
  <2>5. route.mode # "pinned_best" => CooledBehind(r)
    BY <2>1 DEF Behind, CooledBehind
  <2> QED BY <2>1, <2>3, <2>4, <2>5 DEF Orderly
<1>2. IInv => TypeOK
  BY DEF IInv
<1>3. IInv => RankingSound
  BY <1>1, <1>2 DEF RankingSound
<1> QED BY <1>3, Always, PTL

\* Nobody moves a pin that stands, and a request that settles leads with the pin of its
\* conversation, also where first requests race, and where Redis fails others or has
\* failed the request before (rank).
THEOREM PinKept == Spec => ConversationSticks
<1>1. IInv /\ [Next]_vars => PinStands
  <2> SUFFICES ASSUME IInv, [Next]_vars PROVE PinStands
    OBVIOUS
  <2>0. /\ TypeOK /\ CopiesStand /\ NoPin \notin Upstream
        /\ pin \in [Conversation -> Upstream \cup {NoPin}]
        /\ phase \in [Request -> {"idle", "loaded", "pinning", "yielding", "routed",
                                  "tripping", "rewarding", "failed"}]
        /\ ranking \in [Request -> Seq(Upstream)]
    BY Parameters DEF IInv, TypeOK
  <2>1. ASSUME NEW c \in Conversation, pin[c] # NoPin
        PROVE  pin'[c] \in {pin[c], NoPin}
    <3>1. ASSUME NEW r \in Request, RankStep(r) PROVE pin'[c] = pin[c]
      <4>1. \/ pin' = pin
            \/ /\ pin' = [pin EXCEPT ![ConversationOf[r]] = ranking[r][1]]
               /\ pin[ConversationOf[r]] = NoPin
        BY <3>1, RankedOrderly, LoadEffect DEF Load
      <4> QED BY <2>0, <2>1, <4>1
    <3>2. ASSUME NEW r \in Request, ReportStep(r) PROVE pin'[c] = pin[c]
      BY <2>0, <3>2, ReportEffect
    <3>3. CASE Elsewhere
      BY <2>0, <3>3, ElsewhereEffect
    <3>4. CASE UNCHANGED vars
      BY <3>4 DEF vars, stores
    <3> QED BY <3>1, <3>2, <3>3, <3>4, Steps
  <2>2. ASSUME NEW q \in Request, Settles(q), ranking'[q] # <<>>,
               Acceptable(q, ranking'[q], PinOf(q)')
        PROVE  ranking'[q][1] = PinOf(q)'
    <3>0. phase[q] \in {"loaded", "pinning", "yielding"} /\ phase'[q] = "routed"
      BY <2>2 DEF Settles
    <3>1. RankStep(q) /\ ~LoadCooldowns(q)
      <4>1. ASSUME NEW r \in Request, RankStep(r), r # q PROVE phase'[q] = phase[q]
        <5>1. \E next : phase' = [phase EXCEPT ![r] = next]
          BY <4>1, RankedOrderly, LoadEffect DEF Load
        <5> QED BY <2>0, <4>1, <5>1
      <4>2. ASSUME NEW r \in Request, ReportStep(r) PROVE phase'[q] = phase[q]
        <5>1. /\ \E next : phase' = [phase EXCEPT ![r] = next]
              /\ phase[r] \in {"routed", "tripping", "rewarding", "failed"}
          BY <4>2 DEF ReportStep, ReadForTrip, ReadForReward, ReadRow, WriteFails, Trip, Reward,
             RewardNothing, EndRequest, Goes
        <5> QED BY <2>0, <3>0, <5>1
      <4>3. ASSUME Elsewhere \/ UNCHANGED vars PROVE phase'[q] = phase[q]
        BY <2>0, <4>3, ElsewhereEffect DEF vars
      <4>4. LoadCooldowns(q) => phase'[q] = "loaded"
        BY <2>0, LoadEffect DEF Load
      <4> QED BY <3>0, <4>1, <4>2, <4>3, <4>4, Steps
    <3>2. UNCHANGED <<route, cooled>>
      BY <3>1, RankedOrderly
    <3>3. CASE RankNone(q)
      BY <2>0, <2>2, <3>3 DEF RankNone, Ranks
    <3>4. CASE RankByPin(q)
      <4>1. PICK health \in Readings : \E s \in Sorted(q, health) :
               /\ Acceptable(q, s, PinOf(q)) /\ Ranks(q, MoveToFront(s, PinOf(q)), "routed")
        BY <3>4 DEF RankByPin
      <4>2. PICK s \in Sorted(q, health) :
               /\ Acceptable(q, s, PinOf(q)) /\ Ranks(q, MoveToFront(s, PinOf(q)), "routed")
        BY <4>1
      <4>3. MoveToFront(s, PinOf(q))[1] = PinOf(q)
        BY <2>0, <4>2, SortedIsOrderly, MovedIsOrderly DEF Acceptable
      <4>4. PinOf(q)' = PinOf(q)
        BY <3>2, <3>4 DEF RankByPin, PinOf, Pinned
      <4> QED BY <2>0, <4>2, <4>3, <4>4 DEF Ranks
    <3>5. CASE RankByMode(q)
      <4>1. \E s : Ranks(q, s, IF Pinned(q) THEN "pinning" ELSE "routed")
        BY <3>5 DEF RankByMode
      <4>2. ~Pinned(q)
        BY <2>0, <3>0, <4>1 DEF Ranks
      <4>3. PinOf(q)' = NoPin
        BY <3>2, <4>2 DEF PinOf, Pinned
      <4>4. ranking'[q] \in Seq(Upstream)
        BY TypeKept DEF TypeOK
      <4> QED BY <2>0, <2>2, <4>3, <4>4 DEF Acceptable, Selectable, Range
    <3>6. CASE StorePin(q)
      <4>1. Pinned(q) /\ ConversationOf[q] \in Conversation
        BY <3>6 DEF IInv, PinsAtStake, StorePin, Pinned
      <4>2. /\ pin' = [pin EXCEPT ![ConversationOf[q]] = ranking[q][1]]
            /\ ranking'[q] = ranking[q]
        BY <2>0, <3>0, <3>6 DEF StorePin, Ranks
      <4> QED BY <2>0, <3>2, <4>1, <4>2 DEF PinOf, Pinned
    <3>7. CASE FollowPin(q)
      <4>1. PinOf(q)' = PinOf(q)
        BY <3>2, <3>7 DEF FollowPin, PinOf, Pinned
      <4>2. CASE Acceptable(q, ranking[q], PinOf(q))
        <5>1. ranking'[q] = MoveToFront(ranking[q], PinOf(q))
          BY <2>0, <3>7, <4>2 DEF FollowPin, Ranks
        <5>2. Orderly(q, ranking[q])
          BY <3>7 DEF IInv, RankingsOrderly, FollowPin, Routed
        <5>3. MoveToFront(ranking[q], PinOf(q))[1] = PinOf(q)
          BY <2>0, <4>2, <5>2, MovedIsOrderly DEF Acceptable
        <5> QED BY <4>1, <5>1, <5>3
      <4>3. CASE ~Acceptable(q, ranking[q], PinOf(q))
        <5>1. ranking'[q] = ranking[q]
          BY <2>0, <3>7, <4>3 DEF FollowPin, Ranks
        <5> QED BY <2>2, <3>2, <4>1, <4>3, <5>1
      <4> QED BY <4>2, <4>3
    <3>8. ~LosePin(q)
      BY <2>2 DEF Settles
    <3> QED BY <3>1, <3>3, <3>4, <3>5, <3>6, <3>7, <3>8 DEF RankStep
  <2> QED BY <2>1, <2>2 DEF PinStands
<1> QED BY <1>1, Always, PTL DEF Spec, ConversationSticks
=============================================================================
