--------------------------- MODULE KeyPoolProofs ---------------------------
(***************************************************************************)
(* Proofs about KeyPool: what stale sessions and an operator cannot do to   *)
(* the rows of a key pool, for any number of keys, requests and sweeps.     *)
(***************************************************************************)
EXTENDS KeyPool, TLAPS

USE DEF KeyStatus, Dead, NoTime, Phase

(***************************************************************************)
(* The inductive invariant.                                                 *)
(***************************************************************************)

\* A sweep writes the status column only, never to rate_limited and never away
\* from a disable it has seen.
SweepWrites ==
    \A s \in Sweep, k \in Key :
        /\ view[s][k].secret = loaded[s][k].secret
        /\ view[s][k].until = loaded[s][k].until
        /\ view[s][k].status # loaded[s][k].status =>
              view[s][k].status # "rate_limited" /\ loaded[s][k].status # "disabled"

\* A request sends only with keys it knows to be in service.
InUse ==
    \A r \in Request :
        phase[r] \in {"waiting", "posting"} =>
            view[r][using[r]].status \in {"active", "rate_limited"}

\* No secret is stored, held by a handler or under way that was not issued, and a
\* rotation's is newer than the one it read.
SecretsIssued ==
    /\ \A k \in Key : row[k].secret <= issued[k]
    /\ \A h \in Handler, k \in Key : view[h][k].secret <= issued[k]
    /\ \A s \in KeyUser :
          phase[s] = "posting" =>
              /\ rotation[s].read < rotation[s].fresh
              /\ rotation[s].fresh <= issued[using[s]]

IInv == TypeOK /\ SweepWrites /\ InUse /\ SecretsIssued

-----------------------------------------------------------------------------
(* The operators a session's writes are built from.                         *)

LEMMA SecretIsInt == \A x \in Secret : x \in Int /\ 1 <= x /\ x <= MaxSecret
BY ConstantsAssumption DEF Secret

\* A column-wise update of a row by a session is a row.
LEMMA MergeType ==
    ASSUME NEW cur \in Row, NEW old \in Row, NEW new \in Row
    PROVE  Merge(cur, old, new) \in Row
BY DEF Merge, Column, Row

\* apply_balance writes the status alone, and leaves a disabled key disabled.
LEMMA ApplyBalanceSound ==
    ASSUME NEW v \in Row, NEW reading
    PROVE  LET w == ApplyBalance(v, reading)
           IN  /\ w \in Row
               /\ w.secret = v.secret
               /\ w.until = v.until
               /\ w.status # v.status => w.status # "rate_limited" /\ v.status # "disabled"
BY DEF ApplyBalance, Condemned, Row

\* A park is a row: it ends within the bound of the clock.
LEMMA ParkType ==
    ASSUME TypeOK, NEW v \in Row
    PROVE  /\ [v EXCEPT !.status = "rate_limited", !.until = now + Cooldown] \in Row
           /\ [v EXCEPT !.until = NoTime] \in Row
           /\ now + Cooldown # NoTime
<1>1. now + Cooldown \in 0..(MaxTime + Cooldown)
  <2>1. now \in 0..MaxTime
    BY DEF TypeOK
  <2> QED BY <2>1, ConstantsAssumption
<1>2. now + Cooldown \in Time /\ NoTime \in Time /\ now + Cooldown # NoTime
  BY <1>1 DEF Time
<1>3. ASSUME NEW t \in Time
      PROVE  /\ [v EXCEPT !.status = "rate_limited", !.until = t] \in Row
             /\ [v EXCEPT !.until = t] \in Row
  BY DEF Row
<1> QED BY <1>2, <1>3

\* The placeholder of a session that is not running is a row.
LEMMA NoRowsType == NoRows \in [Key -> Row]
BY ConstantsAssumption DEF NoRows, Row, Time, Secret

LEMMA InitIInv == Init => IInv
<1> SUFFICES ASSUME Init PROVE IInv
  OBVIOUS
<1>1. row \in [Key -> Row]
  BY DEF Init
<1>2. now \in 0..MaxTime /\ 1 \in Secret
  BY ConstantsAssumption DEF Init, Secret
<1>3. TypeOK
  BY <1>1, <1>2, NoRowsType DEF Init, TypeOK, NoRotation
<1>4. SweepWrites /\ InUse
  BY NoRowsType DEF Init, SweepWrites, InUse, Session, NoRows, KeyUser
<1>5. SecretsIssued
  BY DEF Init, SecretsIssued, Session, NoRows, KeyUser
<1> QED BY <1>3, <1>4, <1>5 DEF IInv

-----------------------------------------------------------------------------
(* The commits of sessions.                                                 *)

\* What the commit of a request does to the row of the key in use.
LEMMA CommitRow ==
    ASSUME TypeOK, NEW r \in Request, NEW known, NEW new, CommitKey(r, known, new)
    PROVE  /\ using[r] \in Key
           /\ row' = [row EXCEPT ![using[r]] = Merge(row[using[r]], known, new)]
           /\ row'[using[r]] = Merge(row[using[r]], known, new)
           /\ \A k \in Key : k # using[r] => row'[k] = row[k]
           /\ phase[r] = "waiting"
BY DEF TypeOK, CommitKey, KeyUser

\* What a sweep's commit does to a row.
LEMMA SweepRow ==
    ASSUME IInv, NEW s \in Sweep, EndSweep(s), NEW k \in Key
    PROVE  /\ row'[k] \in Row
           /\ row'[k].secret = row[k].secret
           /\ row'[k].until = row[k].until
           /\ row'[k].status # row[k].status =>
                 row'[k].status # "rate_limited" /\ loaded[s][k].status # "disabled"
<1>1. s \in Session
  BY DEF Session
<1>2. row[k] \in Row /\ view[s][k] \in Row /\ loaded[s][k] \in Row
  BY <1>1 DEF IInv, TypeOK
<1>3. CASE row'[k] = row[k]
  BY <1>2, <1>3
<1>4. CASE row'[k] = Merge(row[k], loaded[s][k], view[s][k])
  <2>1. row'[k] \in Row
    BY <1>2, <1>4, MergeType
  <2>2. /\ view[s][k].secret = loaded[s][k].secret
        /\ view[s][k].until = loaded[s][k].until
        /\ view[s][k].status # loaded[s][k].status =>
              view[s][k].status # "rate_limited" /\ loaded[s][k].status # "disabled"
    BY DEF IInv, SweepWrites
  <2> QED BY <1>4, <2>1, <2>2 DEF Merge, Column
<1>5. row'[k] = row[k] \/ row'[k] = Merge(row[k], loaded[s][k], view[s][k])
  <2>1. CASE checked[s] \subseteq exists
    <3>1. row' = [j \in Key |-> IF j \in checked[s] THEN Merge(row[j], loaded[s][j], view[s][j])
                                                   ELSE row[j]]
      BY <2>1 DEF EndSweep
    <3> QED BY <3>1
  <2>2. CASE ~(checked[s] \subseteq exists)
    BY <2>2 DEF EndSweep
  <2> QED BY <2>1, <2>2
<1> QED BY <1>3, <1>4, <1>5

-----------------------------------------------------------------------------
(* Types.                                                                   *)

LEMMA RequestType ==
    ASSUME TypeOK, NEW r \in Request, RequestStep(r)
    PROVE  TypeOK'
<1> USE DEF TypeOK
<1>s. r \in Session /\ r \in KeyUser
  BY DEF Session, KeyUser
<1>g. ASSUME NEW known \in Row, NEW new \in Row, CommitKey(r, known, new) PROVE row' \in [Key -> Row]
  <2>1. using[r] \in Key /\ row[using[r]] \in Row /\ Merge(row[using[r]], known, new) \in Row
    BY <1>s, <1>g, MergeType
  <2> QED BY <1>g, <2>1, CommitRow
<1>v. view[r][using[r]] \in Row /\ using[r] \in Key
  BY <1>s
<1>o. ASSUME NEW new \in Row, GoOn(r, new)
      PROVE  /\ view' \in [Session -> [Key -> Row]]
             /\ phase' \in [Session -> Phase]
  BY <1>o, <1>s, <1>v DEF GoOn
<1>c. ASSUME Close(r)
      PROVE  /\ view' \in [Session -> [Key -> Row]]
             /\ phase' \in [Session -> Phase]
  BY <1>c, <1>s, NoRowsType DEF Close
<1>1. CASE LoadKeys(r)
  BY <1>1, <1>s DEF LoadKeys, rows, secrets, sweeps
<1>2. ASSUME NEW k \in Key, SendKey(r, k) PROVE TypeOK'
  BY <1>2, <1>s DEF SendKey, rows, secrets, sweeps
<1>3. CASE EndRequest(r)
  BY <1>3, <1>c DEF EndRequest, rows, secrets, sweeps
<1>4. CASE CommitFails(r)
  BY <1>4, <1>c DEF CommitFails, rows, secrets, sweeps
<1>5. CASE Succeed(r)
  <2> DEFINE v == view[r][using[r]]
             w == [v EXCEPT !.status = "active", !.until = NoTime]
  <2>1. v \in Row
    BY <1>v
  <2>2. w \in Row
    BY <2>1 DEF Row, Time
  <2>3. Close(r)
    BY <1>5 DEF Succeed
  <2>4. CommitKey(r, v, w) \/ CommitKey(r, v, v)
    BY <1>5 DEF Succeed
  <2> HIDE DEF v, w
  <2>5. row' \in [Key -> Row] /\ UNCHANGED <<now, exists, using, secrets, sweeps, doomed, held>>
    BY <2>1, <2>2, <2>4, <1>g DEF CommitKey
  <2> QED BY <2>3, <2>5, <1>c DEF secrets, sweeps
<1>6. CASE RateLimited(r)
  <2> DEFINE v == view[r][using[r]]
             w == [v EXCEPT !.status = "rate_limited", !.until = now + Cooldown]
             u == [v EXCEPT !.until = NoTime]
  <2>1. v \in Row
    BY <1>v
  <2>2. w \in Row /\ u \in Row
    BY <2>1, ParkType
  <2>3. CommitKey(r, u, w) /\ GoOn(r, w)
    BY <1>6 DEF RateLimited
  <2> HIDE DEF v, w, u
  <2>5. row' \in [Key -> Row] /\ UNCHANGED <<now, exists, using, secrets, sweeps, doomed, held>>
    BY <2>2, <2>3, <1>g DEF CommitKey
  <2> QED BY <2>2, <2>3, <2>5, <1>o, <1>v DEF secrets, sweeps
<1>7. ASSUME NEW status \in Dead, DisableKey(r, status) PROVE TypeOK'
  <2> DEFINE v == view[r][using[r]]
             w == [v EXCEPT !.status = status]
  <2>1. v \in Row /\ v.secret \in Secret
    BY <1>v DEF Row
  <2>2. w \in Row
    BY <2>1 DEF Row
  <2>3. CommitKey(r, v, w) /\ GoOn(r, w)
    BY <1>7 DEF DisableKey
  <2> HIDE DEF v, w
  <2>5. row' \in [Key -> Row] /\ UNCHANGED <<now, exists, using, secrets, sweeps, doomed, held>>
    BY <2>1, <2>2, <2>3, <1>g DEF CommitKey
  <2> QED BY <2>1, <2>2, <2>3, <2>5, <1>o, <1>v DEF secrets, sweeps
<1>8. CASE OtherFailure(r)
  <2> DEFINE v == view[r][using[r]]
  <2>1. v \in Row
    BY <1>v
  <2>3. CommitKey(r, v, v) /\ GoOn(r, v)
    BY <1>8 DEF OtherFailure
  <2> HIDE DEF v
  <2>5. row' \in [Key -> Row] /\ UNCHANGED <<now, exists, using, secrets, sweeps, doomed, held>>
    BY <2>1, <2>3, <1>g DEF CommitKey
  <2> QED BY <2>1, <2>3, <2>5, <1>o DEF secrets, sweeps
<1> QED BY <1>1, <1>2, <1>3, <1>4, <1>5, <1>6, <1>7, <1>8 DEF RequestStep

LEMMA SweepType ==
    ASSUME IInv, NEW s \in Sweep, SweepStep(s)
    PROVE  TypeOK'
<1> USE DEF IInv, TypeOK
<1>s. s \in Session
  BY DEF Session
<1>1. CASE StartSweep(s)
  BY <1>1, <1>s DEF StartSweep, rows, secrets
<1>2. CASE EndSweep(s)
  <2>1. row' \in [Key -> Row]
    <3>1. \A k \in Key : row'[k] \in Row
      BY <1>2, SweepRow
    <3>2. row' = [k \in Key |-> row'[k]]
      <4>1. CASE checked[s] \subseteq exists
        BY <1>2, <4>1 DEF EndSweep
      <4>2. CASE ~(checked[s] \subseteq exists)
        BY <1>2, <4>2 DEF EndSweep
      <4> QED BY <4>1, <4>2
    <3> QED BY <3>1, <3>2
  <2>2. Close(s) /\ loaded' = [loaded EXCEPT ![s] = NoRows] /\ checked' = [checked EXCEPT ![s] = {}]
        /\ UNCHANGED <<now, exists, using, secrets, todo, doomed, held>>
    BY <1>2 DEF EndSweep
  <2>5. view' \in [Session -> [Key -> Row]]
        /\ phase' \in [Session -> Phase]
    BY <2>2, <1>s, NoRowsType DEF Close
  <2>6. loaded' \in [Sweep -> [Key -> Row]] /\ checked' \in [Sweep -> SUBSET Key]
    BY <2>2, NoRowsType
  <2> QED BY <2>1, <2>2, <2>5, <2>6 DEF secrets
<1>3. ASSUME NEW k \in Key, CheckFails(s, k) PROVE TypeOK'
  BY <1>3 DEF CheckFails, rows, secrets
<1>4. ASSUME NEW k \in Key, NEW reading, CheckKey(s, k, reading) PROVE TypeOK'
  <2>1. ApplyBalance(view[s][k], reading) \in Row
    BY <1>s, ApplyBalanceSound
  <2>2. view' = [view EXCEPT ![s] = [view[s] EXCEPT ![k] = ApplyBalance(view[s][k], reading)]]
    BY <1>4, <1>s DEF CheckKey
  <2>3. view' \in [Session -> [Key -> Row]]
    BY <2>1, <2>2, <1>s
  <2> QED BY <1>4, <2>3 DEF CheckKey, rows, secrets
<1> QED BY <1>1, <1>2, <1>3, <1>4 DEF SweepStep

\* What a handler's edit makes of a row it knew as v.
LEMMA EditedType ==
    ASSUME NEW cur \in Row, NEW v \in Row, NEW status \in SetByHand \cup {"keep"}
    PROVE  LET w == Merge(cur, v, Edited(v, status))
           IN  /\ w \in Row
               /\ w.secret = cur.secret
               /\ w.until = cur.until
               /\ w.status = "rate_limited" /\ cur.status # "rate_limited" => status = "rate_limited"
<1>1. status = "keep" \/ status \in KeyStatus
  BY ConstantsAssumption
<1>2. Edited(v, status) \in Row
      /\ Edited(v, status).secret = v.secret
      /\ Edited(v, status).until = v.until
      /\ (status = "keep" => Edited(v, status).status = v.status)
      /\ (status # "keep" => Edited(v, status).status = status)
  BY <1>1 DEF Edited, Row
<1> QED BY <1>2, MergeType DEF Merge, Column, Row

\* The row of a handler's commit, and the sessions after it.
LEMMA EditRow ==
    ASSUME TypeOK, NEW h \in Handler, NEW new \in Row, CommitEdit(h, new)
    PROVE  /\ using[h] \in Key
           /\ row' \in [Key -> Row]
           /\ row'[using[h]] = new \/ row'[using[h]] = row[using[h]]
           /\ \A k \in Key : k # using[h] => row'[k] = row[k]
           /\ view' \in [Session -> [Key -> Row]]
           /\ phase' \in [Session -> Phase]
<1>1. h \in Session /\ using[h] \in Key /\ row \in [Key -> Row]
  BY DEF TypeOK, Session, KeyUser
<1>2. /\ row' \in [Key -> Row]
      /\ row'[using[h]] = new \/ row'[using[h]] = row[using[h]]
      /\ \A k \in Key : k # using[h] => row'[k] = row[k]
  <2>1. CASE using[h] \in exists
    BY <1>1, <2>1 DEF CommitEdit
  <2>2. CASE using[h] \notin exists
    BY <1>1, <2>2 DEF CommitEdit
  <2> QED BY <2>1, <2>2
<1>3. Close(h)
  BY DEF CommitEdit
<1>4. view' \in [Session -> [Key -> Row]] /\ phase' \in [Session -> Phase]
  BY <1>1, <1>3, NoRowsType DEF Close, TypeOK
<1> QED BY <1>1, <1>2, <1>4

\* Secrets are issued in increasing order.
LEMMA IssuedGrows ==
    ASSUME TypeOK, NEW k \in Key,
           \/ issued' = issued
           \/ \E j \in Key : issued' = [issued EXCEPT ![j] = @ + 1]
    PROVE  issued[k] <= issued'[k]
<1>1. issued \in [Key -> Secret] /\ issued[k] \in Int
  BY SecretIsInt DEF TypeOK
<1>2. ASSUME NEW j \in Key, issued' = [issued EXCEPT ![j] = @ + 1] PROVE issued[k] <= issued'[k]
  <2>1. issued'[k] = IF k = j THEN issued[k] + 1 ELSE issued[k]
    BY <1>1, <1>2
  <2> QED BY <1>1, <2>1
<1>3. CASE issued' = issued
  BY <1>1, <1>3
<1> QED BY <1>2, <1>3

\* A new secret stays within the bound.
LEMMA NextSecret ==
    ASSUME TypeOK, NEW k \in Key, issued[k] < MaxSecret
    PROVE  issued[k] + 1 \in Secret
BY ConstantsAssumption DEF TypeOK, Secret

LEMMA HoldType ==
    ASSUME TypeOK, NEW h \in Handler, NEW status, Hold(h, status)
    PROVE  held' \subseteq Key
<1>1. using[h] \in Key /\ held \subseteq Key
  BY DEF TypeOK, KeyUser
<1> QED BY <1>1 DEF Hold

LEMMA RotationType ==
    ASSUME TypeOK, NEW s \in KeyUser, RotationStep(s)
    PROVE  TypeOK'
<1> USE DEF TypeOK
<1>s. s \in Session /\ using[s] \in Key
  BY DEF Session
<1>n. NoRotation \in [read : Secret, fresh : Secret]
  BY ConstantsAssumption DEF NoRotation, Secret
<1>1. CASE PostToken(s)
  <2>1. issued[using[s]] + 1 \in Secret /\ row[using[s]].secret \in Secret
    BY <1>1, <1>s, NextSecret DEF PostToken, Row
  <2> QED BY <1>1, <1>s, <2>1 DEF PostToken, rows, sweeps
<1>2. CASE CommitToken(s)
  <2>1. rotation[s].fresh \in Secret /\ row[using[s]] \in Row
    BY <1>s
  <2>2. [row[using[s]] EXCEPT !.secret = rotation[s].fresh] \in Row
    BY <2>1 DEF Row
  <2>3. row' = [row EXCEPT ![using[s]] = [row[using[s]] EXCEPT !.secret = rotation[s].fresh]]
    BY <1>2 DEF CommitToken
  <2>4. row' \in [Key -> Row]
    BY <2>2, <2>3, <1>s
  <2> QED BY <1>2, <1>s, <1>n, <2>4 DEF CommitToken, sweeps
<1>3. CASE TokenFails(s)
  <2>1. phase' \in [Session -> Phase] /\ view' \in [Session -> [Key -> Row]]
    BY <1>3, <1>s, NoRowsType DEF TokenFails, Close
  <2> QED BY <1>3, <1>s, <1>n, <2>1 DEF TokenFails, rows, sweeps
<1> QED BY <1>1, <1>2, <1>3 DEF RotationStep

LEMMA HandlerType ==
    ASSUME TypeOK, NEW h \in Handler, HandlerStep(h)
    PROVE  TypeOK'
<1> USE DEF TypeOK
<1>s. h \in Session /\ h \in KeyUser /\ using[h] \in Key
  BY DEF Session, KeyUser
<1>r. row[using[h]] \in Row /\ view[h][using[h]] \in Row
  BY <1>s
<1>1. ASSUME NEW k \in Key, OpenKey(h, k) PROVE TypeOK'
  BY <1>1, <1>s DEF OpenKey, rows, secrets, sweeps
<1>2. CASE CloseKey(h)
  BY <1>2, <1>s, NoRowsType DEF CloseKey, Close, rows, secrets, sweeps
<1>3. ASSUME NEW new \in Row, CommitEdit(h, new), issued' \in [Key -> Secret], held' \subseteq Key
      PROVE  TypeOK'
  <2>1. /\ row' \in [Key -> Row]
        /\ view' \in [Session -> [Key -> Row]]
        /\ phase' \in [Session -> Phase]
    BY <1>3, EditRow
  <2> QED BY <1>3, <2>1 DEF CommitEdit, sweeps
<1>4. ASSUME NEW status \in SetByHand \cup {"keep"},
             UpdateKey(h, status) \/ ReplaceSecret(h, status) \/ EditBundle(h, status)
      PROVE  TypeOK'
  <2> DEFINE w == Merge(row[using[h]], view[h][using[h]], Edited(view[h][using[h]], status))
  <2>1. w \in Row
    BY <1>r, EditedType
  <2>2. held' \subseteq Key
    BY <1>4, HoldType DEF UpdateKey, ReplaceSecret, EditBundle
  <2>3. CASE UpdateKey(h, status)
    BY <2>1, <2>2, <2>3, <1>3 DEF UpdateKey
  <2>4. CASE ReplaceSecret(h, status)
    <3>1. issued[using[h]] + 1 \in Secret
      BY <2>4, <1>s, NextSecret DEF ReplaceSecret
    <3>2. [w EXCEPT !.secret = issued[using[h]] + 1] \in Row
      BY <2>1, <3>1 DEF Row
    <3>3. issued' \in [Key -> Secret]
      BY <2>4, <3>1, <1>s DEF ReplaceSecret
    <3>4. CommitEdit(h, [w EXCEPT !.secret = issued[using[h]] + 1])
      BY <2>4 DEF ReplaceSecret
    <3> QED BY <2>2, <3>2, <3>3, <3>4, <1>3
  <2>5. CASE EditBundle(h, status)
    <3>1. [w EXCEPT !.secret = view[h][using[h]].secret] \in Row
      BY <2>1, <1>r DEF Row
    <3>2. CommitEdit(h, [w EXCEPT !.secret = view[h][using[h]].secret]) /\ UNCHANGED issued
      BY <2>5 DEF EditBundle
    <3> QED BY <2>2, <3>1, <3>2, <1>3
  <2> QED BY <1>4, <2>3, <2>4, <2>5
<1>5. CASE RotatedAlready(h)
  BY <1>5, <1>s DEF RotatedAlready, rows, secrets, sweeps
<1>6. CASE ReadAgain(h)
  BY <1>6, <1>s DEF ReadAgain, rows, secrets, sweeps
<1>7. CASE PutBack(h)
  <2> DEFINE v == view[h][using[h]]
             w == [v EXCEPT !.status = "active", !.until = NoTime]
  <2>1. w \in Row
    BY <1>r DEF Row, Time
  <2>2. Merge(row[using[h]], v, w) \in Row
    BY <2>1, <1>r, MergeType
  <2>3. held' \subseteq Key
    BY <1>7, HoldType DEF PutBack
  <2>4. CommitEdit(h, Merge(row[using[h]], v, w)) /\ UNCHANGED issued
    BY <1>7 DEF PutBack
  <2> HIDE DEF v, w
  <2> QED BY <2>2, <2>3, <2>4, <1>3
<1> QED BY <1>1, <1>2, <1>4, <1>5, <1>6, <1>7 DEF HandlerStep

LEMMA OperatorType ==
    ASSUME TypeOK, OperatorStep
    PROVE  TypeOK'
<1> USE DEF TypeOK
<1>1. ASSUME NEW h \in Handler, HandlerStep(h) PROVE TypeOK'
  BY <1>1, HandlerType
<1>2. ASSUME NEW k \in Key, DeleteKey(k) PROVE TypeOK'
  BY <1>2 DEF DeleteKey, secrets, sweeps
<1>3. ASSUME NEW target \in Dead, CleanupSelect(target) PROVE TypeOK'
  BY <1>3 DEF CleanupSelect, rows, secrets, sweeps
<1>4. CASE CleanupDelete
  BY <1>4 DEF CleanupDelete, secrets, sweeps
<1> QED BY <1>1, <1>2, <1>3, <1>4 DEF OperatorStep

LEMMA TypeStep == IInv /\ [Next]_vars => TypeOK'
<1> SUFFICES ASSUME IInv, [Next]_vars PROVE TypeOK'
  OBVIOUS
<1>1. CASE Tick
  BY <1>1, ConstantsAssumption DEF IInv, TypeOK, Tick, rows, secrets, sweeps
<1>2. CASE UNCHANGED vars
  BY <1>2 DEF IInv, TypeOK, vars, rows, secrets, sweeps
<1> QED BY <1>1, <1>2, RequestType, SweepType, RotationType, OperatorType DEF IInv, Next

-----------------------------------------------------------------------------
(* The other conjuncts.                                                     *)

\* A session that works with one key changes nothing another session holds.
LEMMA UserFrame ==
    ASSUME TypeOK, NEW u \in KeyUser,
           \/ u \in Request /\ RequestStep(u)
           \/ u \in Handler /\ HandlerStep(u)
           \/ RotationStep(u)
    PROVE  /\ UNCHANGED loaded
           /\ \A s \in Session : s # u => view'[s] = view[s] /\ phase'[s] = phase[s]
           /\ \A q \in KeyUser : q # u => using'[q] = using[q] /\ rotation'[q] = rotation[q]
<1> USE DEF TypeOK
<1>1. CASE RequestStep(u)
  BY <1>1 DEF RequestStep, LoadKeys, SendKey, EndRequest, CommitFails, Succeed, RateLimited,
              DisableKey, OtherFailure, CommitKey, GoOn, Close, secrets, sweeps
<1>2. CASE HandlerStep(u)
  <2>1. UNCHANGED loaded
    BY <1>2 DEF HandlerStep, OpenKey, CloseKey, UpdateKey, ReplaceSecret, EditBundle, CommitEdit,
                RotatedAlready, ReadAgain, PutBack, sweeps
  <2>2. \A s \in Session : s # u => view'[s] = view[s] /\ phase'[s] = phase[s]
    BY <1>2 DEF HandlerStep, OpenKey, CloseKey, UpdateKey, ReplaceSecret, EditBundle, CommitEdit,
                RotatedAlready, ReadAgain, PutBack, Close
  <2>3. \A q \in KeyUser : q # u => using'[q] = using[q] /\ rotation'[q] = rotation[q]
    BY <1>2 DEF HandlerStep, OpenKey, CloseKey, UpdateKey, ReplaceSecret, EditBundle, CommitEdit,
                RotatedAlready, ReadAgain, PutBack, secrets
  <2> QED BY <2>1, <2>2, <2>3
<1>3. CASE RotationStep(u)
  <2>1. UNCHANGED loaded
    BY <1>3 DEF RotationStep, PostToken, CommitToken, TokenFails, sweeps
  <2>2. \A s \in Session : s # u => view'[s] = view[s] /\ phase'[s] = phase[s]
    <3>1. CASE TokenFails(u)
      BY <3>1 DEF TokenFails, Close
    <3>2. CASE PostToken(u) \/ CommitToken(u)
      BY <3>2 DEF PostToken, CommitToken
    <3> QED BY <1>3, <3>1, <3>2 DEF RotationStep
  <2>3. \A q \in KeyUser : q # u => using'[q] = using[q] /\ rotation'[q] = rotation[q]
    BY <1>3 DEF RotationStep, PostToken, CommitToken, TokenFails
  <2> QED BY <2>1, <2>2, <2>3
<1> QED BY <1>1, <1>2, <1>3

\* Only a sweep touches its own rows; requests and operators touch none of them.
LEMMA SweepWritesStep == IInv /\ [Next]_vars => SweepWrites'
<1> SUFFICES ASSUME IInv, [Next]_vars PROVE SweepWrites'
  OBVIOUS
<1>d. /\ \A s \in Sweep : s \in Session /\ s \notin Request
      /\ \A r \in Request : r \in Session /\ r \in KeyUser
  BY ConstantsAssumption DEF Session, KeyUser
<1>1. ASSUME UNCHANGED <<view, loaded>> PROVE SweepWrites'
  BY <1>1 DEF IInv, SweepWrites
<1>2. ASSUME NEW u \in KeyUser,
             \/ u \in Request /\ RequestStep(u)
             \/ u \in Handler /\ HandlerStep(u)
             \/ RotationStep(u)
      PROVE  SweepWrites'
  <2>1. \A s \in Sweep : s \in Session /\ s # u
    BY ConstantsAssumption DEF Session, KeyUser
  <2>2. UNCHANGED loaded /\ \A s \in Sweep : view'[s] = view[s]
    BY <1>2, <2>1, UserFrame DEF IInv
  <2> QED BY <2>2 DEF IInv, SweepWrites
<1>3. ASSUME NEW s \in Sweep, SweepStep(s) PROVE SweepWrites'
  <2> USE DEF IInv, TypeOK
  <2>1. CASE StartSweep(s) \/ EndSweep(s)
    <3>1. view'[s] = loaded'[s]
      BY <2>1, <1>d DEF StartSweep, EndSweep, Close
    <3>2. \A t \in Sweep : t # s => view'[t] = view[t] /\ loaded'[t] = loaded[t]
      BY <2>1, <1>d DEF StartSweep, EndSweep, Close
    <3>3. ASSUME NEW t \in Sweep, NEW j \in Key
          PROVE  /\ view'[t][j].secret = loaded'[t][j].secret
                 /\ view'[t][j].until = loaded'[t][j].until
                 /\ view'[t][j].status # loaded'[t][j].status =>
                       view'[t][j].status # "rate_limited" /\ loaded'[t][j].status # "disabled"
      <4>1. CASE t = s
        BY <3>1, <4>1
      <4>2. CASE t # s
        BY <3>2, <4>2 DEF SweepWrites
      <4> QED BY <4>1, <4>2
    <3> QED BY <3>3 DEF SweepWrites
  <2>2. ASSUME NEW k \in Key, CheckFails(s, k) PROVE SweepWrites'
    BY <2>2, <1>1 DEF CheckFails
  <2>3. ASSUME NEW k \in Key, NEW reading, CheckKey(s, k, reading) PROVE SweepWrites'
    <3>1. view' = [view EXCEPT ![s] = [view[s] EXCEPT ![k] = ApplyBalance(view[s][k], reading)]]
      BY <2>3, <1>d DEF CheckKey
    <3>2. /\ view'[s][k] = ApplyBalance(view[s][k], reading)
          /\ \A j \in Key : j # k => view'[s][j] = view[s][j]
          /\ \A t \in Sweep : t # s => view'[t] = view[t]
          /\ UNCHANGED loaded
      BY <2>3, <3>1, <1>d DEF CheckKey
    <3>3. view[s][k] \in Row
      BY <1>d
    <3>4. /\ view'[s][k].secret = view[s][k].secret
          /\ view'[s][k].until = view[s][k].until
          /\ view'[s][k].status # view[s][k].status =>
                view'[s][k].status # "rate_limited" /\ view[s][k].status # "disabled"
      BY <3>2, <3>3, ApplyBalanceSound
    <3>5. ASSUME NEW t \in Sweep, NEW j \in Key
          PROVE  /\ view'[t][j].secret = loaded'[t][j].secret
                 /\ view'[t][j].until = loaded'[t][j].until
                 /\ view'[t][j].status # loaded'[t][j].status =>
                       view'[t][j].status # "rate_limited" /\ loaded'[t][j].status # "disabled"
      <4>1. CASE t = s /\ j = k
        BY <3>2, <3>4, <4>1 DEF SweepWrites
      <4>2. CASE ~(t = s /\ j = k)
        <5>1. view'[t][j] = view[t][j] /\ loaded'[t][j] = loaded[t][j]
          BY <3>2, <4>2
        <5> QED BY <5>1 DEF SweepWrites
      <4> QED BY <4>1, <4>2
    <3> QED BY <3>5 DEF SweepWrites
  <2> QED BY <1>3, <2>1, <2>2, <2>3 DEF SweepStep
<1>4. CASE Tick \/ UNCHANGED vars \/ CleanupDelete \/ (\E k \in Key : DeleteKey(k))
           \/ (\E target \in Dead : CleanupSelect(target))
  <2>1. UNCHANGED <<view, loaded>>
    BY <1>4 DEF DeleteKey, CleanupSelect, CleanupDelete, Tick, sweeps, vars
  <2> QED BY <2>1, <1>1
<1> QED BY <1>2, <1>3, <1>4 DEF Next, OperatorStep, KeyUser

\* A request sends only what select_keys returned, and learns more about a key
\* only when it is answered.
LEMMA InUseStep == IInv /\ [Next]_vars => InUse'
<1> SUFFICES ASSUME IInv, [Next]_vars PROVE InUse'
  OBVIOUS
<1>d. /\ \A s \in Sweep : s \in Session /\ s \notin Request
      /\ \A r \in Request : r \in Session /\ r \in KeyUser
  BY ConstantsAssumption DEF Session, KeyUser
<1> USE DEF IInv, TypeOK
<1>1. ASSUME NEW u \in KeyUser,
             \/ u \in Request /\ RequestStep(u)
             \/ u \in Handler /\ HandlerStep(u)
             \/ RotationStep(u)
      PROVE  InUse'
  <2>1. \A q \in Request : q # u =>
           phase'[q] = phase[q] /\ view'[q] = view[q] /\ using'[q] = using[q]
    BY <1>1, <1>d, UserFrame
  <2>2. ASSUME u \in Request, phase'[u] \in {"waiting", "posting"}
        PROVE  view'[u][using'[u]].status \in {"active", "rate_limited"}
    <3>1. ASSUME NEW k \in Key, SendKey(u, k)
          PROVE  view'[u][using'[u]].status \in {"active", "rate_limited"}
      BY <3>1, <1>d DEF SendKey, Selectable
    <3>2. CASE RequestStep(u) /\ ~\E k \in Key : SendKey(u, k)
      BY <2>2, <3>2, <1>d
      DEF RequestStep, LoadKeys, EndRequest, CommitFails, Succeed, RateLimited, DisableKey,
          OtherFailure, GoOn, Close
    <3>3. CASE RotationStep(u)
      <4>1. phase[u] \in {"waiting", "posting"} /\ view' = view /\ using' = using
        BY <2>2, <3>3 DEF RotationStep, PostToken, CommitToken, TokenFails, Rotating
      <4> QED BY <2>2, <4>1 DEF InUse
    <3>4. u \notin Handler
      BY <2>2, ConstantsAssumption
    <3> QED BY <1>1, <3>1, <3>2, <3>3, <3>4
  <2> QED BY <2>1, <2>2 DEF InUse
<1>2. ASSUME NEW s \in Sweep, SweepStep(s) PROVE InUse'
  <2>1. \A r \in Request : phase'[r] = phase[r] /\ view'[r] = view[r] /\ using'[r] = using[r]
    BY <1>2, <1>d DEF SweepStep, StartSweep, EndSweep, CheckFails, CheckKey, Close
  <2> QED BY <2>1 DEF InUse
<1>3. CASE Tick \/ UNCHANGED vars \/ CleanupDelete \/ (\E k \in Key : DeleteKey(k))
           \/ (\E target \in Dead : CleanupSelect(target))
  <2>1. UNCHANGED <<view, phase, using>>
    BY <1>3 DEF DeleteKey, CleanupSelect, CleanupDelete, Tick, vars
  <2> QED BY <2>1 DEF InUse
<1> QED BY <1>1, <1>2, <1>3 DEF Next, OperatorStep, KeyUser

\* A request leaves the secret of every row alone, parks no key without an end, and
\* touches no row but that of the key in use.
LEMMA RequestRow ==
    ASSUME IInv, NEW r \in Request, RequestStep(r), NEW k \in Key
    PROVE  /\ row'[k].secret = row[k].secret
           /\ EndlessPark(k)' => EndlessPark(k)
           /\ ~(phase[r] = "waiting" /\ using[r] = k) => row'[k] = row[k]
<1> DEFINE j == using[r]
           v == view[r][j]
<1>1. CASE UNCHANGED row
  BY <1>1 DEF EndlessPark
<1>v. j \in Key /\ v \in Row /\ row[j] \in Row /\ TypeOK
  BY DEF IInv, TypeOK, Session, KeyUser
<1>f. ASSUME NEW known \in Row, NEW new \in Row, CommitKey(r, known, new),
             new.secret = known.secret,
             \/ new.until # NoTime /\ new.until # known.until
             \/ new.status # "rate_limited" /\ new.status # known.status
             \/ /\ new.until = known.until
                /\ new.status # "rate_limited" \/ new.status = known.status
      PROVE  /\ row'[k].secret = row[k].secret
             /\ EndlessPark(k)' => EndlessPark(k)
             /\ ~(phase[r] = "waiting" /\ using[r] = k) => row'[k] = row[k]
  <2>1. /\ row'[j] = Merge(row[j], known, new)
        /\ \A i \in Key : i # j => row'[i] = row[i]
        /\ phase[r] = "waiting"
    BY <1>f, <1>v, CommitRow
  <2>2. /\ row'[j].secret = row[j].secret
        /\ row'[j].status = "rate_limited" /\ row'[j].until = NoTime =>
              row[j].status = "rate_limited" /\ row[j].until = NoTime
    BY <1>f, <1>v, <2>1 DEF Merge, Column, Row
  <2>3. CASE k = j
    <3>1. /\ row'[k].secret = row[k].secret
          /\ EndlessPark(k)' => EndlessPark(k)
      BY <2>2, <2>3 DEF EndlessPark
    <3> QED BY <2>1, <2>3, <3>1
  <2>4. CASE k # j
    <3>1. row'[k] = row[k]
      BY <2>1, <2>4
    <3> QED BY <3>1 DEF EndlessPark
  <2> QED BY <2>3, <2>4
<1>2. CASE Succeed(r)
  <2> DEFINE w == [v EXCEPT !.status = "active", !.until = NoTime]
  <2>1. CASE v.status = "rate_limited"
    <3>1. CommitKey(r, v, w)
      BY <1>2, <2>1 DEF Succeed
    <3>2. w \in Row /\ w.secret = v.secret /\ w.status = "active"
      BY <1>v DEF Row, Time
    <3> HIDE DEF w, v, j
    <3> QED BY <1>v, <2>1, <3>1, <3>2, <1>f
  <2>2. CASE v.status # "rate_limited"
    <3>1. CommitKey(r, v, v)
      BY <1>2, <2>2 DEF Succeed
    <3> HIDE DEF v, j
    <3> QED BY <1>v, <3>1, <1>f
  <2> QED BY <2>1, <2>2
<1>3. CASE RateLimited(r)
  <2> DEFINE w == [v EXCEPT !.status = "rate_limited", !.until = now + Cooldown]
             u == [v EXCEPT !.until = NoTime]
  <2>1. CommitKey(r, u, w)
    BY <1>3 DEF RateLimited
  <2>2. w \in Row /\ u \in Row /\ now + Cooldown # NoTime
    BY <1>v, ParkType
  <2>3. w.secret = u.secret /\ w.until = now + Cooldown /\ u.until = NoTime
    BY <1>v DEF Row
  <2> HIDE DEF u, w, v, j
  <2> QED BY <2>1, <2>2, <2>3, <1>f
<1>4. ASSUME NEW status \in Dead, DisableKey(r, status)
      PROVE  /\ row'[k].secret = row[k].secret
             /\ EndlessPark(k)' => EndlessPark(k)
             /\ ~(phase[r] = "waiting" /\ using[r] = k) => row'[k] = row[k]
  <2> DEFINE w == [v EXCEPT !.status = status]
  <2>1. CommitKey(r, v, w)
    BY <1>4 DEF DisableKey
  <2>2. w \in Row /\ w.secret = v.secret /\ w.until = v.until /\ w.status # "rate_limited"
    BY <1>v DEF Row
  <2> HIDE DEF w, v, j
  <2> QED BY <1>v, <2>1, <2>2, <1>f
<1>5. CASE OtherFailure(r)
  <2>1. CommitKey(r, v, v)
    BY <1>5 DEF OtherFailure
  <2> HIDE DEF v, j
  <2> QED BY <1>v, <2>1, <1>f
<1>6. CASE LoadKeys(r) \/ (\E i \in Key : SendKey(r, i)) \/ EndRequest(r) \/ CommitFails(r)
  BY <1>1, <1>6 DEF LoadKeys, SendKey, EndRequest, CommitFails, rows
<1> QED BY <1>2, <1>3, <1>4, <1>5, <1>6 DEF RequestStep

\* What a rotation does to a row, and which secret it may put out of place.
LEMMA RotationRow ==
    ASSUME IInv, NEW s \in KeyUser, RotationStep(s), NEW k \in Key
    PROVE  /\ row'[k].status = row[k].status
           /\ row'[k].until = row[k].until
           /\ row'[k].secret <= issued[k]
           /\ row'[k].secret < row[k].secret => RotationOvertaken(k)
<1> USE DEF IInv, TypeOK
<1>s. s \in Session /\ using[s] \in Key /\ row[k] \in Row
      /\ row[k].secret \in Int /\ row[k].secret <= issued[k]
  BY SecretIsInt DEF Session, SecretsIssued, Row
<1>1. CASE row'[k] = row[k]
  BY <1>1, <1>s
<1>2. CASE row'[k] # row[k]
  <2>1. CommitToken(s)
    BY <1>2 DEF RotationStep, PostToken, TokenFails, rows
  <2>2. k = using[s] /\ row'[k] = [row[k] EXCEPT !.secret = rotation[s].fresh]
    BY <1>2, <1>s, <2>1 DEF CommitToken
  <2>3. /\ row'[k].status = row[k].status
        /\ row'[k].until = row[k].until
        /\ row'[k].secret = rotation[s].fresh
    BY <1>s, <2>2 DEF Row
  <2>4. rotation[s].read < rotation[s].fresh /\ rotation[s].fresh <= issued[k]
    BY <2>1, <2>2 DEF CommitToken, SecretsIssued
  <2>5. ASSUME row'[k].secret < row[k].secret PROVE RotationOvertaken(k)
    <3>1. rotation[s].read \in Int /\ rotation[s].fresh \in Int
      BY SecretIsInt
    <3>2. rotation[s].read # row[k].secret
      BY <1>s, <2>3, <2>4, <2>5, <3>1
    <3> QED BY <2>1, <2>2, <3>2 DEF RotationOvertaken
  <2> QED BY <2>3, <2>4, <2>5
<1> QED BY <1>1, <1>2

\* What a handler does to a row: an older secret is written by an overtaken edit of a
\* bundle only, and a park left without an end by hand or over a park alone.
LEMMA HandlerRow ==
    ASSUME IInv, NEW h \in Handler, HandlerStep(h), NEW k \in Key
    PROVE  /\ row'[k].secret <= issued'[k]
           /\ row'[k].secret < row[k].secret => BundleOvertaken(k)
           /\ EndlessPark(k)' /\ ~EndlessPark(k) =>
                 using[h] = k /\ (ParkedByHand(h) \/ RefreshOverPark(h))
<1> USE DEF IInv, TypeOK
<1> DEFINE j == using[h]
           v == view[h][j]
<1>s. h \in Session /\ h \in KeyUser /\ j \in Key
  BY DEF Session, KeyUser
<1>r. row[j] \in Row /\ v \in Row /\ row[k] \in Row
  BY <1>s
<1>b. /\ row[k].secret \in Int /\ row[j].secret \in Int /\ v.secret \in Int
      /\ issued[k] \in Int /\ issued[j] \in Int
      /\ row[k].secret <= issued[k] /\ v.secret <= issued[j] /\ row[j].secret <= issued[j]
  BY <1>s, <1>r, SecretIsInt DEF SecretsIssued, Row
<1>i. issued[k] <= issued'[k]
  <2>1. issued' = issued \/ \E i \in Key : issued' = [issued EXCEPT ![i] = @ + 1]
    BY <1>s DEF HandlerStep, OpenKey, CloseKey, UpdateKey, ReplaceSecret, EditBundle,
                RotatedAlready, ReadAgain, PutBack, secrets
  <2> QED BY <2>1, IssuedGrows
<1>i2. issued'[k] \in Int
  BY HandlerType, SecretIsInt
<1>0. ASSUME row'[k] = row[k]
      PROVE  /\ row'[k].secret <= issued'[k]
             /\ row'[k].secret < row[k].secret => BundleOvertaken(k)
             /\ EndlessPark(k)' /\ ~EndlessPark(k) =>
                   using[h] = k /\ (ParkedByHand(h) \/ RefreshOverPark(h))
  <2>1. row'[k].secret <= issued'[k]
    BY <1>0, <1>b, <1>i, <1>i2
  <2> QED BY <1>0, <1>b, <2>1 DEF EndlessPark
<1>1. ASSUME row'[k] # row[k], NEW new \in Row, CommitEdit(h, new)
      PROVE  k = j /\ row'[k] = new
  BY <1>1, EditRow
<1>2. ASSUME row'[k] # row[k], NEW status \in SetByHand \cup {"keep"},
             UpdateKey(h, status) \/ ReplaceSecret(h, status) \/ EditBundle(h, status)
      PROVE  /\ row'[k].secret <= issued'[k]
             /\ row'[k].secret < row[k].secret => BundleOvertaken(k)
             /\ EndlessPark(k)' /\ ~EndlessPark(k) =>
                   using[h] = k /\ (ParkedByHand(h) \/ RefreshOverPark(h))
  <2> DEFINE w == Merge(row[j], v, Edited(v, status))
  <2>1. /\ w \in Row
        /\ w.secret = row[j].secret
        /\ w.until = row[j].until
        /\ w.status = "rate_limited" /\ row[j].status # "rate_limited" => status = "rate_limited"
    BY <1>r, EditedType
  <2>2. CASE UpdateKey(h, status)
    <3>1. CommitEdit(h, w)
      BY <2>2 DEF UpdateKey
    <3>2. k = j /\ row'[k] = w
      BY <1>1, <1>2, <2>1, <3>1
    <3>3. EndlessPark(k)' /\ ~EndlessPark(k) => status = "rate_limited"
      BY <2>1, <3>2 DEF EndlessPark
    <3>4. EndlessPark(k)' /\ ~EndlessPark(k) => ParkedByHand(h)
      BY <2>2, <3>3 DEF ParkedByHand
    <3>5. row'[k].secret = row[k].secret
      BY <2>1, <3>2
    <3>6. row'[k].secret <= issued'[k]
      BY <1>b, <1>i, <1>i2, <3>5
    <3> QED BY <1>b, <3>2, <3>4, <3>5, <3>6
  <2>3. CASE ReplaceSecret(h, status)
    <3>1. CommitEdit(h, [w EXCEPT !.secret = issued[j] + 1]) /\ issued[j] < MaxSecret
      BY <2>3 DEF ReplaceSecret
    <3>2. issued[j] + 1 \in Secret
      BY <1>s, <3>1, NextSecret
    <3>3. [w EXCEPT !.secret = issued[j] + 1] \in Row
      BY <2>1, <3>2 DEF Row
    <3>4. k = j /\ row'[k] = [w EXCEPT !.secret = issued[j] + 1]
      BY <1>1, <1>2, <3>1, <3>3
    <3>5. /\ row'[k].secret = issued[k] + 1
          /\ row'[k].status = w.status
          /\ row'[k].until = w.until
      BY <2>1, <3>4 DEF Row
    <3>6. EndlessPark(k)' /\ ~EndlessPark(k) => status = "rate_limited"
      BY <2>1, <3>4, <3>5 DEF EndlessPark
    <3>7. EndlessPark(k)' /\ ~EndlessPark(k) => ParkedByHand(h)
      BY <2>3, <3>6 DEF ParkedByHand
    <3>8. issued'[k] = issued[k] + 1
      BY <2>3, <3>4, <1>s DEF ReplaceSecret
    <3> QED BY <1>b, <3>4, <3>5, <3>7, <3>8
  <2>4. CASE EditBundle(h, status)
    <3>1. CommitEdit(h, [w EXCEPT !.secret = v.secret]) /\ UNCHANGED issued
      BY <2>4 DEF EditBundle
    <3>2. [w EXCEPT !.secret = v.secret] \in Row
      BY <1>r, <2>1 DEF Row
    <3>3. k = j /\ row'[k] = [w EXCEPT !.secret = v.secret]
      BY <1>1, <1>2, <3>1, <3>2
    <3>4. /\ row'[k].secret = v.secret
          /\ row'[k].status = w.status
          /\ row'[k].until = w.until
      BY <2>1, <3>3 DEF Row
    <3>5. EndlessPark(k)' /\ ~EndlessPark(k) => status = "rate_limited"
      BY <2>1, <3>3, <3>4 DEF EndlessPark
    <3>6. EndlessPark(k)' /\ ~EndlessPark(k) => ParkedByHand(h)
      BY <2>4, <3>5 DEF ParkedByHand
    <3>7. row'[k].secret < row[k].secret => view[h][k].secret # row[k].secret
      BY <1>b, <3>3, <3>4
    <3>8. row'[k].secret < row[k].secret => BundleOvertaken(k)
      BY <2>4, <3>3, <3>7 DEF BundleOvertaken
    <3>9. row'[k].secret <= issued'[k]
      BY <1>b, <3>1, <3>3, <3>4
    <3> QED BY <3>3, <3>6, <3>8, <3>9
  <2> QED BY <1>2, <2>2, <2>3, <2>4
<1>3. ASSUME row'[k] # row[k], PutBack(h)
      PROVE  /\ row'[k].secret <= issued'[k]
             /\ row'[k].secret < row[k].secret => BundleOvertaken(k)
             /\ EndlessPark(k)' /\ ~EndlessPark(k) =>
                   using[h] = k /\ (ParkedByHand(h) \/ RefreshOverPark(h))
  <2> DEFINE n == [v EXCEPT !.status = "active", !.until = NoTime]
             w == Merge(row[j], v, n)
  <2>1. n \in Row /\ n.status = "active" /\ n.until = NoTime /\ n.secret = v.secret
    BY <1>r DEF Row, Time
  <2>2. w \in Row /\ CommitEdit(h, w) /\ UNCHANGED issued
    BY <1>3, <1>r, <2>1, MergeType DEF PutBack
  <2>3. k = j /\ row'[k] = w
    BY <1>1, <1>3, <2>2
  <2>4. w.secret = row[j].secret
    BY <2>1 DEF Merge, Column
  <2>5. /\ v.status # "active" => w.status = "active"
        /\ v.status = "active" => w.status = row[j].status
        /\ v.until = NoTime => w.until = row[j].until
    BY <2>1 DEF Merge, Column
  <2>6. ASSUME EndlessPark(k)', ~EndlessPark(k) PROVE RefreshOverPark(h)
    <3>1. v.status = "active" /\ v.until # NoTime
      BY <2>3, <2>5, <2>6 DEF EndlessPark
    <3> QED BY <1>3, <3>1 DEF RefreshOverPark
  <2>7. row'[k].secret = row[k].secret /\ issued' = issued
    BY <2>2, <2>3, <2>4
  <2> QED BY <1>b, <2>3, <2>6, <2>7
<1>4. ASSUME NEW i \in Key, OpenKey(h, i) PROVE row' = row
  BY <1>4 DEF OpenKey, rows
<1>5. CASE CloseKey(h) \/ RotatedAlready(h) \/ ReadAgain(h)
  BY <1>5, <1>0 DEF CloseKey, RotatedAlready, ReadAgain, rows
<1> HIDE DEF j, v
<1> QED BY <1>0, <1>2, <1>3, <1>4, <1>5 DEF HandlerStep

\* The conjuncts of SecretsIssued, where a step leaves the rotations under way alone.
LEMMA SecretsKept ==
    ASSUME IInv, TypeOK',
           \A k \in Key : row'[k].secret <= issued'[k] /\ issued[k] <= issued'[k],
           \A h \in Handler : view'[h] \in {view[h], row, NoRows},
           \A s \in KeyUser :
              phase'[s] = "posting" =>
                  \/ /\ phase[s] = "posting"
                     /\ rotation'[s] = rotation[s]
                     /\ using'[s] = using[s]
                  \/ /\ rotation'[s].read < rotation'[s].fresh
                     /\ rotation'[s].fresh <= issued'[using'[s]]
    PROVE  SecretsIssued'
<1> USE DEF IInv, SecretsIssued, TypeOK
<1>1. ASSUME NEW h \in Handler, NEW k \in Key PROVE view'[h][k].secret <= issued'[k]
  <2>1. issued[k] \in 1..MaxSecret /\ issued'[k] \in 1..MaxSecret /\ issued[k] <= issued'[k]
    BY SecretIsInt
  <2>2. /\ view[h][k] \in Row /\ row[k] \in Row
        /\ view[h][k].secret <= issued[k] /\ row[k].secret <= issued[k]
    BY DEF Session, KeyUser
  <2>3. view[h][k].secret \in Int /\ row[k].secret \in Int
    BY <2>2, SecretIsInt DEF Row
  <2>4. view'[h][k] = view[h][k] \/ view'[h][k] = row[k] \/ view'[h][k].secret = 1
    <3>1. NoRows[k].secret = 1
      BY DEF NoRows
    <3>2. view'[h] = view[h] \/ view'[h] = row \/ view'[h] = NoRows
      OBVIOUS
    <3> QED BY <3>1, <3>2
  <2> QED BY <2>1, <2>2, <2>3, <2>4, ConstantsAssumption
<1>2. ASSUME NEW s \in KeyUser, phase'[s] = "posting"
      PROVE  rotation'[s].read < rotation'[s].fresh /\ rotation'[s].fresh <= issued'[using'[s]]
  <2>1. CASE phase[s] = "posting" /\ rotation'[s] = rotation[s] /\ using'[s] = using[s]
    <3>1. using[s] \in Key /\ rotation[s].fresh \in 1..MaxSecret
          /\ issued[using[s]] \in 1..MaxSecret /\ issued'[using[s]] \in 1..MaxSecret
          /\ issued[using[s]] <= issued'[using[s]]
      BY SecretIsInt
    <3>2. rotation[s].read < rotation[s].fresh /\ rotation[s].fresh <= issued[using[s]]
      BY <2>1
    <3> QED BY <2>1, <3>1, <3>2, ConstantsAssumption
  <2> QED BY <1>2, <2>1
<1>3. \A k \in Key : row'[k].secret <= issued'[k]
  OBVIOUS
<1> HIDE DEF IInv, TypeOK
<1> QED BY <1>1, <1>2, <1>3

LEMMA SecretsIssuedStep == IInv /\ [Next]_vars => SecretsIssued'
<1> SUFFICES ASSUME IInv, [Next]_vars PROVE SecretsIssued'
  OBVIOUS
<1>t. TypeOK /\ TypeOK'
  BY TypeStep DEF IInv
<1>d. /\ \A s \in Sweep : s \in Session /\ s \notin KeyUser
      /\ \A u \in KeyUser : u \in Session
      /\ \A r \in Request : r \notin Handler /\ r \in KeyUser
      /\ \A h \in Handler : h \in KeyUser
  BY ConstantsAssumption DEF Session, KeyUser
<1>i. \A k \in Key : /\ issued[k] \in Int /\ issued[k] <= issued[k]
                    /\ row[k].secret <= issued[k]
  BY <1>t, SecretIsInt DEF IInv, SecretsIssued, TypeOK
<1>1. ASSUME NEW r \in Request, RequestStep(r) PROVE SecretsIssued'
  <2>1. issued' = issued /\ rotation' = rotation
    BY <1>1 DEF RequestStep, LoadKeys, SendKey, EndRequest, CommitFails, Succeed, RateLimited,
                DisableKey, OtherFailure, CommitKey, secrets
  <2>2. \A k \in Key : row'[k].secret <= issued'[k] /\ issued[k] <= issued'[k]
    BY <1>1, <1>i, <2>1, RequestRow
  <2>3. \A h \in Handler : view'[h] = view[h]
    BY <1>1, <1>t, <1>d, UserFrame
  <2>4. phase'[r] # "posting"
    BY <1>1, <1>t, <1>d
    DEF RequestStep, LoadKeys, SendKey, EndRequest, CommitFails, Succeed, RateLimited,
        DisableKey, OtherFailure, GoOn, Close, TypeOK
  <2>5. \A s \in KeyUser : s # r => phase'[s] = phase[s] /\ using'[s] = using[s]
    BY <1>1, <1>t, <1>d, UserFrame
  <2> QED BY <1>t, <2>1, <2>2, <2>3, <2>4, <2>5, SecretsKept
<1>2. ASSUME NEW s \in Sweep, SweepStep(s) PROVE SecretsIssued'
  <2>1. issued' = issued /\ rotation' = rotation /\ using' = using
    BY <1>2 DEF SweepStep, StartSweep, EndSweep, CheckFails, CheckKey, secrets
  <2>2. \A k \in Key : row'[k].secret <= issued'[k] /\ issued[k] <= issued'[k]
    <3>1. CASE EndSweep(s)
      BY <1>i, <2>1, <3>1, SweepRow
    <3>2. CASE ~EndSweep(s)
      <4>1. row' = row
        BY <1>2, <3>2 DEF SweepStep, StartSweep, CheckFails, CheckKey, rows
      <4> QED BY <1>i, <2>1, <4>1
    <3> QED BY <3>1, <3>2
  <2>3. \A u \in KeyUser : view'[u] = view[u] /\ phase'[u] = phase[u]
    BY <1>2, <1>t, <1>d DEF SweepStep, StartSweep, EndSweep, CheckFails, CheckKey, Close, TypeOK
  <2> QED BY <1>t, <1>d, <2>1, <2>2, <2>3, SecretsKept
<1>3. ASSUME NEW h \in Handler, HandlerStep(h) PROVE SecretsIssued'
  <2>1. \A k \in Key : row'[k].secret <= issued'[k]
    BY <1>3, HandlerRow
  <2>2. \A k \in Key : issued[k] <= issued'[k]
    <3>1. using[h] \in Key
      BY <1>t, <1>d DEF TypeOK
    <3>2. issued' = issued \/ \E i \in Key : issued' = [issued EXCEPT ![i] = @ + 1]
      BY <1>3, <3>1 DEF HandlerStep, OpenKey, CloseKey, UpdateKey, ReplaceSecret, EditBundle,
                        RotatedAlready, ReadAgain, PutBack, secrets
    <3> QED BY <1>t, <3>2, IssuedGrows
  <2>3. view'[h] \in {view[h], row, NoRows}
    BY <1>3, <1>t, <1>d
    DEF HandlerStep, OpenKey, CloseKey, UpdateKey, ReplaceSecret, EditBundle, RotatedAlready,
        ReadAgain, PutBack, CommitEdit, Close, TypeOK
  <2>4. phase'[h] # "posting"
    BY <1>3, <1>t, <1>d
    DEF HandlerStep, OpenKey, CloseKey, UpdateKey, ReplaceSecret, EditBundle, RotatedAlready,
        ReadAgain, PutBack, CommitEdit, Close, TypeOK
  <2>5. /\ \A s \in KeyUser : s # h => phase'[s] = phase[s] /\ using'[s] = using[s]
                                   /\ rotation'[s] = rotation[s]
        /\ \A s \in Handler : s # h => view'[s] = view[s]
    BY <1>3, <1>t, <1>d, UserFrame
  <2>6. \A s \in Handler : view'[s] \in {view[s], row, NoRows}
    BY <2>3, <2>5
  <2> QED BY <1>t, <2>1, <2>2, <2>4, <2>5, <2>6, SecretsKept
<1>4. ASSUME NEW s \in KeyUser, RotationStep(s) PROVE SecretsIssued'
  <2>1. \A k \in Key : issued[k] <= issued'[k]
    <3>1. using[s] \in Key
      BY <1>t DEF TypeOK
    <3>2. issued' = issued \/ \E i \in Key : issued' = [issued EXCEPT ![i] = @ + 1]
      BY <1>4, <3>1 DEF RotationStep, PostToken, CommitToken, TokenFails
    <3> QED BY <1>t, <3>2, IssuedGrows
  <2>2. \A k \in Key : row'[k].secret <= issued'[k]
    <3>1. \A k \in Key : row'[k].secret <= issued[k] /\ row'[k].secret \in Int
                         /\ issued[k] \in Int /\ issued'[k] \in Int
      BY <1>4, <1>t, RotationRow, SecretIsInt DEF TypeOK, Row
    <3> QED BY <2>1, <3>1
  <2>3. \A h \in Handler : view'[h] \in {view[h], row, NoRows}
    BY <1>4, <1>t, <1>d DEF RotationStep, PostToken, CommitToken, TokenFails, Close, TypeOK
  <2>4. phase'[s] = "posting" =>
           /\ rotation'[s].read < rotation'[s].fresh
           /\ rotation'[s].fresh <= issued'[using'[s]]
    <3>1. CASE PostToken(s)
      <4>1. using[s] \in Key /\ issued[using[s]] \in Int /\ row[using[s]].secret \in Int
            /\ row[using[s]].secret <= issued[using[s]]
        BY <1>t, <1>i, SecretIsInt DEF TypeOK, Row
      <4>2. /\ rotation'[s] = [read |-> row[using[s]].secret, fresh |-> issued[using[s]] + 1]
            /\ issued'[using[s]] = issued[using[s]] + 1
            /\ using' = using
        BY <1>t, <3>1, <4>1 DEF PostToken, TypeOK
      <4> QED BY <4>1, <4>2
    <3>2. CASE CommitToken(s) \/ TokenFails(s)
      BY <1>t, <1>d, <3>2 DEF CommitToken, TokenFails, Close, TypeOK
    <3> QED BY <1>4, <3>1, <3>2 DEF RotationStep
  <2>5. \A u \in KeyUser : u # s => phase'[u] = phase[u] /\ using'[u] = using[u]
                                  /\ rotation'[u] = rotation[u]
    BY <1>4, <1>t, <1>d, UserFrame
  <2> QED BY <1>t, <2>1, <2>2, <2>3, <2>4, <2>5, SecretsKept
<1>5. CASE Tick \/ UNCHANGED vars \/ CleanupDelete \/ (\E k \in Key : DeleteKey(k))
           \/ (\E target \in Dead : CleanupSelect(target))
  <2>1. UNCHANGED <<row, view, phase, using, issued, rotation>>
    BY <1>5 DEF DeleteKey, CleanupSelect, CleanupDelete, Tick, rows, secrets, vars
  <2> QED BY <1>t, <1>i, <2>1, SecretsKept
<1> QED BY <1>1, <1>2, <1>3, <1>4, <1>5 DEF Next, OperatorStep

-----------------------------------------------------------------------------
(***************************************************************************)
(* The invariant is inductive.                                              *)
(***************************************************************************)
THEOREM Invariance == Spec => []IInv
<1>1. IInv /\ [Next]_vars => IInv'
  BY TypeStep, SweepWritesStep, InUseStep, SecretsIssuedStep DEF IInv
<1> QED BY InitIInv, <1>1, PTL DEF Spec

(***************************************************************************)
(* The rows, and what sessions hold of them, stay in their types.           *)
(***************************************************************************)
THEOREM TypeCorrect == Spec => []TypeOK
<1>1. IInv => TypeOK
  BY DEF IInv
<1> QED BY Invariance, <1>1, PTL

(***************************************************************************)
(* No overlap of requests and sweeps leaves a rate limited key without a    *)
(* time at which it comes back; an operator who parks it by hand does, or   *)
(* one whose refresh clears the end of a park it has not seen.              *)
(***************************************************************************)
THEOREM ParksEnd == Spec => ParkHasEnd
<1>1. IInv /\ [Next]_vars =>
         [\A k \in Key : EndlessPark(k)' /\ ~EndlessPark(k) =>
            \E h \in Handler : using[h] = k /\ (ParkedByHand(h) \/ RefreshOverPark(h))]_vars
  <2> SUFFICES ASSUME IInv, Next, NEW k \in Key, EndlessPark(k)', ~EndlessPark(k)
               PROVE  \E h \in Handler : using[h] = k /\ (ParkedByHand(h) \/ RefreshOverPark(h))
    BY DEF vars
  <2>0. row'[k] # row[k]
    BY DEF EndlessPark
  <2>1. ASSUME NEW r \in Request, RequestStep(r) PROVE FALSE
    BY <2>1, RequestRow
  <2>2. ASSUME NEW s \in Sweep, SweepStep(s) PROVE FALSE
    <3>1. CASE EndSweep(s)
      BY <3>1, SweepRow DEF EndlessPark
    <3>2. CASE ~EndSweep(s)
      BY <2>0, <2>2, <3>2 DEF SweepStep, StartSweep, CheckFails, CheckKey, rows
    <3> QED BY <3>1, <3>2
  <2>3. ASSUME NEW h \in Handler, HandlerStep(h)
        PROVE  using[h] = k /\ (ParkedByHand(h) \/ RefreshOverPark(h))
    BY <2>3, HandlerRow
  <2>4. ASSUME NEW s \in KeyUser, RotationStep(s) PROVE FALSE
    BY <2>4, RotationRow DEF EndlessPark
  <2>5. CASE Tick \/ CleanupDelete \/ (\E j \in Key : DeleteKey(j))
             \/ (\E target \in Dead : CleanupSelect(target))
    BY <2>0, <2>5 DEF Tick, DeleteKey, CleanupSelect, CleanupDelete, rows
  <2> QED BY <2>1, <2>2, <2>3, <2>4, <2>5 DEF Next, OperatorStep
<1> QED BY Invariance, <1>1, PTL DEF Spec, ParkHasEnd

(***************************************************************************)
(* An older secret comes back by an edit of a bundle or a rotation that was *)
(* overtaken, and by nothing else: no verdict of a request, no sweep, no    *)
(* change of the status and no tail of a refresh writes one.                *)
(***************************************************************************)
THEOREM SecretsRevertByOverlap == Spec => SecretRevertsByOverlap
<1>1. IInv /\ [Next]_vars =>
         [\A k \in Key : row'[k].secret < row[k].secret =>
                            BundleOvertaken(k) \/ RotationOvertaken(k)]_vars
  <2> SUFFICES ASSUME IInv, Next, NEW k \in Key, row'[k].secret < row[k].secret
               PROVE  BundleOvertaken(k) \/ RotationOvertaken(k)
    BY DEF vars
  <2>0. row[k].secret \in Int /\ row'[k].secret \in Int /\ row'[k].secret # row[k].secret
    BY TypeStep, SecretIsInt DEF IInv, TypeOK, Row
  <2>1. ASSUME NEW r \in Request, RequestStep(r) PROVE FALSE
    BY <2>0, <2>1, RequestRow
  <2>2. ASSUME NEW s \in Sweep, SweepStep(s) PROVE FALSE
    <3>1. CASE EndSweep(s)
      BY <2>0, <3>1, SweepRow
    <3>2. CASE ~EndSweep(s)
      BY <2>0, <2>2, <3>2 DEF SweepStep, StartSweep, CheckFails, CheckKey, rows
    <3> QED BY <3>1, <3>2
  <2>3. ASSUME NEW h \in Handler, HandlerStep(h) PROVE BundleOvertaken(k)
    BY <2>3, HandlerRow
  <2>4. ASSUME NEW s \in KeyUser, RotationStep(s) PROVE RotationOvertaken(k)
    BY <2>4, RotationRow
  <2>5. CASE Tick \/ CleanupDelete \/ (\E j \in Key : DeleteKey(j))
             \/ (\E target \in Dead : CleanupSelect(target))
    BY <2>0, <2>5 DEF Tick, DeleteKey, CleanupSelect, CleanupDelete, rows
  <2> QED BY <2>1, <2>2, <2>3, <2>4, <2>5 DEF Next, OperatorStep
<1> QED BY Invariance, <1>1, PTL DEF Spec, SecretRevertsByOverlap

(***************************************************************************)
(* Once every running session has seen a key disabled, only an operator     *)
(* brings it back: no request is using it, and no sweep writes its status.  *)
(***************************************************************************)
THEOREM DisableHolds == Spec => DisableHoldsOnceSeen
<1>1. IInv /\ [Next]_vars =>
         [\A k \in Key : SeenDisabled(k) /\ ~OperatorStep => row'[k].status = "disabled"]_vars
  <2> SUFFICES ASSUME IInv, Next, NEW k \in Key, SeenDisabled(k), ~OperatorStep
               PROVE  row'[k].status = "disabled"
    BY DEF vars
  <2>0. row[k].status = "disabled"
    BY DEF SeenDisabled
  <2>1. ASSUME NEW r \in Request, RequestStep(r) PROVE row'[k].status = "disabled"
    <3>1. ~(phase[r] = "waiting" /\ using[r] = k)
      BY DEF SeenDisabled, IInv, InUse
    <3> QED BY <2>0, <2>1, <3>1, RequestRow
  <2>2. ASSUME NEW s \in Sweep, SweepStep(s) PROVE row'[k].status = "disabled"
    <3>1. CASE EndSweep(s)
      <4>1. loaded[s][k].status = "disabled"
        BY <3>1 DEF SeenDisabled, EndSweep
      <4> QED BY <2>0, <3>1, <4>1, SweepRow
    <3>2. CASE ~EndSweep(s)
      BY <2>0, <2>2, <3>2 DEF SweepStep, StartSweep, CheckFails, CheckKey, rows
    <3> QED BY <3>1, <3>2
  <2>3. ASSUME NEW u \in KeyUser, RotationStep(u) PROVE row'[k].status = "disabled"
    BY <2>0, <2>3, RotationRow
  <2>4. CASE Tick
    BY <2>0, <2>4 DEF Tick, rows
  <2> QED BY <2>1, <2>2, <2>3, <2>4 DEF Next
<1> QED BY Invariance, <1>1, PTL DEF Spec, DisableHoldsOnceSeen
=============================================================================
