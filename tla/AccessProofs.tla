----------------------------- MODULE AccessProofs -----------------------------
(***************************************************************************)
(* Proofs about Access: sessions end, parked tokens come back and nothing   *)
(* outlives its reason, for any number of accounts, groups, tokens and      *)
(* requests in progress, as long as no two of them are about one account.   *)
(***************************************************************************)
EXTENDS Access, TLAPS

\* Without it a forced logout may miss a session: MCAccessOverlap shows how.
OneAtATime ==
    \A v, w \in Worker : v # w /\ job[v] # Idle /\ job[w] # Idle => job[v].on # job[w].on

Out == {"disable", "logout"}
Change == {"on", "off", "delete"}
Findings == [role : Role, member : SUBSET Group, observer : SUBSET Group]

Job == [op : {"login", "role", "enable", "create"} \cup Out \cup Change,
        on : User, t : Token \cup {NoToken}, acct : AccountRow, tok : [Token -> TokenRow],
        member : [Group -> Source], observer : [Group -> Source],
        more : Findings \cup {"none", "member", "admin"}]

TypeOK ==
    /\ acct \in [User -> AccountRow] /\ tok \in [Token -> TokenRow]
    /\ member \in [User -> [Group -> Source]] /\ observer \in [User -> [Group -> Source]]
    /\ there \subseteq Group
    /\ jwt \in [User -> SUBSET Nat] /\ granted \in [User -> SUBSET Group]
    /\ job \in [Worker -> Job \cup {Idle}]

-----------------------------------------------------------------------------
(* The inductive invariant.                                                 *)

\* What a request carries fits what it does.
Fits(j) ==
    /\ j.op = "login" => j.more \in Findings
    /\ j.op = "role" => j.more \in {"member", "admin"}
    /\ j.op \in Out => j.acct.epoch < MaxEpoch
    /\ j.op \in Change => j.t \in Token /\ j.tok[j.t].of = j.on
    /\ j.op = "create" => j.t \in Token /\ j.tok[j.t].of = NoUser

\* The rows a request may write are as it has loaded them; of the memberships it
\* has seen, some may be gone.
Current(j) ==
    /\ acct[j.on] = j.acct
    /\ \A t \in Token : j.tok[t].of = j.on \/ tok[t].of = j.on => tok[t] = j.tok[t]
    /\ j.op = "create" => tok[j.t] = j.tok[j.t]
    /\ \A g \in Group : member[j.on][g] \in {j.member[g], "none"}
                        /\ observer[j.on][g] \in {j.observer[g], "none"}

JobsFit == \A w \in Worker : job[w] # Idle => Fits(job[w])
JobsCurrent == \A w \in Worker : job[w] # Idle => Current(job[w])

\* No two requests create the same token.
Reserved ==
    \A v, w \in Worker : v # w /\ job[v].op = "create" /\ job[w].op = "create" => job[v].t # job[w].t

\* No session token is ahead of its account, and no free row is parked.
EpochsOut == \A u \in User : \A e \in jwt[u] : e <= acct[u].epoch
FreeRows == \A t \in Token : tok[t].of = NoUser => ~tok[t].auto

IInv ==
    /\ TypeOK /\ JobsFit /\ JobsCurrent /\ Reserved /\ EpochsOut /\ FreeRows
    /\ ParkedIsRemembered

-----------------------------------------------------------------------------
(* What is written.                                                         *)

\* What the proofs use of the constants.
LEMMA Parameters == NoUser \notin User /\ NoUser \notin Token /\ Subject \subseteq User /\ MaxEpoch \in Nat
BY AccessConstants DEF NoUser

\* A request that has changed nothing of a row writes nothing.
LEMMA WrittenBack ==
    ASSUME NEW now, NEW seen, now = [c \in DOMAIN now |-> now[c]]
    PROVE  Written(now, seen, seen) = now
BY DEF Written

\* A row that is as it was loaded becomes what the request has made of it.
LEMMA WrittenTokens ==
    ASSUME NEW now \in TokenRow, NEW new \in TokenRow
    PROVE  Written(now, now, new) = new /\ \A seen : Written(now, seen, seen) = now
<1>1. DOMAIN now = DOMAIN new /\ new = [c \in DOMAIN new |-> new[c]] /\ now = [c \in DOMAIN now |-> now[c]]
  BY DEF TokenRow
<1>2. Written(now, now, new) = [c \in DOMAIN now |-> new[c]]
  BY DEF Written
<1> QED BY <1>1, <1>2, WrittenBack

\* An account that nobody wrote since it was loaded is stored as the request
\* has changed it.
LEMMA WrittenAccounts ==
    ASSUME NEW now \in AccountRow, NEW new \in AccountRow
    PROVE  Written(now, now, new) = new
<1>1. DOMAIN now = DOMAIN new /\ new = [c \in DOMAIN new |-> new[c]]
  BY DEF AccountRow
<1>2. Written(now, now, new) = [c \in DOMAIN now |-> new[c]]
  BY DEF Written
<1> QED BY <1>1, <1>2

-----------------------------------------------------------------------------
(* Beginning.                                                               *)

\* A request begins with rows as they are, and nothing else happens.
LEMMA BeginStep ==
    ASSUME IInv, NEW w \in Worker, Begin(w)
    PROVE  /\ job[w] = Idle
           /\ \E j \in Job : /\ job' = [job EXCEPT ![w] = j]
                             /\ Fits(j)
                             /\ j.acct = acct[j.on] /\ j.tok = tok
                             /\ j.member = member[j.on] /\ j.observer = observer[j.on]
                             /\ j.op = "create" => \A v \in Worker : job[v].op = "create" => job[v].t # j.t
           /\ UNCHANGED <<acct, tok, member, observer, enforced, there, mapped, standing, jwt, granted>>
<1> DEFINE Row(op, u, t, more) ==
             [op |-> op, on |-> u, t |-> t, acct |-> acct[u], tok |-> tok,
              member |-> member[u], observer |-> observer[u], more |-> more]
           Begun(j) == /\ job[w] = Idle
                       /\ job' = [job EXCEPT ![w] = j]
                       /\ UNCHANGED <<acct, tok, member, observer, enforced, there, mapped, standing, jwt, granted>>
<1>1. TypeOK
  BY DEF IInv
<1>2. PICK u \in Subject : \/ LoginLoads(w, u)
                           \/ \E by \in User : RoleLoads(w, by, u)
                           \/ \E by \in User : EnableLoads(w, by, u)
                           \/ \E by \in User : DisableLoads(w, by, u)
                           \/ \E by \in User : ForceLogoutLoads(w, by, u)
                           \/ CreateLoads(w, u)
                           \/ ChangeLoads(w, u)
  BY DEF Begin
<1>3. u \in User
  BY Parameters
<1>4. \A op, t, more : Loads(w, op, u, t, more) => Begun(Row(op, u, t, more))
  BY DEF Loads, rows, groups
<1>5. ASSUME NEW op \in {"login", "role", "enable", "create"} \cup Out \cup Change,
             NEW t \in Token \cup {NoToken}, NEW more \in Findings \cup {"none", "member", "admin"}
      PROVE  /\ Row(op, u, t, more) \in Job
             /\ Row(op, u, t, more).op = op /\ Row(op, u, t, more).on = u
             /\ Row(op, u, t, more).t = t /\ Row(op, u, t, more).more = more
             /\ Row(op, u, t, more).acct = acct[u] /\ Row(op, u, t, more).tok = tok
             /\ Row(op, u, t, more).member = member[u] /\ Row(op, u, t, more).observer = observer[u]
  BY <1>1, <1>3 DEF TypeOK, Job
<1>6. CASE LoginLoads(w, u)
  <2> DEFINE more == [role |-> ResolvedRole(u), member |-> AutoGroups(u, "member"),
                      observer |-> AutoGroups(u, "admin")]
  <2>1. ResolvedRole(u) \in Role
    BY DEF ResolvedRole, Role
  <2>2. AutoGroups(u, "member") \subseteq Group /\ AutoGroups(u, "admin") \subseteq Group
    BY <1>1 DEF AutoGroups, TypeOK
  <2>3. more \in Findings
    BY <2>1, <2>2 DEF Findings
  <2>4. Loads(w, "login", u, NoToken, more)
    BY <1>6 DEF LoginLoads
  <2> HIDE DEF more, Row
  <2>5. Row("login", u, NoToken, more) \in Job /\ Row("login", u, NoToken, more).op = "login"
        /\ Row("login", u, NoToken, more).more = more
    BY <1>5, <2>3
  <2> QED BY <1>4, <1>5, <2>3, <2>4, <2>5 DEF Fits, Out, Change
<1>7. ASSUME NEW by \in User, RoleLoads(w, by, u)
      PROVE  \E more \in {"member", "admin"} : Loads(w, "role", u, NoToken, more)
  BY <1>7 DEF RoleLoads
<1>8. ASSUME NEW more \in {"member", "admin"}, Loads(w, "role", u, NoToken, more)
      PROVE  Begun(Row("role", u, NoToken, more)) /\ Fits(Row("role", u, NoToken, more))
  BY <1>4, <1>8 DEF Fits, Out, Change
<1>9. CASE \E by \in User : EnableLoads(w, by, u)
  <2>1. Loads(w, "enable", u, NoToken, "none")
    BY <1>9 DEF EnableLoads
  <2>2. Fits(Row("enable", u, NoToken, "none"))
    BY DEF Fits, Out, Change
  <2> HIDE DEF Row
  <2> QED BY <1>4, <1>5, <2>1, <2>2
<1>10. CASE \E by \in User : DisableLoads(w, by, u) \/ ForceLogoutLoads(w, by, u)
  <2>1. PICK op \in Out : Loads(w, op, u, NoToken, "none") /\ acct[u].epoch < MaxEpoch
    BY <1>10 DEF DisableLoads, ForceLogoutLoads, Out
  <2>2. Fits(Row(op, u, NoToken, "none"))
    BY <2>1 DEF Fits, Out, Change
  <2>3. op # "create"
    BY DEF Out
  <2> HIDE DEF Row
  <2> QED BY <1>4, <1>5, <2>1, <2>2, <2>3
<1>11. CASE CreateLoads(w, u)
  <2>1. PICK t \in Token : /\ tok[t].of = NoUser
                           /\ \A v \in Worker : job[v].op = "create" => job[v].t # t
                           /\ Loads(w, "create", u, t, "none")
    BY <1>11 DEF CreateLoads
  <2>2. Fits(Row("create", u, t, "none"))
    BY <2>1 DEF Fits, Out, Change
  <2> DEFINE j == Row("create", u, t, "none")
  <2>3. Begun(j)
    BY <1>4, <2>1
  <2>4. /\ j \in Job /\ j.on = u /\ j.t = t /\ j.acct = acct[u] /\ j.tok = tok
        /\ j.member = member[u] /\ j.observer = observer[u]
    BY <1>5
  <2>5. Fits(j)
    BY <2>2
  <2> HIDE DEF j, Row
  <2> QED BY <2>1, <2>3, <2>4, <2>5
<1>12. CASE ChangeLoads(w, u)
  <2>1. PICK t \in Token, op \in Change : tok[t].of = u /\ Loads(w, op, u, t, "none")
    BY <1>12 DEF ChangeLoads, Change
  <2>2. Fits(Row(op, u, t, "none"))
    BY <2>1 DEF Fits, Out, Change
  <2>3. op # "create"
    BY DEF Change
  <2> DEFINE j == Row(op, u, t, "none")
  <2>4. Begun(j)
    BY <1>4, <2>1
  <2>5. /\ j \in Job /\ j.op = op /\ j.on = u /\ j.acct = acct[u] /\ j.tok = tok
        /\ j.member = member[u] /\ j.observer = observer[u]
    BY <1>5
  <2>6. Fits(j)
    BY <2>2
  <2> HIDE DEF j, Row
  <2> QED BY <2>3, <2>4, <2>5, <2>6
<1>13. CASE \E by \in User : RoleLoads(w, by, u)
  <2>1. PICK more \in {"member", "admin"} : Loads(w, "role", u, NoToken, more)
    BY <1>7, <1>13
  <2>2. Begun(Row("role", u, NoToken, more)) /\ Fits(Row("role", u, NoToken, more))
    BY <1>8, <2>1
  <2> DEFINE j == Row("role", u, NoToken, more)
  <2>3. /\ j \in Job /\ j.op = "role" /\ j.on = u /\ j.acct = acct[u] /\ j.tok = tok
        /\ j.member = member[u] /\ j.observer = observer[u]
    BY <1>5
  <2>4. Begun(j) /\ Fits(j)
    BY <2>2
  <2> HIDE DEF j, Row
  <2> QED BY <2>3, <2>4
<1> QED BY <1>2, <1>6, <1>9, <1>10, <1>11, <1>12, <1>13

-----------------------------------------------------------------------------
(* Answering.                                                               *)

\* What a request may do to a token: nothing, park or restore one of its user's,
\* create the one it has reserved, or change the one it was asked to change.
TokenEffect(j, t) ==
    \/ tok'[t] = tok[t]
    \/ /\ j.op \in Out /\ tok[t].of = j.on /\ tok'[t].of = j.on /\ tok'[t].enabled = FALSE
    \/ /\ j.op = "login" /\ tok[t].of = j.on /\ tok'[t].of = j.on
       /\ tok[t].auto = TRUE /\ tok'[t].auto = FALSE
    \/ /\ j.op = "create" /\ t = j.t /\ tok[t].of = NoUser /\ tok'[t].of = j.on
       /\ tok'[t].auto = FALSE
    \/ /\ j.op \in Change /\ t = j.t /\ tok[t].of = j.on /\ tok'[t].of = j.on
       /\ tok'[t].auto = FALSE /\ (tok'[t].enabled = TRUE => j.op = "on")

\* A login of an enabled account restores all of its parked tokens.
Restoring(j) == j.op = "login" /\ acct[j.on].enabled = TRUE /\ acct[j.on].parked = TRUE

\* What a request does to the account it is about, and to the tokens.
AccountEffect(j, account) ==
    /\ account.epoch = IF j.op \in Out THEN acct[j.on].epoch + 1 ELSE acct[j.on].epoch
    /\ j.op \in Out => account.parked = TRUE
    /\ account.parked = FALSE => acct[j.on].parked = FALSE \/ Restoring(j)

Effect(j) ==
    /\ \E account \in AccountRow : acct' = [acct EXCEPT ![j.on] = account] /\ AccountEffect(j, account)
    /\ tok' \in [Token -> TokenRow]
    /\ \A t \in Token : TokenEffect(j, t)
    /\ Restoring(j) => \A t \in Token : tok[t].of = j.on /\ tok[t].deleted = FALSE => tok'[t].auto = FALSE

\* The rows a request writes are those it has changed.
LEMMA WriteStep ==
    ASSUME IInv, NEW w \in Worker, job[w] # Idle,
           NEW account \in AccountRow, NEW tokens \in [Token -> TokenRow],
           \A t \in Token : tokens[t] # job[w].tok[t] =>
              job[w].tok[t].of = job[w].on \/ (job[w].op = "create" /\ t = job[w].t),
           Writes(w, account, tokens)
    PROVE  /\ job' = [job EXCEPT ![w] = Idle]
           /\ acct' = [acct EXCEPT ![job[w].on] = account]
           /\ tok' \in [Token -> TokenRow]
           /\ \A t \in Token : \/ tokens[t] = job[w].tok[t] /\ tok'[t] = tok[t]
                               \/ tokens[t] # job[w].tok[t] /\ tok[t] = job[w].tok[t] /\ tok'[t] = tokens[t]
<1> DEFINE j == job[w]
<1>1. /\ j \in Job /\ Current(j) /\ Fits(j)
      /\ acct \in [User -> AccountRow] /\ tok \in [Token -> TokenRow]
  BY DEF IInv, TypeOK, JobsCurrent, JobsFit
<1>2. /\ job' = [job EXCEPT ![w] = Idle]
      /\ acct' = [acct EXCEPT ![j.on] = Written(acct[j.on], j.acct, account)]
      /\ tok' = [t \in Token |-> Written(tok[t], j.tok[t], tokens[t])]
  BY DEF Writes
<1>3. j.on \in User /\ j.acct = acct[j.on] /\ acct[j.on] \in AccountRow
  BY <1>1 DEF Job, Current
<1>4. Written(acct[j.on], j.acct, account) = account
  BY <1>3, WrittenAccounts
<1>5. ASSUME NEW t \in Token
      PROVE  /\ tok'[t] \in TokenRow
             /\ \/ tokens[t] = j.tok[t] /\ tok'[t] = tok[t]
                \/ tokens[t] # j.tok[t] /\ tok[t] = j.tok[t] /\ tok'[t] = tokens[t]
  <2>1. tok[t] \in TokenRow /\ tokens[t] \in TokenRow /\ tok'[t] = Written(tok[t], j.tok[t], tokens[t])
    BY <1>1, <1>2
  <2>2. CASE tokens[t] = j.tok[t]
    BY <2>1, <2>2, WrittenTokens
  <2>3. CASE tokens[t] # j.tok[t]
    <3>1. tok[t] = j.tok[t]
      BY <1>1, <2>3 DEF Current
    <3> QED BY <2>1, <2>3, <3>1, WrittenTokens
  <2> QED BY <2>2, <2>3
<1> QED BY <1>2, <1>4, <1>5

\* Each of them in turn.
LEMMA AccountTypes ==
    ASSUME NEW a \in AccountRow
    PROVE  /\ \A r \in Role : [a EXCEPT !.role = r] \in AccountRow
           /\ [a EXCEPT !.enabled = TRUE] \in AccountRow
           /\ \A r \in Role \cup {"absent"}, p \in BOOLEAN :
                 [a EXCEPT !.role = r, !.parked = p] \in AccountRow
           /\ \A e \in BOOLEAN : a.epoch < MaxEpoch =>
                 [a EXCEPT !.epoch = @ + 1, !.parked = TRUE, !.enabled = e] \in AccountRow
<1>1. a.epoch \in Nat /\ (a.epoch < MaxEpoch => a.epoch + 1 \in 0..MaxEpoch)
  BY Parameters DEF AccountRow
<1> QED BY <1>1 DEF AccountRow

\* A login writes the account, and parks or restores tokens, as Effect says.
LEMMA LoginEffect ==
    ASSUME IInv, NEW w \in Worker, LoginWrites(w)
    PROVE  /\ job[w] \in Job /\ job[w].op = "login" /\ job[w].more \in Findings
           /\ job' = [job EXCEPT ![w] = Idle] /\ Effect(job[w])
<1> DEFINE j == job[w]
           account == [j.acct EXCEPT !.role = MergedRole(@, j.more.role), !.parked = @ /\ ~j.acct.enabled]
           tokens == Restored(j)
<1>1. j.op = "login" /\ Writes(w, account, tokens)
  BY DEF LoginWrites
<1>2. j # Idle
  BY <1>1 DEF Idle
<1>3. /\ j \in Job /\ Current(j) /\ Fits(j)
      /\ acct \in [User -> AccountRow] /\ tok \in [Token -> TokenRow]
  BY <1>2 DEF IInv, TypeOK, JobsCurrent, JobsFit
<1>4. j.more \in Findings
  BY <1>1, <1>3 DEF Fits
<1>5. /\ j.acct \in AccountRow /\ j.acct = acct[j.on] /\ j.tok \in [Token -> TokenRow]
      /\ j.on \in User
  BY <1>3 DEF Job, Current
<1>6. account \in AccountRow
  <2>1. MergedRole(j.acct.role, j.more.role) \in Role \cup {"absent"}
    BY <1>4, <1>5 DEF MergedRole, Findings, AccountRow
  <2>2. (j.acct.parked /\ ~j.acct.enabled) \in BOOLEAN
    OBVIOUS
  <2> QED BY <1>5, <2>1, <2>2, AccountTypes
<1>7. ASSUME NEW t \in Token
      PROVE  /\ tokens[t] \in TokenRow
             /\ \/ tokens[t] = j.tok[t]
                \/ /\ Restoring(j) /\ j.tok[t].of = j.on /\ j.tok[t].auto = TRUE
                   /\ tokens[t].of = j.on /\ tokens[t].auto = FALSE
             /\ Restoring(j) /\ j.tok[t].of = j.on /\ j.tok[t].deleted = FALSE => tokens[t].auto = FALSE
  <2>1. j.tok[t] \in TokenRow
    BY <1>5
  <2>2. [j.tok[t] EXCEPT !.enabled = TRUE, !.auto = FALSE] \in TokenRow
    BY <2>1 DEF TokenRow
  <2>3. Restoring(j) <=> j.acct.enabled /\ j.acct.parked
    BY <1>1, <1>5 DEF Restoring, AccountRow
  <2>4. CASE Restoring(j)
    BY <2>1, <2>2, <2>3, <2>4 DEF Restored, TokenRow
  <2>5. CASE ~Restoring(j)
    BY <2>1, <2>3, <2>5 DEF Restored
  <2> QED BY <2>4, <2>5
<1>8. tokens \in [Token -> TokenRow]
  BY <1>5, <1>7 DEF Restored
<1>9. account.epoch = acct[j.on].epoch /\ (account.parked = FALSE => acct[j.on].parked = FALSE \/ Restoring(j))
  BY <1>1, <1>5 DEF AccountRow, Restoring
<1> HIDE DEF account, tokens
<1>10. /\ job' = [job EXCEPT ![w] = Idle]
       /\ acct' = [acct EXCEPT ![j.on] = account]
       /\ tok' \in [Token -> TokenRow]
       /\ \A t \in Token : \/ tokens[t] = j.tok[t] /\ tok'[t] = tok[t]
                           \/ tokens[t] # j.tok[t] /\ tok[t] = j.tok[t] /\ tok'[t] = tokens[t]
  <2>1. \A t \in Token : tokens[t] # j.tok[t] => j.tok[t].of = j.on \/ (j.op = "create" /\ t = j.t)
    BY <1>7
  <2> QED BY <1>1, <1>2, <1>6, <1>8, <2>1, WriteStep
<1>11. AccountEffect(j, account)
  BY <1>1, <1>9 DEF AccountEffect, Out
<1>12. \A t \in Token : TokenEffect(j, t)
  BY <1>1, <1>7, <1>10, ZenonT(60) DEF TokenEffect
<1>13. ASSUME Restoring(j), NEW t \in Token, tok[t].of = j.on, tok[t].deleted = FALSE
       PROVE  tok'[t].auto = FALSE
  <2>1. tok[t] = j.tok[t]
    BY <1>3, <1>13 DEF Current
  <2> QED BY <1>7, <1>10, <1>13, <2>1
<1> QED BY <1>1, <1>3, <1>4, <1>6, <1>10, <1>11, <1>12, <1>13 DEF Effect

\* So does a change of the role, an enabling and every way of putting a user out.
LEMMA PlainEffect ==
    ASSUME IInv, NEW w \in Worker, RoleWrites(w) \/ EnableWrites(w) \/ PutOut(w)
    PROVE  /\ job[w] \in Job /\ job[w].op \in {"role", "enable"} \cup Out
           /\ job' = [job EXCEPT ![w] = Idle] /\ Effect(job[w])
<1> DEFINE j == job[w]
<1>1. j.op \in {"role", "enable"} \cup Out
  BY DEF RoleWrites, EnableWrites, PutOut, Out
<1>2. j # Idle
  BY <1>1 DEF Idle, Out
<1>3. /\ j \in Job /\ Current(j) /\ Fits(j)
      /\ acct \in [User -> AccountRow] /\ tok \in [Token -> TokenRow]
  BY <1>2 DEF IInv, TypeOK, JobsCurrent, JobsFit
<1>4. /\ j.acct \in AccountRow /\ j.acct = acct[j.on] /\ j.tok \in [Token -> TokenRow]
      /\ j.on \in User
  BY <1>3 DEF Job, Current
<1>5. ~Restoring(j)
  BY <1>1 DEF Restoring, Out
<1>6. \E account \in AccountRow, tokens \in [Token -> TokenRow] :
         /\ Writes(w, account, tokens) /\ AccountEffect(j, account)
         /\ tokens = IF j.op \in Out THEN Parked(j) ELSE j.tok
  <2>1. CASE RoleWrites(w)
    <3>1. j.op = "role" /\ j.more \in {"member", "admin"} /\ Writes(w, [j.acct EXCEPT !.role = j.more], j.tok)
      BY <1>3, <2>1 DEF RoleWrites, Fits
    <3>2. [j.acct EXCEPT !.role = j.more] \in AccountRow
      BY <1>4, <3>1, AccountTypes DEF Role
    <3>3. AccountEffect(j, [j.acct EXCEPT !.role = j.more])
      BY <1>4, <3>1 DEF AccountEffect, AccountRow, Out
    <3> QED BY <1>4, <3>1, <3>2, <3>3 DEF Out
  <2>2. CASE EnableWrites(w)
    <3>1. j.op = "enable" /\ Writes(w, [j.acct EXCEPT !.enabled = TRUE], j.tok)
      BY <2>2 DEF EnableWrites
    <3>2. [j.acct EXCEPT !.enabled = TRUE] \in AccountRow
      BY <1>4, AccountTypes
    <3>3. AccountEffect(j, [j.acct EXCEPT !.enabled = TRUE])
      BY <1>4, <3>1 DEF AccountEffect, AccountRow, Out
    <3> QED BY <1>4, <3>1, <3>2, <3>3 DEF Out
  <2>3. CASE PutOut(w)
    <3> DEFINE account == [j.acct EXCEPT !.epoch = @ + 1, !.parked = TRUE, !.enabled = @ /\ j.op = "logout"]
    <3>1. j.op \in Out /\ Writes(w, account, Parked(j)) /\ j.acct.epoch < MaxEpoch
      BY <1>3, <2>3 DEF PutOut, Out, Fits
    <3>2. account \in AccountRow
      <4>1. (j.acct.enabled /\ j.op = "logout") \in BOOLEAN
        OBVIOUS
      <4> QED BY <1>4, <3>1, <4>1, AccountTypes
    <3>3. AccountEffect(j, account)
      BY <1>4, <3>1 DEF AccountEffect, AccountRow
    <3>4. Parked(j) \in [Token -> TokenRow]
      <4>1. \A t \in Token : [j.tok[t] EXCEPT !.enabled = FALSE, !.auto = TRUE] \in TokenRow
        BY <1>4 DEF TokenRow
      <4> QED BY <1>4, <4>1 DEF Parked
    <3> QED BY <3>1, <3>2, <3>3, <3>4
  <2> QED BY <2>1, <2>2, <2>3
<1>7. PICK account \in AccountRow, tokens \in [Token -> TokenRow] :
         /\ Writes(w, account, tokens) /\ AccountEffect(j, account)
         /\ tokens = IF j.op \in Out THEN Parked(j) ELSE j.tok
  BY <1>6
<1>8. ASSUME NEW t \in Token, tokens[t] # j.tok[t]
      PROVE  j.op \in Out /\ j.tok[t].of = j.on /\ tokens[t].of = j.on /\ tokens[t].enabled = FALSE
  <2>1. j.tok[t] \in TokenRow
    BY <1>4
  <2> QED BY <1>7, <1>8, <2>1 DEF Parked, TokenRow
<1>9. /\ job' = [job EXCEPT ![w] = Idle]
      /\ acct' = [acct EXCEPT ![j.on] = account]
      /\ tok' \in [Token -> TokenRow]
      /\ \A t \in Token : \/ tokens[t] = j.tok[t] /\ tok'[t] = tok[t]
                          \/ tokens[t] # j.tok[t] /\ tok[t] = j.tok[t] /\ tok'[t] = tokens[t]
  <2>1. \A t \in Token : tokens[t] # j.tok[t] => j.tok[t].of = j.on \/ (j.op = "create" /\ t = j.t)
    BY <1>8
  <2> QED BY <1>2, <1>7, <2>1, WriteStep
<1>10. \A t \in Token : TokenEffect(j, t)
  BY <1>8, <1>9 DEF TokenEffect
<1> QED BY <1>1, <1>3, <1>5, <1>7, <1>9, <1>10 DEF Effect

\* So do the creation, the change and the deletion of a token.
LEMMA TokenJobEffect ==
    ASSUME IInv, NEW w \in Worker, CreateWrites(w) \/ ChangeWrites(w)
    PROVE  /\ job[w] \in Job /\ job[w].op \in {"create"} \cup Change
           /\ job' = [job EXCEPT ![w] = Idle] /\ Effect(job[w])
<1> DEFINE j == job[w]
           made == [j.tok EXCEPT ![j.t].of = j.on, ![j.t].enabled = TRUE]
           changed == [j.tok EXCEPT ![j.t] = [@ EXCEPT !.enabled = j.op = "on", !.auto = FALSE,
                                                       !.deleted = j.op = "delete"]]
           tokens == IF j.op = "create" THEN made ELSE changed
<1>1. j.op \in {"create"} \cup Change /\ Writes(w, j.acct, tokens)
  BY DEF CreateWrites, ChangeWrites, Change
<1>2. j # Idle
  BY <1>1, SMTT(60) DEF Idle, Change
<1>3. /\ j \in Job /\ Current(j) /\ Fits(j)
      /\ acct \in [User -> AccountRow] /\ tok \in [Token -> TokenRow]
  BY <1>2 DEF IInv, TypeOK, JobsCurrent, JobsFit
<1>4. /\ j.acct \in AccountRow /\ j.acct = acct[j.on] /\ j.tok \in [Token -> TokenRow]
      /\ j.on \in User /\ j.t \in Token
  BY <1>1, <1>3 DEF Job, Current, Fits
<1>5. ~Restoring(j) /\ j.op \notin Out
  BY <1>1 DEF Restoring, Out, Change
<1>6. j.tok[j.t] \in TokenRow /\ tok[j.t] = j.tok[j.t]
      /\ (j.op = "create" => j.tok[j.t].of = NoUser) /\ (j.op \in Change => j.tok[j.t].of = j.on)
  BY <1>1, <1>3, <1>4 DEF Current, Fits
<1>7. /\ tokens \in [Token -> TokenRow]
      /\ \A t \in Token : t # j.t => tokens[t] = j.tok[t]
      /\ tokens[j.t].of = j.on
      /\ j.op = "create" => tokens[j.t].auto = j.tok[j.t].auto
      /\ j.op \in Change => tokens[j.t].auto = FALSE /\ (tokens[j.t].enabled = TRUE => j.op = "on")
  <2>1. CASE j.op = "create"
    <3>1. /\ [j.tok[j.t] EXCEPT !.of = j.on, !.enabled = TRUE] \in TokenRow
          /\ made = [j.tok EXCEPT ![j.t] = [j.tok[j.t] EXCEPT !.of = j.on, !.enabled = TRUE]]
      BY <1>4, <1>6 DEF TokenRow
    <3> QED BY <1>4, <1>6, <2>1, <3>1 DEF TokenRow, Change
  <2>2. CASE j.op # "create"
    <3> DEFINE row == [j.tok[j.t] EXCEPT !.enabled = j.op = "on", !.auto = FALSE, !.deleted = j.op = "delete"]
    <3>1. row \in TokenRow /\ row.of = j.on /\ row.auto = FALSE /\ (row.enabled = TRUE => j.op = "on")
      BY <1>1, <1>6, <2>2 DEF TokenRow
    <3>2. tokens = [j.tok EXCEPT ![j.t] = row]
      BY <2>2
    <3> HIDE DEF row, tokens
    <3> QED BY <1>4, <2>2, <3>1, <3>2
  <2> QED BY <2>1, <2>2
<1> HIDE DEF made, changed, tokens
<1>8. \A t \in Token : tokens[t] # j.tok[t] => j.tok[t].of = j.on \/ (j.op = "create" /\ t = j.t)
  BY <1>1, <1>6, <1>7
<1>9. /\ job' = [job EXCEPT ![w] = Idle]
      /\ acct' = [acct EXCEPT ![j.on] = j.acct]
      /\ tok' \in [Token -> TokenRow]
      /\ \A t \in Token : \/ tokens[t] = j.tok[t] /\ tok'[t] = tok[t]
                          \/ tokens[t] # j.tok[t] /\ tok[t] = j.tok[t] /\ tok'[t] = tokens[t]
  BY <1>1, <1>2, <1>4, <1>7, <1>8, WriteStep
<1>10. tok[j.t].of = NoUser => tok[j.t].auto = FALSE
  BY <1>3, <1>4 DEF IInv, FreeRows, TokenRow
<1>11. \A t \in Token : TokenEffect(j, t)
  BY <1>1, <1>6, <1>7, <1>9, <1>10 DEF TokenEffect
<1>12. AccountEffect(j, j.acct)
  BY <1>4, <1>5 DEF AccountEffect
<1> QED BY <1>1, <1>3, <1>4, <1>5, <1>9, <1>11, <1>12 DEF Effect

\* A request's last step: it writes as Effect says or is refused; a forced logout
\* is never refused, and memberships change by a login only.
LEMMA AnswerStep ==
    ASSUME IInv, NEW w \in Worker, Answer(w)
    PROVE  /\ job[w] \in Job /\ job[w] # Idle /\ job' = [job EXCEPT ![w] = Idle]
           /\ UNCHANGED <<enforced, there>>
           /\ Effect(job[w]) \/ UNCHANGED <<acct, tok>>
           /\ job[w].op \in Out => Effect(job[w])
           /\ LoginWrites(w) \/ UNCHANGED <<member, observer, jwt, granted>>
<1> DEFINE j == job[w]
<1>1. CASE LoginWrites(w)
  <2>1. /\ j \in Job /\ j.op = "login" /\ job' = [job EXCEPT ![w] = Idle] /\ Effect(j)
    BY <1>1, LoginEffect
  <2> QED BY <1>1, <2>1 DEF LoginWrites, Idle, groups
<1>2. CASE LoginFails(w)
  <2>1. j.op = "login" /\ job' = [job EXCEPT ![w] = Idle]
    BY <1>2 DEF LoginFails
  <2>2. j # Idle
    BY <2>1 DEF Idle
  <2> QED BY <1>2, <2>1, <2>2 DEF LoginFails, rows, groups, Out, IInv, TypeOK
<1>3. CASE RoleWrites(w) \/ EnableWrites(w) \/ PutOut(w)
  <2>1. j \in Job /\ j.op \in {"role", "enable"} \cup Out /\ job' = [job EXCEPT ![w] = Idle] /\ Effect(j)
    BY <1>3, PlainEffect
  <2>2. j # Idle
    BY <2>1 DEF Idle, Out
  <2>3. UNCHANGED <<enforced, there, member, observer, jwt, granted>>
    BY <1>3 DEF RoleWrites, EnableWrites, PutOut, groups
  <2> QED BY <2>1, <2>2, <2>3
<1>4. CASE CreateWrites(w) \/ ChangeWrites(w)
  <2>1. j \in Job /\ j.op \in {"create"} \cup Change /\ job' = [job EXCEPT ![w] = Idle] /\ Effect(j)
    BY <1>4, TokenJobEffect
  <2>2. j # Idle
    BY <2>1 DEF Idle, Change
  <2>3. UNCHANGED <<enforced, there, member, observer, jwt, granted>>
    BY <1>4 DEF CreateWrites, ChangeWrites, groups
  <2> QED BY <2>1, <2>2, <2>3
<1> QED BY <1>1, <1>2, <1>3, <1>4 DEF Answer

\* Edits of groups, token logins and team changes touch no account, token or request,
\* and give no membership.
Aside ==
    /\ UNCHANGED <<acct, tok, job, granted, enforced>>
    /\ member' \in [User -> [Group -> Source]] /\ observer' \in [User -> [Group -> Source]]
    /\ \A u \in User, g \in Group : /\ member'[u][g] \in {member[u][g], "none"}
                                    /\ observer'[u][g] \in {observer[u][g], "none"}
    /\ there' \subseteq Group
    /\ \A g \in there \ there', u \in User : member'[u][g] = "none" /\ observer'[u][g] = "none"
    /\ jwt' = jwt \/ \E u \in User : jwt' = [jwt EXCEPT ![u] = @ \cup {acct[u].epoch}]

\* Every step that neither begins nor ends a request leaves accounts, tokens and
\* running requests alone; memberships only go.
LEMMA OtherSteps ==
    ASSUME IInv, [Next]_vars, ~\E w \in Worker : Begin(w) \/ Answer(w)
    PROVE  Aside
<1>1. /\ member \in [User -> [Group -> Source]] /\ observer \in [User -> [Group -> Source]]
      /\ there \subseteq Group /\ "none" \in Source
  BY DEF IInv, TypeOK, Source
<1>2. ASSUME NEW g \in Group, NEW ms, MapGroup(g, ms) \/ CreateGroup(g, ms)
      PROVE  Aside
  BY <1>1, <1>2 DEF MapGroup, CreateGroup, Aside, rows
<1>3. ASSUME NEW g \in Group, DeleteGroup(g)
      PROVE  Aside
  <2>1. /\ member' = Without(member, g) /\ observer' = Without(observer, g) /\ there' = there \ {g}
        /\ UNCHANGED <<acct, tok, enforced, standing, jwt, job, granted>>
    BY <1>3 DEF DeleteGroup
  <2>2. ASSUME NEW held \in [User -> [Group -> Source]]
        PROVE  /\ Without(held, g) \in [User -> [Group -> Source]]
               /\ \A u \in User : Without(held, g)[u][g] = "none"
               /\ \A u \in User, h \in Group : Without(held, g)[u][h] \in {held[u][h], "none"}
    BY <1>1, <2>2 DEF Without
  <2> QED BY <1>1, <2>1, <2>2 DEF Aside
<1>4. ASSUME NEW g \in Group, NEW u \in User, RemoveMember(u, g)
      PROVE  Aside
  BY <1>1, <1>4 DEF RemoveMember, Aside, groups
<1>5. ASSUME NEW u \in User, TokenLogin(u)
      PROVE  Aside
  BY <1>1, <1>5 DEF TokenLogin, Aside, rows, groups
<1>6. ASSUME NEW u \in User, TeamChanges(u)
      PROVE  Aside
  BY <1>1, <1>6 DEF TeamChanges, Aside, rows, groups
<1>7. CASE UNCHANGED vars
  BY <1>1, <1>7 DEF vars, rows, groups, Aside
<1> QED BY <1>2, <1>3, <1>4, <1>5, <1>6, <1>7, Parameters DEF Next, GroupEdit

-----------------------------------------------------------------------------
(* The invariant, part by part.                                             *)

\* Synced yields a source for each group.
LEMMA SyncedType ==
    ASSUME NEW now \in [Group -> Source], NEW seen, NEW desired
    PROVE  Synced(now, seen, desired) \in [Group -> Source]
BY DEF Synced, Source

\* Every step keeps the type invariant.
LEMMA TypeKept ==
    ASSUME IInv, [Next]_vars
    PROVE  TypeOK'
<1>1. TypeOK
  BY DEF IInv
<1>2. ASSUME NEW w \in Worker, Begin(w)
      PROVE  TypeOK'
  BY <1>1, <1>2, BeginStep DEF TypeOK
<1>3. ASSUME NEW w \in Worker, Answer(w)
      PROVE  TypeOK'
  <2> DEFINE j == job[w]
  <2>1. /\ j \in Job /\ job' = [job EXCEPT ![w] = Idle] /\ UNCHANGED <<enforced, there>>
        /\ Effect(j) \/ UNCHANGED <<acct, tok>>
        /\ LoginWrites(w) \/ UNCHANGED <<member, observer, jwt, granted>>
    BY <1>3, AnswerStep
  <2>2. j.on \in User /\ j.acct \in AccountRow
    BY <2>1 DEF Job
  <2>3. acct' \in [User -> AccountRow] /\ tok' \in [Token -> TokenRow]
    BY <1>1, <2>1, <2>2 DEF Effect, TypeOK
  <2>4. CASE LoginWrites(w)
    <3>1. j.more \in Findings
      BY <2>4, LoginEffect
    <3>2. /\ member' = [member EXCEPT ![j.on] = Synced(@, j.member, j.more.member)]
          /\ observer' = [observer EXCEPT ![j.on] = Synced(@, j.observer, j.more.observer)]
          /\ jwt' = [jwt EXCEPT ![j.on] = @ \cup {j.acct.epoch}]
          /\ granted' = [granted EXCEPT ![j.on] = j.more.member \cup j.more.observer]
      BY <2>4 DEF LoginWrites
    <3>3. j.more.member \cup j.more.observer \subseteq Group /\ j.acct.epoch \in Nat
      BY <2>2, <3>1, Parameters DEF Findings, AccountRow
    <3>4. /\ Synced(member[j.on], j.member, j.more.member) \in [Group -> Source]
          /\ Synced(observer[j.on], j.observer, j.more.observer) \in [Group -> Source]
      BY <1>1, <2>2, SyncedType DEF TypeOK
    <3>5. member' \in [User -> [Group -> Source]] /\ observer' \in [User -> [Group -> Source]]
      BY <1>1, <3>2, <3>4 DEF TypeOK
    <3>6. jwt' \in [User -> SUBSET Nat] /\ granted' \in [User -> SUBSET Group]
      BY <1>1, <3>2, <3>3 DEF TypeOK
    <3> QED BY <1>1, <2>1, <2>3, <3>5, <3>6 DEF TypeOK
  <2>5. CASE UNCHANGED <<member, observer, jwt, granted>>
    BY <1>1, <2>1, <2>3, <2>5 DEF TypeOK
  <2> QED BY <2>1, <2>4, <2>5
<1>4. CASE Aside
  <2>1. \A u \in User : acct[u].epoch \in Nat
    BY <1>1, Parameters DEF TypeOK, AccountRow
  <2>2. jwt' \in [User -> SUBSET Nat]
    <3>1. jwt \in [User -> SUBSET Nat]
      BY <1>1 DEF TypeOK
    <3>2. \A u \in User : jwt[u] \cup {acct[u].epoch} \in SUBSET Nat
      BY <2>1, <3>1
    <3>3. jwt' = jwt \/ \E u \in User : jwt' = [jwt EXCEPT ![u] = jwt[u] \cup {acct[u].epoch}]
      BY <1>4 DEF Aside
    <3> QED BY <3>1, <3>2, <3>3
  <2> QED BY <1>1, <1>4, <2>2 DEF TypeOK, Aside
<1> QED BY <1>2, <1>3, <1>4, OtherSteps

\* A running request fits its kind and has its token id to itself.
LEMMA FitKept ==
    ASSUME IInv, [Next]_vars
    PROVE  JobsFit' /\ Reserved'
<1>1. JobsFit /\ Reserved /\ job \in [Worker -> Job \cup {Idle}]
  BY DEF IInv, TypeOK
<1>2. ASSUME NEW w \in Worker, Begin(w)
      PROVE  JobsFit' /\ Reserved'
  <2>1. PICK j \in Job : /\ job' = [job EXCEPT ![w] = j] /\ Fits(j)
                         /\ j.op = "create" => \A v \in Worker : job[v].op = "create" => job[v].t # j.t
    BY <1>2, BeginStep
  <2> QED BY <1>1, <2>1 DEF JobsFit, Reserved, Fits
<1>3. ASSUME NEW w \in Worker, Answer(w)
      PROVE  JobsFit' /\ Reserved'
  <2>1. job' = [job EXCEPT ![w] = Idle]
    BY <1>3, AnswerStep
  <2>2. Idle.op # "create"
    BY DEF Idle
  <2> QED BY <1>1, <2>1, <2>2 DEF JobsFit, Reserved, Fits
<1>4. CASE Aside
  BY <1>1, <1>4 DEF Aside, JobsFit, Reserved, Fits
<1> QED BY <1>2, <1>3, <1>4, OtherSteps

\* What a request has loaded stays current while no other is about its account.
LEMMA CurrentKept ==
    ASSUME IInv, OneAtATime, [Next]_vars
    PROVE  JobsCurrent'
<1>1. /\ TypeOK /\ JobsFit /\ JobsCurrent /\ Reserved /\ job \in [Worker -> Job \cup {Idle}]
      /\ "none" \in Source
  BY DEF IInv, TypeOK, Source
<1>2. ASSUME NEW w \in Worker, Begin(w)
      PROVE  JobsCurrent'
  <2>1. PICK j \in Job : /\ job' = [job EXCEPT ![w] = j]
                         /\ j.acct = acct[j.on] /\ j.tok = tok
                         /\ j.member = member[j.on] /\ j.observer = observer[j.on]
    BY <1>2, BeginStep
  <2>2. UNCHANGED <<acct, tok, member, observer>>
    BY <1>2, BeginStep
  <2> QED BY <1>1, <2>1, <2>2 DEF JobsCurrent, Current
<1>3. ASSUME NEW w \in Worker, Answer(w), NEW v \in Worker, NEW i \in Job, job'[v] = i, i # Idle
      PROVE  Current(i)'
  <2> DEFINE j == job[w]
  <2>1. /\ j \in Job /\ j # Idle /\ job' = [job EXCEPT ![w] = Idle]
        /\ Effect(j) \/ UNCHANGED <<acct, tok>>
        /\ LoginWrites(w) \/ UNCHANGED <<member, observer, jwt, granted>>
    BY <1>3, AnswerStep
  <2>2. v # w /\ job[v] = i
    BY <1>1, <1>3, <2>1
  <2>3. i.on # j.on /\ i.on \in User /\ j.on \in User /\ i.on # NoUser /\ j.on # NoUser
    BY <1>3, <2>1, <2>2, Parameters DEF OneAtATime, Job
  <2>4. Current(i) /\ Fits(i)
    BY <1>1, <1>3, <2>2 DEF JobsCurrent, JobsFit
  <2>5. acct'[i.on] = acct[i.on]
    BY <1>1, <2>1, <2>3 DEF Effect, TypeOK
  <2>6. member'[i.on] = member[i.on] /\ observer'[i.on] = observer[i.on]
    BY <1>1, <2>1, <2>3 DEF LoginWrites, TypeOK
  <2>7. ASSUME NEW t \in Token
        PROVE  \/ tok'[t] = tok[t]
               \/ /\ tok[t].of \in {j.on, NoUser} /\ tok'[t].of = j.on
                  /\ tok[t].of = NoUser => j.op = "create" /\ t = j.t
    BY <2>1, <2>3 DEF Effect, TokenEffect
  <2>8. ASSUME NEW t \in Token, i.tok[t].of = i.on \/ tok'[t].of = i.on
        PROVE  tok'[t] = i.tok[t]
    <3>1. CASE tok'[t] = tok[t]
      BY <2>4, <2>8, <3>1 DEF Current
    <3>2. CASE tok'[t] # tok[t]
      <4>1. tok[t].of \in {j.on, NoUser} /\ tok'[t].of = j.on
        BY <2>7, <3>2
      <4>2. i.tok[t].of = i.on
        BY <2>3, <2>8, <4>1
      <4>3. tok[t] = i.tok[t]
        BY <2>4, <4>2 DEF Current
      <4> QED BY <2>3, <4>1, <4>2, <4>3
    <3> QED BY <3>1, <3>2
  <2>9. ASSUME i.op = "create"
        PROVE  tok'[i.t] = i.tok[i.t]
    <3>1. i.t \in Token /\ i.tok[i.t].of = NoUser /\ tok[i.t] = i.tok[i.t]
      BY <2>4, <2>9 DEF Fits, Current
    <3>2. j.op = "create" => j.t # i.t
      BY <1>1, <2>2, <2>9 DEF Reserved
    <3> QED BY <2>3, <2>7, <3>1, <3>2
  <2> QED BY <2>4, <2>5, <2>6, <2>8, <2>9 DEF Current
<1>4. CASE Aside
  <2>1. job' = job /\ acct' = acct /\ tok' = tok
    BY <1>4 DEF Aside
  <2>2. ASSUME NEW w \in Worker, job[w] # Idle
        PROVE  Current(job[w])'
    <3>1. job[w] \in Job /\ job[w].on \in User /\ Current(job[w])
      BY <1>1, <2>2 DEF Job, JobsCurrent
    <3> QED BY <1>4, <2>1, <3>1 DEF Aside, Current
  <2> QED BY <2>1, <2>2 DEF JobsCurrent
<1>5. ASSUME NEW w \in Worker, Answer(w)
      PROVE  JobsCurrent'
  <2>1. job' \in [Worker -> Job \cup {Idle}]
    BY TypeKept DEF TypeOK
  <2> QED BY <1>3, <1>5, <2>1 DEF JobsCurrent, Current
<1> QED BY <1>2, <1>4, <1>5, OtherSteps

\* No session was issued with an epoch the account has not reached.
LEMMA EpochsKept ==
    ASSUME IInv, [Next]_vars
    PROVE  EpochsOut'
<1>1. TypeOK /\ EpochsOut /\ JobsCurrent
  BY DEF IInv
<1>2. acct \in [User -> AccountRow] /\ jwt \in [User -> SUBSET Nat] /\ \A u \in User : acct[u].epoch \in Nat
  BY <1>1, Parameters DEF TypeOK, AccountRow
<1>3. ASSUME NEW w \in Worker, Begin(w)
      PROVE  EpochsOut'
  <2>1. UNCHANGED <<acct, jwt>>
    BY <1>3, BeginStep
  <2> QED BY <1>1, <2>1 DEF EpochsOut
<1>4. ASSUME NEW w \in Worker, Answer(w)
      PROVE  EpochsOut'
  <2> DEFINE j == job[w]
  <2>1. /\ j \in Job /\ j # Idle
        /\ Effect(j) \/ UNCHANGED <<acct, tok>>
        /\ LoginWrites(w) \/ UNCHANGED <<member, observer, jwt, granted>>
    BY <1>4, AnswerStep
  <2>2. j.on \in User /\ j.acct = acct[j.on]
    BY <1>1, <2>1 DEF Job, JobsCurrent, Current
  <2>3. \A u \in User : acct'[u].epoch \in Nat /\ acct[u].epoch <= acct'[u].epoch
    <3>1. CASE UNCHANGED acct
      BY <1>2, <3>1
    <3>2. CASE Effect(j)
      <4>1. PICK account \in AccountRow : acct' = [acct EXCEPT ![j.on] = account] /\ AccountEffect(j, account)
        BY <3>2 DEF Effect
      <4>2. account.epoch \in Nat /\ acct[j.on].epoch <= account.epoch
        BY <1>2, <2>2, <4>1 DEF AccountEffect
      <4> QED BY <1>2, <2>2, <4>1, <4>2
    <3> QED BY <2>1, <3>1, <3>2
  <2>4. CASE LoginWrites(w)
    <3>1. jwt' = [jwt EXCEPT ![j.on] = @ \cup {acct[j.on].epoch}]
      BY <2>2, <2>4 DEF LoginWrites
    <3>2. ASSUME NEW u \in User, NEW e \in jwt'[u]
          PROVE  e <= acct'[u].epoch
      <4>1. e \in Nat /\ e <= acct[u].epoch
        BY <1>1, <1>2, <3>1, <3>2 DEF EpochsOut
      <4> QED BY <1>2, <2>3, <4>1
    <3> QED BY <3>2 DEF EpochsOut
  <2>5. CASE UNCHANGED jwt
    <3>1. ASSUME NEW u \in User, NEW e \in jwt[u]
          PROVE  e <= acct'[u].epoch
      <4>1. e \in Nat /\ e <= acct[u].epoch
        BY <1>1, <1>2, <3>1 DEF EpochsOut
      <4> QED BY <1>2, <2>3, <4>1
    <3> QED BY <2>5, <3>1 DEF EpochsOut
  <2> QED BY <2>1, <2>4, <2>5
<1>5. CASE Aside
  <2>1. acct' = acct
    BY <1>5 DEF Aside
  <2>2. CASE jwt' = jwt
    BY <1>1, <2>1, <2>2 DEF EpochsOut
  <2>3. ASSUME NEW u \in User, jwt' = [jwt EXCEPT ![u] = @ \cup {acct[u].epoch}]
        PROVE  EpochsOut'
    <3>1. ASSUME NEW q \in User, NEW e \in jwt'[q]
          PROVE  e <= acct[q].epoch
      BY <1>1, <1>2, <2>3, <3>1 DEF EpochsOut
    <3> QED BY <2>1, <3>1 DEF EpochsOut
  <2> QED BY <1>5, <2>2, <2>3 DEF Aside
<1> QED BY <1>3, <1>4, <1>5, OtherSteps

\* Free rows stay free, and a parked token belongs to an account that says so.
LEMMA ParkedKept ==
    ASSUME IInv, [Next]_vars
    PROVE  FreeRows' /\ ParkedIsRemembered'
<1>1. /\ FreeRows /\ ParkedIsRemembered
      /\ tok \in [Token -> TokenRow] /\ acct \in [User -> AccountRow]
  BY DEF IInv, TypeOK
<1>2. CASE UNCHANGED <<acct, tok>>
  BY <1>1, <1>2 DEF FreeRows, ParkedIsRemembered
<1>3. ASSUME NEW w \in Worker, Answer(w), Effect(job[w])
      PROVE  FreeRows' /\ ParkedIsRemembered'
  <2> DEFINE j == job[w]
  <2>1. j.on \in User /\ j.on # NoUser
    BY <1>3, AnswerStep, Parameters DEF Job
  <2>2. PICK account \in AccountRow : acct' = [acct EXCEPT ![j.on] = account] /\ AccountEffect(j, account)
    BY <1>3 DEF Effect
  <2>3. /\ tok' \in [Token -> TokenRow] /\ \A t \in Token : TokenEffect(j, t)
        /\ Restoring(j) => \A t \in Token : tok[t].of = j.on /\ tok[t].deleted = FALSE => tok'[t].auto = FALSE
    BY <1>3 DEF Effect
  <2>4. ASSUME NEW t \in Token, tok'[t].auto
        PROVE  tok'[t].of \in User /\ (~tok'[t].deleted => acct'[tok'[t].of].parked)
    <3>1. tok[t] \in TokenRow /\ tok'[t] \in TokenRow
      BY <1>1, <2>3
    <3>2. tok'[t].auto = TRUE
      BY <2>4, <3>1 DEF TokenRow
    <3>3. tok'[t] = tok[t] \/ (j.op \in Out /\ tok'[t].of = j.on)
      BY <2>3, <3>2 DEF TokenEffect
    <3>4. CASE tok'[t] = tok[t]
      <4>1. tok[t].of \in User
        BY <1>1, <2>4, <3>1, <3>4 DEF FreeRows, TokenRow
      <4>2. CASE tok[t].of # j.on
        BY <1>1, <2>2, <2>4, <3>4, <4>1, <4>2 DEF ParkedIsRemembered
      <4>3. CASE tok[t].of = j.on
        <5>1. SUFFICES ASSUME ~tok[t].deleted PROVE account.parked = TRUE
          BY <1>1, <2>1, <2>2, <3>4, <4>1, <4>3
        <5>2. acct[j.on].parked
          BY <1>1, <2>4, <3>4, <4>3, <5>1 DEF ParkedIsRemembered
        <5>3. tok[t].deleted = FALSE
          BY <3>1, <5>1 DEF TokenRow
        <5>4. ~Restoring(j)
          BY <2>3, <3>2, <3>4, <4>3, <5>3
        <5>5. acct[j.on].parked # FALSE
          BY <5>2
        <5> QED BY <2>2, <5>4, <5>5 DEF AccountEffect, AccountRow
      <4> QED BY <4>2, <4>3
    <3>5. CASE j.op \in Out /\ tok'[t].of = j.on
      <4>1. account.parked = TRUE
        BY <2>2, <3>5 DEF AccountEffect
      <4> QED BY <1>1, <2>1, <2>2, <3>5, <4>1
    <3> QED BY <3>3, <3>4, <3>5
  <2> QED BY <2>4, Parameters DEF FreeRows, ParkedIsRemembered
<1>4. ASSUME NEW w \in Worker, Answer(w)
      PROVE  FreeRows' /\ ParkedIsRemembered'
  BY <1>2, <1>3, <1>4, AnswerStep
<1>5. ASSUME NEW w \in Worker, Begin(w)
      PROVE  UNCHANGED <<acct, tok>>
  BY <1>5, BeginStep
<1> QED BY <1>2, <1>4, <1>5, OtherSteps DEF Aside

\* Without a second request about the account, what a login leaves of the automatic rows
\* is what its mappings granted; with foreign keys, of groups that are there.
LEMMA LoginSyncs ==
    ASSUME NEW now \in [Group -> Source], NEW seen \in [Group -> Source], NEW desired \in SUBSET Group,
           \A g \in Group : now[g] \in {seen[g], "none"},
           ~Clashes(now, seen, desired),
           \A g \in Group : enforced /\ g \notin there => now[g] = "none"
    PROVE  \A g \in Group : /\ Synced(now, seen, desired)[g] = "auto" => g \in desired
                            /\ enforced /\ g \notin there => Synced(now, seen, desired)[g] = "none"
BY DEF Synced, Clashes, Added, Dropped, Source

\* No membership outlives its reason.
LEMMA ReasonsKept ==
    ASSUME IInv, MembershipsHaveAReason, [Next]_vars
    PROVE  MembershipsHaveAReason'
<1>1. TypeOK /\ MembershipsHaveAReason /\ JobsCurrent
  BY DEF IInv
<1>2. CASE UNCHANGED <<member, observer, granted, enforced, there>>
  BY <1>1, <1>2 DEF MembershipsHaveAReason
<1>3. ASSUME NEW w \in Worker, Begin(w)
      PROVE  UNCHANGED <<member, observer, granted, enforced, there>>
  BY <1>3, BeginStep
<1>4. ASSUME NEW w \in Worker, LoginWrites(w)
      PROVE  MembershipsHaveAReason'
  <2> DEFINE j == job[w]
             m == Synced(member[j.on], j.member, j.more.member)
             o == Synced(observer[j.on], j.observer, j.more.observer)
  <2>1. j \in Job /\ j.op = "login" /\ j.more \in Findings
    BY <1>4, LoginEffect
  <2>2. j # Idle
    BY <2>1 DEF Idle
  <2>3. /\ j.on \in User
        /\ j.member \in [Group -> Source] /\ j.observer \in [Group -> Source]
        /\ j.more.member \in SUBSET Group /\ j.more.observer \in SUBSET Group
        /\ member[j.on] \in [Group -> Source] /\ observer[j.on] \in [Group -> Source]
    BY <1>1, <2>1 DEF Job, Findings, TypeOK
  <2>4. \A g \in Group : /\ member[j.on][g] \in {j.member[g], "none"}
                         /\ observer[j.on][g] \in {j.observer[g], "none"}
    BY <1>1, <2>2 DEF JobsCurrent, Current
  <2>5. ~Clashes(member[j.on], j.member, j.more.member) /\ ~Clashes(observer[j.on], j.observer, j.more.observer)
    BY <1>4 DEF LoginWrites, LoginClashes
  <2>6. \A g \in Group : enforced /\ g \notin there => member[j.on][g] = "none" /\ observer[j.on][g] = "none"
    BY <1>1, <2>3 DEF MembershipsHaveAReason
  <2>7. \A g \in Group : (m[g] = "auto" => g \in j.more.member) /\ (enforced /\ g \notin there => m[g] = "none")
    BY <2>3, <2>4, <2>5, <2>6, LoginSyncs
  <2>8. \A g \in Group : (o[g] = "auto" => g \in j.more.observer) /\ (enforced /\ g \notin there => o[g] = "none")
    BY <2>3, <2>4, <2>5, <2>6, LoginSyncs
  <2>9. /\ member' = [member EXCEPT ![j.on] = m] /\ observer' = [observer EXCEPT ![j.on] = o]
        /\ granted' = [granted EXCEPT ![j.on] = j.more.member \cup j.more.observer]
        /\ UNCHANGED <<enforced, there>>
    BY <1>4 DEF LoginWrites, groups
  <2> HIDE DEF m, o, j
  <2> QED BY <1>1, <2>3, <2>7, <2>8, <2>9 DEF MembershipsHaveAReason, TypeOK
<1>5. ASSUME NEW w \in Worker, Answer(w)
      PROVE  MembershipsHaveAReason'
  BY <1>2, <1>4, <1>5, AnswerStep
<1>6. CASE Aside
  BY <1>1, <1>6 DEF Aside, MembershipsHaveAReason, TypeOK
<1> QED BY <1>2, <1>3, <1>5, <1>6, OtherSteps

\* The initial states satisfy the invariants.
LEMMA Inits == Init => IInv /\ MembershipsHaveAReason
<1> SUFFICES ASSUME Init PROVE IInv /\ MembershipsHaveAReason
  OBVIOUS
<1>1. TypeOK
  <2>1. \A u \in User : [role |-> FirstRoles[u], enabled |-> TRUE, epoch |-> 0, parked |-> FALSE] \in AccountRow
    BY AccessConstants DEF AccountRow
  <2>2. \A t \in Token : [of |-> FirstTokens[t], enabled |-> FirstTokens[t] # NoUser, auto |-> FALSE,
                          deleted |-> FALSE] \in TokenRow
    BY AccessConstants DEF TokenRow
  <2>3. member \in [User -> [Group -> Source]]
    BY DEF Init
  <2>4. observer \in [User -> [Group -> Source]]
    BY DEF Init, Source
  <2>5. jwt \in [User -> SUBSET Nat] /\ granted \in [User -> SUBSET Group] /\ there = Group
    BY DEF Init
  <2>6. acct \in [User -> AccountRow] /\ tok \in [Token -> TokenRow]
    BY <2>1, <2>2 DEF Init
  <2>7. job \in [Worker -> Job \cup {Idle}]
    BY DEF Init
  <2> QED BY <2>3, <2>4, <2>5, <2>6, <2>7 DEF TypeOK
<1>2. JobsFit /\ JobsCurrent /\ Reserved
  BY DEF Init, JobsFit, JobsCurrent, Reserved, Idle
<1>3. EpochsOut /\ FreeRows /\ ParkedIsRemembered
  <2>1. \A u \in User : acct[u].epoch = 0 /\ jwt[u] \subseteq {0}
    BY DEF Init
  <2>2. \A t \in Token : tok[t].auto = FALSE
    BY DEF Init
  <2> QED BY <2>1, <2>2 DEF EpochsOut, FreeRows, ParkedIsRemembered
<1>4. MembershipsHaveAReason
  <2>1. \A u \in User, g \in Group : member[u][g] \in {"none", "manual"} /\ observer[u][g] \in {"none", "manual"}
    BY DEF Init
  <2>2. there = Group
    BY DEF Init
  <2> QED BY <2>1, <2>2 DEF MembershipsHaveAReason
<1> QED BY <1>1, <1>2, <1>3, <1>4 DEF IInv

\* The inductive invariant holds as long as no two requests are about one account.
THEOREM Always == Spec /\ []OneAtATime => []IInv
<1>1. Init => IInv
  BY Inits
<1>2. IInv /\ OneAtATime /\ [Next]_vars => IInv'
  BY TypeKept, FitKept, CurrentKept, EpochsKept, ParkedKept DEF IInv
<1> QED BY <1>1, <1>2, PTL DEF Spec

-----------------------------------------------------------------------------
(* What follows.                                                            *)

\* One request at a time, whomever it is about, is a special case.
THEOREM AloneIsEnough ==
    ASSUME \A v, w \in Worker : v = w
    PROVE  Spec => []OneAtATime
<1>1. OneAtATime
  BY DEF OneAtATime
<1> QED BY <1>1, PTL

\* No automatic row outlives its mapping past the next login, and no parked token is
\* forgotten; where foreign keys are enforced, no row outlives its group either
\* (sync_auto_memberships, sync_auto_adminships, _auto_disable_tokens,
\* restore_auto_disabled_tokens).
THEOREM NothingIsLeft == Spec /\ []OneAtATime => []NothingLeftBehind
<1>1. Init => MembershipsHaveAReason
  BY Inits
<1>2. IInv /\ MembershipsHaveAReason /\ [Next]_vars => MembershipsHaveAReason'
  BY ReasonsKept
<1>3. IInv /\ MembershipsHaveAReason => NothingLeftBehind
  BY DEF IInv, NothingLeftBehind
<1> QED BY <1>1, <1>2, <1>3, Always, PTL DEF Spec

\* Once a disabling or a forced logout is written, no session of the account is
\* accepted (update_user, force_logout_user, get_current_user).
THEOREM SessionsAreOver == Spec /\ []OneAtATime => SessionsEnd
<1> DEFINE Step == \A w \in Worker : job[w].op \in {"disable", "logout"} /\ job'[w] = Idle
                     => \A u \in User : u = job[w].on => ~SignedIn(u)'
<1>1. IInv /\ [Next]_vars => Step
  <2> SUFFICES ASSUME IInv, [Next]_vars, NEW w \in Worker, job[w].op \in Out, job'[w] = Idle,
                      NEW u \in User, u = job[w].on
               PROVE  ~SignedIn(u)'
    BY DEF Out
  <2> DEFINE j == job[w]
  <2>1. /\ TypeOK /\ EpochsOut /\ job \in [Worker -> Job \cup {Idle}] /\ j # Idle
        /\ acct \in [User -> AccountRow] /\ jwt \in [User -> SUBSET Nat]
    BY DEF IInv, TypeOK, Out, Idle
  <2>2. Answer(w)
    <3>1. ASSUME NEW v \in Worker, Begin(v)
          PROVE  FALSE
      BY <2>1, <3>1, BeginStep
    <3>2. ASSUME NEW v \in Worker, Answer(v), v # w
          PROVE  FALSE
      BY <2>1, <3>2, AnswerStep
    <3>3. ~Aside
      BY <2>1 DEF Aside
    <3> QED BY <3>1, <3>2, <3>3, OtherSteps
  <2>3. Effect(j)
    BY <2>2, AnswerStep
  <2>4. PICK account \in AccountRow : acct' = [acct EXCEPT ![u] = account] /\ AccountEffect(j, account)
    BY <2>3 DEF Effect
  <2>5. acct'[u].epoch = acct[u].epoch + 1 /\ acct[u].epoch \in Nat
    BY <2>1, <2>4, Parameters DEF AccountEffect, AccountRow
  <2>6. jwt' = jwt
    BY <2>2, AnswerStep DEF LoginWrites, Out
  <2>7. acct[u].epoch + 1 \notin jwt[u]
    BY <2>1, <2>5 DEF EpochsOut
  <2> QED BY <2>5, <2>6, <2>7 DEF SignedIn
<1>2. IInv /\ [Next]_vars => [Step]_vars
  BY <1>1
<1> QED BY <1>2, Always, PTL DEF Spec, SessionsEnd

\* A token is switched on again by who asks for it or, when it was parked, by the
\* login of its user (restore_auto_disabled_tokens).
THEOREM ParkedComeBack == Spec /\ []OneAtATime => TokensComeBack
<1> DEFINE Step == \A t \in Token : ~tok[t].enabled /\ tok'[t].enabled
                     => \E w \in Worker :
                           /\ job[w].op # "idle" /\ job'[w] = Idle
                           /\ \/ job[w].op \in {"create", "on"} /\ job[w].t = t
                              \/ job[w].op = "login" /\ tok[t].auto
<1>1. IInv /\ [Next]_vars => Step
  <2> SUFFICES ASSUME IInv, [Next]_vars, NEW t \in Token, ~tok[t].enabled, tok'[t].enabled
               PROVE  \E w \in Worker :
                         /\ job[w].op # "idle" /\ job'[w] = Idle
                         /\ \/ job[w].op \in {"create", "on"} /\ job[w].t = t
                            \/ job[w].op = "login" /\ tok[t].auto
    OBVIOUS
  <2>1. TypeOK /\ TypeOK' /\ tok[t] # tok'[t]
    BY TypeKept DEF IInv
  <2>2. PICK w \in Worker : Answer(w)
    BY <2>1, OtherSteps, BeginStep DEF Aside
  <2> DEFINE j == job[w]
  <2>3. j \in Job /\ j # Idle /\ job' = [job EXCEPT ![w] = Idle] /\ Effect(j)
    BY <2>1, <2>2, AnswerStep
  <2>4. tok'[t].enabled = TRUE
    BY <2>1 DEF TypeOK, TokenRow
  <2>5. /\ j.op \in {"create", "login"} \cup Change
        /\ \/ j.op \in {"create", "on"} /\ j.t = t
           \/ j.op = "login" /\ tok[t].auto
    BY <2>1, <2>3, <2>4 DEF Effect, TokenEffect, Change
  <2>6. j.op # "idle"
    BY <2>5 DEF Change
  <2>7. job'[w] = Idle
    BY <2>1, <2>3 DEF TypeOK
  <2> QED BY <2>5, <2>6, <2>7
<1>2. IInv /\ [Next]_vars => [Step]_vars
  BY <1>1
<1> QED BY <1>2, Always, PTL DEF Spec, TokensComeBack
=============================================================================
