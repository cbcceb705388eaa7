--------------------------- MODULE Accounts_proofs ---------------------------
(***************************************************************************)
(* For any number of visitors, addresses and accounts: types, one account  *)
(* per address, and no entry into the dashboard without an account that    *)
(* existed when the layout began to ask.                                   *)
(*                                                                         *)
(* The entry's argument: a session belongs to a row, rows never come back, *)
(* and a browser whose page is on its way has no form that could bring it  *)
(* another session. So the account of a token that is checked existed when *)
(* the check began, or is gone and not known.                              *)
(***************************************************************************)
EXTENDS Accounts, SequenceTheorems, TLAPS

-----------------------------------------------------------------------------
(* The rows.                                                               *)

\* A row more.
LEMMA AppendRow ==
  ASSUME accounts \in Seq(Rows), NEW e \in Emails
  PROVE  LET more == Append(accounts, Row(e)) IN
         /\ more \in Seq(Rows)
         /\ Len(more) = Len(accounts) + 1
         /\ \A n \in DOMAIN accounts : more[n] = accounts[n]
         /\ more[Len(accounts) + 1] = Row(e)
         /\ DOMAIN more = DOMAIN accounts \cup {Len(accounts) + 1}
BY DEF Row, Rows

\* A row that goes.
LEMMA DeleteRow ==
  ASSUME accounts \in Seq(Rows), NEW n \in DOMAIN accounts
  PROVE  LET left == [accounts EXCEPT ![n].gone = TRUE] IN
         /\ left \in Seq(Rows)
         /\ Len(left) = Len(accounts)
         /\ DOMAIN left = DOMAIN accounts
         /\ \A m \in DOMAIN accounts : /\ left[m].email = accounts[m].email
                                       /\ accounts[m].gone => left[m].gone
<1>. DEFINE row == [accounts[n] EXCEPT !.gone = TRUE]
            left == [accounts EXCEPT ![n] = row]
<1>0. n \in 1..Len(accounts)
  OBVIOUS
<1>1. accounts[n] \in Rows
  BY <1>0, ElementOfSeq
<1>2. row \in Rows /\ row.email = accounts[n].email /\ row.gone = TRUE
  BY <1>1 DEF Rows
<1>3. [accounts EXCEPT ![n].gone = TRUE] = left
  OBVIOUS
<1>4. left \in Seq(Rows) /\ Len(left) = Len(accounts)
  BY <1>0, <1>2, ExceptSeq
<1>5. \A m \in DOMAIN accounts : left[m] = IF m = n THEN row ELSE accounts[m]
  OBVIOUS
<1>6. DOMAIN left = DOMAIN accounts
  OBVIOUS
<1>. QED  BY <1>2, <1>3, <1>4, <1>5, <1>6

-----------------------------------------------------------------------------
(* Types.                                                                  *)

\* A crash.
LEMMA CrashTypes ==
  ASSUME Crash
  PROVE  api' = "ended" /\ ready' = FALSE /\ job' \in [Browsers -> Jobs]
BY DEF Crash, Jobs

\* An answer that arrives or is lost.
LEMMA EnterTypes ==
  ASSUME TypeOK, NEW b \in Browsers, NEW sub \in Ids, Enter(b, sub)
  PROVE  /\ cookie' \in [Browsers -> [sub : Ids, good : BOOLEAN]]
         /\ page' \in [Browsers -> Pages]
         /\ job' \in [Browsers -> Jobs]
<1>1. Going("dashboard") \in Pages
  BY DEF Going, Pages, Places
<1>2. NoJob \in Jobs
  BY DEF Jobs
<1>3. [sub |-> sub, good |-> TRUE] \in [sub : Ids, good : BOOLEAN]
  OBVIOUS
<1>4. cookie' \in [Browsers -> [sub : Ids, good : BOOLEAN]]
  BY <1>3 DEF Enter, TypeOK
<1>5. page' \in [Browsers -> Pages]
  BY <1>1 DEF Enter, TypeOK
<1>6. job' \in [Browsers -> Jobs]
  BY <1>2 DEF Enter, TypeOK
<1>. QED  BY <1>4, <1>5, <1>6

\* Rows come and go, and never come back.
RowsGrow ==
  /\ DOMAIN accounts \subseteq DOMAIN accounts'
  /\ \A n \in DOMAIN accounts : accounts[n].gone => accounts'[n].gone

LEMMA StepGrows ==
  ASSUME accounts \in Seq(Rows), [Next]_vars
  PROVE  RowsGrow
<1>1. CASE accounts' = accounts
  BY <1>1 DEF RowsGrow
<1>2. ASSUME NEW row, accounts' = Append(accounts, row)
      PROVE  RowsGrow
  BY <1>2 DEF RowsGrow
<1>3. ASSUME NEW n \in DOMAIN accounts, Delete(n)
      PROVE  RowsGrow
  BY <1>3, DeleteRow DEF Delete, RowsGrow
<1>4. CASE Boot
  BY <1>1, <1>2, <1>4 DEF Boot, SeedDemoUser
<1>5. ASSUME NEW b, CreateUser(b)
      PROVE  RowsGrow
  BY <1>1, <1>2, <1>5 DEF CreateUser
<1>. QED
  BY <1>1, <1>3, <1>4, <1>5
     DEF Next, vars, Outage, SignUp, SignIn, Compare, SignOut, ReadHistory, Visit, Middleware,
         Me, Arrive, Expire

LEMMA StepTypes ==
  ASSUME TypeOK, [Next]_vars
  PROVE  TypeOK'
<1>0. /\ \A p \in Places : Going(p) \in Pages /\ Shown(p) \in Pages
      /\ "signin" \in Places /\ "dashboard" \in Places
      /\ NoJob \in Jobs
  BY DEF Going, Shown, Pages, Places, Jobs
<1>16. existed \in [Browsers -> SUBSET DOMAIN accounts'] /\ DOMAIN accounts \subseteq DOMAIN accounts'
  <2>1. DOMAIN accounts \subseteq DOMAIN accounts'
    BY StepGrows DEF TypeOK, RowsGrow
  <2>. QED  BY <2>1 DEF TypeOK
<1>1. CASE Boot
  <2>1. CASE accounts' = accounts
    BY <1>1, <2>1 DEF Boot, InitPersistence, SeedDemoUser, TypeOK
  <2>2. CASE Len(accounts) < MaxAccounts /\ accounts' = Append(accounts, Row(Demo))
    BY <1>1, <2>2, AppendRow, AccountsAssumption, SMT DEF Boot, InitPersistence, SeedDemoUser, TypeOK
  <2>. QED  BY <1>1, <2>1, <2>2 DEF Boot, InitPersistence, SeedDemoUser
<1>2. CASE Outage
  BY <1>2 DEF Outage, TypeOK
<1>3. ASSUME NEW n \in DOMAIN accounts, Delete(n)
      PROVE  TypeOK'
  BY <1>3, DeleteRow DEF Delete, TypeOK
<1>4. ASSUME NEW b \in Browsers, NEW e \in Emails, SignUp(b, e)
      PROVE  TypeOK'
  <2>1. [pc |-> "hashing", email |-> e] \in Jobs
    BY DEF Jobs
  <2>. QED  BY <1>4, <2>1, SMT DEF SignUp, TypeOK
<1>5. ASSUME NEW b \in Browsers, NEW e \in Emails, SignIn(b, e)
      PROVE  TypeOK'
  <2>1. CASE ~database
    BY <1>5, <2>1, CrashTypes, SMT DEF SignIn, TypeOK
  <2>2. CASE database
    <3>1. PICK sub \in Holder(e) \cup {0} : job' = [job EXCEPT ![b] = [pc |-> "comparing", sub |-> sub]]
      BY <1>5, <2>2 DEF SignIn
    <3>2. sub \in Ids
      BY <3>1, AccountsAssumption, SMT DEF Holder, Ids, TypeOK
    <3>3. [pc |-> "comparing", sub |-> sub] \in Jobs
      BY <3>2 DEF Jobs
    <3>. QED  BY <1>5, <2>2, <3>1, <3>3, SMT DEF SignIn, TypeOK
  <2>. QED  BY <2>1, <2>2
<1>6. ASSUME NEW b \in Browsers, CreateUser(b)
      PROVE  TypeOK'
  <2>1. CASE ~database
    BY <1>6, <2>1, CrashTypes, SMT DEF CreateUser, TypeOK
  <2>2. CASE database /\ ~MayInsert(job[b].email)
    BY <1>0, <1>6, <2>2, SMT DEF CreateUser, TypeOK
  <2>3. CASE database /\ MayInsert(job[b].email)
    <3>1. job[b].email \in Emails
      BY <1>6, SMT DEF CreateUser, TypeOK, Jobs, NoJob
    <3>2. /\ Len(accounts) < MaxAccounts
          /\ accounts' = Append(accounts, Row(job[b].email))
          /\ Enter(b, Len(accounts) + 1)
          /\ UNCHANGED <<api, ready, database>>
      BY <1>6, <2>3 DEF CreateUser
    <3>3. accounts \in Seq(Rows) /\ Len(accounts) \in Nat
      BY DEF TypeOK
    <3>4. Len(accounts) + 1 \in Ids
      BY <3>2, <3>3, AccountsAssumption DEF Ids
    <3>5. accounts' \in Seq(Rows) /\ Len(accounts') <= MaxAccounts
      BY <3>1, <3>2, <3>3, AppendRow, AccountsAssumption
    <3>6. /\ cookie' \in [Browsers -> [sub : Ids, good : BOOLEAN]]
          /\ page' \in [Browsers -> Pages] /\ job' \in [Browsers -> Jobs]
      BY <3>2, <3>4, EnterTypes
    <3>7. existed' \in [Browsers -> SUBSET DOMAIN accounts']
      BY <1>6, <1>16 DEF CreateUser
    <3>. QED  BY <3>2, <3>5, <3>6, <3>7 DEF TypeOK
  <2>. QED  BY <2>1, <2>2, <2>3
<1>7. ASSUME NEW b \in Browsers, Compare(b)
      PROVE  TypeOK'
  <2>1. job[b].sub \in Ids
    BY <1>7, SMT DEF Compare, TypeOK, Jobs, NoJob
  <2>2. CASE Enter(b, job[b].sub)
    BY <1>7, <2>1, <2>2, EnterTypes DEF Compare, TypeOK
  <2>3. CASE job' = [job EXCEPT ![b] = NoJob] /\ UNCHANGED <<cookie, page>>
    BY <1>0, <1>7, <2>3, SMT DEF Compare, TypeOK
  <2>. QED  BY <1>7, <2>2, <2>3 DEF Compare
<1>8. ASSUME NEW b \in Browsers, SignOut(b)
      PROVE  TypeOK'
  <2>1. NoToken \in [sub : Ids, good : BOOLEAN]
    BY AccountsAssumption DEF NoToken, Ids
  <2>. QED  BY <1>0, <1>8, <2>1, SMT DEF SignOut, TypeOK
<1>9. ASSUME NEW b \in Browsers, ReadHistory(b)
      PROVE  TypeOK'
  BY <1>9, CrashTypes, SMT DEF ReadHistory, TypeOK
<1>10. ASSUME NEW b \in Browsers, NEW place \in Places, Visit(b, place)
       PROVE  TypeOK'
  BY <1>0, <1>10, SMT DEF Visit, TypeOK
<1>11. ASSUME NEW b \in Browsers, Middleware(b)
       PROVE  TypeOK'
  <2>1. page[b] \in Pages /\ page[b].at \in Places /\ page[b].step = "going"
    BY <1>11 DEF Middleware, TypeOK, Pages
  <2>2. [page EXCEPT ![b].step = "checking"] \in [Browsers -> Pages]
    BY <2>1, SMT DEF TypeOK, Pages
  <2>3. page' \in [Browsers -> Pages]
    <3>1. PICK p \in Pages : page' = [page EXCEPT ![b] = p] \/ page' = [page EXCEPT ![b].step = "checking"]
      BY <1>0, <1>11, <2>1 DEF Middleware
    <3>. QED  BY <2>2, <3>1 DEF TypeOK
  <2>4. existed' \in [Browsers -> SUBSET DOMAIN accounts]
    <3>. DEFINE there == {n \in DOMAIN accounts : ~accounts[n].gone}
    <3>1. there \in SUBSET DOMAIN accounts
      OBVIOUS
    <3>2. existed' \in {existed, [existed EXCEPT ![b] = there]}
      BY <1>11 DEF Middleware
    <3>. HIDE DEF there
    <3>. QED  BY <3>1, <3>2 DEF TypeOK
  <2>. QED  BY <1>11, <2>3, <2>4 DEF Middleware, TypeOK
<1>12. ASSUME NEW b \in Browsers, Me(b)
       PROVE  TypeOK'
  <2>1. page[b].at \in Places /\ cookie[b].sub \in Ids /\ 0 \in Ids
    BY AccountsAssumption DEF TypeOK, Pages, Ids
  <2>2. PICK user \in Ids, clears \in BOOLEAN :
          page' = [page EXCEPT ![b] = Answered(page[b].at, user, clears)]
    BY <1>12, <2>1 DEF Me
  <2>3. Answered(page[b].at, user, clears) \in Pages
    BY <2>1 DEF Answered, Pages
  <2>4. page' \in [Browsers -> Pages]
    BY <2>2, <2>3 DEF TypeOK
  <2>5. api' \in {"off", "up", "ended"} /\ ready' \in BOOLEAN /\ job' \in [Browsers -> Jobs]
    <3>1. CASE UNCHANGED <<api, ready, job>>
      BY <3>1 DEF TypeOK
    <3>2. CASE Crash
      BY <3>2, CrashTypes
    <3>. QED  BY <1>12, <3>1, <3>2 DEF Me
  <2>. QED  BY <1>12, <2>4, <2>5 DEF Me, TypeOK
<1>15. ASSUME NEW b \in Browsers, Arrive(b)
       PROVE  TypeOK'
  <2>1. NoToken \in [sub : Ids, good : BOOLEAN] /\ page[b].at \in Places
    BY AccountsAssumption DEF NoToken, Ids, TypeOK, Pages
  <2>2. cookie' \in [Browsers -> [sub : Ids, good : BOOLEAN]]
    <3>1. cookie' \in {cookie, [cookie EXCEPT ![b] = NoToken]}
      BY <1>15 DEF Arrive
    <3>. QED  BY <2>1, <3>1, SMT DEF TypeOK
  <2>3. page' \in [Browsers -> Pages]
    <3>1. PICK p \in Pages : page' = [page EXCEPT ![b] = p]
      BY <1>0, <1>15, <2>1 DEF Arrive, Dashboard, GuestPage
    <3>. QED  BY <3>1 DEF TypeOK
  <2>4. existed' \in [Browsers -> SUBSET DOMAIN accounts]
    BY <1>15 DEF Arrive, TypeOK
  <2>. QED  BY <1>15, <2>2, <2>3, <2>4 DEF Arrive, TypeOK
<1>13. ASSUME NEW b \in Browsers, Expire(b)
       PROVE  TypeOK'
  <2>1. NoToken \in [sub : Ids, good : BOOLEAN]
    BY AccountsAssumption DEF NoToken, Ids
  <2>2. cookie[b] \in [sub : Ids, good : BOOLEAN]
    BY DEF TypeOK
  <2>. DEFINE token == [cookie[b] EXCEPT !.good = FALSE]
  <2>3. [cookie EXCEPT ![b].good = FALSE] \in [Browsers -> [sub : Ids, good : BOOLEAN]]
    <3>1. token \in [sub : Ids, good : BOOLEAN]
      BY <2>2
    <3>2. [cookie EXCEPT ![b].good = FALSE] = [cookie EXCEPT ![b] = token]
      OBVIOUS
    <3>. QED  BY <3>1, <3>2 DEF TypeOK
  <2>4. [cookie EXCEPT ![b] = NoToken] \in [Browsers -> [sub : Ids, good : BOOLEAN]]
    BY <2>1, SMT DEF TypeOK
  <2>. QED  BY <1>13, <2>3, <2>4 DEF Expire, TypeOK
<1>14. CASE UNCHANGED vars
  BY <1>14 DEF vars, TypeOK
<1>. QED
  BY <1>1, <1>2, <1>3, <1>4, <1>5, <1>6, <1>7, <1>8, <1>9, <1>10, <1>11, <1>12, <1>13, <1>14, <1>15 DEF Next

LEMMA InitTypes ==
  ASSUME Init
  PROVE  TypeOK
<1>1. NoToken \in [sub : Ids, good : BOOLEAN] /\ Shown("signin") \in Pages /\ NoJob \in Jobs
  BY AccountsAssumption DEF NoToken, Ids, Shown, Pages, Places, Jobs
<1>2. << >> \in Seq(Rows) /\ Len(<< >>) = 0
  OBVIOUS
<1>3. accounts \in Seq(Rows) /\ Len(accounts) <= MaxAccounts
  BY <1>2, AccountsAssumption DEF Init
<1>5. api \in {"off", "up", "ended"} /\ database \in BOOLEAN /\ ready \in BOOLEAN
  BY Zenon DEF Init
<1>4. /\ cookie \in [Browsers -> [sub : Ids, good : BOOLEAN]]
      /\ page \in [Browsers -> Pages]
      /\ job \in [Browsers -> Jobs]
  BY <1>1, Zenon DEF Init
<1>6. existed \in [Browsers -> SUBSET DOMAIN accounts]
  BY DEF Init
<1>. QED  BY <1>3, <1>4, <1>5, <1>6 DEF TypeOK

\* The state stays within its types.
THEOREM TypesHold == Spec => []TypeOK
BY InitTypes, StepTypes, PTL DEF Spec

-----------------------------------------------------------------------------
(* One account per address.                                                *)

\* Rows appear when their address is free, and otherwise keep it or go.
LEMMA StepDistinct ==
  ASSUME TypeOK, AccountsAreDistinct, [Next]_vars
  PROVE  AccountsAreDistinct'
<1>0. accounts \in Seq(Rows)
  BY DEF TypeOK
<1>1. ASSUME NEW e \in Emails, Holder(e) = {}, accounts' = Append(accounts, Row(e))
      PROVE  AccountsAreDistinct'
  <2>1. SUFFICES ASSUME NEW n \in DOMAIN accounts', NEW m \in DOMAIN accounts',
                        accounts'[n].email = accounts'[m].email,
                        ~accounts'[n].gone, ~accounts'[m].gone
                 PROVE  n = m
    BY DEF AccountsAreDistinct
  <2>. DEFINE top == Len(accounts) + 1
  <2>2. /\ DOMAIN accounts' = DOMAIN accounts \cup {top}
        /\ accounts'[top].email = e
        /\ \A k \in DOMAIN accounts : accounts'[k] = accounts[k]
    BY <1>0, <1>1, AppendRow DEF Row
  <2>3. \A k \in DOMAIN accounts : accounts[k].email = e => accounts[k].gone
    BY <1>1 DEF Holder
  <2>. QED  BY <2>1, <2>2, <2>3 DEF AccountsAreDistinct
<1>2. ASSUME NEW n \in DOMAIN accounts, Delete(n)
      PROVE  AccountsAreDistinct'
  <2>1. /\ DOMAIN accounts' = DOMAIN accounts
        /\ \A m \in DOMAIN accounts : /\ accounts'[m].email = accounts[m].email
                                      /\ accounts[m].gone => accounts'[m].gone
    BY <1>0, <1>2, DeleteRow DEF Delete
  <2>. QED  BY <2>1 DEF AccountsAreDistinct
<1>3. CASE accounts' = accounts
  BY <1>3 DEF AccountsAreDistinct
<1>4. CASE Boot
  <2>1. CASE Holder(Demo) = {} /\ accounts' = Append(accounts, Row(Demo))
    BY <1>1, <2>1, AccountsAssumption
  <2>. QED  BY <1>3, <1>4, <2>1 DEF Boot, SeedDemoUser
<1>5. ASSUME NEW b \in Browsers, CreateUser(b)
      PROVE  AccountsAreDistinct'
  <2>1. job[b].email \in Emails
    BY <1>5, SMT DEF CreateUser, TypeOK, Jobs, NoJob
  <2>2. CASE accounts' = accounts
    BY <1>3, <2>2
  <2>3. CASE MayInsert(job[b].email) /\ accounts' = Append(accounts, Row(job[b].email))
    BY <1>1, <2>1, <2>3 DEF MayInsert
  <2>. QED  BY <1>5, <2>2, <2>3 DEF CreateUser
<1>. QED
  BY <1>2, <1>3, <1>4, <1>5
     DEF Next, vars, Outage, SignUp, SignIn, Compare, SignOut, ReadHistory, Visit,
         Middleware, Me, Arrive, Expire

\* However many sign-ups and boots interleave, an address has one account.
THEOREM DistinctHolds == Spec => []AccountsAreDistinct
<1>1. Init => AccountsAreDistinct
  BY DEF Init, AccountsAreDistinct
<1>. QED  BY <1>1, InitTypes, StepTypes, StepDistinct, PTL DEF Spec

-----------------------------------------------------------------------------
(* Entry.                                                                  *)

\* A visitor's session and what a check may make of it.
Follows(b) ==
  /\ cookie[b].sub \in DOMAIN accounts \cup {0}
  /\ job[b].pc = "comparing" => job[b].sub \in DOMAIN accounts \cup {0}
  /\ job[b] # NoJob => page[b] \in {Shown("signin"), Shown("signup")}
  /\ page[b].step = "checking" =>
       cookie[b].sub \in existed[b] \cup {0} \/ accounts[cookie[b].sub].gone
  /\ page[b].step = "answered" => page[b].user \in existed[b] \cup {0}

EntryInv == TypeOK /\ \A b \in Browsers : Follows(b)

\* What other visitors, the process and the rows do.
LEMMA FollowsSame ==
  ASSUME NEW b \in Browsers, Follows(b), RowsGrow,
         cookie'[b] = cookie[b], page'[b] = page[b], existed'[b] = existed[b],
         job'[b] = job[b] \/ job'[b] = NoJob
  PROVE  Follows(b)'
BY DEF Follows, RowsGrow, NoJob

\* A page that is on its way, or shown, without a form under way.
LEMMA FollowsElsewhere ==
  ASSUME NEW b \in Browsers, Follows(b), RowsGrow, job'[b] = NoJob,
         cookie'[b].sub \in DOMAIN accounts' \cup {0}, page'[b].step \in {"going", "shown"}
  PROVE  Follows(b)'
BY DEF Follows, NoJob

LEMMA OthersSame ==
  ASSUME TypeOK, NEW b, NEW c \in Browsers, c # b,
         \E v : cookie' = [cookie EXCEPT ![b] = v] \/ cookie' = cookie,
         \E v : page' = [page EXCEPT ![b] = v] \/ page' = page,
         \E v : existed' = [existed EXCEPT ![b] = v] \/ existed' = existed,
         (\E v : job' = [job EXCEPT ![b] = v] \/ job' = job) \/ Crash,
         Follows(c), RowsGrow
  PROVE  Follows(c)'
<1>1. cookie'[c] = cookie[c] /\ page'[c] = page[c] /\ existed'[c] = existed[c]
  BY DEF TypeOK
<1>2. job'[c] = job[c] \/ job'[c] = NoJob
  BY DEF TypeOK, Crash
<1>. QED  BY <1>1, <1>2, FollowsSame

\* A form's answer that arrives, or is lost.
LEMMA EnterFollows ==
  ASSUME TypeOK, NEW b \in Browsers, NEW sub, Enter(b, sub), sub \in DOMAIN accounts',
         job[b] # NoJob, Follows(b), RowsGrow, existed' = existed
  PROVE  Follows(b)'
<1>1. job'[b] = NoJob
  BY DEF Enter, TypeOK
<1>2. CASE UNCHANGED <<cookie, page>>
  BY <1>1, <1>2, FollowsSame
<1>3. CASE /\ cookie' = [cookie EXCEPT ![b] = [sub |-> sub, good |-> TRUE]]
           /\ page' = [page EXCEPT ![b] = Going("dashboard")]
  <2>1. cookie'[b].sub = sub /\ page'[b].step = "going"
    BY <1>3 DEF TypeOK, Going
  <2>. QED  BY <1>1, <2>1, FollowsElsewhere
<1>. QED  BY <1>2, <1>3 DEF Enter

\* The forms.
LEMMA FormFollows ==
  ASSUME EntryInv, RowsGrow, NEW b \in Browsers, NEW e \in Emails,
         SignUp(b, e) \/ SignIn(b, e) \/ CreateUser(b) \/ Compare(b)
  PROVE  Follows(b)'
<1>0. TypeOK /\ Follows(b) /\ accounts \in Seq(Rows) /\ existed' = existed
  BY DEF EntryInv, TypeOK, SignUp, SignIn, CreateUser, Compare
<1>1. CASE Crash /\ UNCHANGED <<cookie, page>>
  <2>1. job'[b] = NoJob
    BY <1>1 DEF Crash
  <2>. QED  BY <1>0, <1>1, <2>1, FollowsSame
<1>2. CASE job' = [job EXCEPT ![b] = NoJob] /\ UNCHANGED <<cookie, page>>
  <2>1. job'[b] = NoJob
    BY <1>0, <1>2 DEF TypeOK
  <2>. QED  BY <1>0, <1>2, <2>1, FollowsSame
<1>3. CASE SignUp(b, e)
  <2>1. /\ job'[b].pc = "hashing" /\ page[b] = Shown("signup")
        /\ UNCHANGED <<cookie, page, accounts>>
    BY <1>0, <1>3 DEF SignUp, AtForm, TypeOK
  <2>. QED  BY <1>0, <2>1 DEF Follows, Shown
<1>4. CASE SignIn(b, e)
  <2>1. CASE database
    <3>1. PICK sub \in Holder(e) \cup {0} : job' = [job EXCEPT ![b] = [pc |-> "comparing", sub |-> sub]]
      BY <1>4, <2>1 DEF SignIn
    <3>2. /\ job'[b].pc = "comparing" /\ job'[b].sub \in DOMAIN accounts \cup {0}
          /\ page[b] = Shown("signin") /\ UNCHANGED <<cookie, page, accounts>>
      BY <1>0, <1>4, <3>1 DEF SignIn, AtForm, TypeOK, Holder
    <3>. QED  BY <1>0, <3>2 DEF Follows, Shown
  <2>2. CASE ~database
    BY <1>1, <1>4, <2>2 DEF SignIn
  <2>. QED  BY <2>1, <2>2
<1>5. CASE CreateUser(b)
  <2>1. CASE database /\ MayInsert(job[b].email)
    <3>1. accounts' = Append(accounts, Row(job[b].email)) /\ Enter(b, Len(accounts) + 1)
      BY <1>5, <2>1 DEF CreateUser
    <3>2. Len(accounts) + 1 \in DOMAIN accounts'
      BY <1>0, <3>1
    <3>3. job[b] # NoJob
      BY <1>5 DEF CreateUser, NoJob
    <3>. QED  BY <1>0, <3>1, <3>2, <3>3, EnterFollows
  <2>2. CASE ~(database /\ MayInsert(job[b].email))
    BY <1>1, <1>2, <1>5, <2>2 DEF CreateUser
  <2>. QED  BY <2>1, <2>2
<1>6. CASE Compare(b)
  <2>1. CASE job[b].sub # 0
    <3>1. Enter(b, job[b].sub) /\ accounts' = accounts /\ job[b] # NoJob
      BY <1>6, <2>1 DEF Compare, NoJob
    <3>2. job[b].sub \in DOMAIN accounts'
      BY <1>0, <1>6, <2>1, <3>1 DEF Compare, Follows
    <3>. QED  BY <1>0, <3>1, <3>2, EnterFollows
  <2>2. CASE job[b].sub = 0
    BY <1>2, <1>6, <2>2 DEF Compare
  <2>. QED  BY <2>1, <2>2
<1>. QED  BY <1>3, <1>4, <1>5, <1>6

\* The pages, and the cookie.
LEMMA PageFollows ==
  ASSUME EntryInv, RowsGrow, NEW b \in Browsers, NEW place \in Places,
         SignOut(b) \/ Visit(b, place) \/ Middleware(b) \/ Me(b) \/ Arrive(b) \/ Expire(b)
  PROVE  Follows(b)'
<1>0. TypeOK /\ Follows(b) /\ accounts' = accounts /\ cookie[b].sub \in DOMAIN accounts' \cup {0}
  BY DEF EntryInv, Follows, SignOut, Visit, Middleware, Me, Arrive, Expire
<1>1. job[b] # NoJob => page[b].step = "shown" /\ page[b] # Shown("dashboard")
  BY <1>0 DEF Follows, Shown
<1>2. \A p : Going(p).step = "going" /\ Shown(p).step = "shown"
  BY DEF Going, Shown
<1>3. NoToken.sub = 0
  BY DEF NoToken
<1>4. CASE SignOut(b)
  <2>1. job'[b] = NoJob /\ page'[b].step = "going" /\ cookie'[b] \in {cookie[b], NoToken}
    BY <1>0, <1>1, <1>2, <1>4 DEF SignOut, TypeOK
  <2>. QED  BY <1>0, <1>3, <2>1, FollowsElsewhere
<1>5. CASE Visit(b, place)
  <2>1. job'[b] = NoJob /\ page'[b].step = "going" /\ cookie' = cookie
    BY <1>0, <1>2, <1>5 DEF Visit, TypeOK
  <2>. QED  BY <1>0, <2>1, FollowsElsewhere
<1>6. CASE Middleware(b)
  <2>1. job'[b] = NoJob /\ cookie' = cookie
    BY <1>1, <1>6 DEF Middleware
  <2>2. CASE cookie[b] = NoToken
    <3>1. page'[b].step \in {"going", "shown"}
      BY <1>0, <1>2, <1>6, <2>2 DEF Middleware, TypeOK
    <3>. QED  BY <1>0, <2>1, <3>1, FollowsElsewhere
  <2>3. CASE cookie[b] # NoToken
    <3>1. page'[b].step = "checking"
      <4>1. page[b] \in Pages /\ page' = [page EXCEPT ![b].step = "checking"]
        BY <1>0, <1>6, <2>3 DEF Middleware, TypeOK
      <4>. QED  BY <1>0, <4>1 DEF TypeOK, Pages
    <3>2. existed'[b] = {n \in DOMAIN accounts : ~accounts[n].gone}
      BY <1>0, <1>6, <2>3 DEF Middleware, TypeOK
    <3>. QED  BY <1>0, <2>1, <3>1, <3>2 DEF Follows, NoJob
  <2>. QED  BY <2>2, <2>3
<1>7. CASE Me(b)
  <2>1. job'[b] = NoJob /\ cookie' = cookie /\ existed' = existed
    BY <1>0, <1>1, <1>7 DEF Me, Crash
  <2>2. cookie[b].sub \in existed[b] \cup {0} \/ accounts[cookie[b].sub].gone
    BY <1>0, <1>7 DEF Me, Follows
  <2>3. PICK user, clears :
          /\ page' = [page EXCEPT ![b] = Answered(page[b].at, user, clears)]
          /\ user = 0 \/ (user = cookie[b].sub /\ Known(cookie[b].sub))
    BY <1>7 DEF Me
  <2>4. user \in existed[b] \cup {0}
    BY <2>2, <2>3 DEF Known
  <2>5. page'[b].step = "answered" /\ page'[b].user = user
    BY <1>0, <2>3 DEF TypeOK, Answered
  <2>. QED  BY <1>0, <2>1, <2>4, <2>5 DEF Follows, NoJob
<1>8. CASE Arrive(b)
  <2>1. page[b].step = "answered" /\ job' = job
    BY <1>8 DEF Arrive
  <2>2. page'[b].step \in {"going", "shown"} /\ cookie'[b] \in {cookie[b], NoToken}
    BY <1>0, <1>2, <1>8 DEF Arrive, Dashboard, GuestPage, TypeOK
  <2>. QED  BY <1>0, <1>1, <1>3, <2>1, <2>2, FollowsElsewhere
<1>9. CASE Expire(b)
  <2>1. cookie'[b].sub \in {0, cookie[b].sub} /\ UNCHANGED <<page, job, existed>>
    BY <1>0, <1>3, <1>9 DEF Expire, TypeOK
  <2>. QED  BY <1>0, <2>1 DEF Follows
<1>. QED  BY <1>4, <1>5, <1>6, <1>7, <1>8, <1>9

LEMMA StepFollows ==
  ASSUME EntryInv, [Next]_vars
  PROVE  EntryInv'
<1>0. TypeOK /\ TypeOK' /\ RowsGrow
  <2>1. TypeOK /\ accounts \in Seq(Rows)
    BY DEF EntryInv, TypeOK
  <2>. QED  BY <2>1, StepTypes, StepGrows
<1>. SUFFICES ASSUME NEW c \in Browsers PROVE Follows(c)'
  BY <1>0 DEF EntryInv
<1>1. Follows(c)
  BY DEF EntryInv
<1>2. CASE UNCHANGED <<cookie, page, existed>> /\ (job' = job \/ Crash)
  <2>1. job'[c] = job[c] \/ job'[c] = NoJob
    BY <1>2 DEF Crash
  <2>. QED  BY <1>0, <1>1, <1>2, <2>1, FollowsSame
<1>3. ASSUME NEW b \in Browsers, NEW e \in Emails,
             SignUp(b, e) \/ SignIn(b, e) \/ CreateUser(b) \/ Compare(b)
      PROVE  Follows(c)'
  <2>1. CASE b = c
    BY <1>0, <1>3, <2>1, FormFollows
  <2>2. CASE b # c
    <3>1. /\ cookie' = cookie \/ \E v : cookie' = [cookie EXCEPT ![b] = v]
          /\ page' = page \/ \E v : page' = [page EXCEPT ![b] = v]
          /\ existed' = existed
          /\ Crash \/ \E v : job' = [job EXCEPT ![b] = v]
      BY <1>3 DEF SignUp, SignIn, CreateUser, Compare, Enter
    <3>. QED  BY <1>0, <1>1, <2>2, <3>1, OthersSame
  <2>. QED  BY <2>1, <2>2
<1>4. ASSUME NEW b \in Browsers, NEW place \in Places,
             SignOut(b) \/ Visit(b, place) \/ Middleware(b) \/ Me(b) \/ Arrive(b) \/ Expire(b)
      PROVE  Follows(c)'
  <2>1. CASE b = c
    BY <1>0, <1>4, <2>1, PageFollows
  <2>2. CASE b # c
    <3>1. cookie' = cookie \/ \E v : cookie' = [cookie EXCEPT ![b] = v]
      BY <1>4 DEF SignOut, Visit, Middleware, Me, Arrive, Expire
    <3>2. page' = page \/ \E v : page' = [page EXCEPT ![b] = v]
      BY <1>4 DEF SignOut, Visit, Middleware, Me, Arrive, Dashboard, GuestPage, Expire
    <3>3. existed' = existed \/ \E v : existed' = [existed EXCEPT ![b] = v]
      BY <1>4 DEF SignOut, Visit, Middleware, Me, Arrive, Expire
    <3>4. Crash \/ job' = job
      BY <1>4 DEF SignOut, Visit, Middleware, Me, Arrive, Expire
    <3>. QED  BY <1>0, <1>1, <2>2, <3>1, <3>2, <3>3, <3>4, OthersSame
  <2>. QED  BY <2>1, <2>2
<1>5. "signin" \in Places /\ Demo \in Emails
  BY AccountsAssumption DEF Places
<1>. QED
  BY <1>2, <1>3, <1>4, <1>5 DEF Next, vars, Boot, Outage, Delete, ReadHistory

LEMMA InitFollows ==
  ASSUME Init
  PROVE  EntryInv
<1>. SUFFICES ASSUME NEW b \in Browsers PROVE Follows(b)
  BY InitTypes DEF EntryInv
<1>1. cookie[b] = NoToken /\ page[b] = Shown("signin") /\ job[b] = NoJob
  BY DEF Init
<1>. QED  BY <1>1 DEF Follows, NoToken, Shown, NoJob

THEOREM EntryInvHolds == Spec => []EntryInv
BY InitFollows, StepFollows, PTL DEF Spec

Entry ==
  \A b \in Browsers :
    page'[b] = Shown("dashboard") /\ page[b] # page'[b] => page[b].user \in existed[b]

\* Only an answer of /me shows the dashboard to someone who did not see it.
LEMMA StepEntry ==
  ASSUME EntryInv, [Next]_vars
  PROVE  Entry
<1>0. TypeOK
  BY DEF EntryInv
<1>1. SUFFICES ASSUME NEW c \in Browsers, page'[c] = Shown("dashboard"), page[c] # page'[c]
               PROVE  page[c].user \in existed[c]
  BY DEF Entry
<1>2. \A p, u, k : /\ Going(p) # Shown("dashboard") /\ Answered(p, u, k) # Shown("dashboard")
                   /\ p # "dashboard" => Shown(p) # Shown("dashboard")
  BY DEF Going, Shown, Answered
<1>3. ASSUME NEW b \in Browsers, Arrive(b)
      PROVE  page[c].user \in existed[c]
  <2>1. PICK lost \in BOOLEAN :
          LET user == IF lost THEN 0 ELSE page[b].user IN
          IF page[b].at = "dashboard" THEN Dashboard(b, user) ELSE GuestPage(b, user)
    BY <1>3 DEF Arrive
  <2>2. b = c
    <3>1. PICK p : page' = [page EXCEPT ![b] = p]
      BY <2>1 DEF Dashboard, GuestPage
    <3>. QED  BY <1>0, <1>1, <3>1 DEF TypeOK
  <2>3. page[b].user # 0
    <3>1. \A p : page' = [page EXCEPT ![b] = p] => p = Shown("dashboard")
      BY <1>0, <1>1, <2>2 DEF TypeOK
    <3>2. CASE page[b].at = "dashboard"
      BY <1>2, <2>1, <3>1, <3>2 DEF Dashboard
    <3>3. CASE page[b].at # "dashboard"
      BY <1>2, <2>1, <3>1, <3>3 DEF GuestPage
    <3>. QED  BY <3>2, <3>3
  <2>4. page[c].step = "answered" /\ Follows(c)
    BY <1>3, <2>2 DEF Arrive, EntryInv
  <2>. QED  BY <2>2, <2>3, <2>4 DEF Follows
<1>4. ASSUME NEW b \in Browsers, Middleware(b)
      PROVE  FALSE
  <2>1. CASE page' = [page EXCEPT ![b].step = "checking"]
    <3>1. page[c] \in Pages /\ page'[c] # [page[c] EXCEPT !.step = "checking"]
      BY <1>0, <1>1 DEF TypeOK, Pages, Shown
    <3>. QED  BY <1>0, <1>1, <2>1, <3>1 DEF TypeOK
  <2>2. CASE page' # [page EXCEPT ![b].step = "checking"]
    <3>1. PICK p : /\ page' = [page EXCEPT ![b] = p] /\ p # Shown("dashboard")
      <4>1. PICK p : /\ page' = [page EXCEPT ![b] = p]
                     /\ \/ p = Going("signin")
                        \/ p = Shown(page[b].at) /\ page[b].at # "dashboard"
        BY <1>4, <2>2 DEF Middleware
      <4>. QED  BY <1>2, <4>1
    <3>. QED  BY <1>0, <1>1, <3>1 DEF TypeOK
  <2>. QED  BY <2>1, <2>2
<1>5. ASSUME NEW b \in Browsers, NEW p, page' = [page EXCEPT ![b] = p], p # Shown("dashboard")
      PROVE  FALSE
  BY <1>0, <1>1, <1>5 DEF TypeOK
<1>6. CASE page' = page
  BY <1>1, <1>6
<1>7. ASSUME NEW b \in Browsers, Me(b)
      PROVE  FALSE
  <2>1. PICK user, clears : page' = [page EXCEPT ![b] = Answered(page[b].at, user, clears)]
    BY <1>7 DEF Me
  <2>. QED  BY <1>2, <1>5, <2>1
<1>. QED
  BY <1>2, <1>3, <1>4, <1>5, <1>6, <1>7
     DEF Next, vars, Boot, Outage, Delete, SignUp, SignIn, CreateUser, Compare, Enter,
         SignOut, ReadHistory, Visit, Expire

\* The dashboard opens only to a user whose account existed when the layout began to ask.
THEOREM EntryHolds == Spec => EntryNeedsAnAccount
<1>1. EntryInv /\ [Next]_vars =>
        [\A b \in Browsers :
           page'[b] = Shown("dashboard") /\ page[b] # page'[b] => page[b].user \in existed[b]]_vars
  BY StepEntry DEF Entry
<1>. QED  BY <1>1, EntryInvHolds, PTL DEF Spec, EntryNeedsAnAccount

=============================================================================
