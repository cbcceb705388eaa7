------------------------------ MODULE Accounts ------------------------------
(***************************************************************************)
(* Accounts and sessions: the pool opened at boot and the seeded account   *)
(* (db/pool.ts, index.ts), the API's sign-up, sign-in, sign-out and /me    *)
(* (auth), and what sends a visitor from page to page: the web middleware, *)
(* the two forms and the dashboard's layout (apps/web).                    *)
(*                                                                         *)
(* bcrypt is waited for between the row a request read, or did not, and    *)
(* what it does next. Express 4 does not catch what an async handler       *)
(* throws: the rejection ends the process. The answer of /me is on its way *)
(* while its account may be deleted.                                       *)
(***************************************************************************)
EXTENDS Naturals, Sequences

CONSTANTS
  Browsers,     \* visitors, each with the cookie of one browser
  Emails,       \* addresses, as lower() sees them
  Demo,         \* DEMO_USER_EMAIL
  MaxAccounts   \* bound: rows ever inserted

ASSUME AccountsAssumption == Demo \in Emails /\ MaxAccounts \in Nat \ {0}

VARIABLES
  api,       \* the API process: off, up, or ended by an error
  database,  \* Postgres answers
  ready,     \* pool.ts: the pool came up at boot
  accounts,  \* users: the rows ever inserted, by id; a deleted one is gone
  cookie,    \* the session token each browser holds; sub 0 is none
  page,      \* where each visitor is: going, checking the session, answered, or shown
  job,       \* the request of each visitor's form that waits for bcrypt
  existed    \* history: while a visitor's check lasts, the accounts there were when it began

vars == <<api, database, ready, accounts, cookie, page, job, existed>>

Places == {"signin", "signup", "dashboard"}
NoToken == [sub |-> 0, good |-> FALSE]
NoJob   == [pc |-> "idle"]

Going(place) == [at |-> place, step |-> "going"]
Shown(place) == [at |-> place, step |-> "shown"]

\* The answer of /me: a user or none, and whether it clears the cookie.
Answered(place, user, clears) ==
  [at |-> place, step |-> "answered", user |-> user, clears |-> clears]

Init ==
  /\ api = "off" /\ database \in BOOLEAN /\ ready = FALSE
  /\ accounts = <<>>
  /\ cookie = [b \in Browsers |-> NoToken]
  /\ page = [b \in Browsers |-> Shown("signin")]
  /\ job = [b \in Browsers |-> NoJob]
  /\ existed = [b \in Browsers |-> {}]

-----------------------------------------------------------------------------
(* The process and its database.                                           *)

Holder(e) == {n \in DOMAIN accounts : accounts[n].email = e /\ ~accounts[n].gone}

Row(e) == [email |-> e, gone |-> FALSE]

\* Whether Postgres answers now decides for the life of the process.
InitPersistence == ready' = database

\* An existing row is left alone, and a failure is only reported.
SeedDemoUser ==
  accounts' \in {accounts} \cup
    (IF database /\ Holder(Demo) = {} /\ Len(accounts) < MaxAccounts
     THEN {Append(accounts, Row(Demo))} ELSE {})

Boot ==
  /\ api # "up"
  /\ api' = "up"
  /\ InitPersistence
  /\ SeedDemoUser
  /\ UNCHANGED <<database, cookie, page, job, existed>>

\* A handler throws. Every request that was under way is refused.
Crash ==
  /\ api' = "ended" /\ ready' = FALSE
  /\ job' = [b \in Browsers |-> NoJob]

\* Postgres stops or answers again; an operator deletes a row.
Outage == database' = ~database /\ UNCHANGED <<api, ready, accounts, cookie, page, job, existed>>

Delete(n) ==
  /\ accounts' = [accounts EXCEPT ![n].gone = TRUE]
  /\ UNCHANGED <<api, database, ready, cookie, page, job, existed>>

-----------------------------------------------------------------------------
(* auth/routes.ts                                                          *)

\* The answer reaches the form, which moves on with the cookie it brought, or
\* is lost.
Enter(b, sub) ==
  /\ job' = [job EXCEPT ![b] = NoJob]
  /\ \/ /\ cookie' = [cookie EXCEPT ![b] = [sub |-> sub, good |-> TRUE]]
        /\ page' = [page EXCEPT ![b] = Going("dashboard")]
     \/ UNCHANGED <<cookie, page>>

AtForm(b, place) == page[b] = Shown(place) /\ job[b] = NoJob

\* createUser hashes first and looks at nothing. Without a pool it is a 503,
\* without a process no answer, and the form stays as it was.
SignUp(b, e) ==
  /\ AtForm(b, "signup") /\ api = "up" /\ ready
  /\ job' = [job EXCEPT ![b] = [pc |-> "hashing", email |-> e]]
  /\ UNCHANGED <<api, database, ready, accounts, cookie, page, existed>>

\* Faulty: the address was free when somebody looked.
MayInsertAnyway(e) == TRUE

\* The index on lower(email), and on the address.
MayInsert(e) == Holder(e) = {}

CreateUser(b) ==
  /\ job[b].pc = "hashing"
  /\ IF ~database THEN Crash /\ UNCHANGED <<accounts, cookie, page>>
     ELSE /\ UNCHANGED <<api, ready>>
          /\ IF MayInsert(job[b].email)
             THEN /\ Len(accounts) < MaxAccounts
                  /\ accounts' = Append(accounts, Row(job[b].email))
                  /\ Enter(b, Len(accounts) + 1)
             ELSE /\ job' = [job EXCEPT ![b] = NoJob]
                  /\ UNCHANGED <<accounts, cookie, page>>
  /\ UNCHANGED <<database, existed>>

\* verifyCredentials reads the row, then compares with it or with a dummy.
SignIn(b, e) ==
  /\ AtForm(b, "signin") /\ api = "up" /\ ready
  /\ IF ~database THEN Crash
     ELSE /\ \E sub \in Holder(e) \cup {0} : job' = [job EXCEPT ![b] = [pc |-> "comparing", sub |-> sub]]
          /\ UNCHANGED <<api, ready>>
  /\ UNCHANGED <<database, accounts, cookie, page, existed>>

Compare(b) ==
  /\ job[b].pc = "comparing"
  /\ IF job[b].sub # 0 THEN Enter(b, job[b].sub)
     ELSE job' = [job EXCEPT ![b] = NoJob] /\ UNCHANGED <<cookie, page>>
  /\ UNCHANGED <<api, database, ready, accounts, existed>>

\* Whether the answer arrives or not, the visitor is sent to the form.
SignOut(b) ==
  /\ page[b] = Shown("dashboard")
  /\ page' = [page EXCEPT ![b] = Going("signin")]
  /\ \/ api = "up" /\ cookie' = [cookie EXCEPT ![b] = NoToken]
     \/ UNCHANGED cookie
  /\ UNCHANGED <<api, database, ready, accounts, job, existed>>

\* Faulty: the claims are enough.
KnownByClaims(sub) == TRUE

\* findUserById: nobody is known without a pool.
Known(sub) == ready /\ ~accounts[sub].gone

\* GET /me, asked by the middleware of a guest page or by the layout: it answers
\* with the user, with a 401 of its own that clears the cookie, with the middleware's,
\* which does not, or the query throws. No answer may come at all.
Me(b) ==
  LET t == cookie[b]
      answer(user, clears) == page' = [page EXCEPT ![b] = Answered(page[b].at, user, clears)]
  IN /\ page[b].step = "checking"
     /\ \/ answer(0, FALSE) /\ UNCHANGED <<api, ready, job>>
        \/ /\ api = "up" /\ t.good
           /\ IF ready /\ ~database THEN answer(0, FALSE) /\ Crash
              ELSE /\ IF Known(t.sub) THEN answer(t.sub, FALSE) ELSE answer(0, TRUE)
                   /\ UNCHANGED <<api, ready, job>>
     /\ UNCHANGED <<database, accounts, cookie, existed>>

\* GET /api/runs and /api/runs/:id/events: the token is enough. An answer
\* changes nothing.
ReadHistory(b) ==
  /\ api = "up" /\ cookie[b].good /\ ready /\ ~database
  /\ Crash
  /\ UNCHANGED <<database, accounts, cookie, page, existed>>

-----------------------------------------------------------------------------
(* The pages.                                                              *)

\* A visitor opens a page, or reloads it.
Visit(b, place) ==
  /\ page[b].step = "shown" /\ job[b] = NoJob
  /\ page' = [page EXCEPT ![b] = Going(place)]
  /\ UNCHANGED <<api, database, ready, accounts, cookie, job, existed>>

\* A page without a token is a matter for the middleware alone. Otherwise a guest
\* page waits for /me; the dashboard is let through, and its layout asks.
Middleware(b) ==
  /\ page[b].step = "going"
  /\ IF cookie[b] = NoToken
     THEN /\ page' = [page EXCEPT ![b] = IF page[b].at = "dashboard" THEN Going("signin") ELSE Shown(page[b].at)]
          /\ UNCHANGED existed
     ELSE /\ page' = [page EXCEPT ![b].step = "checking"]
          /\ existed' = [existed EXCEPT ![b] = {n \in DOMAIN accounts : ~accounts[n].gone}]
  /\ UNCHANGED <<api, database, ready, accounts, cookie, job>>

\* Faulty: whoever holds a token has a session.
GuestPageByToken(b, user) == page' = [page EXCEPT ![b] = Going("dashboard")]

\* The cookie of the answer goes to the middleware, not to the browser.
GuestPage(b, user) ==
  page' = [page EXCEPT ![b] = IF user = 0 THEN Shown(page[b].at) ELSE Going("dashboard")]

\* setUser, or the form.
Dashboard(b, user) ==
  page' = [page EXCEPT ![b] = IF user = 0 THEN Going("signin") ELSE Shown("dashboard")]

\* The answer arrives, or is lost like any failure of the fetch.
Arrive(b) ==
  /\ page[b].step = "answered"
  /\ \E lost \in BOOLEAN :
       LET user == IF lost THEN 0 ELSE page[b].user IN
       IF page[b].at = "dashboard"
       THEN /\ Dashboard(b, user)
            /\ cookie' = IF page[b].clears /\ ~lost THEN [cookie EXCEPT ![b] = NoToken] ELSE cookie
       ELSE GuestPage(b, user) /\ UNCHANGED cookie
  /\ existed' = [existed EXCEPT ![b] = {}]
  /\ UNCHANGED <<api, database, ready, accounts, job>>

\* The session's time is over, or the signing key changed; the browser drops
\* the cookie at its own time.
Expire(b) ==
  /\ cookie[b] # NoToken
  /\ cookie' \in {[cookie EXCEPT ![b] = NoToken], [cookie EXCEPT ![b].good = FALSE]}
  /\ UNCHANGED <<api, database, ready, accounts, page, job, existed>>

Next ==
  \/ Boot \/ Outage \/ \E n \in DOMAIN accounts : Delete(n)
  \/ \E b \in Browsers :
       \/ \E e \in Emails : SignUp(b, e) \/ SignIn(b, e)
       \/ CreateUser(b) \/ Compare(b) \/ SignOut(b) \/ ReadHistory(b)
       \/ \E place \in Places : Visit(b, place)
       \/ Middleware(b) \/ Me(b) \/ Arrive(b) \/ Expire(b)

Spec == Init /\ [][Next]_vars

\* Pages that are on their way load, and their fetches end.
FairSpec ==
  /\ Spec
  /\ \A b \in Browsers : WF_vars(Middleware(b)) /\ WF_vars(Me(b)) /\ WF_vars(Arrive(b))

-----------------------------------------------------------------------------
(* What accounts and sessions promise.                                     *)

Ids == 0..MaxAccounts
Rows == [email : Emails, gone : BOOLEAN]
Pages == [at : Places, step : {"going", "checking", "shown"}]
         \cup [at : Places, step : {"answered"}, user : Ids, clears : BOOLEAN]
Jobs == {NoJob} \cup [pc : {"hashing"}, email : Emails] \cup [pc : {"comparing"}, sub : Ids]

TypeOK ==
  /\ api \in {"off", "up", "ended"} /\ database \in BOOLEAN /\ ready \in BOOLEAN
  /\ accounts \in Seq(Rows) /\ Len(accounts) <= MaxAccounts
  /\ cookie \in [Browsers -> [sub : Ids, good : BOOLEAN]]
  /\ page \in [Browsers -> Pages]
  /\ job \in [Browsers -> Jobs]
  /\ existed \in [Browsers -> SUBSET DOMAIN accounts]

\* However many sign-ups hash the same address at once, and whatever the seed
\* of a restart finds, an address has one account, so that sign-in never has
\* two rows to choose from (schema.sql:22-25, users.ts:84-101).
AccountsAreDistinct ==
  \A n, m \in DOMAIN accounts :
    accounts[n].email = accounts[m].email /\ ~accounts[n].gone /\ ~accounts[m].gone => n = m

\* "the row is re-read so a deleted account stops being able to act on a token that
\* has not expired yet" (auth/routes.ts:97): the dashboard opens only to a user whose
\* account existed when the layout began to ask. One deleted while its sign-in compared
\* passwords, while its visitor was sent from page to page or while its token was
\* good finds it closed; one deleted while the answer is on its way still enters.
EntryNeedsAnAccount ==
  [][\A b \in Browsers :
       page'[b] = Shown("dashboard") /\ page[b] # page'[b] => page[b].user \in existed[b]]_vars

\* A visitor whose cookie has expired, was signed with another key or belongs
\* to nobody is not sent in circles between the form and the dashboard
\* (apps/web/middleware.ts:13-14).
Useless(b) == ~cookie[b].good \/ accounts[cookie[b].sub].gone
NoRedirectLoop ==
  \A b \in Browsers : Useless(b) ~> (page[b].step = "shown" \/ ~Useless(b))

=============================================================================
