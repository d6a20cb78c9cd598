------------------------------- MODULE Access -------------------------------
(***************************************************************************)
(* Accounts and sessions: AuthMiddleware and AuthHandler                   *)
(* (src/interface/http), AuthService (src/usecase/auth_service.go) and the *)
(* repositories of users and sessions (src/infrastructure/postgres), used  *)
(* by one browser with several tabs that share its cookies.                *)
(*                                                                         *)
(* All tabs use one e-mail address, each with a password of its own, so a  *)
(* password is a tab.  Accounts and sessions are numbered in the order of  *)
(* their rows.  Time is counted in parts of sessionTTL; CallTime bounds    *)
(* the time of a request, MaxSessions and MaxErrors bound the run.         *)
(***************************************************************************)
EXTENDS Integers, Sequences, FiniteSets

CONSTANTS Tabs, TTL, CallTime, MaxSessions, MaxErrors, None

ASSUME AccessAssumption ==
    /\ IsFiniteSet(Tabs)
    /\ None \notin Nat \cup [session : Nat, left : Nat]   \* None is no cookie
    /\ TTL \in Nat \ {0}
    /\ {CallTime, MaxSessions, MaxErrors} \subseteq Nat

VARIABLES
    accounts,   \* the users: the password of each
    sessions,   \* the sessions, deleted ones included
    cookie,     \* the session cookie of the browser, or None
    csrf,       \* the tab whose form has the token of the CSRF cookie, or None
    requests,   \* the request of each tab
    errors      \* failures left

vars == <<accounts, sessions, cookie, csrf, requests, errors>>

Ops == {"form", "login", "register", "logout", "page"}
Inputs == {"right", "malformed", "incomplete"}   \* what the form is filled with
Oldest == TTL + CallTime + 1   \* older sessions are not told apart
Session == [account : 1 .. Cardinality(Tabs), by : Tabs, age : 0 .. Oldest, gone : BOOLEAN]
Idle == [pc |-> "idle", op |-> "page", token |-> None, csrf |-> FALSE,
         input |-> "right", again |-> FALSE, user |-> None, clear |-> FALSE, set |-> None,
         form |-> FALSE, excused |-> FALSE, spent |-> 0]

Fail == errors > 0 /\ errors' = errors - 1
Known(s) == s # None /\ ~sessions[s].gone
Live(s) == Known(s) /\ sessions[s].age <= TTL
Continue(t, r) == requests' = [requests EXCEPT ![t] = r]
Go(t, pc) == Continue(t, [requests[t] EXCEPT !.pc = pc])

Init ==
    /\ accounts = <<>> /\ sessions = <<>>
    /\ cookie = None /\ csrf = None
    /\ requests = [t \in Tabs |-> Idle]
    /\ errors = MaxErrors

----------------------------------------------------------------------------
\* validateCSRF, with the cookie the request was sent with.
ValidateCSRF(t) == csrf = t

\* A tab sends a request with the cookies the browser has now.
Pending == {t \in Tabs : requests[t].op \in {"login", "register"} /\ requests[t].pc # "idle"}
Send(t, op, input) ==
    /\ requests[t].pc = "idle"
    /\ input = "right" \/ op \in {"login", "register"}
    /\ op \in {"login", "register"} => Len(sessions) + Cardinality(Pending) < MaxSessions
    /\ Continue(t, [Idle EXCEPT !.pc = "load", !.op = op, !.input = input,
                                !.csrf = ValidateCSRF(t),
                                !.token = IF cookie = None THEN None ELSE cookie.session])
    /\ UNCHANGED <<accounts, sessions, cookie, csrf, errors>>

\* The checks of the fields: that of the form, and that of the service.
Complete(r) == r.input # "incomplete"
WellFormed(r) == r.input = "right"

\* The handlers behind LoadUser.  Login and Register compare the token of the
\* form with the cookie and look at the fields; RequireAuth, in front of the
\* pages, validates the session once more.
ShowForm(r, user) == r.op = "form" /\ user = None
RequireAuth(r) == IF r.again THEN "reply" ELSE "load"
HandleLogin(r) == IF r.csrf /\ Complete(r) THEN "find" ELSE "reply"
HandleRegister(r) == IF r.csrf /\ Complete(r) /\ WellFormed(r) THEN "check" ELSE "reply"
Handler(r) ==
    CASE r.op = "page" -> RequireAuth(r)
      [] r.op = "form" -> "reply"
      [] r.op = "logout" -> "logout"
      [] r.op = "login" -> HandleLogin(r)
      [] r.op = "register" -> HandleRegister(r)

\* LoadUser and RequireAuth with what ValidateSession returns: a user, or
\* None, and then the session cookie is cleared.
Validated(r, user) ==
    [r EXCEPT !.user = user,
              !.clear = @ \/ (r.token # None /\ user = None),
              !.again = TRUE,
              !.form = \/ ShowForm(r, user)
                       \/ r.op \in {"login", "register"} /\ Handler(r) = "reply",
              !.pc = Handler(r)]

\* DeleteByID and DeleteByUserID; callers drop their errors.
DeleteByUserID(s) ==
    [i \in DOMAIN sessions |->
       [sessions[i] EXCEPT !.gone = @ \/ sessions[i].account = sessions[s].account]]
DeleteByID(s) == [sessions EXCEPT ![s].gone = TRUE]

\* Session.IsExpired.
ExpiredEarly(s) == sessions[s].age >= TTL
ExpiredNever(s) == FALSE
Expired(s) == sessions[s].age > TTL

\* ValidateSession reads the session, and deletes it when it has expired.
Load(t) ==
    LET r == requests[t]
        s == r.token
    IN
    /\ r.pc = "load"
    /\ \/ /\ ~Known(s)
          /\ Continue(t, Validated(r, None)) /\ UNCHANGED <<sessions, errors>>
       \/ /\ s # None /\ Fail
          /\ Continue(t, Validated([r EXCEPT !.excused = TRUE], None)) /\ UNCHANGED sessions
       \/ /\ Known(s) /\ Expired(s)
          /\ \/ sessions' = DeleteByID(s) /\ UNCHANGED errors
             \/ Fail /\ UNCHANGED sessions
          /\ Continue(t, Validated(r, None))
       \/ /\ Known(s) /\ ~Expired(s)
          /\ Go(t, "user") /\ UNCHANGED <<sessions, errors>>
    /\ UNCHANGED <<accounts, cookie, csrf>>

\* Then it reads the user.  Nothing deletes users, but any error counts as a
\* user that is gone: the session is deleted, if that does not fail as well.
UserOf(s) == sessions[s].account
GetUser(t) ==
    LET r == requests[t] IN
    /\ r.pc = "user"
    /\ \/ /\ Continue(t, Validated(r, UserOf(r.token)))
          /\ UNCHANGED <<sessions, errors>>
       \/ /\ Fail /\ sessions' \in {sessions, DeleteByID(r.token)}
          /\ Continue(t, Validated([r EXCEPT !.excused = TRUE], None))
    /\ UNCHANGED <<accounts, cookie, csrf>>

----------------------------------------------------------------------------
\* UserRepository.GetByEmail finds the account of the address.
GetByEmail == accounts # <<>>

\* Register: is the address taken?  An error counts as no.
CheckEmail(t) ==
    /\ requests[t].pc = "check"
    /\ \/ /\ GetByEmail /\ UNCHANGED errors
          /\ Continue(t, [requests[t] EXCEPT !.pc = "reply", !.form = TRUE])
       \/ ~GetByEmail /\ UNCHANGED errors /\ Go(t, "create")
       \/ Fail /\ Go(t, "create")
    /\ UNCHANGED <<accounts, sessions, cookie, csrf>>

\* The unique index on users.email.
EmailFreeAlways == TRUE
EmailFree == accounts = <<>>

\* UserRepository.Create, after the password was hashed; then Login.
CreateUser(t) ==
    /\ requests[t].pc = "create"
    /\ \/ /\ EmailFree /\ accounts' = Append(accounts, t)
          /\ Go(t, "find") /\ UNCHANGED errors
       \/ /\ ~EmailFree /\ UNCHANGED <<accounts, errors>>
          /\ Continue(t, [requests[t] EXCEPT !.pc = "reply", !.form = TRUE])
       \/ /\ EmailFree /\ Fail /\ accounts' \in {accounts, Append(accounts, t)}
          /\ Continue(t, [requests[t] EXCEPT !.pc = "reply", !.form = TRUE])
    /\ UNCHANGED <<sessions, cookie, csrf>>

\* User.CheckPassword.
CheckPasswordAlways(account, t) == TRUE
CheckPassword(account, t) == accounts[account] = t

\* Login that does not succeed renders the form again; after Register it
\* redirects.
Refused(t) ==
    Continue(t, [requests[t] EXCEPT !.pc = "reply", !.form = (requests[t].op = "login")])

\* Login: GetByEmail and the password.
FindUser(t) ==
    LET granted == /\ GetByEmail /\ WellFormed(requests[t])
                   /\ CheckPassword(1, t)
    IN
    /\ requests[t].pc = "find"
    /\ \/ granted /\ Go(t, "session") /\ UNCHANGED errors
       \/ ~granted /\ Refused(t) /\ UNCHANGED errors
       \/ Fail /\ Refused(t)
    /\ UNCHANGED <<accounts, sessions, cookie, csrf>>

\* createSession; the row may be there although the reply is lost.
NewSession(t) == [account |-> 1, by |-> t, age |-> 0, gone |-> FALSE]
CreateSession(t) ==
    LET more == Append(sessions, NewSession(t)) IN
    /\ requests[t].pc = "session"
    /\ \/ /\ sessions' = more /\ UNCHANGED errors
          /\ Continue(t, [requests[t] EXCEPT !.pc = "reply", !.set = Len(more)])
       \/ Fail /\ Refused(t) /\ sessions' \in {sessions, more}
    /\ UNCHANGED <<accounts, cookie, csrf>>

\* Logout deletes the session of the cookie, and clears the cookie anyway.
Logout(t) ==
    LET r == requests[t] IN
    /\ r.pc = "logout"
    /\ \/ sessions' = (IF r.token = None THEN sessions ELSE DeleteByID(r.token))
          /\ UNCHANGED errors
       \/ r.token # None /\ Fail /\ UNCHANGED sessions
    /\ Continue(t, [r EXCEPT !.pc = "reply", !.clear = TRUE])
    /\ UNCHANGED <<accounts, cookie, csrf>>

\* AuthService.CleanupExpiredSessions.
CleanupExpiredSessions ==
    /\ \E s \in DOMAIN sessions : Known(s) /\ Expired(s)
    /\ sessions' = [s \in DOMAIN sessions |->
                      [sessions[s] EXCEPT !.gone = @ \/ Expired(s)]]
    /\ UNCHANGED <<accounts, cookie, csrf, requests, errors>>

----------------------------------------------------------------------------
\* setSessionCookie.
SessionCookie(s) == [session |-> s, left |-> TTL]

\* The response arrives.  Its cookies replace those of the browser, whatever
\* they are by now; of two headers for one cookie the later counts.
Reply(t) ==
    LET r == requests[t] IN
    /\ r.pc = "reply"
    /\ cookie' = (IF r.set # None THEN SessionCookie(r.set)
                  ELSE IF r.clear THEN None ELSE cookie)
    /\ csrf' = (IF r.set # None THEN None ELSE IF r.form THEN t ELSE csrf)
    /\ Continue(t, Idle)
    /\ UNCHANGED <<accounts, sessions, errors>>

\* The CSRF cookie lives for ten minutes.
ForgetCSRF ==
    /\ csrf # None /\ csrf' = None
    /\ UNCHANGED <<accounts, sessions, cookie, requests, errors>>

Tick ==
    /\ \A t \in Tabs : requests[t].pc # "idle" => requests[t].spent < CallTime
    /\ sessions' = [s \in DOMAIN sessions |->
         [sessions[s] EXCEPT !.age = IF @ = Oldest THEN @ ELSE @ + 1]]
    /\ cookie' = (IF cookie = None \/ cookie.left = 1 THEN None
                  ELSE [cookie EXCEPT !.left = @ - 1])
    /\ requests' = [t \in Tabs |->
         [requests[t] EXCEPT !.spent = IF requests[t].pc = "idle" THEN 0 ELSE @ + 1]]
    /\ UNCHANGED <<accounts, csrf, errors>>

Next ==
    \/ \E t \in Tabs :
         \/ \E op \in Ops, input \in Inputs : Send(t, op, input)
         \/ Load(t) \/ GetUser(t) \/ CheckEmail(t) \/ CreateUser(t) \/ FindUser(t)
         \/ CreateSession(t) \/ Logout(t) \/ Reply(t)
    \/ CleanupExpiredSessions \/ ForgetCSRF \/ Tick

Spec == Init /\ [][Next]_vars

----------------------------------------------------------------------------
\* The state has its type; one address has one account, though two
\* registrations at once, or one with a failed check, both find it free.
TypeOK ==
    /\ accounts = <<>> \/ \E t \in Tabs : accounts = <<t>>
    /\ Len(sessions) <= MaxSessions /\ sessions \in Seq(Session)
    /\ cookie = None \/ cookie \in [session : DOMAIN sessions, left : 1 .. TTL]
    /\ csrf \in Tabs \cup {None}
    /\ \A t \in Tabs :
         /\ requests[t].pc \in {"idle", "load", "user", "check", "create", "find",
                                "session", "logout", "reply"}
         /\ requests[t].op \in Ops
         /\ requests[t].token \in DOMAIN sessions \cup {None}
         /\ requests[t].spent \in 0 .. CallTime
    /\ errors \in 0 .. MaxErrors

\* A session belongs to the account whose password was given for it, also
\* when it was made by a registration that raced another of the same address.
SessionsAreOwn ==
    \A s \in DOMAIN sessions : accounts[sessions[s].account] = sessions[s].by

\* A page is served to a session no older than sessionTTL and the time of a
\* request, although the row is deleted by nobody in particular and the
\* cookie outlives it.
ServedInTime ==
    \A t \in Tabs :
        requests[t].pc = "reply" /\ requests[t].op = "page" /\ requests[t].user # None
            => sessions[requests[t].token].age <= TTL + CallTime

\* A live session is deleted only by the logout of that session, or by a
\* failed read of its user: not by the logout of another one, by a login, or
\* by the clean-up.
SessionsEndForACause ==
    [][\A s \in DOMAIN sessions :
         Live(s) /\ sessions'[s].gone =>
            \/ errors' < errors
            \/ \E t \in Tabs : requests[t].pc = "logout" /\ requests[t].token = s]_vars

\* The browser loses the cookie of a live session only at the end of its
\* life, to a logout, to a failed read, or to the response of a request that
\* was sent with another cookie.
CookieLostForACause ==
    [][cookie # None /\ cookie' = None /\ Live(cookie.session) =>
         \/ cookie.left = 1 /\ sessions'[cookie.session].age > sessions[cookie.session].age
         \/ \E t \in Tabs :
              /\ requests[t].pc = "reply" /\ requests'[t].pc = "idle"
              /\ \/ requests[t].op = "logout" \/ requests[t].excused
                 \/ requests[t].token # cookie.session]_vars

\* One address has one account, sessions are of the password they were given
\* for, and pages are served within their time.
SessionsAreSound == TypeOK /\ SessionsAreOwn /\ ServedInTime
=============================================================================
